SPECIFICATION Spec
CONSTANTS
  NoRow = NoRow
  a = a
  b = b
  a1 = a1
  a2 = a2
  b1 = b1
  b2 = b2
  rcpt1 = rcpt1
  l1 = l1
  l2 = l2
  ord1 = ord1
  p1 = p1
  p2 = p2
  Handlers = {h1}
  Locations <- OneShelf
  Items = {a1}
  ItemAt <- MCItemAt
  Receipts = {rcpt1}
  Lines = {l1, l2}
  ReceiptOf <- MCReceiptOf
  Orders = {ord1}
  OutLines = {p1, p2}
  OrderOf <- MCOrderOf
  Operations = {"createReceipt", "createOrder", "putaway", "pick", "qc", "inboundStatus", "outboundStatus", "location"}
  Targets = {"PASSED", "INSPECTING", "CANCELED", "BLOCKED", "ACTIVE"}
  Capacities = {0, 1}
  LineQtys = {1}
  Quantities = {1}
  MaxArrivals = 0
INVARIANTS AllShelvedCompleted OccupancyTracksStock
PROPERTIES OrderFollowsLines
CHECK_DEADLOCK FALSE

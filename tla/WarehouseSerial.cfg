SPECIFICATION Spec
CONSTANTS
  NoRow = NoRow
  a = a
  b = b
  a1 = a1
  a2 = a2
  b1 = b1
  b2 = b2
  rcpt1 = rcpt1
  l1 = l1
  l2 = l2
  ord1 = ord1
  p1 = p1
  p2 = p2
  Handlers = {h1}
  Locations <- TwoShelves
  Items = {a1, b1}
  ItemAt <- MCItemAt
  Receipts = {rcpt1}
  Lines = {l1}
  ReceiptOf <- MCReceiptOf
  Orders = {ord1}
  OutLines = {p1}
  OrderOf <- MCOrderOf
  Operations = {"createReceipt", "createOrder", "putaway", "pick", "transfer", "adjust", "qc"}
  Targets = {"PASSED", "FAILED"}
  Capacities = {2}
  LineQtys = {1, 2}
  Quantities = {1, 2}
  MaxArrivals = 2
PROPERTIES MovesAreLedgerMoves
CHECK_DEADLOCK FALSE

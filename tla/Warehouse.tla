------------------------------- MODULE Warehouse -------------------------------
(***************************************************************************)
(* Stock movements of SHERP's WMS core: putaway of inbound lines, picking  *)
(* of outbound lines, internal transfers and adjustments                   *)
(* (src/wms-backend/src/{inbound,outbound,inventory}/*.service.ts).        *)
(*                                                                         *)
(* Each runs in one PostgreSQL transaction at READ COMMITTED: a SELECT     *)
(* sees the rows committed before it (and the transaction's own writes),   *)
(* an UPDATE waits for the transaction that holds its row and then applies *)
(* to the newest row.  TypeORM's save(entity) is a SELECT of the row, a    *)
(* column by column comparison, and an UPDATE that writes the literal      *)
(* values of the columns that differ.  No read takes a lock.               *)
(*                                                                         *)
(* One product and one lot.  A row is present when it is in DOMAIN db.     *)
(***************************************************************************)
EXTENDS Integers, Sequences, FiniteSets, FiniteSetsExt

CONSTANTS
  Handlers,     \* HTTP requests served at the same time
  Locations,    \* rows of locations
  Items,        \* ids inventory_items may give out (a bound)
  ItemAt,       \* the location_id an item with this id has
  Receipts, Lines, ReceiptOf,     \* inbound_receipts, inbound_lines
  Orders, OutLines, OrderOf,      \* outbound_orders, outbound_lines
  Operations,   \* the operations clients call
  Targets,      \* the statuses clients set, of lines, receipts, orders and locations
  Capacities,   \* max_capacity values locations are created with; 0 is none
  LineQtys,     \* quantities clients give lines: received, accepted, requested
  Quantities,   \* quantities clients pick, transfer or adjust by
  MaxArrivals,  \* bound on the units transfers and adjustments bring to a location
  NoRow         \* findOne found no row

Ops == {"createReceipt", "createOrder", "putaway", "pick", "transfer", "adjust",
        "qc", "inboundStatus", "outboundStatus", "location"}

ASSUME TableAssumption ==
  /\ ReceiptOf \in [Lines -> Receipts]
  /\ OrderOf \in [OutLines -> Orders]
  /\ ItemAt \in [Items -> Locations]
  /\ NoRow \notin Items \cup Locations \cup Lines \cup OutLines \cup Receipts \cup Orders
  /\ Items \cap (Locations \cup Lines \cup OutLines \cup Receipts \cup Orders) = {}
  /\ Locations \cap (Lines \cup OutLines \cup Receipts \cup Orders) = {}
  /\ Lines \cap (OutLines \cup Receipts \cup Orders) = {}
  /\ OutLines \cap (Receipts \cup Orders) = {}
  /\ Receipts \cap Orders = {}
ASSUME BoundAssumption ==
  /\ Operations \subseteq Ops
  /\ Capacities \subseteq Nat
  /\ LineQtys \subseteq Nat /\ Quantities \subseteq Nat \ {0}
  /\ MaxArrivals \in Nat
ASSUME ItemsAssumption == IsFiniteSet(Items)

VARIABLES
  db,       \* the committed rows, by id
  own,      \* per handler: rows its open transaction has written, and locks
  call,     \* per handler: the service method in progress
  arrived,  \* history: units committed transactions added to each item
  shelved,  \* history: committed putaways of each inbound line
  taken,    \* history: units committed pickings took for each outbound line
  adjusted  \* history: net committed adjustments at each location

history == <<arrived, shelved, taken, adjusted>>
vars == <<db, own, call, arrived, shelved, taken, adjusted>>

LocationStatus == {"ACTIVE", "FULL", "BLOCKED", "INACTIVE"}
QcStatus       == {"PENDING", "PASSED", "FAILED", "PARTIAL"}
PickStatus     == {"PENDING", "PARTIAL", "PICKED", "SHORT"}
InboundStatus  == {"PENDING", "INSPECTING", "PUTAWAY", "COMPLETED", "REJECTED"}
OutboundStatus == {"PENDING", "ALLOCATED", "PICKING", "PICKED", "PACKING",
                   "PACKED", "SHIPPED", "DELIVERED", "CANCELED"}

\* The columns of each table that the services read or write.
InventoryItem == [qty_on_hand : Int]
Location      == [status : LocationStatus, current_qty : Nat,
                  max_capacity : Nat]
InboundLine   == [received_qty : Nat, accepted_qty : Nat, rejected_qty : Nat,
                  qc_status : QcStatus, putaway_location : Locations \cup {NoRow}]
OutboundLine  == [requested_qty : Nat, picked_qty : Nat, pick_status : PickStatus]
Table(r) == CASE r \in Items     -> InventoryItem
              [] r \in Locations -> Location
              [] r \in Lines     -> InboundLine
              [] r \in OutLines  -> OutboundLine
              [] r \in Receipts  -> [status : InboundStatus]
              [] r \in Orders    -> [status : OutboundStatus]
Rows == Items \cup Locations \cup Lines \cup OutLines \cup Receipts \cup Orders

\* What each method still does after its first read, one entry per SELECT or
\* per save(); a save of "item" inserts when no item was found.
Program ==
  [putaway  |-> <<"checkLocation", "line", "findItem", "item", "location",
                  "scan", "header", "commit">>,
   pick     |-> <<"findItem", "item", "readLocation", "location", "line",
                  "scan", "header", "commit">>,
   transfer |-> <<"item", "findItem", "item", "commit">>,
   adjust   |-> <<"item", "commit">>,
   qc       |-> <<"line", "commit">>,
   status   |-> <<"header", "commit">>,
   location |-> <<"location", "commit">>]

Saves == {"line", "item", "location", "header"}

Idle == [op |-> "none", at |-> 0, line |-> NoRow, header |-> NoRow,
         location |-> NoRow, item |-> NoRow, qty |-> 0,
         entity |-> <<>>, dirty |-> {}]

-----------------------------------------------------------------------------
(* The database and the entity manager *)

\* f, with g where f has no value
Over(f, g) == [x \in DOMAIN f \cup DOMAIN g |-> IF x \in DOMAIN f THEN f[x] ELSE g[x]]

\* the rows transaction h sees, and the rows another transaction has locked
Sees(h)   == Over(own[h], db)
Locked(h) == UNION {DOMAIN own[g] : g \in Handlers \ {h}}

At(h, stage) == call[h].op # "none" /\ Program[call[h].op][call[h].at] = stage
Continue(h, c) == call' = [call EXCEPT ![h] = [c EXCEPT !.at = @ + 1]]

\* c after it loaded entity e of row r
With(c, r, e) == [c EXCEPT !.entity = Over([x \in {r} |-> e], @)]

Start(h, op) == /\ call[h].op = "none"
                /\ op \in Operations

\* the row that the save at stage s writes
Target(c, s) == CASE s = "line" -> c.line [] s = "item" -> c.item
                  [] s = "location" -> c.location [] s = "header" -> c.header

Differing(e, row) == {k \in DOMAIN row : e[k] # row[k]}
Merge(e, row, columns) == [k \in DOMAIN row |-> IF k \in columns THEN e[k] ELSE row[k]]

\* the items of a location that transaction h sees; findOne takes any of them
ItemsSeen(h, loc) == {i \in Items \cap DOMAIN Sees(h) : ItemAt[i] = loc}
FindItem(h, loc) == IF ItemsSeen(h, loc) = {} THEN {NoRow} ELSE ItemsSeen(h, loc)

\* SELECT of save: nothing to write, or the columns to write
Select(h) ==
  \E s \in Saves :
    LET c == call[h]
        t == Target(c, s)
        d == Differing(c.entity[t], Sees(h)[t])
    IN  /\ At(h, s) /\ c.dirty = {} /\ t # NoRow
        /\ IF d = {} THEN Continue(h, c)
                     ELSE call' = [call EXCEPT ![h].dirty = d]
        /\ UNCHANGED <<db, own, history>>

\* UPDATE of save
Update(h) ==
  \E s \in Saves :
    LET c == call[h]
        t == Target(c, s)
        row == Merge(c.entity[t], Sees(h)[t], c.dirty)
    IN  /\ At(h, s) /\ c.dirty # {} /\ t \notin Locked(h)
        /\ own' = [own EXCEPT ![h] = Over([x \in {t} |-> row], @)]
        /\ Continue(h, [c EXCEPT !.dirty = {}])
        /\ UNCHANGED <<db, history>>

\* INSERT of save: a new inventory item
Insert(h) ==
  \E i \in Items :
    LET c == call[h] IN
    /\ At(h, "item") /\ c.item = NoRow
    /\ ItemAt[i] = c.location
    /\ i \notin DOMAIN Sees(h) \cup Locked(h)
    /\ own' = [own EXCEPT ![h] = Over([x \in {i} |-> [qty_on_hand |-> c.qty]], @)]
    /\ Continue(h, [c EXCEPT !.item = i])
    /\ UNCHANGED <<db, history>>

Commit(h) ==
  LET c == call[h] IN
  /\ At(h, "commit")
  /\ db' = Over(own[h], db)
  /\ own' = [own EXCEPT ![h] = <<>>]
  /\ call' = [call EXCEPT ![h] = Idle]
  /\ arrived' = IF c.op \in {"putaway", "transfer", "adjust"} /\ c.qty > 0
                THEN [arrived EXCEPT ![c.item] = @ + c.qty] ELSE arrived
  /\ shelved' = IF c.op = "putaway" THEN [shelved EXCEPT ![c.line] = @ + 1]
                                    ELSE shelved
  /\ taken' = IF c.op = "pick" THEN [taken EXCEPT ![c.line] = @ + c.qty] ELSE taken
  /\ adjusted' = IF c.op = "adjust" THEN [adjusted EXCEPT ![c.location] = @ + c.qty]
                                    ELSE adjusted

\* An exception, the victim of a database deadlock, or a crash.
Rollback(h) ==
  /\ call[h].op # "none"
  /\ own' = [own EXCEPT ![h] = <<>>]
  /\ call' = [call EXCEPT ![h] = Idle]
  /\ UNCHANGED <<db, history>>

-----------------------------------------------------------------------------
(* Creating receipts and orders: one save with cascade, so one transaction *)

CreateReceipt(rc) ==
  /\ "createReceipt" \in Operations
  /\ rc \notin DOMAIN db
  /\ \E ls \in SUBSET {l \in Lines : ReceiptOf[l] = rc} :
     \E received \in [ls -> LineQtys] :
       /\ ls # {}
       /\ db' = Over([r \in ls \cup {rc} |->
                        IF r = rc THEN [status |-> "PENDING"]
                        ELSE [received_qty |-> received[r], accepted_qty |-> 0,
                              rejected_qty |-> 0, qc_status |-> "PENDING",
                              putaway_location |-> NoRow]], db)
  /\ UNCHANGED <<own, call, history>>

CreateOrder(o) ==
  /\ "createOrder" \in Operations
  /\ o \notin DOMAIN db
  /\ \E ls \in SUBSET {l \in OutLines : OrderOf[l] = o} :
     \E requested \in [ls -> LineQtys \ {0}] :
       /\ ls # {}
       /\ db' = Over([r \in ls \cup {o} |->
                        IF r = o THEN [status |-> "PENDING"]
                        ELSE [requested_qty |-> requested[r], picked_qty |-> 0,
                              pick_status |-> "PENDING"]], db)
  /\ UNCHANGED <<own, call, history>>

-----------------------------------------------------------------------------
(* InboundService.putaway *)

\* Mutant: what was received is put away, not what QC accepted.
Putaway_Received(h, ln, loc) ==
  LET line == db[ln]
      rc   == ReceiptOf[ln]
  IN  /\ Start(h, "putaway")
      /\ ln \in DOMAIN db
      /\ line.putaway_location = NoRow
      /\ line.qc_status \in {"PASSED", "PARTIAL"}
      /\ line.accepted_qty > 0
      /\ call' = [call EXCEPT ![h] =
           [Idle EXCEPT !.op = "putaway", !.at = 1, !.line = ln, !.header = rc,
                        !.location = loc, !.qty = line.received_qty,
                        !.entity = [r \in {ln, rc} |-> db[r]]]]
      /\ UNCHANGED <<db, own, history>>

Putaway(h, ln, loc) ==
  LET line == db[ln]
      rc   == ReceiptOf[ln]
  IN  /\ Start(h, "putaway")
      /\ ln \in DOMAIN db
      /\ line.putaway_location = NoRow
      /\ line.qc_status \in {"PASSED", "PARTIAL"}
      /\ line.accepted_qty > 0
      /\ call' = [call EXCEPT ![h] =
           [Idle EXCEPT !.op = "putaway", !.at = 1, !.line = ln, !.header = rc,
                        !.location = loc, !.qty = line.accepted_qty,
                        !.entity = [r \in {ln, rc} |-> db[r]]]]
      /\ UNCHANGED <<db, own, history>>

HasRoom(location, qty) ==
  location.max_capacity > 0 => location.current_qty + qty <= location.max_capacity

\* Mutant: occupancy is counted only where a capacity is configured.
Fill_Configured(location, qty) ==
  LET n == location.current_qty + qty
  IN  IF location.max_capacity = 0 THEN location
      ELSE [location EXCEPT !.current_qty = n,
              !.status = IF n >= location.max_capacity THEN "FULL" ELSE @]

\* The location after qty units came in.
Fill(location, qty) ==
  LET n == location.current_qty + qty
  IN  [location EXCEPT !.current_qty = n,
         !.status = IF location.max_capacity > 0 /\ n >= location.max_capacity
                    THEN "FULL" ELSE @]

CheckLocation(h) ==
  LET c == call[h]
      location == Sees(h)[c.location]
      line == [c.entity[c.line] EXCEPT !.putaway_location = c.location]
  IN  /\ At(h, "checkLocation")
      /\ location.status = "ACTIVE"
      /\ HasRoom(location, c.qty)
      /\ Continue(h, With(With(c, c.line, line), c.location, Fill(location, c.qty)))
      /\ UNCHANGED <<db, own, history>>

\* The item that receives c.qty: an existing one, its quantity raised, or none.
FindReceiver(h) ==
  LET c == call[h] IN
  /\ c.op \in {"putaway", "transfer"} /\ At(h, "findItem")
  /\ \E i \in FindItem(h, c.location) :
       Continue(h, IF i = NoRow THEN [c EXCEPT !.item = NoRow]
                   ELSE With([c EXCEPT !.item = i], i,
                             [Sees(h)[i] EXCEPT !.qty_on_hand = @ + c.qty]))
  /\ UNCHANGED <<db, own, history>>

\* The status a scan of all lines gives the header, from the one loaded with
\* the line; no save follows when it is unchanged and lines are left.
Conclude(h, done, status) ==
  LET c == call[h]
      header == [c.entity[c.header] EXCEPT !.status = status]
  IN  IF ~ done /\ c.entity[c.header].status = status
      THEN Continue(h, [c EXCEPT !.at = @ + 1])
      ELSE Continue(h, With(c, c.header, header))

LinesOf(h, rc) == {l \in Lines \cap DOMAIN Sees(h) : ReceiptOf[l] = rc}
OutLinesOf(h, o) == {l \in OutLines \cap DOMAIN Sees(h) : OrderOf[l] = o}

\* Mutant: the lines are read outside the transaction.
ScanInbound_Committed(h) ==
  LET allPutaway == \A l \in Lines \cap DOMAIN db :
                      ReceiptOf[l] = call[h].header => db[l].putaway_location # NoRow
  IN  /\ call[h].op = "putaway" /\ At(h, "scan")
      /\ Conclude(h, allPutaway, IF allPutaway THEN "COMPLETED" ELSE "PUTAWAY")
      /\ UNCHANGED <<db, own, history>>

ScanInbound(h) ==
  LET allPutaway == \A l \in LinesOf(h, call[h].header) :
                      Sees(h)[l].putaway_location # NoRow
  IN  /\ call[h].op = "putaway" /\ At(h, "scan")
      /\ Conclude(h, allPutaway, IF allPutaway THEN "COMPLETED" ELSE "PUTAWAY")
      /\ UNCHANGED <<db, own, history>>

-----------------------------------------------------------------------------
(* OutboundService.pickItem *)

Pick(h, ol, loc, qty) ==
  LET line == db[ol]
      o    == OrderOf[ol]
  IN  /\ Start(h, "pick")
      /\ ol \in DOMAIN db
      /\ line.pick_status # "PICKED"
      /\ qty <= line.requested_qty - line.picked_qty
      /\ call' = [call EXCEPT ![h] =
           [Idle EXCEPT !.op = "pick", !.at = 1, !.line = ol, !.header = o,
                        !.location = loc, !.qty = qty,
                        !.entity = [r \in {ol, o} |-> db[r]]]]
      /\ UNCHANGED <<db, own, history>>

\* Mutant: the available quantity is not checked.
FindStock_NoCheck(h) ==
  LET c == call[h] IN
  /\ c.op = "pick" /\ At(h, "findItem")
  /\ \E i \in ItemsSeen(h, c.location) :
       Continue(h, With([c EXCEPT !.item = i], i,
                        [Sees(h)[i] EXCEPT !.qty_on_hand = @ - c.qty]))
  /\ UNCHANGED <<db, own, history>>

FindStock(h) ==
  LET c == call[h] IN
  /\ c.op = "pick" /\ At(h, "findItem")
  /\ \E i \in ItemsSeen(h, c.location) :
       /\ Sees(h)[i].qty_on_hand >= c.qty
       /\ Continue(h, With([c EXCEPT !.item = i], i,
                           [Sees(h)[i] EXCEPT !.qty_on_hand = @ - c.qty]))
  /\ UNCHANGED <<db, own, history>>

\* The location after qty units left; its status stays.
Drain(location, qty) ==
  [location EXCEPT !.current_qty = IF @ > qty THEN @ - qty ELSE 0]

\* Mutant: one picking records the whole request.
Picked_Whole(line, qty) ==
  [line EXCEPT !.picked_qty = line.requested_qty, !.pick_status = "PICKED"]

\* Mutant: a line is done once anything was picked of it.
Picked_Any(line, qty) ==
  [line EXCEPT !.picked_qty = @ + qty, !.pick_status = "PICKED"]

\* The outbound line after qty more units were picked.
Picked(line, qty) ==
  LET n == line.picked_qty + qty
  IN  [line EXCEPT !.picked_qty = n,
                   !.pick_status = IF n >= line.requested_qty THEN "PICKED"
                                                              ELSE "PARTIAL"]

ReadLocation(h) ==
  LET c == call[h] IN
  /\ At(h, "readLocation")
  /\ Continue(h, With(With(c, c.location, Drain(Sees(h)[c.location], c.qty)),
                      c.line, Picked(c.entity[c.line], c.qty)))
  /\ UNCHANGED <<db, own, history>>

\* Mutant: the lines are read outside the transaction.
ScanOutbound_Committed(h) ==
  LET allPicked == \A l \in OutLines \cap DOMAIN db :
                     OrderOf[l] = call[h].header => db[l].pick_status = "PICKED"
  IN  /\ call[h].op = "pick" /\ At(h, "scan")
      /\ Conclude(h, allPicked, IF allPicked THEN "PICKED" ELSE "PICKING")
      /\ UNCHANGED <<db, own, history>>

ScanOutbound(h) ==
  LET allPicked == \A l \in OutLinesOf(h, call[h].header) :
                     Sees(h)[l].pick_status = "PICKED"
  IN  /\ call[h].op = "pick" /\ At(h, "scan")
      /\ Conclude(h, allPicked, IF allPicked THEN "PICKED" ELSE "PICKING")
      /\ UNCHANGED <<db, own, history>>

-----------------------------------------------------------------------------
(* InventoryService.transferInventory and adjustInventory *)

ArrivedAt(loc) == MapThenSumSet(LAMBDA i : arrived[i], {i \in Items : ItemAt[i] = loc})

\* source -= qty, saved next; then the target is found as putaway finds it
Transfer(h, from, to, qty) ==
  /\ Start(h, "transfer")
  /\ ArrivedAt(to) + qty <= MaxArrivals
  /\ \E i \in ItemsSeen(h, from) :
       /\ db[i].qty_on_hand >= qty
       /\ call' = [call EXCEPT ![h] =
            [Idle EXCEPT !.op = "transfer", !.at = 1, !.location = to, !.item = i,
                         !.qty = qty,
                         !.entity = [r \in {i} |->
                            [db[i] EXCEPT !.qty_on_hand = @ - qty]]]]
  /\ UNCHANGED <<db, own, history>>

Adjust(h, loc, qty) ==
  /\ Start(h, "adjust")
  /\ ArrivedAt(loc) + qty <= MaxArrivals
  /\ \E i \in FindItem(h, loc) :
       /\ i = NoRow => qty >= 0
       /\ i # NoRow => db[i].qty_on_hand + qty >= 0
       /\ call' = [call EXCEPT ![h] =
            [Idle EXCEPT !.op = "adjust", !.at = 1, !.location = loc, !.item = i,
                         !.qty = qty,
                         !.entity = IF i = NoRow THEN <<>> ELSE [r \in {i} |->
                            [db[i] EXCEPT !.qty_on_hand = @ + qty]]]]
  /\ UNCHANGED <<db, own, history>>

-----------------------------------------------------------------------------
(* Single-row updates: findOne, change, save *)

UpdateQcResult(h, ln, status, accepted, rejected) ==
  /\ Start(h, "qc")
  /\ ln \in DOMAIN db
  /\ accepted + rejected <= db[ln].received_qty
  /\ call' = [call EXCEPT ![h] =
       [Idle EXCEPT !.op = "qc", !.at = 1, !.line = ln,
                    !.entity = [r \in {ln} |->
                       [db[ln] EXCEPT !.qc_status = status,
                                      !.accepted_qty = accepted,
                                      !.rejected_qty = rejected]]]]
  /\ UNCHANGED <<db, own, history>>

\* updateStatus of either service: refused only in a final status
UpdateStatus(h, header, final, status) ==
  /\ header \in DOMAIN db
  /\ db[header].status \notin final
  /\ call' = [call EXCEPT ![h] =
       [Idle EXCEPT !.op = "status", !.at = 1, !.header = header,
                    !.entity = [r \in {header} |-> [status |-> status]]]]
  /\ UNCHANGED <<db, own, history>>

UpdateInboundStatus(h, rc, status) ==
  /\ Start(h, "inboundStatus")
  /\ UpdateStatus(h, rc, {"COMPLETED", "REJECTED"}, status)

UpdateOutboundStatus(h, o, status) ==
  /\ Start(h, "outboundStatus")
  /\ UpdateStatus(h, o, {"SHIPPED", "CANCELED"}, status)

UpdateLocation(h, loc, status, capacity) ==
  /\ Start(h, "location")
  /\ call' = [call EXCEPT ![h] =
       [Idle EXCEPT !.op = "location", !.at = 1, !.location = loc,
                    !.entity = [r \in {loc} |->
                       [db[loc] EXCEPT !.status = status,
                                       !.max_capacity = capacity]]]]
  /\ UNCHANGED <<db, own, history>>

-----------------------------------------------------------------------------
Init ==
  /\ \E capacity \in [Locations -> Capacities] :
       db = [l \in Locations |-> [status |-> "ACTIVE", current_qty |-> 0,
                                  max_capacity |-> capacity[l]]]
  /\ own = [h \in Handlers |-> <<>>]
  /\ call = [h \in Handlers |-> Idle]
  /\ arrived = [i \in Items |-> 0]
  /\ shelved = [l \in Lines |-> 0]
  /\ taken = [l \in OutLines |-> 0]
  /\ adjusted = [l \in Locations |-> 0]

Begin(h) ==
  \/ \E ln \in Lines, loc \in Locations : Putaway(h, ln, loc)
  \/ \E ol \in OutLines, loc \in Locations, q \in Quantities : Pick(h, ol, loc, q)
  \/ \E from, to \in Locations, q \in Quantities : Transfer(h, from, to, q)
  \/ \E loc \in Locations, q \in Quantities \cup {0 - n : n \in Quantities} : Adjust(h, loc, q)
  \/ \E ln \in Lines, s \in QcStatus \cap Targets, a, r \in LineQtys \cup {0} :
       UpdateQcResult(h, ln, s, a, r)
  \/ \E rc \in Receipts, s \in InboundStatus \cap Targets : UpdateInboundStatus(h, rc, s)
  \/ \E o \in Orders, s \in OutboundStatus \cap Targets : UpdateOutboundStatus(h, o, s)
  \/ \E loc \in Locations, s \in LocationStatus \cap Targets, m \in Capacities :
       UpdateLocation(h, loc, s, m)

Step(h) ==
  \/ CheckLocation(h) \/ FindReceiver(h) \/ ScanInbound(h)
  \/ FindStock(h) \/ ReadLocation(h) \/ ScanOutbound(h)
  \/ Select(h) \/ Update(h) \/ Insert(h) \/ Commit(h) \/ Rollback(h)

Next ==
  \/ \E rc \in Receipts : CreateReceipt(rc)
  \/ \E o \in Orders : CreateOrder(o)
  \/ \E h \in Handlers : Begin(h) \/ Step(h)

Spec == Init /\ [][Next]_vars

-----------------------------------------------------------------------------
(* Properties *)

\* Types of the committed rows, of the rows open transactions have written
\* and of the entities the methods hold.
TypeOK ==
  /\ Locations \subseteq DOMAIN db /\ DOMAIN db \subseteq Rows
  /\ \A r \in DOMAIN db : db[r] \in Table(r)
  /\ \A h \in Handlers :
       /\ DOMAIN own[h] \subseteq Rows
       /\ \A r \in DOMAIN own[h] : own[h][r] \in Table(r)
       /\ \A r \in DOMAIN call[h].entity : call[h].entity[r] \in Table(r)
       /\ call[h].op = "none" => own[h] = <<>>
  /\ arrived \in [Items -> Nat]
  /\ shelved \in [Lines -> Nat]
  /\ taken \in [OutLines -> Nat]
  /\ adjusted \in [Locations -> Int]

Has(r) == r \in DOMAIN db
StockAt(loc) == MapThenSumSet(LAMBDA i : db[i].qty_on_hand,
                              {i \in Items : Has(i) /\ ItemAt[i] = loc})

\* Whatever the interleaving of movements, no item goes below zero, no
\* location above its capacity (nor below zero: TypeOK), and no line is recorded picked
\* beyond its request (BR-02 of docs/features/wms-core/BA_SPEC.md).
WithinBounds ==
  /\ \A i \in Items : Has(i) => db[i].qty_on_hand >= 0
  /\ \A l \in Locations :
       db[l].max_capacity > 0 => db[l].current_qty <= db[l].max_capacity
  /\ \A l \in OutLines : Has(l) => db[l].picked_qty <= db[l].requested_qty

\* Updates of concurrent transactions may be lost but none is invented: an
\* item never shows more units than committed movements brought to it, a line
\* never shows more picked than committed pickings took, and a line that names
\* a shelf has been put away.
NothingInvented ==
  /\ \A i \in Items : Has(i) => db[i].qty_on_hand <= arrived[i]
  /\ \A l \in OutLines : Has(l) => db[l].picked_qty <= taken[l]
  /\ \A l \in Lines : Has(l) /\ db[l].putaway_location # NoRow => shelved[l] > 0

\* A line that says PICKED had its whole request taken from the shelves by
\* committed pickings, whichever of two that overlap wrote its columns last: it
\* may show less than was taken (PickedMeansFull), it never ships less than was
\* asked for.
PickedWasTaken ==
  \A l \in OutLines :
    Has(l) /\ db[l].pick_status = "PICKED" => db[l].requested_qty <= taken[l]

\* A line is put away once: the goods reach a shelf once (InboundService.putaway,
\* the check of putaway_location, which two calls can both pass).
PutawayOnce == \A l \in Lines : shelved[l] <= 1

\* A line says PICKED exactly when all it requests is recorded as picked
\* (OutboundService.pickItem; PickStatus in outbound.enum.ts).  Two pickings of a
\* line that overlap each write the quantity they computed and the columns that
\* differ from the row they find.
PickedMeansFull ==
  \A l \in OutLines :
    Has(l) => (db[l].pick_status = "PICKED" <=> db[l].picked_qty >= db[l].requested_qty)

\* QC never accepts and rejects more than was received (the check of
\* InboundService.updateQcResult).  save() writes only the columns that differ, so
\* two results that overlap can be mixed.
QcWithinReceived ==
  \A l \in Lines :
    Has(l) => db[l].accepted_qty + db[l].rejected_qty <= db[l].received_qty

\* A receipt whose lines are all on shelves is COMPLETED (putaway, step 6).
AllShelvedCompleted ==
  \A rc \in Receipts :
    /\ Has(rc)
    /\ \A l \in Lines : Has(l) /\ ReceiptOf[l] = rc => db[l].putaway_location # NoRow
    => db[rc].status = "COMPLETED"

\* current_qty of a location is the stock on it (location.entity.ts).
OccupancyTracksStock == \A l \in Locations : db[l].current_qty = StockAt(l)

\* An order is concluded by its lines: the step after which all lines of an
\* order are PICKED leaves the order PICKED (pickItem, step 7).
AllPicked(o) == \A l \in OutLines : Has(l) /\ OrderOf[l] = o => db[l].pick_status = "PICKED"
OrderFollowsLines ==
  [][\A o \in Orders :
       Has(o) /\ ~ AllPicked(o) /\ AllPicked(o)' => db'[o].status = "PICKED"]_vars

\* A shipped or cancelled order keeps its status (updateStatus refuses to
\* change it).
OrderFinal ==
  [][\A o \in Orders :
       Has(o) /\ db[o].status \in {"SHIPPED", "CANCELED"}
         => db'[o].status = db[o].status]_vars

\* One call at a time, every committed transaction is one movement of the
\* abstract ledger and nothing else moves stock (BR-01 of BA_SPEC.md).
Ledger == INSTANCE StockLedger WITH
  stock     <- [l \in Locations |-> StockAt(l)],
  accepted  <- [l \in Lines |-> IF Has(l) THEN db[l].accepted_qty ELSE 0],
  shelf     <- [l \in Lines |-> IF Has(l) THEN db[l].putaway_location ELSE NoRow],
  asked     <- [l \in OutLines |-> IF Has(l) THEN db[l].requested_qty ELSE 0],
  picked    <- [l \in OutLines |-> IF Has(l) THEN db[l].picked_qty ELSE 0],
  corrected <- adjusted
MovesAreLedgerMoves == Ledger!Spec
=============================================================================

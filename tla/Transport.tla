------------------------------- MODULE Transport -------------------------------
(***************************************************************************)
(* Waybills and the outbound orders they carry: transport                   *)
(* (tms.service.ts) and the two operations of the warehouse that also write *)
(* the status of an order (outbound.service.ts, updateStatus and pickItem;  *)
(* what pickItem does to the stock is in Warehouse).                        *)
(*                                                                          *)
(* Creating and completing a waybill are transactions, which read without a *)
(* lock and whose rows are seen when they commit; the rest is findOne and   *)
(* save.  The save of an order may write its status and its waybill_id with *)
(* what was loaded long before.  Vehicles, drivers, amounts and notes are   *)
(* left out.                                                                *)
(***************************************************************************)
EXTENDS Server

CONSTANTS
  Shipments,   \* ids of outbound orders
  MaxWaybills  \* bound: waybills

ASSUME TransportAssumption == MaxWaybills \in Nat

WaybillIds == 1 .. MaxWaybills
NoWaybill  == 0   \* null

VARIABLES
  shipment,  \* rows of outbound_orders: status, waybill_id
  unpicked,  \* orders of which a line is not picked
  waybill,   \* rows of waybills: ids to statuses
  carried    \* history: the orders a waybill was created for

transportVars == <<shipment, unpicked, waybill, carried>>

\* ALLOCATED and PACKING are told apart from PENDING by none of these
\* operations, nor PACKED from PICKED.
ShipmentStatus == {"PENDING", "PICKING", "PICKED", "SHIPPED", "DELIVERED", "CANCELED"}
\* nor READY_TO_PICK from DRAFT
WaybillStatus  == {"DRAFT", "IN_TRANSIT", "DELIVERED", "CANCELED"}

TransportInit ==
  /\ shipment = [o \in Shipments |-> [status |-> "PENDING", waybill |-> NoWaybill]]
  /\ unpicked = Shipments
  /\ waybill = <<>> /\ carried = <<>>

\* function f with f[x] = v
With(f, x, v) == [y \in DOMAIN f \cup {x} |-> IF y = x THEN v ELSE f[y]]

\* the SELECT of the save of orders e: the columns that differ
DirtyRows(e) == [o \in DOMAIN e |-> Dirty(e[o], shipment[o])]
\* its UPDATE
MergedRows(e, dirty) ==
  [o \in Shipments |-> IF o \in DOMAIN e THEN Merge(shipment[o], e[o], dirty[o]) ELSE shipment[o]]

\* A call about to save the orders e as it changed them, by the SELECT and then the
\* await `next`.  If `wrote`, its transaction has set waybill w DELIVERED, which the
\* other calls see when it commits, and holds the row until then.
Saving(next, w, e, wrote) == [pc |-> "select orders", next |-> next, id |-> w, e |-> e,
                              wrote |-> wrote, dirty |-> <<>>]

SelectOrders(h) ==
  /\ At(h, "select orders")
  /\ Become(h, [call[h] EXCEPT !.pc = call[h].next, !.dirty = DirtyRows(call[h].e)])
  /\ UNCHANGED transportVars

(***************************************************************************)
(* createWaybill: the orders are read, the waybill and then the orders saved*)
(***************************************************************************)
\* Mutant: orders of other waybills are taken too.
Loadable_Assigned(o) == shipment[o].status = "PICKED"

Loadable(o) == shipment[o].status = "PICKED" /\ shipment[o].waybill = NoWaybill

\* ids that are neither of a waybill nor of one being created; which of them a new
\* one gets makes no difference
FreeIds == WaybillIds \ (DOMAIN waybill \cup {call[g].id : g \in {x \in Handlers : ~At(x, "idle")}})
NewId   == CHOOSE w \in FreeIds : \A v \in FreeIds : w <= v

CreateWaybill(h) ==
  /\ FreeIds # {}
  /\ \E orders \in (SUBSET Shipments) \ {{}} :
       /\ \A o \in orders : Loadable(o)
       /\ Begin(h, Saving("commit new", NewId,
                          [o \in orders |-> [status |-> "SHIPPED", waybill |-> NewId]], FALSE))
  /\ UNCHANGED transportVars

CommitWaybill(h) ==
  /\ At(h, "commit new")
  /\ LET c == call[h] IN
       /\ waybill'  = With(waybill, c.id, "DRAFT")
       /\ carried'  = With(carried, c.id, DOMAIN c.e)
       /\ shipment' = MergedRows(c.e, c.dirty)
  /\ Return(h)
  /\ UNCHANGED unpicked

(***************************************************************************)
(* updateWaybill, and completeDelivery, whose transaction saves the waybill *)
(* and then the orders it was loaded with                                   *)
(***************************************************************************)
UpdateWaybill(h) ==
  /\ \E w \in DOMAIN waybill, s \in WaybillStatus :
       /\ waybill[w] \notin {"DELIVERED", "CANCELED"}
       /\ Begin(h, [pc |-> "select waybill", id |-> w, to |-> s, e |-> <<>>])
  /\ UNCHANGED transportVars

CompleteDelivery(h) ==
  /\ \E w \in DOMAIN waybill :
       LET orders == {o \in Shipments : shipment[o].waybill = w} IN
       /\ waybill[w] = "IN_TRANSIT"
       /\ Begin(h, [pc |-> "select waybill", id |-> w, to |-> "DELIVERED",
                    e |-> [o \in orders |-> [shipment[o] EXCEPT !.status = "DELIVERED"]]])
  /\ UNCHANGED transportVars

\* The rest of the call once its waybill is saved, if there is any.
SaveOrders(h, wrote) == Become(h, Saving("commit delivery", call[h].id, call[h].e, wrote))

\* An UPDATE only if the status differs.
SelectWaybill(h) ==
  /\ At(h, "select waybill")
  /\ IF waybill[call[h].id] # call[h].to THEN Goto(h, "update waybill")
     ELSE IF call[h].e = <<>> THEN Return(h) ELSE SaveOrders(h, FALSE)
  /\ UNCHANGED transportVars

Held(w) == \E g \in Handlers : /\ call[g].pc \in {"select orders", "commit delivery"}
                               /\ call[g].id = w /\ call[g].wrote

WriteWaybill(h) ==
  /\ At(h, "update waybill") /\ ~Held(call[h].id)
  /\ IF call[h].e = <<>>
     THEN waybill' = [waybill EXCEPT ![call[h].id] = call[h].to] /\ Return(h)
     ELSE SaveOrders(h, TRUE) /\ UNCHANGED waybill
  /\ UNCHANGED <<shipment, unpicked, carried>>

CommitDelivery(h) ==
  /\ At(h, "commit delivery")
  /\ LET c == call[h] IN
       /\ waybill'  = IF c.wrote THEN [waybill EXCEPT ![c.id] = "DELIVERED"] ELSE waybill
       /\ shipment' = MergedRows(c.e, c.dirty)
  /\ Return(h)
  /\ UNCHANGED <<unpicked, carried>>

(***************************************************************************)
(* OutboundService.updateStatus, and pickItem, whose transaction ends with  *)
(* the status of the order                                                  *)
(***************************************************************************)
UpdateShipment(h) ==
  /\ \E o \in Shipments, s \in ShipmentStatus :
       /\ shipment[o].status \notin {"SHIPPED", "CANCELED"}
       /\ Begin(h, Saving("update order", NoWaybill,
                          [x \in {o} |-> [shipment[o] EXCEPT !.status = s]], FALSE))
  /\ UNCHANGED transportVars

UpdateOrder(h) ==
  /\ At(h, "update order")
  /\ shipment' = MergedRows(call[h].e, call[h].dirty)
  /\ Return(h)
  /\ UNCHANGED <<unpicked, waybill, carried>>

PickItem(h) ==
  /\ \E o \in unpicked : Begin(h, [pc |-> "scan lines", id |-> NoWaybill,
                                    e |-> [x \in {o} |-> shipment[o]]])
  /\ UNCHANGED transportVars

\* Whether a line is left is a choice.  An order that was PICKING already is
\* not saved again while there is.
ScanLines(h) ==
  /\ At(h, "scan lines")
  /\ LET e         == call[h].e
         Picking   == \E x \in DOMAIN e : e[x].status = "PICKING"
         Picked(s) == [x \in DOMAIN e |-> [e[x] EXCEPT !.status = s]]
     IN  \/ Become(h, Saving("commit last pick", NoWaybill, Picked("PICKED"), FALSE))
         \/ /\ ~Picking
            /\ Become(h, Saving("update order", NoWaybill, Picked("PICKING"), FALSE))
         \/ Picking /\ Return(h)
  /\ UNCHANGED transportVars

CommitLastPick(h) ==
  /\ At(h, "commit last pick")
  /\ shipment' = MergedRows(call[h].e, call[h].dirty)
  /\ unpicked' = unpicked \ DOMAIN call[h].e
  /\ Return(h)
  /\ UNCHANGED <<waybill, carried>>

TransportStep(h) ==
  \/ CreateWaybill(h) \/ CommitWaybill(h) \/ UpdateWaybill(h) \/ CompleteDelivery(h)
  \/ SelectWaybill(h) \/ WriteWaybill(h) \/ SelectOrders(h) \/ CommitDelivery(h)
  \/ UpdateShipment(h) \/ UpdateOrder(h) \/ PickItem(h) \/ ScanLines(h) \/ CommitLastPick(h)
  \/ Crash(h) /\ UNCHANGED transportVars

TransportNext == \E h \in Handlers : TransportStep(h)
TransportSpec == ServerInit /\ TransportInit /\ [][TransportNext]_<<serverVars, transportVars>>

(***************************************************************************)
(* Properties                                                               *)
(***************************************************************************)
\* An order once handed to a waybill stays with it and is on no other, though its
\* status may be set back by a late pick, or by hand after its delivery.  Only calls
\* that overlap take orders from a waybill, each from one: two creations that both
\* read the orders free, or an update that read its order before it was loaded
\* (tms.service.ts:65).
Robbed == {w \in DOMAIN waybill : \E o \in carried[w] : shipment[o].waybill # w}

WaybillKeepsOrders == Cardinality(Robbed) <= overlaps
=============================================================================

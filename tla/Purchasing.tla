------------------------------ MODULE Purchasing ------------------------------
(***************************************************************************)
(* The money of a project in one cost category and the purchase orders: the *)
(* budget line with its hard limit, the costs booked against it             *)
(* (projects.service.ts, domain/logic/budget.logic.ts), orders, and goods   *)
(* received for them (procurement.service.ts).                              *)
(*                                                                          *)
(* Every budget line has control level HARD: no operation sets another.     *)
(* The log of budget checks, serial numbers and unit prices are left out;   *)
(* an order has a line for each element of Lines.                           *)
(***************************************************************************)
EXTENDS Server, FiniteSetsExt

CONSTANTS
  CostIds,   \* ids of project transactions
  Amounts,   \* amounts of costs, of orders and of plans
  OrderIds,  \* ids of purchase orders
  Lines,     \* lines of an order
  Ordered    \* quantity ordered in each line

ASSUME PurchasingAssumption ==   \* amounts are columns of bounded precision
  /\ Amounts \subseteq Nat /\ IsFiniteSet(Amounts)
  /\ Ordered \in [Lines -> Nat \ {0}]

VARIABLES
  planned,   \* planned_amount of the budget line, or NoLine
  cost,      \* rows of project_transactions: ids to amounts
  po,        \* rows of purchase_orders with their lines: ids to rows
  noted,     \* per order and line: quantity in the goods receipt notes
  ceiling,   \* history: the highest amount ever planned
  unlimited  \* history: a cost was booked when there was no budget line

purchasingVars == <<planned, cost, po, noted, ceiling, unlimited>>

NoLine == -1

PurchasingInit ==
  /\ planned = NoLine /\ cost = <<>> /\ po = <<>> /\ noted = <<>>
  /\ ceiling = 0 /\ unlimited = FALSE

TotalCost == MapThenSumSet(LAMBDA c : cost[c], DOMAIN cost)

(***************************************************************************)
(* The budget line: looked up, then saved; another one is refused           *)
(***************************************************************************)
UpsertBudget(h) ==
  /\ \E a \in Amounts : Begin(h, [pc |-> "save budget", found |-> planned # NoLine, amount |-> a])
  /\ UNCHANGED purchasingVars

SaveBudget(h) ==
  /\ At(h, "save budget")
  /\ LET c == call[h] IN
       IF ~c.found /\ planned # NoLine
         THEN UNCHANGED <<planned, ceiling>>
         ELSE planned' = c.amount /\ ceiling' = Max({ceiling, c.amount})
  /\ Return(h)
  /\ UNCHANGED <<cost, po, noted, unlimited>>

RemoveBudget(h) ==
  /\ At(h, "idle") /\ Disturb
  /\ planned # NoLine /\ planned' = NoLine
  /\ UNCHANGED <<call, cost, po, noted, ceiling, unlimited>>

(***************************************************************************)
(* checkBudgetLimit, before a cost is booked or an order is placed          *)
(***************************************************************************)
Affordable_Before(limit, spent, amount) == limit - spent >= 0   \* mutant: without it

\* checkHardLimit; committed amounts are passed as 0
Affordable(limit, spent, amount) == limit - spent - amount >= 0

CreateTransaction(h) ==
  /\ \E a \in Amounts : Begin(h, [pc |-> "read budget", amount |-> a, next |-> "insert cost"])
  /\ UNCHANGED purchasingVars

CreatePO(h) ==
  /\ \E a \in Amounts, next \in {"read budget", "insert order"} :  \* with a project, or not
       Begin(h, [pc |-> next, amount |-> a, next |-> "insert order"])
  /\ UNCHANGED purchasingVars

ReadBudget(h) ==
  /\ At(h, "read budget")
  /\ LET c == call[h] IN
       Become(h, [pc |-> IF planned = NoLine THEN c.next ELSE "sum costs",
                  amount |-> c.amount, next |-> c.next, limit |-> planned])
  /\ UNCHANGED purchasingVars

SumCosts(h) ==
  /\ At(h, "sum costs")
  /\ LET c == call[h] IN
       IF Affordable(c.limit, TotalCost, c.amount) THEN Goto(h, c.next) ELSE Return(h)
  /\ UNCHANGED purchasingVars

InsertCost(h) ==
  /\ At(h, "insert cost")
  /\ \E k \in CostIds \ DOMAIN cost :
       cost' = [i \in DOMAIN cost \cup {k} |-> IF i = k THEN call[h].amount ELSE cost[i]]
  /\ unlimited' = (unlimited \/ call[h].limit = NoLine)
  /\ Return(h)
  /\ UNCHANGED <<planned, po, noted, ceiling>>

InsertOrder(h) ==
  /\ At(h, "insert order")
  /\ \E p \in OrderIds \ DOMAIN po :
       /\ po' = [i \in DOMAIN po \cup {p} |->
                   IF i = p THEN [status |-> "APPROVED", received |-> [l \in Lines |-> 0]]
                   ELSE po[i]]
       /\ noted' = [i \in DOMAIN po' |-> IF i = p THEN [l \in Lines |-> 0] ELSE noted[i]]
  /\ Return(h)
  /\ UNCHANGED <<planned, cost, ceiling, unlimited>>

RemoveTransaction(h) ==
  /\ At(h, "idle") /\ Disturb
  /\ \E k \in DOMAIN cost : cost' = [i \in DOMAIN cost \ {k} |-> cost[i]]
  /\ UNCHANGED <<call, planned, po, noted, ceiling, unlimited>>

(***************************************************************************)
(* receiveGoods: one transaction; an order is saved with all its lines      *)
(***************************************************************************)
ReceiveGoods(h) ==
  \E p \in DOMAIN po, ls \in (SUBSET Lines) \ {{}}, qty \in {1, 2} :
    /\ po[p].status # "COMPLETED"
    /\ LET got  == [l \in Lines |-> po[p].received[l] + (IF l \in ls THEN qty ELSE 0)]
           full == \A l \in ls : got[l] >= Ordered[l]
       IN  Begin(h, [pc |-> "select order", id |-> p, items |-> ls, qty |-> qty, received |-> got,
                     status |-> IF full THEN "COMPLETED" ELSE "RECEIVING"])
    /\ UNCHANGED purchasingVars

\* The SELECTs of its saves: the lines of the order that differ from those loaded
SelectOrder(h) ==
  /\ At(h, "select order")
  /\ LET c == call[h] IN
       Become(h, [pc |-> "receive", id |-> c.id, items |-> c.items, qty |-> c.qty,
                  received |-> c.received, status |-> c.status,
                  moved |-> c.status # po[c.id].status,
                  dirty |-> Dirty(c.received, po[c.id].received)])
  /\ UNCHANGED purchasingVars

LinesAfter_Added(c) ==   \* mutant: what was received is added to the row once more
  [l \in Lines |-> IF l \in c.items /\ l \in c.dirty THEN c.received[l] + c.qty
                   ELSE po[c.id].received[l]]

LinesAfter(c) == Merge(po[c.id].received, c.received, c.dirty)

WriteReceipt(h) ==
  /\ At(h, "receive")
  /\ LET c == call[h] IN
       /\ po' = [po EXCEPT ![c.id] = [status   |-> IF c.moved THEN c.status ELSE @.status,
                                      received |-> LinesAfter(c)]]
       /\ noted' = [noted EXCEPT ![c.id] =
                      [l \in Lines |-> @[l] + (IF l \in c.items THEN c.qty ELSE 0)]]
  /\ Return(h)
  /\ UNCHANGED <<planned, cost, ceiling, unlimited>>

PurchasingStep(h) ==
  \/ UpsertBudget(h) \/ SaveBudget(h) \/ RemoveBudget(h)
  \/ CreateTransaction(h) \/ CreatePO(h) \/ ReadBudget(h) \/ SumCosts(h)
  \/ InsertCost(h) \/ InsertOrder(h) \/ RemoveTransaction(h)
  \/ ReceiveGoods(h) \/ SelectOrder(h) \/ WriteReceipt(h)
  \/ Crash(h) /\ UNCHANGED purchasingVars

PurchasingNext == \E h \in Handlers : PurchasingStep(h)
PurchasingSpec ==
  ServerInit /\ PurchasingInit /\ [][PurchasingNext]_<<serverVars, purchasingVars>>

(***************************************************************************)
(* Properties                                                               *)
(***************************************************************************)
\* The hard limit is exceeded only through calls that overlap, and each can cost
\* one amount at most: the check and the booking are apart
\* (projects.service.ts:507, :520).  Costs booked without a line do not count.
OverspendPerOverlap ==
  ~unlimited => TotalCost <= ceiling + overlaps * Max(Amounts \cup {0})

\* No more is received than the receipt notes say, and as much when calls run
\* alone; receptions that overlap lose quantities, they never invent them
\* (procurement.service.ts:124, :157).
NotesCoverReceipts ==
  \A p \in DOMAIN po, l \in Lines :
    /\ po[p].received[l] <= noted[p][l]
    /\ Calm => po[p].received[l] = noted[p][l]
=============================================================================

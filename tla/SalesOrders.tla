----------------------------- MODULE SalesOrders -----------------------------
(***************************************************************************)
(* Quotes and sales orders of one customer                                  *)
(* (src/wms-backend/src/sales, src/wms-backend/src/customers).              *)
(*                                                                          *)
(* An order is created in a transaction, but two things happen outside it:  *)
(* the customer and the quote were read before it began, and the outbound   *)
(* order of the warehouse is stored by another connection, which commits    *)
(* whatever becomes of the transaction.  Steps are awaits; what a           *)
(* transaction writes appears when it commits, the rows it has written wait *)
(* for it.  Orders and outbounds are never deleted, so their numbers are    *)
(* their places; a quote can be deleted, so its number is a column.         *)
(***************************************************************************)
EXTENDS Server, Folds

CONSTANTS
  Amounts,     \* grand_total of an order
  Limits,      \* credit limits a customer may get
  QuoteIds,    \* bound: quotes ever created
  MaxOrders    \* bound: sales orders and outbounds

ASSUME SalesAssumption == /\ Amounts \subseteq Nat /\ Limits \subseteq Nat
                          /\ MaxOrders \in Nat
                          /\ IsFiniteSet(QuoteIds) /\ 0 \notin QuoteIds

VARIABLES
  customer,   \* the row of customers
  quotes,     \* the rows of sales_quotes
  orders,     \* the rows of sales_orders, in the order of their numbers
  outbounds,  \* outbound_orders the sales orders created, by number: status
  topLimit,   \* history: the highest credit limit the customer ever had
  bypassed    \* history: an order was let through with BYPASS_CREDIT_LIMIT

salesTables == <<customer, quotes, orders, outbounds, topLimit, bypassed>>
salesVars   == <<salesTables, serverVars>>

QuoteStatus == {"DRAFT", "SENT", "ACCEPTED", "REJECTED", "EXPIRED"}
\* barred: blacklisted or not active
CustomerRow == [debt : Nat, limit : Nat, barred : BOOLEAN]
NoCustomer == [debt |-> 0, limit |-> 0, barred |-> FALSE]
\* kept: the row exists; so: converted_to_so_id, 0 when null
QuoteRow    == [kept : BOOLEAN, number : Nat, status : QuoteStatus, so : Nat]
NoQuote     == [kept |-> FALSE, number |-> 0, status |-> "DRAFT", so |-> 0]
OrderRow    == [quote : QuoteIds \cup {0}, total : Nat, outbound : Nat,
                status : {"CONFIRMED", "FULFILLING", "DELIVERED", "CANCELED"}]

\* The local variables of the handlers.
SalesCall == [pc : {"quote", "number", "insert", "outNumber", "outInsert", "select",
                    "commit", "outStatus", "cancel", "debt", "debtSelect", "debtCommit",
                    "qNumber", "qInsert", "qSelect", "qFlush", "qDelete",
                    "cSelect", "cFlush"},
              customer : CustomerRow, quote : QuoteIds \cup {0}, entity : QuoteRow,
              order : Nat, total : Nat, outbound : Nat, bypass : BOOLEAN,
              dirty : SUBSET DOMAIN NoCustomer,
              quoteDirty : SUBSET DOMAIN NoQuote]
EmptyCall == [pc |-> "quote", customer |-> NoCustomer, quote |-> 0, entity |-> NoQuote,
              order |-> 0, total |-> 0, outbound |-> 0, bypass |-> FALSE,
              dirty |-> {}, quoteDirty |-> {}]

-----------------------------------------------------------------------------
(* Helpers *)

\* checkCredit: within the limit, or over it with the privilege and a reason
\* Mutant: the new order is not counted.
CreditAllows_DebtOnly(c, amount, bypass) == c.debt <= c.limit \/ bypass
CreditAllows(c, amount, bypass) == c.debt + amount <= c.limit \/ bypass

NumbersInUse == {quotes[q].number : q \in {p \in QuoteIds : quotes[p].kept}}

\* The quote's row after save(entity): an UPDATE of the dirty columns, an
\* INSERT of a row that was missing unless its number was taken since.
SavedQuote(q, entity, dirty) ==
  IF \/ "kept" \notin dirty /\ ~quotes[q].kept
     \/ "kept" \in dirty /\ (quotes[q].kept \/ entity.number \in NumbersInUse)
  THEN quotes[q]
  ELSE Merge(quotes[q], entity, dirty)

\* debt is a decimal column, read as a string and written as a number: dirty
CustomerDirty(e) == Dirty(e, customer) \cup {"debt"}

-----------------------------------------------------------------------------
(* SalesOrderService.create *)

CreateOrder(h) ==
  /\ ~customer.barred
  /\ \E q \in {0} \cup {p \in QuoteIds : quotes[p].kept} :
     \E amount \in Amounts : \E bypass \in BOOLEAN :
       Begin(h, [EmptyCall EXCEPT !.customer = customer, !.quote = q,
                                    !.total = amount, !.bypass = bypass])
  /\ UNCHANGED salesTables

\* Mutant: a quote that was converted is converted again.
Convertible_Again(q) == quotes[q].kept /\ quotes[q].status = "ACCEPTED"
Convertible(q) ==
  quotes[q].kept /\ quotes[q].status = "ACCEPTED" /\ quotes[q].so = 0

CheckQuote(h) ==
  LET c == call[h] IN
  /\ At(h, "quote")
  /\ IF (c.quote # 0 => Convertible(c.quote))
        /\ CreditAllows(c.customer, c.total, c.bypass)
     THEN Become(h, [c EXCEPT !.pc = "number",
                       !.entity = IF c.quote = 0 THEN NoQuote ELSE quotes[c.quote],
                       !.bypass = ~CreditAllows(c.customer, c.total, FALSE)])
     ELSE Return(h)
  /\ UNCHANGED salesTables

NumberOrder(h) ==
  /\ At(h, "number")
  /\ Become(h, [call[h] EXCEPT !.pc = "insert", !.order = Len(orders) + 1])
  /\ UNCHANGED salesTables

\* The transaction of handler g has inserted order n.
Inserted(g, n) ==
  call[g].pc \in {"outNumber", "outInsert", "select", "commit"} /\ call[g].order = n

\* The unique index: an INSERT of the same number waits, then fails.
InsertOrder(h) ==
  /\ At(h, "insert")
  /\ \A g \in Handlers \ {h} : ~Inserted(g, call[h].order)
  /\ IF call[h].order = Len(orders) + 1 /\ Len(orders) < MaxOrders
     THEN Goto(h, "outNumber") ELSE Return(h)
  /\ UNCHANGED salesTables

NumberOutbound(h) ==
  /\ At(h, "outNumber")
  /\ Become(h, [call[h] EXCEPT !.pc = "outInsert", !.outbound = Len(outbounds) + 1])
  /\ UNCHANGED salesTables

FreeOutbound(h) == Len(outbounds) < MaxOrders /\ call[h].outbound = Len(outbounds) + 1

\* Committed at once; a number that was taken rolls the sales order back.
InsertOutbound(h) ==
  /\ At(h, "outInsert")
  /\ IF FreeOutbound(h)
     THEN outbounds' = Append(outbounds, "PENDING") /\ Goto(h, "select")
     ELSE UNCHANGED outbounds /\ Return(h)
  /\ UNCHANGED <<customer, quotes, orders, topLimit, bypassed>>

\* save(order), save(quote), save(customer): what was loaded before the
\* transaction, with converted_to_so_id and current_debt set
SelectRows(h) ==
  LET c    == call[h]
      owes == [c.customer EXCEPT !.debt = @ + c.total]
      sold == [c.entity EXCEPT !.so = c.order]
  IN
  /\ At(h, "select")
  /\ Become(h, [c EXCEPT !.pc = "commit", !.customer = owes, !.entity = sold,
                  !.dirty = CustomerDirty(owes),
                  !.quoteDirty = IF c.quote = 0 THEN {} ELSE Dirty(sold, quotes[c.quote])])
  /\ UNCHANGED salesTables

\* the second save(order) stores outbound_order_id
\* Mutant: it is forgotten.
Linked_Forgotten(c) == 0
Linked(c) == c.outbound

CommitOrder(h) ==
  LET c == call[h] IN
  /\ At(h, "commit")
  /\ orders' = Append(orders, [quote |-> c.quote, total |-> c.total,
                               outbound |-> Linked(c), status |-> "CONFIRMED"])
  /\ quotes' = [q \in QuoteIds |-> IF q = c.quote
                  THEN SavedQuote(q, c.entity, c.quoteDirty) ELSE quotes[q]]
  /\ customer' = Merge(customer, c.customer, c.dirty)
  /\ bypassed' = (bypassed \/ c.bypass)
  /\ Return(h)
  /\ UNCHANGED <<outbounds, topLimit>>

-----------------------------------------------------------------------------
(* SalesOrderService.cancel *)

CancelOrder(h) ==
  /\ \E o \in 1 .. Len(orders) :
       /\ orders[o].status \in {"CONFIRMED", "FULFILLING"}
       /\ Begin(h, [EmptyCall EXCEPT !.pc = "outStatus", !.order = o])
  /\ UNCHANGED salesTables

CheckOutbound(h) ==
  /\ At(h, "outStatus")
  /\ IF outbounds[orders[call[h].order].outbound] \in {"PENDING", "ALLOCATED"}
     THEN Goto(h, "cancel") ELSE Return(h)
  /\ UNCHANGED salesTables

\* save(order): locks its row until the transaction ends
SaveCanceled(h) ==
  /\ At(h, "cancel")
  /\ \A g \in Handlers : ~(call[g].pc \in {"debt", "debtSelect", "debtCommit"}
                            /\ call[g].order = call[h].order)
  /\ Goto(h, "debt")
  /\ UNCHANGED salesTables

\* Mutant: a cancelled order is still owed.
Forgiven_Nothing(debt, total) == debt
Forgiven(debt, total) == IF debt <= total THEN 0 ELSE debt - total

ReadDebt(h) ==
  /\ At(h, "debt")
  /\ Become(h, [call[h] EXCEPT !.pc = "debtSelect", !.customer =
       [customer EXCEPT !.debt = Forgiven(@, orders[call[h].order].total)]])
  /\ UNCHANGED salesTables

SelectDebt(h) ==
  /\ At(h, "debtSelect")
  /\ Become(h, [call[h] EXCEPT !.pc = "debtCommit",
                               !.dirty = CustomerDirty(call[h].customer)])
  /\ UNCHANGED salesTables

CommitCancel(h) ==
  /\ At(h, "debtCommit")
  /\ orders' = [orders EXCEPT ![call[h].order].status = "CANCELED"]
  /\ customer' = Merge(customer, call[h].customer, call[h].dirty)
  /\ Return(h)
  /\ UNCHANGED <<quotes, outbounds, topLimit, bypassed>>

-----------------------------------------------------------------------------
(* SalesQuoteService *)

CreateQuote(h) ==
  /\ ~customer.barred
  /\ Begin(h, [EmptyCall EXCEPT !.pc = "qNumber"])
  /\ UNCHANGED salesTables

\* The number is the count of quotes plus one, which a deleted quote lowers.
NumberQuote(h) ==
  /\ At(h, "qNumber")
  /\ Become(h, [call[h] EXCEPT !.pc = "qInsert",
                  !.order = Cardinality({q \in QuoteIds : quotes[q].kept}) + 1])
  /\ UNCHANGED salesTables

InsertQuote(h) ==
  /\ At(h, "qInsert")
  /\ \/ /\ call[h].order \in NumbersInUse \/ NoQuote \notin {quotes[q] : q \in QuoteIds}
        /\ UNCHANGED quotes
     \/ /\ call[h].order \notin NumbersInUse
        /\ \E q \in QuoteIds :
             /\ quotes[q] = NoQuote
             /\ quotes' = [quotes EXCEPT ![q] = [NoQuote EXCEPT !.kept = TRUE,
                                                   !.number = call[h].order]]
  /\ Return(h)
  /\ UNCHANGED <<customer, orders, outbounds, topLimit, bypassed>>

\* update of the header; the replacement of the lines is left out
UpdateQuote(h) ==
  /\ \E q \in QuoteIds :
       /\ quotes[q].kept /\ quotes[q].status = "DRAFT"
       /\ Begin(h, [EmptyCall EXCEPT !.pc = "qSelect", !.quote = q, !.entity = quotes[q]])
  /\ UNCHANGED salesTables

\* ALLOWED_TRANSITIONS of the routes there are: send, accept, reject
NextStatus(s) == CASE s = "DRAFT" -> {"SENT"}
                   [] s = "SENT"  -> {"ACCEPTED", "REJECTED"}
                   [] OTHER       -> {}

TransitionStatus(h) ==
  /\ \E q \in QuoteIds : \E next \in NextStatus(quotes[q].status) :
       /\ quotes[q].kept
       /\ Begin(h, [EmptyCall EXCEPT !.pc = "qSelect", !.quote = q,
                      !.entity = [quotes[q] EXCEPT !.status = next]])
  /\ UNCHANGED salesTables

SelectQuote(h) ==
  /\ At(h, "qSelect")
  /\ Become(h, [call[h] EXCEPT !.pc = "qFlush",
                  !.quoteDirty = Dirty(call[h].entity, quotes[call[h].quote])])
  /\ UNCHANGED salesTables

FlushQuote(h) ==
  /\ At(h, "qFlush")
  /\ quotes' = [quotes EXCEPT ![call[h].quote] =
                  SavedQuote(call[h].quote, call[h].entity, call[h].quoteDirty)]
  /\ Return(h)
  /\ UNCHANGED <<customer, orders, outbounds, topLimit, bypassed>>

CancelQuote(h) ==
  /\ \E q \in QuoteIds :
       /\ quotes[q].kept /\ quotes[q].status = "DRAFT"
       /\ Begin(h, [EmptyCall EXCEPT !.pc = "qDelete", !.quote = q])
  /\ UNCHANGED salesTables

DeleteQuote(h) ==
  /\ At(h, "qDelete")
  /\ quotes' = [quotes EXCEPT ![call[h].quote] = NoQuote]
  /\ Return(h)
  /\ UNCHANGED <<customer, orders, outbounds, topLimit, bypassed>>

-----------------------------------------------------------------------------
(* CustomersService: update, softDelete, restore; the warehouse *)

UpdateCustomer(h) ==
  /\ \E e \in {[customer EXCEPT !.limit = l] : l \in Limits}
         \cup {[customer EXCEPT !.barred = b] : b \in BOOLEAN} :
       Begin(h, [EmptyCall EXCEPT !.pc = "cSelect", !.customer = e])
  /\ UNCHANGED salesTables

SelectCustomer(h) ==
  /\ At(h, "cSelect")
  /\ Become(h, [call[h] EXCEPT !.pc = "cFlush",
                               !.dirty = Dirty(call[h].customer, customer)])
  /\ UNCHANGED salesTables

FlushCustomer(h) ==
  /\ At(h, "cFlush")
  /\ customer' = Merge(customer, call[h].customer, call[h].dirty)
  /\ topLimit' = IF customer'.limit > topLimit THEN customer'.limit ELSE topLimit
  /\ Return(h)
  /\ UNCHANGED <<quotes, orders, outbounds, bypassed>>

\* Warehouse: an outbound is allocated and picked, or picked as it is; it looks
\* at no sales order.
OutboundMoves ==
  /\ \E o \in DOMAIN outbounds : \E s \in {"ALLOCATED", "PICKING"} :
       /\ outbounds[o] # "PICKING" /\ outbounds[o] # s
       /\ outbounds' = [outbounds EXCEPT ![o] = s]
  /\ Disturb
  /\ UNCHANGED <<call, customer, quotes, orders, topLimit, bypassed>>

SalesCrash(h) == Crash(h) /\ UNCHANGED salesTables

-----------------------------------------------------------------------------
SalesInit ==
  /\ customer \in [debt : {0}, limit : Limits, barred : {FALSE}]
  /\ quotes = [q \in QuoteIds |-> NoQuote]
  /\ orders = <<>> /\ outbounds = <<>>
  /\ topLimit = customer.limit /\ bypassed = FALSE /\ ServerInit

SalesArrive(h) ==
  \/ CreateOrder(h) \/ CancelOrder(h) \/ CreateQuote(h) \/ UpdateQuote(h)
  \/ TransitionStatus(h) \/ CancelQuote(h) \/ UpdateCustomer(h)
SalesContinue(h) ==
  \/ CheckQuote(h) \/ NumberOrder(h) \/ InsertOrder(h) \/ NumberOutbound(h)
  \/ InsertOutbound(h) \/ SelectRows(h) \/ CommitOrder(h)
  \/ CheckOutbound(h) \/ SaveCanceled(h) \/ ReadDebt(h) \/ SelectDebt(h) \/ CommitCancel(h)
  \/ NumberQuote(h) \/ InsertQuote(h) \/ SelectQuote(h) \/ FlushQuote(h) \/ DeleteQuote(h)
  \/ SelectCustomer(h) \/ FlushCustomer(h)

SalesNext == OutboundMoves \/ \E h \in Handlers :
               SalesArrive(h) \/ SalesContinue(h) \/ SalesCrash(h)

SalesSpec == SalesInit /\ [][SalesNext]_salesVars

-----------------------------------------------------------------------------
(* Properties *)

\* Type invariant.
SalesTypeOK ==
  /\ customer \in CustomerRow /\ quotes \in [QuoteIds -> QuoteRow]
  /\ orders \in Seq(OrderRow) /\ outbounds \in Seq({"PENDING", "ALLOCATED", "PICKING"})
  /\ topLimit \in Nat /\ bypassed \in BOOLEAN
  /\ call \in [Handlers -> {Idle} \cup SalesCall] /\ overlaps \in Nat

\* current_debt stays within a credit limit the customer was given, unless an
\* order was let through on purpose; also when saves that overlap bring back
\* old debts or the limit is changed meanwhile.
DebtWithinLimit == bypassed \/ customer.debt <= topLimit

Owing == {o \in DOMAIN orders : orders[o].status # "CANCELED"}
TotalOf(S) == MapThenFoldSet(+, 0, LAMBDA o : orders[o].total, LAMBDA T : CHOOSE o \in T : TRUE, S)

\* When each call runs alone and to its end: the customer owes exactly the
\* orders that are not cancelled.
DebtIsOrders == Calm => customer.debt = TotalOf(Owing)

\* When each call runs alone and to its end: a quote becomes one order at
\* most, the one it names, and only when it was accepted.
QuoteConvertedOnce ==
  Calm => \A q \in QuoteIds :
            /\ {o \in DOMAIN orders : orders[o].quote = q} \subseteq {quotes[q].so}
            /\ quotes[q].so # 0 => quotes[q].status = "ACCEPTED"

\* US-SALES-03: a quote becomes one order at most.  Two conversions that both
\* read the quote before either stores the order in it break this.
QuoteBecomesOneOrder ==
  \A q \in QuoteIds : Cardinality({o \in DOMAIN orders : orders[o].quote = q}) <= 1

\* No two orders share an outbound, and each has one, whatever overlaps.  The
\* outbound is stored before its order and outside its transaction: those left
\* without an order are no more than the calls that came in the way of another
\* or died, none when each call runs alone and to its end.
OutboundPerOrder ==
  /\ \A o, p \in DOMAIN orders :
       /\ orders[o].outbound \in DOMAIN outbounds
       /\ orders[o].outbound = orders[p].outbound => o = p
  /\ Quiet => Len(outbounds) <= Len(orders) + overlaps

\* BR-SALES-06, a hard block: orders that are not cancelled never add up to
\* more than the limit, unless one was let through on purpose.  Two orders
\* created at once each check the debt the other has not stored yet.
CreditHardBlock == bypassed \/ TotalOf(Owing) <= topLimit

\* US-SALES-05: once an order is cancelled, so is its outbound, which nobody
\* picks any more.  The code leaves the outbound as it is.
CancelStopsPicking ==
  [][\A o \in DOMAIN orders :
       orders[o].status = "CANCELED" /\ outbounds[orders[o].outbound] # "PICKING"
         => outbounds'[orders[o].outbound] # "PICKING"]_salesVars
=============================================================================

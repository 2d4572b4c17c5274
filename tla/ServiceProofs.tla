------------------------------ MODULE ServiceProofs ------------------------------
(***************************************************************************)
(* What holds of the services of MCServices for any number of handlers,     *)
(* overlaps and crashes, and any rows and values.                           *)
(*                                                                          *)
(*   Purchasing   a reception writes quantities it computed when it loaded  *)
(*                the order: NotesInv says why it cannot invent any.  A     *)
(*                cost is booked after a check that others may have passed  *)
(*                too: BudgetInv adds up what is booked and what those that *)
(*                have passed are about to book.                            *)
(*   Sessions     SessionInv: each call that will open a session, exchange  *)
(*                a token or send a link where another has too, or write    *)
(*                back an old count of failures, has cost an overlap.       *)
(*   Transport    TransportInv: every waybill that has lost an order, or    *)
(*                would if a running call wrote what it holds, and every    *)
(*                busy handler but one, has cost an overlap (Charged).      *)
(*   Field work   FieldInv: a call of a checklist knows which parts it is    *)
(*                about to tick, so that what is counted is what was done;   *)
(*                undisturbed, the subject it holds is the row.              *)
(*   Project requests                                                       *)
(*                ProposalInv: with at most one overlap at most two calls   *)
(*                run, and the one that makes a project holds a proposal    *)
(*                that was endorsed.                                        *)
(*                                                                          *)
(* A handler that is not disturbed runs alone; `overlaps` counts those that *)
(* are (Server!Disturb).                                                    *)
(***************************************************************************)
EXTENDS Sessions, Purchasing, ProjectRequests, FieldWork, Transport, HandlerFacts, SumFacts, SequenceTheorems, TLAPS

-----------------------------------------------------------------------------
(* The receipt notes of purchase orders *)

Reception  == {"select order", "receive"}
Gain(c, l) == IF l \in c.items THEN c.qty ELSE 0

NoteRowsOK ==
  /\ DOMAIN noted = DOMAIN po
  /\ \A p \in DOMAIN po : po[p].received \in [Lines -> Nat] /\ noted[p] \in [Lines -> Nat]

\* Where a budget check goes on to.
CheckOK(c) ==
  /\ c.pc \in {"read budget", "sum costs"} => c.next \in {"insert cost", "insert order"}
  /\ c.pc = "sum costs" =>
       c = [pc |-> c.pc, amount |-> c.amount, next |-> c.next, limit |-> c.limit]

\* What a reception holds; alone, it changes just the lines it books.
ReceiptOK(c) ==
  /\ c.id \in DOMAIN po /\ c.qty \in Nat /\ c.received \in [Lines -> Nat]
  /\ \A l \in Lines : /\ c.received[l] <= noted[c.id][l] + Gain(c, l)
                      /\ Calm => c.received[l] = po[c.id].received[l] + Gain(c, l)
  /\ c.pc = "receive" /\ Calm =>
       \A l \in Lines : c.received[l] # po[c.id].received[l] => l \in c.dirty

NotesCallOK(c) == CheckOK(c) /\ (c.pc \in Reception => ReceiptOK(c))

NotesInv ==
  /\ DOMAIN call = Handlers /\ overlaps \in Nat
  /\ NoteRowsOK
  /\ Calm => Alone
  /\ \A h \in Handlers : NotesCallOK(call[h])
  /\ NotesCoverReceipts

-----------------------------------------------------------------------------
(* Calls that leave the orders alone *)

\* Calls that disturb one another are counted (Server!Disturb).
LEMMA NotesCalm ==
  ASSUME overlaps \in Nat, Disturb \/ UNCHANGED overlaps
  PROVE  overlaps' \in Nat /\ (Calm' => Calm)
  BY DEF Disturb, Calm

\* Handler h goes on with c, or begins it, or dies.
LEMMA NotesAlone ==
  ASSUME NotesInv, NEW h \in Handlers, NEW c, call' = [call EXCEPT ![h] = c],
         \/ Running(h) /\ UNCHANGED overlaps
         \/ Disturb
  PROVE  Calm' => Alone'
  <1>1. CASE Running(h) /\ UNCHANGED overlaps
    BY <1>1 DEF NotesInv, Calm, Alone, Running, At
  <1>2. CASE Disturb
    <2>1. Calm' => Quiet
      BY <1>2 DEF Disturb, Calm, NotesInv
    <2> QED
      BY <2>1 DEF Quiet, Alone, Running, At, NotesInv
  <1> QED
    BY <1>1, <1>2

LEMMA NotesLeft ==
  ASSUME NotesInv, UNCHANGED <<po, noted>>, Calm' => Calm
  PROVE  /\ NoteRowsOK' /\ NotesCoverReceipts'
         /\ \A c : NotesCallOK(c) => NotesCallOK(c)'
  BY DEF NotesInv, NoteRowsOK, NotesCoverReceipts, NotesCallOK, CheckOK, ReceiptOK, Gain

LEMMA NotesMove ==
  ASSUME NotesInv, NEW h \in Handlers, NEW c, call' = [call EXCEPT ![h] = c],
         UNCHANGED <<po, noted>>, NotesCallOK(c)',
         \/ Running(h) /\ UNCHANGED overlaps
         \/ Disturb
  PROVE  NotesInv'
  <1>1. overlaps' \in Nat /\ (Calm' => Calm)
    BY NotesCalm DEF NotesInv
  <1>2. \A g \in Handlers : NotesCallOK(call[g])'
    <2> TAKE g \in Handlers
    <2>1. CASE g = h
      BY <2>1 DEF NotesInv
    <2>2. CASE g # h
      <3>1. NotesCallOK(call[g]) /\ call'[g] = call[g]
        BY <2>2 DEF NotesInv
      <3> QED
        BY <1>1, <3>1, NotesLeft DEF NotesCallOK, CheckOK, ReceiptOK, Gain, Calm
    <2> QED
      BY <2>1, <2>2
  <1> QED
    BY <1>1, <1>2, NotesAlone, NotesLeft DEF NotesInv

LEMMA NotesInitOK == ServerInit /\ PurchasingInit => NotesInv
  <1> SUFFICES ASSUME ServerInit, PurchasingInit PROVE NotesInv
    OBVIOUS
  <1>1. DOMAIN po = {} /\ DOMAIN noted = {}
    BY DEF PurchasingInit
  <1>2. \A h \in Handlers : NotesCallOK(call[h]) /\ ~Running(h)
    BY DEF ServerInit, NotesCallOK, CheckOK, Reception, Running, At, Idle
  <1>3. DOMAIN call = Handlers /\ overlaps \in Nat
    BY DEF ServerInit
  <1> QED
    BY <1>1, <1>2, <1>3 DEF NotesInv, NoteRowsOK, Alone, NotesCoverReceipts

LEMMA NotesIdleOK == NotesCallOK(Idle)'
  BY DEF NotesCallOK, CheckOK, Reception, Idle

LEMMA NotesBegin ==
  ASSUME NotesInv, NEW h \in Handlers, NEW c, Begin(h, c), UNCHANGED <<po, noted>>, NotesCallOK(c)'
  PROVE  NotesInv'
  BY NotesMove DEF Begin

LEMMA NotesBecome ==
  ASSUME NotesInv, NEW h \in Handlers, NEW c, Become(h, c), Running(h),
         UNCHANGED <<po, noted>>, NotesCallOK(c)'
  PROVE  NotesInv'
  BY NotesMove DEF Become

LEMMA NotesReturn ==
  ASSUME NotesInv, NEW h \in Handlers, Return(h), Running(h), UNCHANGED <<po, noted>>
  PROVE  NotesInv'
  BY NotesBecome, NotesIdleOK DEF Return

LEMMA NotesCrash ==
  ASSUME NotesInv, NEW h \in Handlers, Crash(h), UNCHANGED <<po, noted>>
  PROVE  NotesInv'
  BY NotesMove, NotesIdleOK DEF Crash

\* Rows are removed in one statement of a request that does nothing else; or
\* nothing happens.
LEMMA NotesRemoval ==
  ASSUME NotesInv, Disturb \/ UNCHANGED overlaps, UNCHANGED <<call, po, noted>>
  PROVE  NotesInv'
  <1>1. overlaps' \in Nat /\ (Calm' => Calm)
    BY NotesCalm DEF NotesInv
  <1>2. Calm' => Alone'
    BY <1>1 DEF NotesInv, Alone, Running, At
  <1>3. \A g \in Handlers : NotesCallOK(call[g])'
    BY <1>1 DEF NotesInv, NotesCallOK, CheckOK, ReceiptOK, Gain, Calm
  <1> QED
    BY <1>1, <1>2, <1>3, NotesLeft DEF NotesInv

-----------------------------------------------------------------------------
(* The budget and its checks *)

LEMMA NotesBudget ==
  ASSUME NotesInv, NEW h \in Handlers, UpsertBudget(h) \/ SaveBudget(h) \/ RemoveBudget(h)
  PROVE  NotesInv'
  <1>1. CASE UpsertBudget(h)
    <2>1. PICK a \in Amounts :
            Begin(h, [pc |-> "save budget", found |-> planned # NoLine, amount |-> a])
      BY <1>1 DEF UpsertBudget
    <2>2. PICK c : c = [pc |-> "save budget", found |-> planned # NoLine, amount |-> a]
      OBVIOUS
    <2>3. Begin(h, c) /\ NotesCallOK(c)'
      BY <2>1, <2>2 DEF NotesCallOK, CheckOK, Reception
    <2> QED
      BY <1>1, <2>3, NotesBegin DEF UpsertBudget, purchasingVars
  <1>2. CASE SaveBudget(h)
    BY <1>2, NotesReturn DEF SaveBudget, Running, At
  <1>3. CASE RemoveBudget(h)
    BY <1>3, NotesRemoval DEF RemoveBudget
  <1> QED
    BY <1>1, <1>2, <1>3

LEMMA CheckBegins ==
  ASSUME NotesInv, NEW h \in Handlers, CreateTransaction(h) \/ CreatePO(h)
  PROVE  NotesInv'
  <1>1. UNCHANGED <<po, noted>>
    BY DEF CreateTransaction, CreatePO, purchasingVars
  <1>2. PICK a \in Amounts, pc \in {"read budget", "insert order"},
             next \in {"insert cost", "insert order"} :
          Begin(h, [pc |-> pc, amount |-> a, next |-> next])
    BY DEF CreateTransaction, CreatePO
  <1>3. PICK c : c = [pc |-> pc, amount |-> a, next |-> next]
    OBVIOUS
  <1>4. Begin(h, c) /\ NotesCallOK(c)'
    BY <1>2, <1>3 DEF NotesCallOK, CheckOK, Reception
  <1> QED
    BY <1>1, <1>4, NotesBegin

LEMMA CheckGoesOn ==
  ASSUME NotesInv, NEW h \in Handlers, ReadBudget(h) \/ SumCosts(h)
  PROVE  NotesInv'
  <1>1. UNCHANGED <<po, noted>> /\ Running(h)
    BY DEF ReadBudget, SumCosts, purchasingVars, Running, At
  <1>2. CheckOK(call[h])
    BY DEF NotesInv, NotesCallOK
  <1>3. CASE ReadBudget(h)
    <2>1. PICK d : d = [pc |-> IF planned = NoLine THEN call[h].next ELSE "sum costs",
                        amount |-> call[h].amount, next |-> call[h].next, limit |-> planned]
      OBVIOUS
    <2>2. Become(h, d) /\ call[h].next \in {"insert cost", "insert order"}
      BY <1>2, <1>3, <2>1 DEF ReadBudget, At, CheckOK
    <2>3. /\ d.pc \in {"insert cost", "insert order", "sum costs"} /\ d.next = call[h].next
          /\ d = [pc |-> d.pc, amount |-> d.amount, next |-> d.next, limit |-> d.limit]
      BY <2>1, <2>2
    <2>4. NotesCallOK(d)'
      BY <2>2, <2>3 DEF NotesCallOK, CheckOK, Reception
    <2> QED
      BY <1>1, <2>2, <2>4, NotesBecome
  <1>4. CASE SumCosts(h) /\ Return(h)
    BY <1>1, <1>4, NotesReturn
  <1>5. CASE SumCosts(h) /\ Goto(h, call[h].next)
    <2>1. PICK d : d = [call[h] EXCEPT !.pc = call[h].next]
      OBVIOUS
    <2>2. Become(h, d)
      BY <1>5, <2>1 DEF Goto
    <2>3. d.pc \in {"insert cost", "insert order"}
      BY <1>2, <1>5, <2>1 DEF SumCosts, At, CheckOK
    <2>4. NotesCallOK(d)'
      BY <2>3 DEF NotesCallOK, CheckOK, Reception
    <2> QED
      BY <1>1, <2>2, <2>4, NotesBecome
  <1> QED
    BY <1>3, <1>4, <1>5 DEF SumCosts

LEMMA CostKeeps ==
  ASSUME NotesInv, NEW h \in Handlers, InsertCost(h) \/ RemoveTransaction(h)
  PROVE  NotesInv'
  <1>1. CASE InsertCost(h)
    BY <1>1, NotesReturn DEF InsertCost, Running, At
  <1>2. CASE RemoveTransaction(h)
    BY <1>2, NotesRemoval DEF RemoveTransaction
  <1> QED
    BY <1>1, <1>2

-----------------------------------------------------------------------------
(* Orders and receptions *)

LEMMA OrderKeeps ==
  ASSUME NotesInv, NEW h \in Handlers, InsertOrder(h)
  PROVE  NotesInv'
  <1>1. PICK p \in OrderIds \ DOMAIN po :
          /\ po' = [i \in DOMAIN po \cup {p} |->
                      IF i = p THEN [status |-> "APPROVED", received |-> [l \in Lines |-> 0]]
                      ELSE po[i]]
          /\ noted' = [i \in DOMAIN po' |-> IF i = p THEN [l \in Lines |-> 0] ELSE noted[i]]
    BY DEF InsertOrder
  <1>2. /\ DOMAIN po' = DOMAIN po \cup {p} /\ DOMAIN noted' = DOMAIN po'
        /\ \A i \in DOMAIN po : po'[i] = po[i] /\ noted'[i] = noted[i]
        /\ po'[p].received = [l \in Lines |-> 0] /\ noted'[p] = [l \in Lines |-> 0]
    BY <1>1
  <1>3. call' = [call EXCEPT ![h] = Idle] /\ UNCHANGED overlaps /\ Running(h)
    BY DEF InsertOrder, Return, Become, Running, At
  <1>4. Calm' => Calm /\ Alone'
    BY <1>3, NotesAlone DEF Calm
  <1>5. NoteRowsOK' /\ NotesCoverReceipts'
    BY <1>2, <1>3 DEF NotesInv, NoteRowsOK, NotesCoverReceipts, Calm
  <1>6. ASSUME NEW g \in Handlers PROVE NotesCallOK(call[g])'
    <2>1. CASE g = h
      BY <1>3, <2>1, NotesIdleOK DEF NotesInv
    <2>2. CASE g # h
      <3>1. NotesCallOK(call[g]) /\ call'[g] = call[g]
        BY <1>3, <2>2 DEF NotesInv
      <3>2. PICK c : c = call[g]
        OBVIOUS
      <3>3. c.pc \in Reception =>
              c.id \in DOMAIN po' /\ po'[c.id] = po[c.id] /\ noted'[c.id] = noted[c.id]
        BY <1>2, <3>1, <3>2 DEF NotesCallOK, ReceiptOK
      <3>4. NotesCallOK(c)'
        BY <1>3, <3>1, <3>2, <3>3 DEF NotesCallOK, CheckOK, ReceiptOK, Gain, Calm
      <3> QED
        BY <3>1, <3>2, <3>4 DEF NotesCallOK, CheckOK, ReceiptOK, Gain
    <2> QED
      BY <2>1, <2>2
  <1> QED
    BY <1>3, <1>4, <1>5, <1>6 DEF NotesInv

LEMMA ReceptionBegins ==
  ASSUME NotesInv, NEW h \in Handlers, ReceiveGoods(h)
  PROVE  NotesInv'
  <1>1. PICK p \in DOMAIN po, ls \in (SUBSET Lines) \ {{}}, qty \in {1, 2},
             status \in {"COMPLETED", "RECEIVING"} :
          Begin(h, [pc |-> "select order", id |-> p, items |-> ls, qty |-> qty,
                    received |-> [l \in Lines |-> po[p].received[l] + (IF l \in ls THEN qty ELSE 0)],
                    status |-> status])
    BY DEF ReceiveGoods
  <1>2. PICK c : c = [pc |-> "select order", id |-> p, items |-> ls, qty |-> qty,
                      received |-> [l \in Lines |->
                                      po[p].received[l] + (IF l \in ls THEN qty ELSE 0)],
                      status |-> status]
    OBVIOUS
  <1>3. UNCHANGED <<po, noted>> /\ Begin(h, c)
    BY <1>1, <1>2 DEF ReceiveGoods, purchasingVars
  <1>4. /\ p \in DOMAIN po /\ qty \in Nat
        /\ po[p].received \in [Lines -> Nat] /\ noted[p] \in [Lines -> Nat]
        /\ \A l \in Lines : po[p].received[l] <= noted[p][l]
    <2>1. NoteRowsOK /\ NotesCoverReceipts
      BY DEF NotesInv
    <2>2. qty \in Nat
      OBVIOUS
    <2> QED
      BY <2>1, <2>2 DEF NoteRowsOK, NotesCoverReceipts
  <1>5. /\ c.pc = "select order" /\ c.id = p /\ c.items = ls /\ c.qty = qty
        /\ c.received = [l \in Lines |-> po[p].received[l] + (IF l \in ls THEN qty ELSE 0)]
    BY <1>2
  <1>6. c.received \in [Lines -> Nat]
    <2>1. \A l \in Lines : po[p].received[l] + (IF l \in ls THEN qty ELSE 0) \in Nat
      BY <1>4
    <2> QED
      BY <1>5, <2>1
  <1>7. \A l \in Lines : c.received[l] = po[p].received[l] + Gain(c, l) /\ Gain(c, l) \in Nat
    BY <1>4, <1>5 DEF Gain
  <1>8. ReceiptOK(c)
    <2>1. \A l \in Lines : c.received[l] <= noted[p][l] + Gain(c, l)
      BY <1>4, <1>7
    <2> QED
      BY <1>4, <1>5, <1>6, <1>7, <2>1 DEF ReceiptOK
  <1> QED
    BY <1>3, <1>5, <1>8, NotesBegin, NotesCalm
    DEF Begin, NotesInv, NotesCallOK, CheckOK, ReceiptOK, Gain

LEMMA ReceptionGoesOn ==
  ASSUME NotesInv, NEW h \in Handlers, SelectOrder(h)
  PROVE  NotesInv'
  <1>1. PICK c : c = call[h]
    OBVIOUS
  <1>2. c.pc = "select order" /\ ReceiptOK(c) /\ Running(h)
    BY <1>1 DEF SelectOrder, At, Running, NotesInv, NotesCallOK, Reception
  <1>3. PICK d : d = [pc |-> "receive", id |-> c.id, items |-> c.items, qty |-> c.qty,
                      received |-> c.received, status |-> c.status,
                      moved |-> c.status # po[c.id].status,
                      dirty |-> Dirty(c.received, po[c.id].received)]
    OBVIOUS
  <1>4. UNCHANGED <<po, noted>> /\ Become(h, d)
    BY <1>1, <1>3 DEF SelectOrder, purchasingVars
  <1>5. /\ d.pc = "receive" /\ d.id = c.id /\ d.items = c.items /\ d.qty = c.qty
        /\ d.received = c.received /\ d.dirty = Dirty(c.received, po[c.id].received)
    BY <1>3
  <1>6. DOMAIN po[c.id].received = Lines
    BY <1>2 DEF NotesInv, NoteRowsOK, ReceiptOK
  <1>7. ReceiptOK(d)
    BY <1>2, <1>5, <1>6 DEF ReceiptOK, Gain, Dirty
  <1>8. NotesCallOK(d)'
    BY <1>4, <1>5, <1>7 DEF Become, NotesCallOK, CheckOK, ReceiptOK, Gain, Calm
  <1> QED
    BY <1>2, <1>4, <1>8, NotesBecome

\* A line written is the one loaded plus what is booked, or is left as it is; the
\* note grows by what is booked in either case.
LEMMA ReceptionEnds ==
  ASSUME NotesInv, NEW h \in Handlers, WriteReceipt(h)
  PROVE  NotesInv'
  <1>1. PICK c : c = call[h]
    OBVIOUS
  <1>2. c.pc = "receive" /\ ReceiptOK(c) /\ Running(h)
    BY <1>1 DEF WriteReceipt, At, Running, NotesInv, NotesCallOK, Reception
  <1>3. call' = [call EXCEPT ![h] = Idle] /\ UNCHANGED overlaps /\ (Calm' => Calm)
    BY DEF WriteReceipt, Return, Become, Calm
  <1>4. Calm' => Alone'
    BY <1>2, <1>3, NotesAlone
  <1>5. PICK p \in DOMAIN po : p = c.id
    BY <1>2 DEF ReceiptOK
  <1>6. /\ po[p].received \in [Lines -> Nat] /\ noted[p] \in [Lines -> Nat]
        /\ DOMAIN noted = DOMAIN po
        /\ \A l \in Lines : /\ po[p].received[l] <= noted[p][l]
                            /\ Calm => po[p].received[l] = noted[p][l]
    <2>1. NoteRowsOK /\ NotesCoverReceipts
      BY DEF NotesInv
    <2> QED
      BY <2>1, <1>5 DEF NoteRowsOK, NotesCoverReceipts
  <1>7. /\ DOMAIN po' = DOMAIN po /\ DOMAIN noted' = DOMAIN noted
        /\ \A i \in DOMAIN po : i # p => po'[i] = po[i] /\ noted'[i] = noted[i]
        /\ po'[p].received = LinesAfter(c)
        /\ noted'[p] = [l \in Lines |-> noted[p][l] + Gain(c, l)]
    BY <1>1, <1>5, <1>6 DEF WriteReceipt, Gain
  <1>8. LinesAfter(c) = [l \in Lines |-> IF l \in c.dirty THEN c.received[l] ELSE po[p].received[l]]
    BY <1>5, <1>6 DEF LinesAfter, Merge
  <1>9. /\ c.received \in [Lines -> Nat]
        /\ \A l \in Lines : /\ Gain(c, l) \in Nat
                            /\ c.received[l] <= noted[p][l] + Gain(c, l)
                            /\ Calm => /\ c.received[l] = po[p].received[l] + Gain(c, l)
                                       /\ c.received[l] # po[p].received[l] => l \in c.dirty
    BY <1>2, <1>5 DEF ReceiptOK, Gain
  <1>10. /\ po'[p].received \in [Lines -> Nat] /\ noted'[p] \in [Lines -> Nat]
         /\ \A l \in Lines : /\ po'[p].received[l] <= noted'[p][l]
                             /\ noted[p][l] <= noted'[p][l]
                             /\ Calm => po'[p].received[l] = noted'[p][l]
    <2>1. \A l \in Lines : /\ noted'[p][l] = noted[p][l] + Gain(c, l)
                           /\ po'[p].received[l] =
                                IF l \in c.dirty THEN c.received[l] ELSE po[p].received[l]
                           /\ noted[p][l] \in Nat /\ po[p].received[l] \in Nat
                           /\ c.received[l] \in Nat
      BY <1>6, <1>7, <1>8, <1>9
    <2>2. \A l \in Lines : noted[p][l] + Gain(c, l) \in Nat
      BY <1>9, <2>1
    <2>3. po'[p].received \in [Lines -> Nat] /\ noted'[p] \in [Lines -> Nat]
      BY <1>7, <1>8, <2>1, <2>2
    <2> QED
      BY <1>6, <1>9, <2>1, <2>3
  <1>11. NoteRowsOK' /\ NotesCoverReceipts'
    <2>1. NoteRowsOK /\ NotesCoverReceipts
      BY DEF NotesInv
    <2>2. NoteRowsOK'
      BY <1>6, <1>7, <1>10, <2>1 DEF NoteRowsOK
    <2>3. NotesCoverReceipts'
      BY <1>3, <1>7, <1>10, <2>1 DEF NotesCoverReceipts
    <2> QED
      BY <2>2, <2>3
  <1>12. ASSUME NEW g \in Handlers PROVE NotesCallOK(call[g])'
    <2>1. CASE g = h
      BY <1>3, <2>1, NotesIdleOK DEF NotesInv
    <2>2. CASE g # h
      <3>1. PICK d : d = call[g] /\ NotesCallOK(d) /\ call'[g] = d
        BY <1>3, <2>2 DEF NotesInv
      <3>2. d.pc \in Reception => ~Calm'
        BY <1>2, <1>3, <2>2, <3>1 DEF NotesInv, Alone, Running, At, Reception
      <3>3. d.pc \in Reception => ReceiptOK(d)'
        <4>1. SUFFICES ASSUME d.pc \in Reception PROVE ReceiptOK(d)'
          OBVIOUS
        <4>2. ReceiptOK(d) /\ d.id \in DOMAIN po
          BY <3>1, <4>1 DEF NotesCallOK, ReceiptOK
        <4>3. \A l \in Lines : /\ noted[d.id][l] \in Nat /\ noted'[d.id][l] \in Nat
                               /\ noted[d.id][l] <= noted'[d.id][l]
          BY <1>6, <1>7, <1>10, <4>2 DEF NotesInv, NoteRowsOK
        <4>4. \A l \in Lines : d.received[l] <= noted'[d.id][l] + Gain(d, l)
          BY <4>2, <4>3 DEF ReceiptOK, Gain
        <4> QED
          BY <1>7, <3>2, <4>1, <4>2, <4>4 DEF ReceiptOK, Gain
      <3> QED
        BY <3>1, <3>3 DEF NotesCallOK, CheckOK
    <2> QED
      BY <2>1, <2>2
  <1> QED
    BY <1>3, <1>4, <1>11, <1>12 DEF NotesInv

-----------------------------------------------------------------------------
LEMMA NotesStepKeeps ==
  ASSUME NotesInv, NEW h \in Handlers, PurchasingStep(h)
  PROVE  NotesInv'
  BY NotesBudget, CheckBegins, CheckGoesOn, CostKeeps, OrderKeeps, ReceptionBegins,
     ReceptionGoesOn, ReceptionEnds, NotesCrash DEF PurchasingStep, purchasingVars

LEMMA NotesNextKeeps == NotesInv /\ [PurchasingNext]_<<serverVars, purchasingVars>> => NotesInv'
  <1>1. NotesInv /\ PurchasingNext => NotesInv'
    BY NotesStepKeeps DEF PurchasingNext
  <1>2. NotesInv /\ UNCHANGED <<serverVars, purchasingVars>> => NotesInv'
    BY NotesRemoval DEF serverVars, purchasingVars
  <1> QED
    BY <1>1, <1>2

\* What the orders say was received is in the receipt notes, whatever overlaps or
\* dies; when calls run alone the two are equal (procurement.service.ts:93).
THEOREM ReceiptsNoted == PurchasingSpec => []NotesCoverReceipts
  <1>1. NotesInv => NotesCoverReceipts
    BY DEF NotesInv
  <1> QED
    BY <1>1, NotesInitOK, NotesNextKeeps, PTL DEF PurchasingSpec
-----------------------------------------------------------------------------
(* The budget *)

Owed == [h \in Handlers |-> call[h].amount]
\* those that found the amount they are about to book within the limit
Passed(c) == c.pc = "insert cost" /\ c.limit # NoLine
Pending   == {h \in Handlers : Passed(call[h])}
Largest   == Max(Amounts \cup {0})

BudgetCallOK(c) ==
  /\ c.pc \in {"save budget", "read budget", "sum costs", "insert cost"} => c.amount \in Amounts
  /\ c.pc \in {"read budget", "sum costs"} => c.next \in {"insert cost", "insert order"}
  /\ c.pc \in {"sum costs", "insert cost"} => c.limit \in Int /\ c.limit <= ceiling
  /\ c.pc = "sum costs" =>
       /\ c.limit # NoLine
       /\ c = [pc |-> c.pc, amount |-> c.amount, next |-> c.next, limit |-> c.limit]

BudgetRows ==
  /\ overlaps \in Nat /\ DOMAIN call = Handlers
  /\ IsFiniteSet(DOMAIN cost) /\ \A k \in DOMAIN cost : cost[k] \in Amounts
  /\ planned \in Int /\ ceiling \in Nat /\ planned <= ceiling

\* What is booked and what is about to be booked.
Committed == Total(cost, DOMAIN cost) + Total(Owed, Pending)

BudgetInv ==
  /\ BudgetRows
  /\ IsFiniteSet(Busy) /\ Cardinality(Busy) <= overlaps + 1
  /\ \A h \in Handlers : BudgetCallOK(call[h])
  /\ ~unlimited => Committed <= ceiling + overlaps * Largest

LEMMA LargestIs ==
  /\ Largest \in Nat
  /\ \A a \in Amounts : a \in Nat /\ a <= Largest
  <1>1. IsFiniteSet(Amounts \cup {0}) /\ Amounts \cup {0} \subseteq Nat
    BY PurchasingAssumption, FS_AddElement
  <1>2. Max(Amounts \cup {0}) \in Amounts \cup {0}
        /\ \A a \in Amounts \cup {0} : a <= Max(Amounts \cup {0})
    <2>1. PICK S : S = Amounts \cup {0}
      OBVIOUS
    <2>2. Max(S) \in S /\ \A a \in S : a <= Max(S)
      BY <1>1, <2>1, GreatestExists
    <2> QED
      BY <2>1, <2>2
  <1> QED
    BY <1>1, <1>2 DEF Largest

\* Handlers that have passed the check are busy, and owe amounts.
LEMMA PendingIs ==
  ASSUME BudgetInv
  PROVE  /\ Pending \subseteq Busy /\ IsFiniteSet(Pending)
         /\ \A h \in Pending : Owed[h] \in Nat /\ Owed[h] <= Largest
         /\ Total(Owed, Pending) \in Nat /\ Total(cost, DOMAIN cost) \in Nat
         /\ \A k \in DOMAIN cost : cost[k] \in Nat
  <1>1. Pending \subseteq Busy
    BY DEF Pending, Passed, Busy, Running, At
  <1>2. IsFiniteSet(Pending)
    BY <1>1, FS_Subset DEF BudgetInv
  <1>3. \A h \in Pending : Owed[h] \in Nat /\ Owed[h] <= Largest
    BY LargestIs DEF BudgetInv, Pending, Passed, Owed, BudgetCallOK
  <1>4. \A k \in DOMAIN cost : cost[k] \in Nat
    BY LargestIs DEF BudgetInv, BudgetRows
  <1> QED
    BY <1>1, <1>2, <1>3, <1>4, TotalNat DEF BudgetInv, BudgetRows

LEMMA TotalCostIs == TotalCost = Total(cost, DOMAIN cost)
  BY DEF TotalCost, Total, MapThenSumSet, MapThenFoldSet

LEMMA BusyMoves ==
  ASSUME BudgetInv, NEW h \in Handlers, NEW c, Moves(h, c)
  PROVE  /\ overlaps' \in Nat /\ overlaps <= overlaps'
         /\ DOMAIN call' = Handlers /\ call'[h] = c
         /\ \A g \in Handlers \ {h} : call'[g] = call[g]
         /\ IsFiniteSet(Busy') /\ Cardinality(Busy') <= overlaps' + 1
  BY BusyMoved DEF BudgetInv, BudgetRows, BusyCounted

\* A handler that does not pass the check in this step leaves what is owed as it
\* was, or owes nothing any more.
LEMMA OwedMoves ==
  ASSUME BudgetInv, NEW h \in Handlers, NEW c, Moves(h, c), ~Passed(c)
  PROVE  /\ Pending' = Pending \ {h}
         /\ Total(Owed', Pending') = Total(Owed, Pending \ {h})
  <1>1. call'[h] = c /\ \A g \in Handlers \ {h} : call'[g] = call[g]
    BY BusyMoves
  <1>2. Pending' = Pending \ {h} /\ Pending \subseteq Handlers
    BY <1>1 DEF Pending, Passed
  <1>3. IsFiniteSet(Pending \ {h})
    BY PendingIs, FS_Subset
  <1>4. \A g \in Pending \ {h} : Owed'[g] = Owed[g]
    BY <1>1, <1>2 DEF Owed
  <1>5. Total(Owed', Pending \ {h}) = Total(Owed, Pending \ {h})
    BY <1>3, <1>4, TotalSame
  <1> QED
    BY <1>2, <1>5

\* Costs are left alone, nobody passes the check; the ceiling may rise.
LEMMA BudgetMoves ==
  ASSUME BudgetInv, NEW h \in Handlers, NEW c, Moves(h, c), BudgetCallOK(c)', ~Passed(c),
         UNCHANGED <<cost, unlimited>>,
         planned' \in Int, ceiling' \in Nat, planned' <= ceiling', ceiling <= ceiling'
  PROVE  BudgetInv'
  <1>1. /\ overlaps' \in Nat /\ overlaps <= overlaps'
        /\ DOMAIN call' = Handlers /\ call'[h] = c
        /\ \A g \in Handlers \ {h} : call'[g] = call[g]
        /\ IsFiniteSet(Busy') /\ Cardinality(Busy') <= overlaps' + 1
    BY BusyMoves
  <1>2. BudgetRows'
    BY <1>1 DEF BudgetInv, BudgetRows
  <1>3. ASSUME NEW g \in Handlers PROVE BudgetCallOK(call[g])'
    <2>1. CASE g = h
      BY <1>1, <2>1
    <2>2. CASE g # h
      <3>1. PICK d : d = call[g] /\ call'[g] = d /\ BudgetCallOK(d)
        BY <1>1, <2>2 DEF BudgetInv
      <3>2. BudgetCallOK(d)'
        <4>1. d.pc \in {"sum costs", "insert cost"} => d.limit \in Int /\ d.limit <= ceiling'
          <5>1. ceiling \in Nat /\ ceiling' \in Nat /\ ceiling <= ceiling'
            BY DEF BudgetInv, BudgetRows
          <5>2. d.pc \in {"sum costs", "insert cost"} => d.limit \in Int /\ d.limit <= ceiling
            BY <3>1 DEF BudgetCallOK
          <5>3. \A i \in Int : i <= ceiling => i <= ceiling'
            BY <5>1
          <5> QED
            BY <5>2, <5>3
        <4> QED
          BY <3>1, <4>1 DEF BudgetCallOK
      <3> QED
        BY <3>1, <3>2
    <2> QED
      BY <2>1, <2>2
  <1>4. Total(Owed', Pending') <= Total(Owed, Pending) /\ Total(Owed', Pending') \in Nat
        /\ Total(Owed, Pending) \in Nat /\ Total(cost, DOMAIN cost) \in Nat
    <2>1. Total(Owed', Pending') = Total(Owed, Pending \ {h})
      BY OwedMoves
    <2>2. /\ IsFiniteSet(Pending) /\ \A g \in Pending : Owed[g] \in Nat
          /\ Total(cost, DOMAIN cost) \in Nat
      BY PendingIs
    <2>3. Total(Owed, Pending \ {h}) <= Total(Owed, Pending)
          /\ Total(Owed, Pending \ {h}) \in Nat /\ Total(Owed, Pending) \in Nat
      BY <2>2, TotalLess
    <2> QED
      BY <2>1, <2>2, <2>3
  <1>5. overlaps * Largest <= overlaps' * Largest
        /\ overlaps * Largest \in Int /\ overlaps' * Largest \in Int
    <2>1. PICK m \in Nat : m = Largest
      BY LargestIs
    <2>2. PICK i \in Int : i = overlaps
      BY DEF BudgetInv, BudgetRows
    <2>3. PICK j \in Int : j = overlaps'
      BY <1>1
    <2>4. i * m <= j * m /\ i * m \in Int /\ j * m \in Int
      BY <1>1, <2>2, <2>3, ProductGrows
    <2> QED
      BY <2>1, <2>2, <2>3, <2>4
  <1>6. ~unlimited => Committed' <= ceiling' + overlaps' * Largest
    BY <1>4, <1>5 DEF BudgetInv, BudgetRows, Committed
  <1> QED
    BY <1>1, <1>2, <1>3, <1>6 DEF BudgetInv, Largest

LEMMA BudgetInitOK == ServerInit /\ PurchasingInit => BudgetInv
  <1> SUFFICES ASSUME ServerInit, PurchasingInit PROVE BudgetInv
    OBVIOUS
  <1>1. DOMAIN cost = {} /\ \A h \in Handlers : call[h] = Idle
    BY DEF PurchasingInit, ServerInit
  <1>2. BudgetRows
    <2>1. IsFiniteSet({})
      BY FS_EmptySet
    <2> QED
      BY <1>1, <2>1 DEF BudgetRows, PurchasingInit, ServerInit, NoLine
  <1>3. Busy = {} /\ Pending = {}
    <2>1. \A h \in Handlers : call[h].pc = "idle"
      BY <1>1 DEF Idle
    <2> QED
      BY <2>1 DEF Busy, Pending, Passed, Running, At
  <1>4. IsFiniteSet(Busy) /\ Cardinality(Busy) = 0
    BY <1>3, FS_EmptySet
  <1>5. \A h \in Handlers : BudgetCallOK(call[h])
    <2>1. BudgetCallOK(Idle)
      BY DEF BudgetCallOK, Idle
    <2> QED
      BY <1>1, <2>1
  <1>6. Committed = 0
    BY <1>1, <1>3, TotalEmpty DEF Committed
  <1>7. overlaps = 0 /\ ceiling = 0
    BY DEF ServerInit, PurchasingInit
  <1> QED
    BY <1>2, <1>4, <1>5, <1>6, <1>7, LargestIs DEF BudgetInv

LEMMA BudgetReads ==
  ASSUME BudgetInv, NEW h \in Handlers, NEW c, Moves(h, c), BudgetCallOK(c), ~Passed(c),
         UNCHANGED <<cost, unlimited, planned, ceiling>>
  PROVE  BudgetInv'
  <1>1. BudgetCallOK(c)'
    BY DEF BudgetCallOK
  <1> QED
    BY <1>1, BudgetMoves DEF BudgetInv, BudgetRows

\* Calls that owe nothing from here on: they are over, or about an order.
LEMMA BudgetFree ==
  ASSUME BudgetInv, NEW h \in Handlers, NEW c, Moves(h, c),
         c.pc \in {"idle", "insert order", "select order", "receive"},
         UNCHANGED <<cost, unlimited, planned, ceiling>>
  PROVE  BudgetInv'
  BY BudgetReads DEF BudgetCallOK, Passed

LEMMA BudgetLineKeeps ==
  ASSUME BudgetInv, NEW h \in Handlers, UpsertBudget(h) \/ SaveBudget(h)
  PROVE  BudgetInv'
  <1>1. CASE UpsertBudget(h)
    <2>1. PICK a \in Amounts :
            Begin(h, [pc |-> "save budget", found |-> planned # NoLine, amount |-> a])
      BY <1>1 DEF UpsertBudget
    <2>3. PICK c : c = [pc |-> "save budget", found |-> planned # NoLine, amount |-> a]
      OBVIOUS
    <2>2. BudgetCallOK(c) /\ ~Passed(c) /\ Moves(h, c)
      BY <2>1, <2>3, BeginMoves DEF BudgetCallOK, Passed
    <2> QED
      BY <1>1, <2>2, BudgetReads DEF UpsertBudget, purchasingVars
  <1>2. CASE SaveBudget(h)
    <2>1. PICK c : c = call[h] /\ c.pc = "save budget" /\ BudgetCallOK(c) /\ Running(h)
      BY <1>2 DEF SaveBudget, At, Running, BudgetInv
    <2>2. Moves(h, Idle) /\ BudgetCallOK(Idle)' /\ ~Passed(Idle)
      BY <1>2, <2>1, BecomeMoves DEF SaveBudget, Return, BudgetCallOK, Passed, Idle
    <2>3. c.amount \in Nat /\ ceiling \in Nat /\ planned \in Int /\ planned <= ceiling
      BY <2>1, LargestIs DEF BudgetCallOK, BudgetInv, BudgetRows
    <2>4. planned' \in Int /\ ceiling' \in Nat /\ planned' <= ceiling' /\ ceiling <= ceiling'
      <3>1. CASE UNCHANGED <<planned, ceiling>>
        BY <2>3, <3>1
      <3>2. CASE planned' = c.amount /\ ceiling' = Max({ceiling, c.amount})
        <4>1. IsFiniteSet({ceiling, c.amount})
          <5>1. IsFiniteSet({ceiling}) /\ {ceiling} \cup {c.amount} = {ceiling, c.amount}
            BY FS_Singleton
          <5> QED
            BY <5>1, FS_AddElement
        <4>2. PICK S : S = {ceiling, c.amount}
          OBVIOUS
        <4>3. Max(S) \in S /\ \A y \in S : y <= Max(S)
          BY <2>3, <4>1, <4>2, GreatestExists
        <4> QED
          BY <2>3, <3>2, <4>2, <4>3
      <3> QED
        BY <1>2, <2>1, <3>1, <3>2 DEF SaveBudget
    <2> QED
      BY <1>2, <2>2, <2>4, BudgetMoves DEF SaveBudget
  <1> QED
    BY <1>1, <1>2

LEMMA BudgetChecksBegin ==
  ASSUME BudgetInv, NEW h \in Handlers, CreateTransaction(h) \/ CreatePO(h)
  PROVE  BudgetInv'
  <1>1. PICK a \in Amounts, pc \in {"read budget", "insert order"},
             next \in {"insert cost", "insert order"} :
          Begin(h, [pc |-> pc, amount |-> a, next |-> next])
    BY DEF CreateTransaction, CreatePO
  <1>3. PICK c : c = [pc |-> pc, amount |-> a, next |-> next]
    OBVIOUS
  <1>2. BudgetCallOK(c) /\ ~Passed(c) /\ Moves(h, c)
    BY <1>1, <1>3, BeginMoves DEF BudgetCallOK, Passed
  <1> QED
    BY <1>2, BudgetReads DEF CreateTransaction, CreatePO, purchasingVars

LEMMA BudgetRead ==
  ASSUME BudgetInv, NEW h \in Handlers, ReadBudget(h)
  PROVE  BudgetInv'
  <1>1. PICK c : c = call[h] /\ c.pc = "read budget" /\ BudgetCallOK(c) /\ Running(h)
    BY DEF ReadBudget, At, Running, BudgetInv
  <1>2. PICK d : /\ d = [pc |-> IF planned = NoLine THEN c.next ELSE "sum costs",
                         amount |-> c.amount, next |-> c.next, limit |-> planned]
                 /\ Become(h, d)
    BY <1>1 DEF ReadBudget
  <1>3. /\ d.pc = IF planned = NoLine THEN c.next ELSE "sum costs"
        /\ d.amount = c.amount /\ d.next = c.next /\ d.limit = planned
        /\ d = [pc |-> d.pc, amount |-> d.amount, next |-> d.next, limit |-> d.limit]
    BY <1>2
  <1>4. planned \in Int /\ planned <= ceiling
    BY DEF BudgetInv, BudgetRows
  <1>5. c.amount \in Amounts /\ c.next \in {"insert cost", "insert order"}
    BY <1>1 DEF BudgetCallOK
  <1>6. BudgetCallOK(d) /\ ~Passed(d) /\ Moves(h, d)
    BY <1>1, <1>2, <1>3, <1>4, <1>5, BecomeMoves DEF BudgetCallOK, Passed
  <1> QED
    BY <1>6, BudgetReads DEF ReadBudget, purchasingVars

\* The check passes: what is booked leaves room for the amount, and each of the
\* others about to book one has been counted as an overlap.
LEMMA CheckPasses ==
  ASSUME BudgetInv, NEW h \in Handlers, NEW d, Become(h, d), Running(h),
         UNCHANGED <<cost, unlimited, planned, ceiling>>, BudgetCallOK(d),
         Passed(d), ~Passed(call[h]), Affordable(d.limit, TotalCost, d.amount)
  PROVE  BudgetInv'
  <1>1. Moves(h, d)
    BY BecomeMoves
  <1>2. /\ overlaps' = overlaps /\ overlaps \in Nat /\ DOMAIN call' = Handlers
        /\ call'[h] = d /\ \A g \in Handlers \ {h} : call'[g] = call[g]
        /\ IsFiniteSet(Busy') /\ Cardinality(Busy') <= overlaps' + 1
    BY <1>1, BusyMoves DEF Become, BudgetInv, BudgetRows
  <1>3. Pending' = Pending \cup {h} /\ h \notin Pending /\ h \in Busy
    BY <1>2 DEF Pending, Busy
  <1>4. IsFiniteSet(Pending) /\ Pending \subseteq Busy
        /\ \A g \in Pending : Owed[g] \in Nat /\ Owed[g] <= Largest
    BY PendingIs
  <1>5. d.amount \in Nat /\ d.amount <= Largest /\ Owed'[h] = d.amount
    BY <1>2, LargestIs DEF BudgetCallOK, Passed, Owed
  <1>6. \A g \in Pending : Owed'[g] = Owed[g]
    BY <1>2, <1>3 DEF Owed, Pending
  <1>7. Total(Owed', Pending') = Total(Owed, Pending) + d.amount
    <2>1. Total(Owed', Pending) = Total(Owed, Pending)
      BY <1>4, <1>6, TotalSame
    <2>2. \A g \in Pending \cup {h} : Owed'[g] \in Int
      BY <1>4, <1>5, <1>6
    <2>3. Total(Owed', Pending \cup {h}) = Total(Owed', Pending) + Owed'[h]
      BY <1>3, <1>4, <2>2, TotalAdd
    <2> QED
      BY <1>3, <1>5, <2>1, <2>3
  <1>8. Cardinality(Pending) <= overlaps /\ Cardinality(Pending) \in Nat
    <2>1. IsFiniteSet(Busy) /\ Cardinality(Busy) <= overlaps + 1 /\ Cardinality(Busy) \in Nat
      BY FS_CardinalityType DEF BudgetInv
    <2>2. Pending \subseteq Busy \ {h}
      BY <1>3, <1>4
    <2>3. Cardinality(Busy \ {h}) = Cardinality(Busy) - 1 /\ IsFiniteSet(Busy \ {h})
      BY <1>3, <2>1, FS_RemoveElement
    <2>4. Cardinality(Pending) <= Cardinality(Busy \ {h})
      BY <2>2, <2>3, FS_Subset
    <2> QED
      BY <1>2, <1>4, <2>1, <2>3, <2>4, FS_CardinalityType
  <1>9. Total(Owed, Pending) <= overlaps * Largest /\ overlaps * Largest \in Int
        /\ Total(Owed, Pending) \in Nat
    <2>1. PICK m \in Nat : m = Largest
      BY LargestIs
    <2>2. PICK i \in Int, j \in Int : i = Cardinality(Pending) /\ j = overlaps /\ i <= j
      BY <1>2, <1>8
    <2>3. i * m <= j * m /\ i * m \in Int /\ j * m \in Int
      BY <2>2, ProductGrows
    <2>4. Total(Owed, Pending) <= i * m
      BY <1>4, <2>1, <2>2, TotalAtMost
    <2>5. Total(Owed, Pending) \in Nat
      BY PendingIs
    <2> QED
      BY <2>1, <2>2, <2>3, <2>4, <2>5
  <1>10. /\ d.limit \in Int /\ d.limit <= ceiling /\ ceiling \in Nat
         /\ d.limit - Total(cost, DOMAIN cost) - d.amount >= 0
         /\ Total(cost, DOMAIN cost) \in Nat
    BY TotalCostIs, PendingIs DEF BudgetCallOK, Passed, Affordable, BudgetInv, BudgetRows
  <1>11. Committed' <= ceiling' + overlaps' * Largest
    BY <1>2, <1>5, <1>7, <1>9, <1>10 DEF Committed
  <1>12. \A g \in Handlers : BudgetCallOK(call[g])'
    <2>1. \A c : BudgetCallOK(c) => BudgetCallOK(c)'
      BY DEF BudgetCallOK
    <2> QED
      BY <1>2, <2>1 DEF BudgetInv
  <1>13. BudgetRows'
    BY <1>2 DEF BudgetInv, BudgetRows
  <1> QED
    BY <1>2, <1>11, <1>12, <1>13 DEF BudgetInv, Largest

LEMMA BudgetCheck ==
  ASSUME BudgetInv, NEW h \in Handlers, SumCosts(h)
  PROVE  BudgetInv'
  <1>1. PICK c : c = call[h] /\ c.pc = "sum costs" /\ BudgetCallOK(c) /\ Running(h)
    BY DEF SumCosts, At, Running, BudgetInv
  <1>2. UNCHANGED <<cost, unlimited, planned, ceiling>>
    BY DEF SumCosts, purchasingVars
  <1>3. CASE Return(h)
    <2>1. Moves(h, Idle) /\ Idle.pc = "idle"
      BY <1>1, <1>3, BecomeMoves DEF Return, Idle
    <2> QED
      BY <1>2, <2>1, BudgetFree
  <1>4. CASE Affordable(c.limit, TotalCost, c.amount) /\ Goto(h, c.next)
    <2>1. PICK d : d = [c EXCEPT !.pc = c.next] /\ Become(h, d)
      BY <1>1, <1>4 DEF Goto
    <2>2. /\ c.next \in {"insert cost", "insert order"} /\ c.amount \in Amounts
          /\ c.limit \in Int /\ c.limit <= ceiling /\ c.limit # NoLine
          /\ c = [pc |-> c.pc, amount |-> c.amount, next |-> c.next, limit |-> c.limit]
      BY <1>1 DEF BudgetCallOK
    <2>3. d.pc = c.next /\ d.amount = c.amount /\ d.limit = c.limit
      BY <2>1, <2>2
    <2>4. BudgetCallOK(d)
      BY <2>2, <2>3 DEF BudgetCallOK
    <2>5. CASE c.next = "insert cost"
      <3>1. Passed(d) /\ ~Passed(call[h])
        BY <1>1, <2>2, <2>3, <2>5 DEF Passed
      <3> QED
        BY <1>1, <1>2, <1>4, <2>1, <2>3, <2>4, <3>1, CheckPasses
    <2>6. CASE c.next = "insert order"
      <3>1. Moves(h, d)
        BY <1>1, <2>1, BecomeMoves
      <3> QED
        BY <1>2, <2>3, <2>6, <3>1, BudgetFree
    <2> QED
      BY <2>2, <2>5, <2>6
  <1> QED
    BY <1>1, <1>3, <1>4 DEF SumCosts

\* What is booked was owed; or nobody looked at a limit.
LEMMA CostBooked ==
  ASSUME BudgetInv, NEW h \in Handlers, InsertCost(h)
  PROVE  BudgetInv'
  <1>1. PICK c : c = call[h] /\ c.pc = "insert cost" /\ BudgetCallOK(c) /\ Running(h)
    BY DEF InsertCost, At, Running, BudgetInv
  <1>2. PICK k \in CostIds \ DOMAIN cost :
          cost' = [i \in DOMAIN cost \cup {k} |-> IF i = k THEN c.amount ELSE cost[i]]
    BY <1>1 DEF InsertCost
  <1>3. Moves(h, Idle) /\ ~Passed(Idle) /\ overlaps' = overlaps /\ BudgetCallOK(Idle)'
    BY <1>1, BecomeMoves DEF InsertCost, Return, Become, Passed, Idle, BudgetCallOK
  <1>4. /\ overlaps' \in Nat /\ DOMAIN call' = Handlers /\ call'[h] = Idle
        /\ \A g \in Handlers \ {h} : call'[g] = call[g]
        /\ IsFiniteSet(Busy') /\ Cardinality(Busy') <= overlaps' + 1
    BY <1>3, BusyMoves
  <1>5. c.amount \in Amounts /\ c.amount \in Nat
    BY <1>1, LargestIs DEF BudgetCallOK
  <1>6. /\ DOMAIN cost' = DOMAIN cost \cup {k} /\ cost'[k] = c.amount
        /\ \A i \in DOMAIN cost : cost'[i] = cost[i]
    BY <1>2
  <1>7. IsFiniteSet(DOMAIN cost)
    BY DEF BudgetInv, BudgetRows
  <1>8. BudgetRows'
    <2>1. IsFiniteSet(DOMAIN cost')
      BY <1>6, <1>7, FS_AddElement
    <2>2. \A i \in DOMAIN cost' : cost'[i] \in Amounts
      BY <1>5, <1>6 DEF BudgetInv, BudgetRows
    <2> QED
      BY <1>4, <2>1, <2>2 DEF BudgetInv, BudgetRows, InsertCost
  <1>9. \A g \in Handlers : BudgetCallOK(call[g])'
    <2>1. \A e : BudgetCallOK(e) => BudgetCallOK(e)'
      BY DEF BudgetCallOK, InsertCost
    <2> QED
      BY <1>3, <1>4, <2>1 DEF BudgetInv
  <1>10. Total(cost', DOMAIN cost') = Total(cost, DOMAIN cost) + c.amount
    <2>1. Total(cost', DOMAIN cost) = Total(cost, DOMAIN cost)
      BY <1>6, <1>7, TotalSame
    <2>2. \A i \in DOMAIN cost \cup {k} : cost'[i] \in Int
      BY <1>5, <1>6, PendingIs
    <2>3. Total(cost', DOMAIN cost \cup {k}) = Total(cost', DOMAIN cost) + cost'[k]
      BY <1>2, <1>7, <2>2, TotalAdd
    <2> QED
      BY <1>6, <2>1, <2>3
  <1>11. ~unlimited' => Committed' = Committed
    <2>1. SUFFICES ASSUME ~unlimited' PROVE Committed' = Committed
      OBVIOUS
    <2>2. c.limit # NoLine
      BY <1>1, <2>1 DEF InsertCost
    <2>3. h \in Pending /\ Owed[h] = c.amount
      BY <1>1, <2>2 DEF Pending, Passed, Owed
    <2>4. Total(Owed', Pending') = Total(Owed, Pending \ {h})
      BY <1>3, OwedMoves
    <2>5. /\ IsFiniteSet(Pending) /\ \A g \in Pending : Owed[g] \in Nat
          /\ Total(cost, DOMAIN cost) \in Nat
      BY PendingIs
    <2>6. Total(Owed, Pending) = c.amount + Total(Owed, Pending \ {h})
          /\ Total(Owed, Pending \ {h}) \in Nat
      <3>1. PICK S, f : S = Pending /\ f = Owed
        OBVIOUS
      <3>2. IsFiniteSet(S) /\ (\A g \in S : f[g] \in Nat) /\ h \in S
        BY <2>3, <2>5, <3>1
      <3>3. Total(f, S) = f[h] + Total(f, S \ {h}) /\ Total(f, S \ {h}) \in Nat
        BY <3>2, TotalLess
      <3> QED
        BY <2>3, <3>1, <3>3
    <2> QED
      BY <1>5, <1>10, <2>4, <2>5, <2>6 DEF Committed
  <1>12. (~unlimited' => ~unlimited) /\ ceiling' = ceiling
    BY DEF InsertCost
  <1> QED
    BY <1>3, <1>4, <1>8, <1>9, <1>11, <1>12 DEF BudgetInv, Largest

\* Removing a line or a cost is one statement; it takes nothing that is owed.
LEMMA BudgetRemovals ==
  ASSUME BudgetInv, UNCHANGED <<call, ceiling, unlimited>>, Disturb \/ UNCHANGED overlaps,
         planned' \in {planned, NoLine},
         \/ UNCHANGED cost
         \/ \E k \in DOMAIN cost : cost' = [i \in DOMAIN cost \ {k} |-> cost[i]]
  PROVE  BudgetInv'
  <1>1. overlaps' \in Nat /\ overlaps <= overlaps' /\ overlaps \in Nat
    BY DEF Disturb, BudgetInv, BudgetRows
  <1>2. Busy' = Busy /\ Pending' = Pending /\ Owed' = Owed
    BY DEF Busy, Running, At, Pending, Owed
  <1>3. /\ IsFiniteSet(DOMAIN cost') /\ \A k \in DOMAIN cost' : cost'[k] \in Amounts
        /\ Total(cost', DOMAIN cost') <= Total(cost, DOMAIN cost)
        /\ Total(cost', DOMAIN cost') \in Nat /\ Total(cost, DOMAIN cost) \in Nat
    <2>1. IsFiniteSet(DOMAIN cost) /\ \A k \in DOMAIN cost : cost[k] \in Amounts
      BY DEF BudgetInv, BudgetRows
    <2>2. \A k \in DOMAIN cost : cost[k] \in Nat
      BY PendingIs
    <2>3. CASE UNCHANGED cost
      BY <2>1, <2>2, <2>3, TotalNat
    <2>4. ASSUME NEW k \in DOMAIN cost, cost' = [i \in DOMAIN cost \ {k} |-> cost[i]]
          PROVE  /\ IsFiniteSet(DOMAIN cost') /\ \A i \in DOMAIN cost' : cost'[i] \in Amounts
                 /\ Total(cost', DOMAIN cost') <= Total(cost, DOMAIN cost)
                 /\ Total(cost', DOMAIN cost') \in Nat /\ Total(cost, DOMAIN cost) \in Nat
      <3>1. DOMAIN cost' = DOMAIN cost \ {k} /\ \A i \in DOMAIN cost \ {k} : cost'[i] = cost[i]
        BY <2>4
      <3>2. IsFiniteSet(DOMAIN cost \ {k})
        BY <2>1, FS_Subset
      <3>3. Total(cost', DOMAIN cost \ {k}) = Total(cost, DOMAIN cost \ {k})
        BY <3>1, <3>2, TotalSame
      <3>4. /\ Total(cost, DOMAIN cost \ {k}) <= Total(cost, DOMAIN cost)
            /\ Total(cost, DOMAIN cost \ {k}) \in Nat /\ Total(cost, DOMAIN cost) \in Nat
        BY <2>1, <2>2, TotalLess
      <3> QED
        BY <2>1, <3>1, <3>2, <3>3, <3>4
    <2> QED
      BY <2>3, <2>4
  <1>4. BudgetRows'
    BY <1>1, <1>3 DEF BudgetInv, BudgetRows, NoLine
  <1>5. overlaps * Largest <= overlaps' * Largest
        /\ overlaps * Largest \in Int /\ overlaps' * Largest \in Int
    <2>1. PICK m \in Nat, i \in Int, j \in Int :
            m = Largest /\ i = overlaps /\ j = overlaps' /\ i <= j
      BY <1>1, LargestIs
    <2>2. i * m <= j * m /\ i * m \in Int /\ j * m \in Int
      BY <2>1, ProductGrows
    <2> QED
      BY <2>1, <2>2
  <1>6. Total(Owed, Pending) \in Nat
    BY PendingIs
  <1>7. ~unlimited' => Committed' <= ceiling' + overlaps' * Largest
    BY <1>2, <1>3, <1>5, <1>6 DEF BudgetInv, BudgetRows, Committed
  <1>8. IsFiniteSet(Busy') /\ Cardinality(Busy') <= overlaps' + 1
    BY <1>1, <1>2, FS_CardinalityType DEF BudgetInv
  <1>9. \A h \in Handlers : BudgetCallOK(call[h])'
    BY DEF BudgetInv, BudgetCallOK
  <1> QED
    BY <1>4, <1>7, <1>8, <1>9 DEF BudgetInv, Largest

LEMMA OrdersOweNothing ==
  ASSUME BudgetInv, NEW h \in Handlers,
         InsertOrder(h) \/ ReceiveGoods(h) \/ SelectOrder(h) \/ WriteReceipt(h)
           \/ (Crash(h) /\ UNCHANGED purchasingVars)
  PROVE  BudgetInv'
  <1>1. UNCHANGED <<cost, unlimited, planned, ceiling>>
    BY DEF InsertOrder, ReceiveGoods, SelectOrder, WriteReceipt, purchasingVars
  <1>2. \E c : Moves(h, c) /\ c.pc \in {"idle", "select order", "receive"}
    <2>1. CASE InsertOrder(h) \/ WriteReceipt(h)
      <3>1. Running(h) /\ Become(h, Idle) /\ Idle.pc = "idle"
        BY <2>1 DEF InsertOrder, WriteReceipt, Running, At, Return, Idle
      <3> QED
        BY <3>1, BecomeMoves
    <2>2. CASE ReceiveGoods(h)
      <3>1. PICK p, ls, qty, got, status :
              Begin(h, [pc |-> "select order", id |-> p, items |-> ls, qty |-> qty,
                        received |-> got, status |-> status])
        BY <2>2 DEF ReceiveGoods
      <3>2. PICK c : c = [pc |-> "select order", id |-> p, items |-> ls, qty |-> qty,
                          received |-> got, status |-> status]
        OBVIOUS
      <3>3. Begin(h, c) /\ c.pc = "select order"
        BY <3>1, <3>2
      <3> QED
        BY <3>3, BeginMoves
    <2>3. CASE SelectOrder(h)
      <3>1. PICK c : c = call[h]
        OBVIOUS
      <3>2. PICK d : d = [pc |-> "receive", id |-> c.id, items |-> c.items, qty |-> c.qty,
                          received |-> c.received, status |-> c.status,
                          moved |-> c.status # po[c.id].status,
                          dirty |-> Dirty(c.received, po[c.id].received)]
        OBVIOUS
      <3>3. Become(h, d) /\ d.pc = "receive" /\ Running(h)
        BY <2>3, <3>1, <3>2 DEF SelectOrder, Running, At
      <3> QED
        BY <3>3, BecomeMoves
    <2>4. CASE Crash(h)
      <3>1. PICK c : c = Idle
        OBVIOUS
      <3>2. Moves(h, c) /\ c.pc = "idle"
        BY <2>4, <3>1, CrashMoves DEF Idle
      <3> QED
        BY <3>2
    <2> QED
      BY <2>1, <2>2, <2>3, <2>4
  <1> QED
    BY <1>1, <1>2, BudgetFree

LEMMA BudgetNextKeeps ==
  BudgetInv /\ [PurchasingNext]_<<serverVars, purchasingVars>> => BudgetInv'
  <1>1. ASSUME BudgetInv, NEW h \in Handlers, PurchasingStep(h) PROVE BudgetInv'
    <2>1. CASE RemoveBudget(h) \/ RemoveTransaction(h)
      BY <1>1, <2>1, BudgetRemovals DEF RemoveBudget, RemoveTransaction
    <2> QED
      BY <1>1, <2>1, BudgetLineKeeps, BudgetChecksBegin, BudgetRead, BudgetCheck, CostBooked,
         OrdersOweNothing DEF PurchasingStep
  <1>2. BudgetInv /\ UNCHANGED <<serverVars, purchasingVars>> => BudgetInv'
    BY BudgetRemovals DEF serverVars, purchasingVars
  <1> QED
    BY <1>1, <1>2 DEF PurchasingNext

\* The costs of a project exceed the highest limit it ever had by at most one
\* amount for each call that overlapped another (projects.service.ts:507, :520).
THEOREM BudgetHeld == PurchasingSpec => []OverspendPerOverlap
  <1>1. BudgetInv => OverspendPerOverlap
    <2>1. SUFFICES ASSUME BudgetInv, ~unlimited
                   PROVE  TotalCost <= ceiling + overlaps * Max(Amounts \cup {0})
      BY DEF OverspendPerOverlap
    <2>2. /\ Total(Owed, Pending) \in Nat /\ Total(cost, DOMAIN cost) \in Nat
          /\ Total(cost, DOMAIN cost) + Total(Owed, Pending) <= ceiling + overlaps * Largest
      BY <2>1, PendingIs DEF BudgetInv, Committed
    <2>3. overlaps * Largest \in Int /\ ceiling \in Nat
      <3>1. PICK m \in Nat, i \in Int : m = Largest /\ i = overlaps
        BY <2>1, LargestIs DEF BudgetInv, BudgetRows
      <3>2. i * m \in Int
        BY <3>1, ProductGrows
      <3> QED
        BY <2>1, <3>1, <3>2 DEF BudgetInv, BudgetRows
    <2>4. Total(cost, DOMAIN cost) <= ceiling + overlaps * Largest
      BY <2>2, <2>3
    <2> QED
      BY <2>4, TotalCostIs DEF Largest
  <1> QED
    BY <1>1, BudgetInitOK, BudgetNextKeeps, PTL DEF PurchasingSpec
-----------------------------------------------------------------------------
(* Sessions *)

AccountRow == [password : Nat, failed : Nat, locked : Nat, active : BOOLEAN]
TokenRow   == [password : Nat, revoked : BOOLEAN]

LoginPc == {"verify", "fail", "clear"}
OpenPc  == {"clear", "sessions", "revoke", "issue"}

IsCall(c) ==
  /\ c.account \in AccountRow /\ c.password \in Nat
  /\ c = [pc |-> c.pc, account |-> c.account, password |-> c.password,
          token |-> c.token, over |-> c.over, dirty |-> c.dirty]

SessionCallOK(c) ==
  /\ c.pc # "idle" => IsCall(c)
  /\ c.pc \in {"rotate", "renew"} => c.token \in DOMAIN tokens
  /\ c.pc = "use" => c.token \in DOMAIN resets

SessionRows ==
  /\ account \in AccountRow /\ minute \in Nat
  /\ tokens \in Seq(TokenRow) /\ heirs \in Seq(Nat) /\ resets \in Seq(BOOLEAN)
  /\ Len(heirs) = Len(tokens)
  /\ chosen \in Nat /\ reset \in Nat /\ reset <= chosen /\ misses \in Nat

SessionTyped ==
  /\ HandlersOK /\ BusyCounted /\ SessionRows
  /\ \A h \in Handlers : SessionCallOK(call[h])

\* A call that will open a session has chosen the tokens it still ends before.
Opening == {"revoke", "issue", "rotate", "renew"}
Openers == {h \in Handlers : call[h].pc \in Opening}
Ending(c) == CASE c.pc = "revoke" -> c.over
             [] c.pc = "rotate" -> {c.token}
             [] OTHER           -> {}

\* Whichever of those calls come first, their sessions and the tokens they leave
\* alone are not too many.
Spared(Q) == {t \in Live : \A g \in Q : t \notin Ending(call[g])}
RoomLeft  == \A Q \in SUBSET Openers :
               Cardinality(Spared(Q)) + Cardinality(Q) <= SessionLimit + overlaps

\* The calls that exchange token t, or are about to send a link, count already.
Exchange      == {"rotate", "renew"}
Exchanging(t) == {h \in Handlers : call[h].pc \in Exchange /\ call[h].token = t}
Exchanged ==
  \A t \in DOMAIN tokens :
    /\ heirs[t] + Cardinality(Exchanging(t)) <= 1 + overlaps
    /\ t \in Live => heirs[t] = 0
    /\ t \in Live => \A h \in Handlers : call[h].pc = "renew" => call[h].token # t

Usable    == {r \in DOMAIN resets : ~resets[r]}
Sending   == {h \in Handlers : call[h].pc = "send"}
LinksLeft == Cardinality(Usable) + Cardinality(Sending) <= 1 + overlaps

\* The count of an account that was read before an attempt failed lacks it: each
\* call that may write one back has cost an overlap, but for the last.
CountPc    == {"verify", "fail", "select", "save"}
MissesKept ==
  /\ misses <= account.failed + PastOverlaps
  /\ \A h \in Handlers : call[h].pc \in CountPc => misses <= call[h].account.failed + PastOverlaps

\* What a handler that was never disturbed knows at each of its awaits.
Knows(c) ==
  /\ c.pc \in LoginPc => account.locked <= minute
  /\ c.pc = "verify" => c.account.password >= reset
  /\ c.pc \in OpenPc => c.password >= reset
  /\ c.pc \in Exchange => tokens[c.token].password >= reset
  /\ c.pc \in {"select", "save"} =>
       c.account.password >= reset /\ c.account.locked = account.locked

Undisturbed ==
  /\ \A h \in Handlers : Knows(call[h])
  /\ account.password >= reset
  /\ (\A h \in Handlers : call[h].pc # "revokeAll") =>
       \A t \in Live : tokens[t].password >= reset

SessionInv == SessionTyped /\ RoomLeft /\ Exchanged /\ LinksLeft /\ MissesKept
              /\ (Calm => Undisturbed)

-----------------------------------------------------------------------------
(* The tokens *)

LEMMA LiveIsFinite ==
  ASSUME SessionTyped
  PROVE  /\ IsFiniteSet(Live) /\ Live \subseteq DOMAIN tokens /\ DOMAIN tokens = 1 .. Len(tokens)
         /\ Len(tokens) \in Nat /\ DOMAIN heirs = DOMAIN tokens
         /\ \A t \in DOMAIN tokens : tokens[t] \in TokenRow /\ heirs[t] \in Nat
  <1>1. /\ DOMAIN tokens = 1 .. Len(tokens) /\ Len(tokens) \in Nat /\ DOMAIN heirs = DOMAIN tokens
        /\ \A t \in DOMAIN tokens : tokens[t] \in TokenRow /\ heirs[t] \in Nat
    BY DEF SessionTyped, SessionRows
  <1>2. IsFiniteSet(1 .. Len(tokens))
    BY <1>1, FS_Interval
  <1>3. Live \subseteq DOMAIN tokens
    BY DEF Live
  <1> QED
    BY <1>1, <1>2, <1>3, FS_Subset

LEMMA TokensRevoked ==
  ASSUME SessionTyped, NEW S, RevokeTokens(S)
  PROVE  /\ tokens' \in Seq(TokenRow) /\ Len(tokens') = Len(tokens)
         /\ DOMAIN tokens' = DOMAIN tokens
         /\ Live' = Live \ S
         /\ \A t \in DOMAIN tokens : tokens'[t].password = tokens[t].password
  <1>1. /\ DOMAIN tokens = 1 .. Len(tokens) /\ Len(tokens) \in Nat
        /\ \A t \in DOMAIN tokens : tokens[t] \in TokenRow
    BY LiveIsFinite
  <1>2. /\ tokens' = [t \in 1 .. Len(tokens) |->
                        IF t \in S THEN [tokens[t] EXCEPT !.revoked = TRUE] ELSE tokens[t]]
    BY <1>1 DEF RevokeTokens
  <1>3. \A t \in 1 .. Len(tokens) :
          /\ tokens'[t] \in TokenRow
          /\ tokens'[t].password = tokens[t].password
          /\ tokens'[t].revoked = (t \in S \/ tokens[t].revoked)
    BY <1>1, <1>2 DEF TokenRow
  <1>4. tokens' \in [1 .. Len(tokens) -> TokenRow]
    BY <1>2, <1>3
  <1>5. tokens' \in Seq(TokenRow) /\ Len(tokens') = Len(tokens)
    BY <1>1, <1>4
  <1>6. Live' = Live \ S
    BY <1>1, <1>2, <1>3 DEF Live
  <1> QED
    BY <1>1, <1>2, <1>3, <1>5, <1>6

LEMMA TokenAdded ==
  ASSUME SessionTyped, NEW p \in Nat,
         tokens' = Append(tokens, [password |-> p, revoked |-> FALSE])
  PROVE  /\ tokens' \in Seq(TokenRow) /\ Len(tokens') = Len(tokens) + 1
         /\ DOMAIN tokens' = DOMAIN tokens \cup {Len(tokens) + 1}
         /\ Live' = Live \cup {Len(tokens) + 1}
         /\ Len(tokens) + 1 \notin DOMAIN tokens
         /\ \A t \in DOMAIN tokens : tokens'[t] = tokens[t]
         /\ tokens'[Len(tokens) + 1].password = p
  <1>1. /\ DOMAIN tokens = 1 .. Len(tokens) /\ Len(tokens) \in Nat
        /\ tokens \in Seq(TokenRow) /\ Live \subseteq 1 .. Len(tokens)
    BY LiveIsFinite DEF SessionTyped, SessionRows
  <1>2. [password |-> p, revoked |-> FALSE] \in TokenRow
    BY DEF TokenRow
  <1>3. /\ tokens' \in Seq(TokenRow) /\ Len(tokens') = Len(tokens) + 1
        /\ \A t \in 1 .. Len(tokens) : tokens'[t] = tokens[t]
        /\ tokens'[Len(tokens) + 1] = [password |-> p, revoked |-> FALSE]
    BY <1>1, <1>2
  <1>4. DOMAIN tokens' = DOMAIN tokens \cup {Len(tokens) + 1}
    BY <1>1, <1>3
  <1>5. Live' = Live \cup {Len(tokens) + 1}
    BY <1>1, <1>3, <1>4 DEF Live
  <1> QED
    BY <1>1, <1>3, <1>4, <1>5

-----------------------------------------------------------------------------
(* Room for sessions *)

LEMMA SparedIs ==
  ASSUME SessionTyped, NEW Q \in SUBSET Openers
  PROVE  /\ IsFiniteSet(Q) /\ Cardinality(Q) \in Nat /\ Cardinality(Q) <= overlaps + 1
         /\ IsFiniteSet(Spared(Q)) /\ Cardinality(Spared(Q)) \in Nat
  <1>1. Q \subseteq Busy /\ Spared(Q) \subseteq Live
    BY DEF Openers, Opening, Busy, Running, At, Spared
  <1>2. IsFiniteSet(Busy) /\ Cardinality(Busy) <= overlaps + 1 /\ IsFiniteSet(Live)
        /\ overlaps \in Nat
    BY LiveIsFinite DEF SessionTyped, BusyCounted
  <1> QED
    BY <1>1, <1>2, FS_Subset, FS_CardinalityType

\* Nothing is opened, and nobody enters the calls that will open a session or
\* forgets a token to end.
RoomStep(h, c) ==
  /\ Live' \subseteq Live
  /\ c.pc \in Opening => /\ call[h].pc \in Opening
                         /\ \A t \in Live' : t \in Ending(call[h]) => t \in Ending(c)

LEMMA RoomKept ==
  ASSUME SessionInv, NEW h \in Handlers, NEW c, Moves(h, c), RoomStep(h, c)
  PROVE  RoomLeft'
  <1>1. /\ call'[h] = c /\ \A g \in Handlers \ {h} : call'[g] = call[g]
        /\ overlaps <= overlaps' /\ overlaps \in Nat /\ overlaps' \in Nat
    BY BusyMoved DEF SessionInv, SessionTyped, BusyCounted
  <1>2. SUFFICES ASSUME NEW Q \in SUBSET Openers'
                 PROVE  Cardinality(Spared(Q)') + Cardinality(Q) <= SessionLimit + overlaps'
    BY DEF RoomLeft
  <1>3. Q \in SUBSET Openers
    BY <1>1, <1>2 DEF Openers, RoomStep
  <1>4. Spared(Q)' \subseteq Spared(Q)
    BY <1>1, <1>2 DEF Spared, Openers, RoomStep
  <1>5. /\ Cardinality(Q) \in Nat
        /\ IsFiniteSet(Spared(Q)) /\ Cardinality(Spared(Q)) \in Nat
    BY <1>3, SparedIs DEF SessionInv
  <1>6. Cardinality(Spared(Q)') <= Cardinality(Spared(Q)) /\ Cardinality(Spared(Q)') \in Nat
    BY <1>4, <1>5, FS_Subset, FS_CardinalityType
  <1>7. Cardinality(Spared(Q)) + Cardinality(Q) <= SessionLimit + overlaps
    BY <1>3 DEF SessionInv, RoomLeft
  <1> QED
    BY <1>1, <1>5, <1>6, <1>7, SessionsAssumption

\* The oldest sessions are chosen so that room for one is left.
LEMMA SurplusLeavesRoom ==
  ASSUME SessionTyped
  PROVE  Surplus \subseteq Live /\ Cardinality(Live \ Surplus) < SessionLimit
  <1>1. IsFiniteSet(Live) /\ Live \subseteq Nat
    BY LiveIsFinite
  <1>2. SessionLimit \in Nat /\ 0 < SessionLimit
    BY SessionsAssumption
  <1>3. Surplus \subseteq Live
    BY DEF Surplus
  <1>4. CASE Live \ Surplus = {}
    BY <1>2, <1>3, <1>4, FS_EmptySet
  <1>5. CASE Live \ Surplus # {}
    <2>1. PICK t \in Live \ Surplus : \A u \in Live \ Surplus : t <= u
      <3>1. PICK K : K = Live \ Surplus
        OBVIOUS
      <3>2. K \subseteq Nat /\ K # {}
        BY <1>1, <1>5, <3>1
      <3> QED
        BY <3>1, <3>2, LeastExists
    <2>2. PICK Later : Later = {u \in Live : u >= t}
      OBVIOUS
    <2>3. ~(Cardinality(Later) >= SessionLimit)
      BY <2>1, <2>2 DEF Surplus
    <2>4. Live \ Surplus \subseteq Later
      BY <1>1, <2>1, <2>2
    <2>5. IsFiniteSet(Later)
      BY <1>1, <2>2, FS_Subset
    <2>6. Cardinality(Live \ Surplus) <= Cardinality(Later)
      BY <2>4, <2>5, FS_Subset
    <2>7. Cardinality(Later) \in Nat /\ Cardinality(Live \ Surplus) \in Nat
      BY <2>4, <2>5, FS_Subset, FS_CardinalityType
    <2> QED
      BY <1>2, <1>3, <2>3, <2>6, <2>7
  <1> QED
    BY <1>4, <1>5

\* A login has chosen the oldest sessions.
LEMMA RoomMade ==
  ASSUME SessionInv, NEW h \in Handlers, NEW c, Moves(h, c),
         c.pc = "revoke", c.over = Surplus, Live' = Live
  PROVE  RoomLeft'
  <1>1. /\ call'[h] = c /\ \A g \in Handlers \ {h} : call'[g] = call[g]
        /\ overlaps <= overlaps' /\ overlaps \in Nat /\ overlaps' \in Nat /\ BusyCounted'
    BY BusyMoved DEF SessionInv, SessionTyped, BusyCounted
  <1>2. SUFFICES ASSUME NEW Q \in SUBSET Openers'
                 PROVE  Cardinality(Spared(Q)') + Cardinality(Q) <= SessionLimit + overlaps'
    BY DEF RoomLeft
  <1>3. CASE h \notin Q
    <2>1. Q \in SUBSET Openers /\ Spared(Q)' = Spared(Q)
      BY <1>1, <1>2, <1>3 DEF Openers, Spared
    <2>2. Cardinality(Spared(Q)) + Cardinality(Q) <= SessionLimit + overlaps
      BY <2>1 DEF SessionInv, RoomLeft
    <2>3. Cardinality(Q) \in Nat /\ Cardinality(Spared(Q)) \in Nat
      BY <2>1, SparedIs DEF SessionInv
    <2> QED
      BY <1>1, <2>1, <2>2, <2>3, SessionsAssumption
  <1>4. CASE h \in Q
    <2>1. Spared(Q)' \subseteq Live \ Surplus
      BY <1>1, <1>4 DEF Spared, Ending
    <2>2. IsFiniteSet(Live \ Surplus)
      BY LiveIsFinite, FS_Subset DEF SessionInv
    <2>3. /\ Cardinality(Live \ Surplus) < SessionLimit /\ Cardinality(Live \ Surplus) \in Nat
          /\ Cardinality(Spared(Q)') <= Cardinality(Live \ Surplus)
          /\ Cardinality(Spared(Q)') \in Nat
      BY <2>1, <2>2, SurplusLeavesRoom, FS_Subset, FS_CardinalityType DEF SessionInv
    <2>4. Q \subseteq Busy' /\ IsFiniteSet(Busy') /\ Cardinality(Busy') <= overlaps' + 1
      BY <1>1, <1>2 DEF BusyCounted, Busy, Openers, Opening, Running, At
    <2>5. /\ Cardinality(Q) <= Cardinality(Busy') /\ Cardinality(Q) \in Nat
          /\ Cardinality(Busy') \in Nat
      BY <2>4, FS_Subset, FS_CardinalityType
    <2> QED
      BY <1>1, <2>3, <2>4, <2>5, SessionsAssumption
  <1> QED
    BY <1>3, <1>4

\* A rotation begins with a live token: another call that ends it already is
\* counted as overlapped.
LEMMA RoomExchanged ==
  ASSUME SessionInv, NEW h \in Handlers, NEW c, Begin(h, c),
         c.pc = "rotate", c.token \in Live, Live' = Live
  PROVE  RoomLeft'
  <1>1. /\ call'[h] = c /\ \A g \in Handlers \ {h} : call'[g] = call[g]
        /\ overlaps <= overlaps' /\ overlaps \in Nat /\ overlaps' \in Nat
        /\ (\E g \in Handlers : Running(g)) => overlaps' = overlaps + 1
    BY BeginMoves, BusyMoved DEF SessionInv, SessionTyped, BusyCounted, Begin, Running
  <1>2. SUFFICES ASSUME NEW Q \in SUBSET Openers'
                 PROVE  Cardinality(Spared(Q)') + Cardinality(Q) <= SessionLimit + overlaps'
    BY DEF RoomLeft
  <1>3. PICK P : P = Q \ {h}
    OBVIOUS
  <1>4. P \in SUBSET Openers /\ h \notin P
    BY <1>1, <1>2, <1>3 DEF Openers
  <1>5. /\ Cardinality(Spared(P)) + Cardinality(P) <= SessionLimit + overlaps
        /\ Cardinality(P) \in Nat /\ IsFiniteSet(P)
        /\ Cardinality(Spared(P)) \in Nat /\ IsFiniteSet(Spared(P))
    BY <1>4, SparedIs DEF SessionInv, RoomLeft
  <1>6. CASE h \notin Q
    <2>1. Q = P /\ Spared(Q)' = Spared(P)
      BY <1>1, <1>3, <1>4, <1>6 DEF Spared, Openers
    <2> QED
      BY <1>1, <1>5, <2>1, SessionsAssumption
  <1>7. CASE h \in Q
    <2>1. Cardinality(Q) = Cardinality(P) + 1
      <3>1. Q = P \cup {h}
        BY <1>3, <1>7
      <3> QED
        BY <1>4, <1>5, <3>1, FS_AddElement
    <2>2. Spared(Q)' = Spared(P) \ {c.token}
      <3>1. \A t : t \in Spared(Q)' <=> /\ t \in Live /\ t # c.token
                                    /\ \A g \in P : t \notin Ending(call[g])
        <4>1. \A g \in P : call'[g] = call[g]
          BY <1>1, <1>4 DEF Openers
        <4>2. Ending(c) = {c.token}
          BY DEF Ending
        <4>3. Q = P \cup {h}
          BY <1>3, <1>7
        <4> QED
          BY <1>1, <4>1, <4>2, <4>3 DEF Spared
      <3> QED
        BY <3>1 DEF Spared
    <2>3. CASE c.token \in Spared(P)
      <3>1. Cardinality(Spared(P) \ {c.token}) = Cardinality(Spared(P)) - 1
        BY <1>5, <2>3, FS_RemoveElement
      <3> QED
        BY <1>1, <1>5, <2>1, <2>2, <3>1, SessionsAssumption
    <2>4. CASE c.token \notin Spared(P)
      <3>1. PICK g \in P : c.token \in Ending(call[g])
        BY <2>4 DEF Spared
      <3>2. overlaps' = overlaps + 1
        BY <1>1, <1>4, <3>1 DEF Openers, Opening, Running, At
      <3>3. Spared(Q)' = Spared(P)
        BY <2>2, <2>4
      <3> QED
        BY <1>1, <1>5, <2>1, <3>2, <3>3, SessionsAssumption
    <2> QED
      BY <2>3, <2>4
  <1> QED
    BY <1>6, <1>7

\* A session is opened by a call that has ended what it was to end.
LEMMA RoomTaken ==
  ASSUME SessionInv, NEW h \in Handlers, NEW c, Moves(h, c), c.pc = "idle",
         call[h].pc \in {"issue", "renew"}, NEW n, n \notin Live, Live' = Live \cup {n}
  PROVE  RoomLeft'
  <1>1. /\ call'[h] = c /\ \A g \in Handlers \ {h} : call'[g] = call[g]
        /\ overlaps <= overlaps' /\ overlaps \in Nat /\ overlaps' \in Nat
    BY BusyMoved DEF SessionInv, SessionTyped, BusyCounted
  <1>2. SUFFICES ASSUME NEW Q \in SUBSET Openers'
                 PROVE  Cardinality(Spared(Q)') + Cardinality(Q) <= SessionLimit + overlaps'
    BY DEF RoomLeft
  <1>3. PICK P : P = Q \cup {h}
    OBVIOUS
  <1>4. h \notin Q /\ Q \in SUBSET Openers /\ P \in SUBSET Openers
    BY <1>1, <1>2, <1>3 DEF Openers, Opening
  <1>5. /\ Cardinality(Spared(P)) + Cardinality(P) <= SessionLimit + overlaps
        /\ Cardinality(P) \in Nat /\ Cardinality(Q) \in Nat /\ IsFiniteSet(Q)
        /\ Cardinality(Spared(P)) \in Nat /\ IsFiniteSet(Spared(P))
    BY <1>4, SparedIs DEF SessionInv, RoomLeft
  <1>6. Cardinality(P) = Cardinality(Q) + 1
    BY <1>3, <1>4, <1>5, FS_AddElement
  <1>7. Spared(Q)' \subseteq Spared(P) \cup {n}
    <2>1. \A g \in Q : call'[g] = call[g]
      BY <1>1, <1>4 DEF Openers
    <2>2. Ending(call[h]) = {}
      BY DEF Ending
    <2> QED
      BY <1>3, <2>1, <2>2 DEF Spared
  <1>8. /\ IsFiniteSet(Spared(P) \cup {n})
        /\ Cardinality(Spared(P) \cup {n}) <= Cardinality(Spared(P)) + 1
        /\ Cardinality(Spared(P) \cup {n}) \in Nat
    <2>1. n \notin Spared(P)
      BY DEF Spared
    <2> QED
      BY <1>5, <2>1, FS_AddElement
  <1>9. Cardinality(Spared(Q)') <= Cardinality(Spared(P) \cup {n}) /\ Cardinality(Spared(Q)') \in Nat
    BY <1>7, <1>8, FS_Subset, FS_CardinalityType
  <1> QED
    BY <1>1, <1>5, <1>6, <1>8, <1>9, SessionsAssumption

-----------------------------------------------------------------------------
(* Exchanges of a token *)

LEMMA ExchangingIs ==
  ASSUME SessionTyped, NEW t
  PROVE  /\ IsFiniteSet(Exchanging(t)) /\ Cardinality(Exchanging(t)) \in Nat
         /\ Cardinality(Exchanging(t)) <= overlaps + 1
  <1>1. Exchanging(t) \subseteq Busy
    BY DEF Exchanging, Exchange, Busy, Running, At
  <1>2. IsFiniteSet(Busy) /\ Cardinality(Busy) <= overlaps + 1 /\ overlaps \in Nat
    BY DEF SessionTyped, BusyCounted
  <1> QED
    BY <1>1, <1>2, FS_Subset, FS_CardinalityType

ExchangeStep(h, c) ==
  /\ heirs' = heirs /\ DOMAIN tokens' = DOMAIN tokens /\ Live' \subseteq Live
  /\ c.pc \in Exchange => call[h].pc \in Exchange /\ c.token = call[h].token
  /\ c.pc = "renew" => c.token \notin Live'

LEMMA ExchangesKept ==
  ASSUME SessionInv, NEW h \in Handlers, NEW c, Moves(h, c), ExchangeStep(h, c)
  PROVE  Exchanged'
  <1>1. /\ call'[h] = c /\ \A g \in Handlers \ {h} : call'[g] = call[g]
        /\ overlaps <= overlaps' /\ overlaps \in Nat /\ overlaps' \in Nat
    BY BusyMoved DEF SessionInv, SessionTyped, BusyCounted
  <1>2. SUFFICES ASSUME NEW t \in DOMAIN tokens
                 PROVE  /\ heirs[t] + Cardinality(Exchanging(t)') <= 1 + overlaps'
                        /\ t \in Live' => heirs[t] = 0
                        /\ t \in Live' => \A g \in Handlers :
                                             call'[g].pc = "renew" => call'[g].token # t
    BY DEF Exchanged, ExchangeStep
  <1>3. Exchanging(t)' \subseteq Exchanging(t)
    BY <1>1 DEF Exchanging, ExchangeStep
  <1>4. IsFiniteSet(Exchanging(t)) /\ Cardinality(Exchanging(t)) \in Nat
    BY ExchangingIs DEF SessionInv
  <1>5. /\ Cardinality(Exchanging(t)') <= Cardinality(Exchanging(t))
        /\ Cardinality(Exchanging(t)') \in Nat
    BY <1>3, <1>4, FS_Subset, FS_CardinalityType
  <1>6. heirs[t] \in Nat
    BY LiveIsFinite DEF SessionInv
  <1>7. heirs[t] + Cardinality(Exchanging(t)) <= 1 + overlaps
    BY DEF SessionInv, Exchanged
  <1>8. heirs[t] + Cardinality(Exchanging(t)') <= 1 + overlaps'
    BY <1>1, <1>4, <1>5, <1>6, <1>7
  <1>9. ASSUME t \in Live'
        PROVE  heirs[t] = 0 /\ \A g \in Handlers : call'[g].pc = "renew" => call'[g].token # t
    <2>1. t \in Live
      BY <1>9 DEF ExchangeStep
    <2>2. heirs[t] = 0 /\ \A g \in Handlers : call[g].pc = "renew" => call[g].token # t
      BY <2>1 DEF SessionInv, Exchanged
    <2> QED
      BY <1>1, <1>9, <2>2 DEF ExchangeStep
  <1> QED
    BY <1>8, <1>9

\* A rotation begins with a live token, which was exchanged for none yet.
LEMMA ExchangeBegins ==
  ASSUME SessionInv, NEW h \in Handlers, NEW c, Begin(h, c),
         c.pc = "rotate", c.token \in Live, UNCHANGED <<tokens, heirs>>
  PROVE  Exchanged'
  <1>1. /\ call'[h] = c /\ \A g \in Handlers \ {h} : call'[g] = call[g]
        /\ overlaps <= overlaps' /\ overlaps \in Nat /\ overlaps' \in Nat /\ BusyCounted'
    BY BeginMoves, BusyMoved DEF SessionInv, SessionTyped, BusyCounted
  <1>2. Live' = Live
    BY DEF Live
  <1>3. SUFFICES ASSUME NEW t \in DOMAIN tokens
                 PROVE  heirs[t] + Cardinality(Exchanging(t)') <= 1 + overlaps'
    BY <1>1, <1>2 DEF SessionInv, Exchanged
  <1>4. CASE t = c.token
    <2>1. heirs[t] = 0
      BY <1>4 DEF SessionInv, Exchanged
    <2>2. Exchanging(t)' \subseteq Busy' /\ IsFiniteSet(Busy') /\ Cardinality(Busy') <= overlaps' + 1
      BY <1>1 DEF Exchanging, Exchange, Busy, Running, At, BusyCounted
    <2> QED
      BY <1>1, <2>1, <2>2, FS_Subset, FS_CardinalityType
  <1>5. CASE t # c.token
    <2>1. Exchanging(t)' = Exchanging(t)
      BY <1>1, <1>5 DEF Exchanging, Exchange, Begin, At
    <2>2. Cardinality(Exchanging(t)) \in Nat /\ heirs[t] \in Nat
      BY ExchangingIs, LiveIsFinite DEF SessionInv
    <2>3. heirs[t] + Cardinality(Exchanging(t)) <= 1 + overlaps
      BY DEF SessionInv, Exchanged
    <2> QED
      BY <1>1, <2>1, <2>2, <2>3
  <1> QED
    BY <1>4, <1>5

\* A session is opened, by a login or in exchange for another token.
LEMMA ExchangeEnds ==
  ASSUME SessionInv, NEW h \in Handlers, NEW c, Moves(h, c), c.pc = "idle",
         NEW n, n \notin DOMAIN tokens, DOMAIN tokens' = DOMAIN tokens \cup {n},
         Live' = Live \cup {n}, heirs'[n] = 0,
         \A t \in DOMAIN tokens : heirs'[t] = IF t \in DOMAIN tokens /\ h \in Exchanging(t)
                                              THEN heirs[t] + 1 ELSE heirs[t],
         call[h].pc \in Exchange => call[h].pc = "renew"
  PROVE  Exchanged'
  <1>1. /\ call'[h] = c /\ \A g \in Handlers \ {h} : call'[g] = call[g]
        /\ overlaps <= overlaps' /\ overlaps \in Nat /\ overlaps' \in Nat
    BY BusyMoved DEF SessionInv, SessionTyped, BusyCounted
  <1>2. ASSUME NEW t \in DOMAIN tokens
        PROVE  /\ heirs'[t] + Cardinality(Exchanging(t)') <= 1 + overlaps'
               /\ t \in Live' => heirs'[t] = 0
               /\ t \in Live' => \A g \in Handlers :
                                    call'[g].pc = "renew" => call'[g].token # t
    <2>1. Exchanging(t)' = Exchanging(t) \ {h}
      BY <1>1 DEF Exchanging, Exchange
    <2>2. /\ Cardinality(Exchanging(t)) \in Nat /\ heirs[t] \in Nat
          /\ IsFiniteSet(Exchanging(t))
      BY ExchangingIs, LiveIsFinite DEF SessionInv
    <2>3. /\ heirs[t] + Cardinality(Exchanging(t)) <= 1 + overlaps
          /\ t \in Live => heirs[t] = 0
          /\ t \in Live => \A g \in Handlers : call[g].pc = "renew" => call[g].token # t
      BY DEF SessionInv, Exchanged
    <2>4. t \in Live' <=> t \in Live
      BY <1>2
    <2>5. CASE h \in Exchanging(t)
      <3>1. Cardinality(Exchanging(t)') = Cardinality(Exchanging(t)) - 1
        BY <2>1, <2>2, <2>5, FS_RemoveElement
      <3>2. t \notin Live /\ heirs'[t] = heirs[t] + 1
        BY <1>2, <2>3, <2>5 DEF Exchanging
      <3> QED
        BY <1>1, <2>2, <2>3, <2>4, <3>1, <3>2
    <2>6. CASE h \notin Exchanging(t)
      <3>1. Exchanging(t)' = Exchanging(t) /\ heirs'[t] = heirs[t]
        BY <1>2, <2>1, <2>6
      <3> QED
        BY <1>1, <2>2, <2>3, <2>4, <3>1
    <2> QED
      BY <2>5, <2>6
  <1>3. ASSUME NEW g \in Handlers, call'[g].pc \in Exchange PROVE call'[g].token # n
    <2>1. g # h /\ call[g].pc \in Exchange /\ call'[g] = call[g]
      BY <1>1, <1>3 DEF Exchange
    <2>2. call[g].token \in DOMAIN tokens
      BY <2>1 DEF SessionInv, SessionTyped, SessionCallOK, Exchange
    <2> QED
      BY <2>1, <2>2
  <1>4. Exchanging(n)' = {}
    BY <1>3 DEF Exchanging
  <1>5. Cardinality(Exchanging(n)') = 0
    BY <1>4, FS_EmptySet
  <1>6. heirs'[n] + Cardinality(Exchanging(n)') <= 1 + overlaps'
    <2>1. heirs'[n] + Cardinality(Exchanging(n)') = 0
      BY <1>5
    <2> QED
      BY <1>1, <2>1
  <1> QED
    BY <1>2, <1>3, <1>6 DEF Exchanged, Exchange

-----------------------------------------------------------------------------
(* Usable links *)

LEMMA LinksAre ==
  ASSUME SessionTyped
  PROVE  /\ DOMAIN resets = 1 .. Len(resets) /\ Len(resets) \in Nat
         /\ \A r \in DOMAIN resets : resets[r] \in BOOLEAN
         /\ IsFiniteSet(Usable) /\ Cardinality(Usable) \in Nat
         /\ IsFiniteSet(Sending) /\ Cardinality(Sending) \in Nat
         /\ Cardinality(Sending) <= overlaps + 1
  <1>1. /\ DOMAIN resets = 1 .. Len(resets) /\ Len(resets) \in Nat
        /\ \A r \in DOMAIN resets : resets[r] \in BOOLEAN
    BY DEF SessionTyped, SessionRows
  <1>2. IsFiniteSet(1 .. Len(resets)) /\ Usable \subseteq 1 .. Len(resets)
    <2>1. IsFiniteSet(1 .. Len(resets))
      BY <1>1, FS_Interval
    <2> QED
      BY <1>1, <2>1 DEF Usable
  <1>3. Sending \subseteq Busy /\ IsFiniteSet(Busy) /\ Cardinality(Busy) <= overlaps + 1
        /\ overlaps \in Nat
    BY DEF Sending, Busy, Running, At, SessionTyped, BusyCounted
  <1>4. IsFiniteSet(Usable) /\ Cardinality(Usable) \in Nat
    BY <1>2, FS_Subset, FS_CardinalityType
  <1>5. /\ IsFiniteSet(Sending) /\ Cardinality(Sending) \in Nat
        /\ Cardinality(Sending) <= Cardinality(Busy) /\ Cardinality(Busy) \in Nat
    BY <1>3, FS_Subset, FS_CardinalityType
  <1> QED
    BY <1>1, <1>3, <1>4, <1>5

LinkStep(h, c) == Usable' \subseteq Usable /\ c.pc # "send"

LEMMA LinksKept ==
  ASSUME SessionInv, NEW h \in Handlers, NEW c, Moves(h, c), LinkStep(h, c)
  PROVE  LinksLeft'
  <1>1. /\ call'[h] = c /\ \A g \in Handlers \ {h} : call'[g] = call[g]
        /\ overlaps <= overlaps' /\ overlaps \in Nat /\ overlaps' \in Nat
    BY BusyMoved DEF SessionInv, SessionTyped, BusyCounted
  <1>2. Sending' \subseteq Sending /\ Usable' \subseteq Usable
    BY <1>1 DEF Sending, LinkStep
  <1>3. /\ IsFiniteSet(Usable) /\ Cardinality(Usable) \in Nat
        /\ IsFiniteSet(Sending) /\ Cardinality(Sending) \in Nat
    BY LinksAre DEF SessionInv
  <1>4. /\ Cardinality(Usable') <= Cardinality(Usable) /\ Cardinality(Usable') \in Nat
        /\ Cardinality(Sending') <= Cardinality(Sending) /\ Cardinality(Sending') \in Nat
    BY <1>2, <1>3, FS_Subset, FS_CardinalityType
  <1> QED
    BY <1>1, <1>3, <1>4 DEF SessionInv, LinksLeft

\* The links are used up before one is sent.
LEMMA LinksEnded ==
  ASSUME SessionInv, NEW h \in Handlers, NEW c, Moves(h, c), Usable' = {}
  PROVE  LinksLeft'
  <1>1. BusyCounted' /\ overlaps' \in Nat
    BY BusyMoved DEF SessionInv, SessionTyped, BusyCounted
  <1>2. Sending' \subseteq Busy' /\ IsFiniteSet(Busy') /\ Cardinality(Busy') <= overlaps' + 1
    BY <1>1 DEF Sending, Busy, Running, At, BusyCounted
  <1>3. /\ Cardinality(Sending') <= Cardinality(Busy') /\ Cardinality(Sending') \in Nat
        /\ Cardinality(Busy') \in Nat
    BY <1>2, FS_Subset, FS_CardinalityType
  <1>4. Cardinality(Usable') = 0
    BY FS_EmptySet
  <1> QED
    BY <1>1, <1>2, <1>3, <1>4 DEF LinksLeft

LEMMA LinkSent ==
  ASSUME SessionInv, NEW h \in Handlers, NEW c, Moves(h, c), c.pc = "idle", At(h, "send"),
         NEW n, n \notin Usable, Usable' = Usable \cup {n}
  PROVE  LinksLeft'
  <1>1. /\ call'[h] = c /\ \A g \in Handlers \ {h} : call'[g] = call[g]
        /\ overlaps <= overlaps' /\ overlaps \in Nat /\ overlaps' \in Nat
    BY BusyMoved DEF SessionInv, SessionTyped, BusyCounted
  <1>2. Sending' = Sending \ {h} /\ h \in Sending
    BY <1>1 DEF Sending, At
  <1>3. /\ IsFiniteSet(Usable) /\ Cardinality(Usable) \in Nat
        /\ IsFiniteSet(Sending) /\ Cardinality(Sending) \in Nat
    BY LinksAre DEF SessionInv
  <1>4. /\ Cardinality(Usable') = Cardinality(Usable) + 1
        /\ Cardinality(Sending') = Cardinality(Sending) - 1
    BY <1>2, <1>3, FS_AddElement, FS_RemoveElement
  <1> QED
    BY <1>1, <1>3, <1>4 DEF SessionInv, LinksLeft

-----------------------------------------------------------------------------
(* The count of failed logins *)

MissStep(h, c) ==
  /\ misses' = misses
  /\ \/ account'.failed = account.failed
     \/ call[h].pc \in CountPc /\ account'.failed = call[h].account.failed
  /\ c.pc \in CountPc =>
       \/ c.account.failed = account.failed
       \/ call[h].pc \in CountPc /\ c.account.failed = call[h].account.failed

LEMMA CountsAre ==
  ASSUME SessionTyped
  PROVE  /\ account.failed \in Nat /\ misses \in Nat
         /\ \A h \in Handlers : call[h].pc \in CountPc =>
              call[h].account.failed \in Nat /\ Running(h)
  BY DEF SessionTyped, SessionRows, AccountRow, CountPc, SessionCallOK, IsCall, Running, At

LEMMA MissesStay ==
  ASSUME SessionInv, NEW h \in Handlers, NEW c, Moves(h, c), MissStep(h, c)
  PROVE  MissesKept'
  <1>1. /\ call'[h] = c /\ \A g \in Handlers \ {h} : call'[g] = call[g]
        /\ PastOverlaps \in Nat /\ PastOverlaps' \in Nat /\ PastOverlaps <= PastOverlaps'
    BY BusyMoved DEF SessionInv, SessionTyped
  <1>2. /\ misses \in Nat /\ account.failed \in Nat /\ misses <= account.failed + PastOverlaps
        /\ \A g \in Handlers : call[g].pc \in CountPc =>
             call[g].account.failed \in Nat /\ misses <= call[g].account.failed + PastOverlaps
    BY CountsAre DEF SessionInv, MissesKept
  <1>3. \A i \in Nat : misses <= i + PastOverlaps => misses <= i + PastOverlaps'
    <2>1. ASSUME NEW i \in Nat, NEW m \in Nat, NEW s \in Nat, NEW t \in Nat, s <= t, m <= i + s
          PROVE  m <= i + t
      BY <2>1
    <2> QED
      BY <1>1, <1>2, <2>1
  <1>4. misses' <= account'.failed + PastOverlaps'
    BY <1>2, <1>3 DEF MissStep
  <1>5. ASSUME NEW g \in Handlers, call'[g].pc \in CountPc
        PROVE  misses' <= call'[g].account.failed + PastOverlaps'
    BY <1>1, <1>2, <1>3, <1>5 DEF MissStep
  <1> QED
    BY <1>4, <1>5 DEF MissesKept

\* An attempt failed and is counted from what h read.
LEMMA MissCounted ==
  ASSUME SessionInv, NEW h \in Handlers, NEW c, Moves(h, c), c.pc = "idle",
         call[h].pc \in CountPc, misses' = misses + 1,
         account'.failed = call[h].account.failed + 1
  PROVE  MissesKept'
  <1>1. /\ call'[h] = c /\ \A g \in Handlers \ {h} : call'[g] = call[g]
        /\ PastOverlaps \in Nat /\ PastOverlaps' \in Nat /\ PastOverlaps <= PastOverlaps'
        /\ Running(h) /\ (\E g \in Handlers \ {h} : Running(g)) => PastOverlaps + 1 <= PastOverlaps'
    BY BusyMoved DEF SessionInv, SessionTyped
  <1>2. /\ misses \in Nat
        /\ \A g \in Handlers : call[g].pc \in CountPc =>
             /\ call[g].account.failed \in Nat /\ misses <= call[g].account.failed + PastOverlaps
             /\ Running(g)
    BY CountsAre DEF SessionInv, MissesKept
  <1>3. misses' <= account'.failed + PastOverlaps'
    BY <1>1, <1>2
  <1>4. ASSUME NEW g \in Handlers, call'[g].pc \in CountPc
        PROVE  misses' <= call'[g].account.failed + PastOverlaps'
    <2>1. g # h /\ call'[g] = call[g]
      BY <1>1, <1>4 DEF CountPc
    <2>2. PastOverlaps + 1 <= PastOverlaps'
      BY <1>1, <1>2, <1>4, <2>1
    <2> QED
      BY <1>1, <1>2, <1>4, <2>1, <2>2
  <1> QED
    BY <1>3, <1>4 DEF MissesKept

LEMMA SumOfNats == \A i, j \in Nat : 0 <= i + j
  OBVIOUS

\* The count begins again.
LEMMA MissesEnd ==
  ASSUME SessionTyped, NEW h \in Handlers, NEW c, Moves(h, c), SessionCallOK(c)',
         misses' = 0, account'.failed \in Nat
  PROVE  MissesKept'
  <1>1. /\ call'[h] = c /\ \A g \in Handlers \ {h} : call'[g] = call[g]
        /\ PastOverlaps' \in Nat
    BY BusyMoved DEF SessionTyped
  <1>2. \A g \in Handlers : call'[g].pc \in CountPc => call'[g].account.failed \in Nat
    BY <1>1 DEF SessionTyped, SessionCallOK, IsCall, AccountRow, CountPc
  <1>3. \A i \in Nat : misses' <= i + PastOverlaps'
    BY <1>1, SumOfNats
  <1> QED
    BY <1>2, <1>3 DEF MissesKept

-----------------------------------------------------------------------------
(* Steps *)

\* What is left to show of a step once the handler that makes it is known.
LEMMA SessionMoves ==
  ASSUME SessionInv, NEW h \in Handlers, NEW c, Moves(h, c), SessionRows',
         DOMAIN tokens \subseteq DOMAIN tokens', DOMAIN resets \subseteq DOMAIN resets',
         SessionCallOK(c)', RoomLeft', Exchanged', LinksLeft', MissesKept',
         Calm' /\ Calm /\ Undisturbed /\ (\A g \in Handlers \ {h} : call[g].pc = "idle") =>
           /\ Knows(c)' /\ account'.password >= reset'
           /\ c.pc # "revokeAll" => \A t \in Live' : tokens'[t].password >= reset'
  PROVE  SessionInv'
  <1>1. /\ HandlersOK' /\ BusyCounted'
        /\ call'[h] = c /\ \A g \in Handlers \ {h} : call'[g] = call[g]
        /\ Calm' => Calm /\ \A g \in Handlers \ {h} : call[g].pc = "idle"
    BY Moved, BusyMoved DEF SessionInv, SessionTyped
  <1>2. ASSUME NEW g \in Handlers PROVE SessionCallOK(call[g])'
    <2>1. CASE g = h
      BY <1>1, <2>1
    <2>2. CASE g # h
      <3>1. SessionCallOK(call[g]) /\ call'[g] = call[g]
        BY <1>1, <2>2 DEF SessionInv, SessionTyped
      <3> QED
        BY <3>1 DEF SessionCallOK
    <2> QED
      BY <2>1, <2>2
  <1>3. ASSUME Calm' PROVE Undisturbed'
    <2>1. /\ Calm /\ Undisturbed
          /\ \A g \in Handlers \ {h} : call'[g].pc = "idle" /\ call[g].pc = "idle"
      BY <1>1, <1>3 DEF SessionInv
    <2>2. \A g \in Handlers \ {h} : Knows(call[g])'
      BY <2>1 DEF Knows, LoginPc, OpenPc, Exchange
    <2>3. Knows(call[h])'
      BY <1>1, <1>3, <2>1
    <2> QED
      BY <1>1, <1>3, <2>1, <2>2, <2>3 DEF Undisturbed
  <1>4. SessionTyped'
    BY <1>1, <1>2 DEF SessionTyped
  <1> QED
    BY <1>3, <1>4 DEF SessionInv

\* The tables are left alone, but that a password may be chosen.
LEMMA SessionReads ==
  ASSUME SessionInv, NEW h \in Handlers, NEW c, Moves(h, c),
         UNCHANGED <<account, tokens, resets, minute, heirs, reset, misses>>,
         chosen' \in Nat, chosen <= chosen', SessionCallOK(c), c.pc # "send",
         c.pc \in Opening => RoomLeft',
         c.pc \in Exchange => Exchanged',
         c.pc \in CountPc =>
           \/ c.account.failed = account.failed
           \/ call[h].pc \in CountPc /\ c.account.failed = call[h].account.failed,
         c.pc = "revokeAll" \/ call[h].pc # "revokeAll",
         Undisturbed /\ (\A g \in Handlers \ {h} : call[g].pc = "idle") => Knows(c)
  PROVE  SessionInv'
  <1>1. Live' = Live /\ Usable' = Usable
    BY DEF Live, Usable
  <1>2. SessionRows' /\ SessionCallOK(c)' /\ (Knows(c) => Knows(c)')
    BY DEF SessionInv, SessionTyped, SessionRows, SessionCallOK, Knows
  <1>3. RoomLeft'
    <2>1. c.pc \notin Opening => RoomStep(h, c)
      BY <1>1 DEF RoomStep
    <2> QED
      BY <2>1, RoomKept
  <1>4. Exchanged'
    <2>1. c.pc \notin Exchange => ExchangeStep(h, c)
      BY <1>1 DEF ExchangeStep, Exchange
    <2> QED
      BY <2>1, ExchangesKept
  <1>5. LinksLeft' /\ MissesKept'
    BY <1>1, LinksKept, MissesStay DEF LinkStep, MissStep
  <1>6. Undisturbed /\ (\A g \in Handlers \ {h} : call[g].pc = "idle") =>
          /\ Knows(c)' /\ account'.password >= reset'
          /\ c.pc # "revokeAll" => \A t \in Live' : tokens'[t].password >= reset'
    BY <1>1, <1>2 DEF Undisturbed
  <1> QED
    BY <1>2, <1>3, <1>4, <1>5, <1>6, SessionMoves

\* The record of a call that goes on.
LEMMA GoesTo ==
  ASSUME SessionTyped, NEW h \in Handlers, NEW pc, ~At(h, "idle"), Goto(h, pc)
  PROVE  \E d : /\ Moves(h, d) /\ d.pc = pc /\ IsCall(d)
                /\ d.account = call[h].account /\ d.password = call[h].password
                /\ d.token = call[h].token /\ d.over = call[h].over /\ d.dirty = call[h].dirty
  <1>1. PICK c : c = call[h] /\ IsCall(c)
    BY DEF SessionTyped, SessionCallOK, At
  <1>2. PICK d : d = [c EXCEPT !.pc = pc]
    OBVIOUS
  <1>3. /\ d.pc = pc /\ IsCall(d) /\ d.account = c.account /\ d.password = c.password
        /\ d.token = c.token /\ d.over = c.over /\ d.dirty = c.dirty
    BY <1>1, <1>2 DEF IsCall
  <1>4. Moves(h, d)
    BY <1>1, <1>2, BecomeMoves DEF Goto, Running
  <1> QED
    BY <1>1, <1>3, <1>4

\* A call that is over, or not begun, knows nothing.
LEMMA SessionIdle ==
  /\ SessionCallOK(Idle) /\ SessionCallOK(Idle)' /\ Knows(Idle) /\ Knows(Idle)'
  /\ Idle.pc \notin Opening \cup Exchange \cup CountPc
  /\ Idle.pc = "idle"
  BY DEF SessionCallOK, Idle, Knows, LoginPc, OpenPc, Opening, Exchange, CountPc

LEMMA SessionInitOK == SessionInit => SessionInv
  <1> SUFFICES ASSUME SessionInit PROVE SessionInv
    OBVIOUS
  <1>1. HandlersOK /\ BusyCounted /\ PastOverlaps = 0 /\ overlaps = 0
    BY NoneBusy DEF SessionInit, ServerInit
  <1>2. /\ account = NoAccount /\ minute = 0 /\ tokens = <<>> /\ heirs = <<>> /\ resets = <<>>
        /\ chosen = 1 /\ reset = 0 /\ misses = 0
        /\ account.failed = 0 /\ account.password = 1
    BY DEF SessionInit, NoAccount
  <1>3. \A h \in Handlers : call[h] = Idle
    BY DEF SessionInit, ServerInit
  <1>4. SessionTyped
    <2>1. account \in AccountRow
      BY <1>2 DEF NoAccount, AccountRow
    <2> QED
      BY <1>1, <1>2, <1>3, <2>1, SessionIdle DEF SessionTyped, SessionRows
  <1>5. Live = {} /\ Usable = {} /\ Sending = {} /\ Openers = {} /\ DOMAIN tokens = {}
    BY <1>2, <1>3, SessionIdle DEF Live, Usable, Sending, Openers
  <1>6. RoomLeft /\ Exchanged /\ LinksLeft
    <2>1. Spared({}) = {}
      BY <1>5 DEF Spared
    <2>2. Cardinality({}) = 0
      BY FS_EmptySet
    <2>3. \A Q \in SUBSET Openers : Q = {}
      BY <1>5
    <2>4. RoomLeft
      BY <1>1, <2>1, <2>2, <2>3, SessionsAssumption DEF RoomLeft
    <2> QED
      BY <1>1, <1>5, <2>2, <2>4 DEF Exchanged, LinksLeft
  <1>7. MissesKept
    BY <1>1, <1>2, <1>3, SessionIdle DEF MissesKept
  <1>8. Undisturbed
    BY <1>2, <1>3, <1>5, SessionIdle DEF Undisturbed
  <1> QED
    BY <1>4, <1>6, <1>7, <1>8 DEF SessionInv

LEMMA SessionCrashes ==
  ASSUME SessionInv, NEW h \in Handlers, SessionCrash(h)
  PROVE  SessionInv'
  <1>1. Moves(h, Idle) /\ ~Calm'
    <2>1. overlaps \in Nat
      BY DEF SessionInv, SessionTyped, HandlersOK
    <2>2. overlaps' = overlaps + 1
      BY DEF SessionCrash, Crash, Disturb, Quiet
    <2> QED
      BY <2>1, <2>2, CrashMoves DEF SessionCrash, Calm
  <1>2. UNCHANGED <<account, tokens, resets, minute, heirs, chosen, reset, misses>>
    BY DEF SessionCrash, sessionTables, histories
  <1>3. Live' = Live /\ Usable' = Usable
    BY <1>2 DEF Live, Usable
  <1>4. RoomStep(h, Idle) /\ ExchangeStep(h, Idle) /\ LinkStep(h, Idle) /\ MissStep(h, Idle)
    BY <1>2, <1>3, SessionIdle DEF RoomStep, ExchangeStep, LinkStep, MissStep
  <1>5. SessionRows'
    BY <1>2 DEF SessionInv, SessionTyped, SessionRows
  <1> QED
    BY <1>1, <1>2, <1>4, <1>5, SessionIdle, SessionMoves, RoomKept, ExchangesKept, LinksKept,
       MissesStay

-----------------------------------------------------------------------------
(* Calls begin *)

LEMMA NoAccountOK == NoAccount \in AccountRow /\ 0 \in Nat
  BY DEF NoAccount, AccountRow

LEMMA LoginKeeps ==
  ASSUME SessionInv, NEW h \in Handlers, Login(h)
  PROVE  SessionInv'
  <1>1. account \in AccountRow /\ account.password \in Nat /\ chosen \in Nat
    BY DEF SessionInv, SessionTyped, SessionRows, AccountRow
  <1>2. PICK p, c : /\ c = [FirstCall EXCEPT !.account = account, !.password = p]
                    /\ Begin(h, c) /\ p \in {0, account.password}
    BY DEF Login
  <1>3. c = [pc |-> "verify", account |-> account, password |-> p, token |-> 0, over |-> {},
             dirty |-> {}]
    BY <1>2 DEF FirstCall
  <1>4. SessionCallOK(c) /\ c.pc = "verify" /\ c.account = account
    <2>1. p \in Nat
      BY <1>1, <1>2
    <2> QED
      BY <1>1, <1>3, <2>1 DEF SessionCallOK, IsCall
  <1>5. Undisturbed => Knows(c)
    BY <1>4 DEF Undisturbed, Knows, Login, LoginPc, OpenPc, Exchange
  <1>6. Moves(h, c) /\ call[h].pc # "revokeAll"
    BY <1>2, BeginMoves DEF Begin, At
  <1>7. UNCHANGED <<account, tokens, resets, minute, heirs, chosen, reset, misses>>
    BY DEF Login, sessionTables, histories
  <1> QED
    BY <1>1, <1>4, <1>5, <1>6, <1>7, SessionReads DEF Opening, Exchange

\* Calls that begin with a token or a link, or with nothing.
LEMMA SessionBegins ==
  ASSUME SessionInv, NEW h \in Handlers, NEW pc, NEW t, NEW c,
         c = [pc |-> pc, account |-> NoAccount, password |-> 0, token |-> t, over |-> {},
              dirty |-> {}],
         Begin(h, c), UNCHANGED <<sessionTables, minute>>,
         pc \in {"rotate", "revokeAll", "logout", "use", "invalidate"},
         pc = "rotate" => t \in Live,
         pc = "use" => t \in DOMAIN resets
  PROVE  SessionInv'
  <1>1. c.pc = pc /\ c.token = t
    OBVIOUS
  <1>2. SessionCallOK(c)
    BY <1>1, NoAccountOK DEF SessionCallOK, IsCall, Live
  <1>3. Moves(h, c) /\ call[h].pc = "idle" /\ chosen \in Nat
    BY BeginMoves DEF Begin, At, SessionInv, SessionTyped, SessionRows
  <1>4. Undisturbed /\ (\A g \in Handlers \ {h} : call[g].pc = "idle") => Knows(c)
    <2>1. SUFFICES ASSUME Undisturbed, \A g \in Handlers \ {h} : call[g].pc = "idle", pc = "rotate"
                   PROVE  tokens[t].password >= reset
      BY <1>1 DEF Knows, LoginPc, OpenPc, Exchange
    <2>2. \A g \in Handlers : call[g].pc # "revokeAll"
      BY <1>3, <2>1
    <2> QED
      BY <2>1, <2>2 DEF Undisturbed
  <1>5. UNCHANGED <<account, tokens, resets, minute, heirs, chosen, reset, misses>>
    BY DEF sessionTables, histories
  <1>6. pc = "rotate" => RoomLeft' /\ Exchanged'
    <2>1. Live' = Live
      BY <1>5 DEF Live
    <2> QED
      BY <1>1, <1>5, <2>1, RoomExchanged, ExchangeBegins
  <1> QED
    BY <1>1, <1>2, <1>3, <1>4, <1>5, <1>6, SessionReads DEF Opening, Exchange, CountPc

LEMMA TokenCallsBegin ==
  ASSUME SessionInv, NEW h \in Handlers,
         RefreshTokens(h) \/ Logout(h) \/ ForgotPassword(h) \/ ResetPassword(h)
  PROVE  SessionInv'
  <1>1. UNCHANGED <<sessionTables, minute>>
    BY DEF RefreshTokens, Logout, ForgotPassword, ResetPassword
  <1>2. CASE RefreshTokens(h)
    <2>1. PICK t, pc, c :
            /\ t \in DOMAIN tokens
            /\ pc = IF Exchangeable(t) THEN "rotate" ELSE "revokeAll"
            /\ c = [FirstCall EXCEPT !.token = t, !.pc = pc] /\ Begin(h, c)
      BY <1>2 DEF RefreshTokens
    <2>2. c = [pc |-> pc, account |-> NoAccount, password |-> 0, token |-> t, over |-> {},
               dirty |-> {}]
      BY <2>1 DEF FirstCall
    <2>3. pc \in {"rotate", "revokeAll"} /\ (pc = "rotate" => t \in Live)
      BY <2>1 DEF Exchangeable, Live
    <2> QED
      BY <1>1, <2>1, <2>2, <2>3, SessionBegins
  <1>3. CASE Logout(h)
    <2>1. PICK t, c : c = [FirstCall EXCEPT !.pc = "logout", !.token = t] /\ Begin(h, c)
      BY <1>3 DEF Logout
    <2>2. c = [pc |-> "logout", account |-> NoAccount, password |-> 0, token |-> t, over |-> {},
               dirty |-> {}]
      BY <2>1 DEF FirstCall
    <2>3. Begin(h, c)
      BY <2>1
    <2> QED
      BY <1>1, <2>2, <2>3, SessionBegins
  <1>4. CASE ForgotPassword(h)
    <2>1. PICK c : c = [FirstCall EXCEPT !.pc = "invalidate"] /\ Begin(h, c)
      BY <1>4 DEF ForgotPassword
    <2>2. c = [pc |-> "invalidate", account |-> NoAccount, password |-> 0, token |-> 0,
               over |-> {}, dirty |-> {}]
      BY <2>1 DEF FirstCall
    <2>3. Begin(h, c)
      BY <2>1
    <2> QED
      BY <1>1, <2>2, <2>3, SessionBegins
  <1>5. CASE ResetPassword(h)
    <2>1. PICK r, c : /\ c = [FirstCall EXCEPT !.pc = "use", !.token = r]
                      /\ Begin(h, c) /\ r \in DOMAIN resets
      BY <1>5 DEF ResetPassword
    <2>2. c = [pc |-> "use", account |-> NoAccount, password |-> 0, token |-> r, over |-> {},
               dirty |-> {}]
      BY <2>1 DEF FirstCall
    <2>3. Begin(h, c) /\ r \in DOMAIN resets
      BY <2>1
    <2> QED
      BY <1>1, <2>2, <2>3, SessionBegins
  <1> QED
    BY <1>2, <1>3, <1>4, <1>5

\* The administrator gives the account a password never chosen before, or leaves
\* the one it has.
LEMMA UpdateUserKeeps ==
  ASSUME SessionInv, NEW h \in Handlers, UpdateUser(h)
  PROVE  SessionInv'
  <1>1. /\ account \in AccountRow /\ account.password \in Nat /\ account.failed \in Nat
        /\ chosen \in Nat /\ reset \in Nat /\ reset <= chosen
    BY DEF SessionInv, SessionTyped, SessionRows, AccountRow
  <1>2. PICK p \in {account.password, chosen + 1}, on \in BOOLEAN :
          /\ Begin(h, [FirstCall EXCEPT !.pc = "select",
                         !.account = [account EXCEPT !.password = p, !.active = on]])
          /\ chosen' = IF p = account.password THEN chosen ELSE p
          /\ UNCHANGED <<account, tokens, resets, minute, heirs, reset, misses>>
    BY DEF UpdateUser
  <1>3. PICK a : a = [account EXCEPT !.password = p, !.active = on]
    OBVIOUS
  <1>4. /\ a \in AccountRow /\ a.password = p /\ a.failed = account.failed
        /\ a.locked = account.locked
    <2>1. p \in Nat
      BY <1>1
    <2> QED
      BY <1>1, <1>3, <2>1 DEF AccountRow
  <1>5. PICK c : c = [FirstCall EXCEPT !.pc = "select", !.account = a] /\ Begin(h, c)
    BY <1>2, <1>3
  <1>6. c = [pc |-> "select", account |-> a, password |-> 0, token |-> 0, over |-> {},
             dirty |-> {}]
    BY <1>5 DEF FirstCall
  <1>7. SessionCallOK(c) /\ c.pc = "select" /\ c.account = a
    BY <1>4, <1>6 DEF SessionCallOK, IsCall
  <1>8. Undisturbed => Knows(c)
    <2>1. Undisturbed => p >= reset
      BY <1>1, <1>2 DEF Undisturbed
    <2> QED
      BY <1>4, <1>7, <2>1 DEF Knows, LoginPc, OpenPc, Exchange
  <1>9. chosen' \in Nat /\ chosen <= chosen'
    BY <1>1, <1>2
  <1>10. Moves(h, c) /\ call[h].pc # "revokeAll"
    BY <1>5, BeginMoves DEF Begin, At
  <1>11. UNCHANGED <<account, tokens, resets, minute, heirs, reset, misses>>
    BY <1>2
  <1> QED
    BY <1>4, <1>7, <1>8, <1>9, <1>10, <1>11, SessionReads DEF Opening, Exchange

-----------------------------------------------------------------------------
(* Logins go on *)

LEMMA VerifyKeeps ==
  ASSUME SessionInv, NEW h \in Handlers, Verify(h)
  PROVE  SessionInv'
  <1>1. PICK c : c = call[h] /\ c.pc = "verify" /\ SessionCallOK(c) /\ ~At(h, "idle")
    BY DEF Verify, At, SessionInv, SessionTyped
  <1>2. PICK d : /\ Moves(h, d) /\ IsCall(d)
                 /\ d.pc = IF c.password = c.account.password THEN "clear" ELSE "fail"
                 /\ d.account = c.account /\ d.password = c.password
    BY <1>1, GoesTo DEF Verify, SessionInv
  <1>3. SessionCallOK(d)
    BY <1>2 DEF SessionCallOK
  <1>4. Undisturbed => Knows(d)
    BY <1>1, <1>2 DEF Undisturbed, Knows, LoginPc, OpenPc, Exchange
  <1>5. UNCHANGED <<account, tokens, resets, minute, heirs, chosen, reset, misses>>
    BY DEF Verify, sessionTables, histories
  <1>6. chosen \in Nat
    BY DEF SessionInv, SessionTyped, SessionRows
  <1> QED
    BY <1>1, <1>2, <1>3, <1>4, <1>5, <1>6, SessionReads DEF Opening, Exchange, CountPc

\* The login is over, its attempt counted from what it read.
LEMMA FailAttemptKeeps ==
  ASSUME SessionInv, NEW h \in Handlers, FailAttempt(h)
  PROVE  SessionInv'
  <1>1. PICK c : c = call[h] /\ c.pc = "fail" /\ IsCall(c) /\ Running(h)
    BY DEF FailAttempt, At, Running, SessionInv, SessionTyped, SessionCallOK
  <1>2. Moves(h, Idle)
    BY <1>1, BecomeMoves DEF FailAttempt, Return
  <1>3. /\ account \in AccountRow /\ minute \in Nat /\ c.account.failed \in Nat
        /\ c.account.failed + 1 \in Nat /\ LockTime \in Nat
    BY <1>1, SessionsAssumption DEF SessionInv, SessionTyped, SessionRows, IsCall, AccountRow
  <1>4. /\ account' \in AccountRow /\ account'.password = account.password
        /\ account'.failed = c.account.failed + 1
    <2>1. PICK n \in Nat : n = call[h].account.failed + 1
      BY <1>1, <1>3
    <2>2. PICK l \in Nat : l = IF n >= MaxAttempts THEN minute + LockTime ELSE 0
      BY <1>3
    <2>3. account' = [account EXCEPT !.failed = n, !.locked = l]
      BY <2>1, <2>2 DEF FailAttempt
    <2> QED
      BY <1>1, <1>3, <2>1, <2>3 DEF AccountRow
  <1>5. UNCHANGED <<tokens, resets, minute, heirs, chosen, reset>> /\ misses' = misses + 1
    BY DEF FailAttempt
  <1>6. Live' = Live /\ Usable' = Usable
    BY <1>5 DEF Live, Usable
  <1>7. RoomLeft' /\ Exchanged' /\ LinksLeft'
    BY <1>2, <1>5, <1>6, SessionIdle, RoomKept, ExchangesKept, LinksKept
       DEF RoomStep, ExchangeStep, LinkStep
  <1>8. MissesKept'
    BY <1>1, <1>2, <1>4, <1>5, SessionIdle, MissCounted DEF CountPc
  <1>9. SessionRows'
    BY <1>4, <1>5 DEF SessionInv, SessionTyped, SessionRows
  <1>10. Undisturbed /\ (\A g \in Handlers \ {h} : call[g].pc = "idle") =>
           account'.password >= reset' /\ \A t \in Live' : tokens'[t].password >= reset'
    BY <1>1, <1>4, <1>5, <1>6 DEF Undisturbed
  <1> QED
    BY <1>2, <1>5, <1>7, <1>8, <1>9, <1>10, SessionIdle, SessionMoves

LEMMA ClearFailuresKeeps ==
  ASSUME SessionInv, NEW h \in Handlers, ClearFailures(h)
  PROVE  SessionInv'
  <1>1. PICK c : c = call[h] /\ c.pc = "clear" /\ ~At(h, "idle")
    BY DEF ClearFailures, At
  <1>2. PICK d : Moves(h, d) /\ IsCall(d) /\ d.pc = "sessions" /\ d.password = c.password
    BY <1>1, GoesTo DEF ClearFailures, SessionInv
  <1>3. /\ account' \in AccountRow /\ account'.password = account.password
        /\ account'.failed = 0
    BY DEF ClearFailures, SessionInv, SessionTyped, SessionRows, AccountRow
  <1>4. UNCHANGED <<tokens, resets, minute, heirs, chosen, reset>> /\ misses' = 0
    BY DEF ClearFailures
  <1>5. Live' = Live /\ Usable' = Usable
    BY <1>4 DEF Live, Usable
  <1>6. SessionCallOK(d)'
    BY <1>2 DEF SessionCallOK, IsCall
  <1>7. RoomLeft' /\ Exchanged' /\ LinksLeft' /\ MissesKept'
    <2>1. RoomStep(h, d) /\ ExchangeStep(h, d) /\ LinkStep(h, d)
      BY <1>2, <1>4, <1>5 DEF RoomStep, ExchangeStep, LinkStep, Opening, Exchange
    <2> QED
      BY <1>2, <1>3, <1>4, <1>6, <2>1, RoomKept, ExchangesKept, LinksKept, MissesEnd DEF SessionInv
  <1>8. SessionRows'
    BY <1>3, <1>4 DEF SessionInv, SessionTyped, SessionRows
  <1>9. Undisturbed /\ (\A g \in Handlers \ {h} : call[g].pc = "idle") =>
          /\ Knows(d)' /\ account'.password >= reset'
          /\ \A t \in Live' : tokens'[t].password >= reset'
    BY <1>1, <1>2, <1>3, <1>4, <1>5 DEF Undisturbed, Knows, LoginPc, OpenPc, Exchange
  <1> QED
    BY <1>2, <1>4, <1>6, <1>7, <1>8, <1>9, SessionMoves

LEMMA ListSessionsKeeps ==
  ASSUME SessionInv, NEW h \in Handlers, ListSessions(h)
  PROVE  SessionInv'
  <1>1. PICK c : c = call[h] /\ c.pc = "sessions" /\ IsCall(c) /\ Running(h)
    BY DEF ListSessions, At, Running, SessionInv, SessionTyped, SessionCallOK
  <1>2. PICK d : d = [c EXCEPT !.pc = "revoke", !.over = Surplus] /\ Become(h, d)
    BY <1>1 DEF ListSessions
  <1>3. /\ d.pc = "revoke" /\ d.password = c.password /\ d.over = Surplus /\ IsCall(d)
    BY <1>1, <1>2 DEF IsCall
  <1>4. SessionCallOK(d) /\ Moves(h, d)
    BY <1>1, <1>2, <1>3, BecomeMoves DEF SessionCallOK
  <1>5. UNCHANGED <<account, tokens, resets, minute, heirs, chosen, reset, misses>>
    BY DEF ListSessions, sessionTables, histories
  <1>6. RoomLeft'
    <2>1. Live' = Live
      BY <1>5 DEF Live
    <2> QED
      BY <1>3, <1>4, <2>1, RoomMade
  <1>7. Undisturbed => Knows(d)
    BY <1>1, <1>3 DEF Undisturbed, Knows, LoginPc, OpenPc, Exchange
  <1>8. chosen \in Nat
    BY DEF SessionInv, SessionTyped, SessionRows
  <1> QED
    BY <1>1, <1>3, <1>4, <1>5, <1>6, <1>7, <1>8, SessionReads DEF Exchange, CountPc

-----------------------------------------------------------------------------
(* Tokens end and begin *)

\* Steps that change tokens only, and add none.
LEMMA SessionRevokes ==
  ASSUME SessionInv, NEW h \in Handlers, NEW c, Moves(h, c), NEW S, RevokeTokens(S),
         UNCHANGED <<account, resets, minute, histories>>, SessionCallOK(c),
         c.pc \notin CountPc \cup {"send"},
         c.pc \in Opening => call[h].pc \in Opening
                             /\ \A t \in Ending(call[h]) : t \in S \/ t \in Ending(c),
         c.pc \in Exchange => call[h].pc \in Exchange /\ c.token = call[h].token,
         c.pc = "renew" => c.token \in S,
         Undisturbed /\ (\A g \in Handlers \ {h} : call[g].pc = "idle") => Knows(c)',
         c.pc # "revokeAll" /\ call[h].pc = "revokeAll" => Live \subseteq S
  PROVE  SessionInv'
  <1>1. SessionTyped /\ UNCHANGED <<heirs, chosen, reset, misses>>
    BY DEF SessionInv, histories
  <1>2. /\ tokens' \in Seq(TokenRow) /\ Len(tokens') = Len(tokens)
        /\ DOMAIN tokens' = DOMAIN tokens /\ Live' = Live \ S
        /\ \A t \in DOMAIN tokens : tokens'[t].password = tokens[t].password
    BY <1>1, TokensRevoked
  <1>3. SessionCallOK(c)' /\ SessionRows' /\ Usable' = Usable
    BY <1>1, <1>2 DEF SessionCallOK, SessionTyped, SessionRows, Usable
  <1>4. RoomLeft' /\ Exchanged' /\ LinksLeft' /\ MissesKept'
    <2>1. RoomStep(h, c)
      BY <1>2 DEF RoomStep
    <2>2. ExchangeStep(h, c) /\ LinkStep(h, c) /\ MissStep(h, c)
      BY <1>1, <1>2, <1>3 DEF ExchangeStep, LinkStep, MissStep
    <2> QED
      BY <2>1, <2>2, RoomKept, ExchangesKept, LinksKept, MissesStay
  <1>5. Undisturbed /\ (\A g \in Handlers \ {h} : call[g].pc = "idle") =>
          /\ account'.password >= reset'
          /\ c.pc # "revokeAll" => \A t \in Live' : tokens'[t].password >= reset'
    <2> SUFFICES ASSUME Undisturbed, \A g \in Handlers \ {h} : call[g].pc = "idle"
                 PROVE  /\ account'.password >= reset'
                        /\ c.pc # "revokeAll" => \A t \in Live' : tokens'[t].password >= reset'
      OBVIOUS
    <2>1. account.password >= reset
          /\ (call[h].pc # "revokeAll" => \A t \in Live : tokens[t].password >= reset)
      BY DEF Undisturbed
    <2>2. Live \subseteq DOMAIN tokens
      BY DEF Live
    <2> QED
      BY <1>1, <1>2, <2>1, <2>2
  <1> QED
    BY <1>1, <1>2, <1>3, <1>4, <1>5, SessionMoves

LEMMA RevokeOldestKeeps ==
  ASSUME SessionInv, NEW h \in Handlers, RevokeOldest(h)
  PROVE  SessionInv'
  <1>1. PICK c : c = call[h] /\ c.pc = "revoke" /\ IsCall(c) /\ ~At(h, "idle") /\ Running(h)
    BY DEF RevokeOldest, At, Running, SessionInv, SessionTyped, SessionCallOK
  <1>2. UNCHANGED <<account, resets, minute, heirs, chosen, reset, misses>> /\ chosen \in Nat
    BY DEF RevokeOldest, histories, SessionInv, SessionTyped, SessionRows
  <1>3. CASE c.over = {}
    <2>1. PICK d : Moves(h, d) /\ IsCall(d) /\ d.pc = "issue" /\ d.password = c.password
      BY <1>1, <1>3, GoesTo DEF RevokeOldest, SessionInv
    <2>2. tokens' = tokens
      BY <1>1, <1>3 DEF RevokeOldest
    <2>3. RoomStep(h, d)
      BY <1>1, <1>3, <2>1, <2>2 DEF RoomStep, Ending, Live, Opening
    <2>4. SessionCallOK(d)
      BY <2>1 DEF SessionCallOK
    <2>5. Undisturbed => Knows(d)
      BY <1>1, <2>1 DEF Undisturbed, Knows, LoginPc, OpenPc, Exchange
    <2> QED
      BY <1>1, <1>2, <2>1, <2>2, <2>3, <2>4, <2>5, RoomKept, SessionReads DEF Exchange, CountPc
  <1>4. CASE c.over # {}
    <2>1. PICK t : t = CHOOSE u \in c.over : \A w \in c.over : u <= w
      OBVIOUS
    <2>2. PICK d : d = [c EXCEPT !.over = c.over \ {t}] /\ Become(h, d)
      BY <1>1, <1>4, <2>1 DEF RevokeOldest
    <2>3. RevokeTokens({t})
      BY <1>1, <1>4, <2>1 DEF RevokeOldest
    <2>4. d.pc = "revoke" /\ d.password = c.password /\ d.over = c.over \ {t} /\ IsCall(d)
      BY <1>1, <2>2 DEF IsCall
    <2>5. SessionCallOK(d) /\ Moves(h, d)
      BY <1>1, <2>2, <2>4, BecomeMoves DEF SessionCallOK
    <2>6. \A u \in Ending(c) : u \in {t} \/ u \in Ending(d)
      BY <1>1, <2>4 DEF Ending
    <2>7. Undisturbed => Knows(d)'
      BY <1>1, <1>2, <2>4 DEF Undisturbed, Knows, LoginPc, OpenPc, Exchange
    <2>8. UNCHANGED <<account, resets, minute, histories>>
      BY DEF RevokeOldest
    <2> QED
      BY <1>1, <2>3, <2>4, <2>5, <2>6, <2>7, <2>8, SessionRevokes DEF CountPc, Opening, Exchange
  <1> QED
    BY <1>3, <1>4

\* Calls that only revoke, and are over.
LEMMA RevocationEnds ==
  ASSUME SessionInv, NEW h \in Handlers, RevokeAll(h) \/ RevokeToken(h)
  PROVE  SessionInv'
  <1>1. Running(h) /\ Return(h) /\ UNCHANGED <<account, resets, minute, histories>>
    BY DEF RevokeAll, RevokeToken, At, Running
  <1>2. Moves(h, Idle)
    BY <1>1, BecomeMoves DEF Return
  <1>3. CASE RevokeAll(h)
    <2>1. Live \subseteq DOMAIN tokens /\ RevokeTokens(DOMAIN tokens)
      BY <1>3 DEF RevokeAll, Live
    <2> QED
      BY <1>1, <1>2, <2>1, SessionIdle, SessionRevokes
  <1>4. CASE RevokeToken(h)
    <2>1. RevokeTokens({call[h].token}) /\ call[h].pc # "revokeAll"
      BY <1>4 DEF RevokeToken, At
    <2> QED
      BY <1>1, <1>2, <2>1, SessionIdle, SessionRevokes
  <1> QED
    BY <1>3, <1>4

LEMMA RotateTokenKeeps ==
  ASSUME SessionInv, NEW h \in Handlers, RotateToken(h)
  PROVE  SessionInv'
  <1>1. PICK c : c = call[h] /\ c.pc = "rotate" /\ SessionCallOK(c) /\ ~At(h, "idle")
    BY DEF RotateToken, At, SessionInv, SessionTyped
  <1>2. PICK d : Moves(h, d) /\ d.pc = "renew" /\ IsCall(d) /\ d.token = c.token
    BY <1>1, GoesTo DEF RotateToken, SessionInv
  <1>3. SessionCallOK(d)
    BY <1>1, <1>2 DEF SessionCallOK
  <1>4. RevokeTokens({c.token}) /\ UNCHANGED <<account, resets, minute, histories>>
    BY <1>1 DEF RotateToken
  <1>5. Undisturbed => Knows(d)'
    <2>1. tokens'[c.token].password = tokens[c.token].password
      BY <1>1, <1>4, TokensRevoked DEF SessionInv, SessionCallOK
    <2> QED
      BY <1>1, <1>2, <1>4, <2>1 DEF Undisturbed, Knows, LoginPc, OpenPc, Exchange, histories
  <1>6. Ending(c) = {c.token}
    BY <1>1 DEF Ending
  <1> QED
    BY <1>1, <1>2, <1>3, <1>4, <1>5, <1>6, SessionRevokes DEF CountPc, Opening, Exchange

\* A session is opened: of a login, or in exchange for a token.
LEMMA SessionOpens ==
  ASSUME SessionInv, NEW h \in Handlers, Return(h), call[h].pc \in {"issue", "renew"},
         UNCHANGED <<account, resets, minute, chosen, reset, misses>>,
         NEW p \in Nat, tokens' = Append(tokens, [password |-> p, revoked |-> FALSE]),
         NEW old \in Seq(Nat), Len(old) = Len(heirs), heirs' = Append(old, 0),
         \A t \in DOMAIN tokens : old[t] = IF h \in Exchanging(t) THEN heirs[t] + 1 ELSE heirs[t],
         Undisturbed => p >= reset
  PROVE  SessionInv'
  <1>1. Moves(h, Idle) /\ Running(h)
    BY BecomeMoves DEF Return, Running, At
  <1>2. PICK n : n = Len(tokens) + 1
    OBVIOUS
  <1>3. /\ tokens' \in Seq(TokenRow) /\ Len(tokens') = Len(tokens) + 1
        /\ DOMAIN tokens' = DOMAIN tokens \cup {n} /\ Live' = Live \cup {n}
        /\ n \notin DOMAIN tokens
        /\ \A t \in DOMAIN tokens : tokens'[t] = tokens[t]
        /\ tokens'[n].password = p
    BY <1>2, TokenAdded DEF SessionInv
  <1>4. /\ Live \subseteq DOMAIN tokens /\ Len(tokens) \in Nat /\ DOMAIN tokens = 1 .. Len(tokens)
    BY LiveIsFinite DEF SessionInv
  <1>5. /\ heirs' \in Seq(Nat) /\ Len(heirs') = Len(tokens') /\ heirs'[n] = 0
        /\ \A t \in DOMAIN tokens : heirs'[t] = old[t]
    BY <1>2, <1>3, <1>4 DEF SessionInv, SessionTyped, SessionRows
  <1>6. RoomLeft'
    BY <1>1, <1>3, <1>4, SessionIdle, RoomTaken
  <1>7. Exchanged'
    BY <1>1, <1>3, <1>5, SessionIdle, ExchangeEnds DEF Exchange
  <1>8. LinksLeft' /\ MissesKept'
    <2>1. Usable' = Usable
      BY DEF Usable
    <2>2. LinkStep(h, Idle) /\ MissStep(h, Idle)
      BY <2>1, SessionIdle DEF LinkStep, MissStep
    <2> QED
      BY <1>1, <2>2, LinksKept, MissesStay
  <1>9. Undisturbed /\ (\A g \in Handlers \ {h} : call[g].pc = "idle") =>
          account'.password >= reset' /\ \A t \in Live' : tokens'[t].password >= reset'
    BY <1>3, <1>4 DEF Undisturbed
  <1>10. SessionRows'
    BY <1>3, <1>5 DEF SessionInv, SessionTyped, SessionRows
  <1> QED
    BY <1>1, <1>3, <1>6, <1>7, <1>8, <1>9, <1>10, SessionIdle, SessionMoves

LEMMA IssueTokenKeeps ==
  ASSUME SessionInv, NEW h \in Handlers, IssueToken(h)
  PROVE  SessionInv'
  <1>1. PICK c : c = call[h] /\ c.pc = "issue" /\ IsCall(c)
    BY DEF IssueToken, At, SessionInv, SessionTyped, SessionCallOK
  <1>2. c.password \in Nat /\ heirs \in Seq(Nat)
    BY <1>1 DEF IsCall, SessionInv, SessionTyped, SessionRows
  <1>3. Undisturbed => c.password >= reset
    BY <1>1 DEF Undisturbed, Knows, OpenPc
  <1>4. \A t : h \notin Exchanging(t)
    BY <1>1 DEF Exchanging, Exchange
  <1> QED
    BY <1>1, <1>2, <1>3, <1>4, SessionOpens DEF IssueToken

LEMMA RenewTokenKeeps ==
  ASSUME SessionInv, NEW h \in Handlers, RenewToken(h)
  PROVE  SessionInv'
  <1>1. PICK c, t : c = call[h] /\ t = c.token /\ c.pc = "renew" /\ SessionCallOK(c)
    BY DEF RenewToken, At, SessionInv, SessionTyped
  <1>2. /\ t \in DOMAIN tokens /\ tokens[t] \in TokenRow /\ t \in DOMAIN heirs
        /\ heirs \in Seq(Nat) /\ Len(heirs) \in Nat /\ DOMAIN heirs = 1 .. Len(heirs)
        /\ heirs[t] + 1 \in Nat /\ DOMAIN heirs = DOMAIN tokens
    BY <1>1, LiveIsFinite DEF SessionCallOK, SessionInv, SessionTyped, SessionRows
  <1>3. PICK old : old = [heirs EXCEPT ![t] = heirs[t] + 1]
    OBVIOUS
  <1>4. old \in Seq(Nat) /\ Len(old) = Len(heirs)
    BY <1>2, <1>3
  <1>5. \A u : h \in Exchanging(u) <=> u = t
    BY <1>1 DEF Exchanging, Exchange
  <1>6. \A u \in DOMAIN tokens : old[u] = IF h \in Exchanging(u) THEN heirs[u] + 1 ELSE heirs[u]
    BY <1>2, <1>3, <1>5
  <1>7. tokens[t].password \in Nat /\ (Undisturbed => tokens[t].password >= reset)
    BY <1>1, <1>2 DEF TokenRow, Undisturbed, Knows, Exchange
  <1>8. /\ tokens' = Append(tokens, [password |-> tokens[t].password, revoked |-> FALSE])
        /\ heirs' = Append(old, 0) /\ Return(h)
        /\ UNCHANGED <<account, resets, minute, chosen, reset, misses>>
    BY <1>1, <1>3 DEF RenewToken
  <1> QED
    BY <1>1, <1>4, <1>6, <1>7, <1>8, SessionOpens

-----------------------------------------------------------------------------
(* Links, and changes of the account *)

\* Steps that change links only.
LEMMA LinksChange ==
  ASSUME SessionInv, NEW h \in Handlers, NEW c, Moves(h, c),
         UNCHANGED <<account, tokens, minute, histories>>,
         resets' \in Seq(BOOLEAN), DOMAIN resets \subseteq DOMAIN resets', LinksLeft',
         c.pc = "idle" \/ IsCall(c), c.pc \in {"idle", "send", "store"},
         call[h].pc # "revokeAll"
  PROVE  SessionInv'
  <1>1. UNCHANGED <<account, tokens, minute, heirs, chosen, reset, misses>> /\ Live' = Live
    BY DEF histories, Live
  <1>2. RoomLeft' /\ Exchanged' /\ MissesKept'
    <2>1. RoomStep(h, c) /\ ExchangeStep(h, c) /\ MissStep(h, c)
      BY <1>1 DEF RoomStep, ExchangeStep, MissStep, Opening, Exchange, CountPc
    <2> QED
      BY <2>1, RoomKept, ExchangesKept, MissesStay
  <1>3. SessionCallOK(c)' /\ Knows(c)' /\ SessionRows'
    BY <1>1 DEF SessionCallOK, IsCall, Knows, LoginPc, OpenPc, Exchange, SessionInv, SessionTyped,
       SessionRows
  <1>4. Undisturbed /\ (\A g \in Handlers \ {h} : call[g].pc = "idle") =>
          account'.password >= reset' /\ \A t \in Live' : tokens'[t].password >= reset'
    BY <1>1 DEF Undisturbed
  <1> QED
    BY <1>1, <1>2, <1>3, <1>4, SessionMoves

LEMMA LinkStepsKeep ==
  ASSUME SessionInv, NEW h \in Handlers, InvalidateLinks(h) \/ SendLink(h) \/ UseLink(h)
  PROVE  SessionInv'
  <1>1. PICK c : c = call[h] /\ SessionCallOK(c)
    BY DEF SessionInv, SessionTyped
  <1>2. /\ resets \in Seq(BOOLEAN) /\ Len(resets) \in Nat /\ DOMAIN resets = 1 .. Len(resets)
        /\ \A r \in DOMAIN resets : resets[r] \in BOOLEAN
    BY DEF SessionInv, SessionTyped, SessionRows
  <1>3. /\ UNCHANGED <<account, tokens, minute, histories>>
        /\ Running(h) /\ ~At(h, "idle") /\ call[h].pc # "revokeAll"
    BY DEF InvalidateLinks, SendLink, UseLink, At, Running
  <1>4. CASE InvalidateLinks(h)
    <2>1. PICK d : Moves(h, d) /\ IsCall(d) /\ d.pc = "send"
      BY <1>3, <1>4, GoesTo DEF InvalidateLinks, SessionInv
    <2>2. resets' = [r \in 1 .. Len(resets) |-> TRUE]
      BY <1>2, <1>4 DEF InvalidateLinks
    <2>3. resets' \in Seq(BOOLEAN) /\ DOMAIN resets' = DOMAIN resets /\ Usable' = {}
      BY <1>2, <2>2 DEF Usable
    <2> QED
      BY <1>3, <2>1, <2>3, LinksEnded, LinksChange
  <1>5. CASE SendLink(h)
    <2>1. PICK n : n = Len(resets) + 1
      OBVIOUS
    <2>2. /\ resets' \in Seq(BOOLEAN) /\ DOMAIN resets' = DOMAIN resets \cup {n}
          /\ n \notin DOMAIN resets /\ ~resets'[n]
          /\ \A r \in DOMAIN resets : resets'[r] = resets[r]
      BY <1>2, <1>5, <2>1 DEF SendLink
    <2>3. Usable' = Usable \cup {n} /\ n \notin Usable
      BY <2>2 DEF Usable
    <2>4. Moves(h, Idle) /\ At(h, "send")
      BY <1>3, <1>5, BecomeMoves DEF SendLink, Return
    <2> QED
      BY <1>3, <2>2, <2>3, <2>4, SessionIdle, LinkSent, LinksChange
  <1>6. CASE UseLink(h)
    <2>1. PICK d : Moves(h, d) /\ IsCall(d) /\ d.pc = "store"
      BY <1>3, <1>6, GoesTo DEF UseLink, SessionInv
    <2>2. c.token \in DOMAIN resets /\ resets' = [resets EXCEPT ![c.token] = TRUE]
      BY <1>1, <1>6 DEF UseLink, SessionCallOK, At
    <2>3. /\ resets' \in Seq(BOOLEAN) /\ DOMAIN resets' = DOMAIN resets
          /\ \A r \in DOMAIN resets : ~resets'[r] => ~resets[r]
      BY <1>2, <2>2
    <2>4. Usable' \subseteq Usable
      BY <2>3 DEF Usable
    <2> QED
      BY <1>3, <2>1, <2>3, <2>4, LinksKept, LinksChange DEF LinkStep
  <1> QED
    BY <1>4, <1>5, <1>6

LEMMA StorePasswordKeeps ==
  ASSUME SessionInv, NEW h \in Handlers, StorePassword(h)
  PROVE  SessionInv'
  <1>1. call[h].pc = "store" /\ ~At(h, "idle")
    BY DEF StorePassword, At
  <1>2. PICK d : Moves(h, d) /\ IsCall(d) /\ d.pc = "revokeAll"
    BY <1>1, GoesTo DEF StorePassword, SessionInv
  <1>3. chosen \in Nat /\ chosen + 1 \in Nat
    BY DEF SessionInv, SessionTyped, SessionRows
  <1>4. account' \in AccountRow /\ account'.failed = 0 /\ account'.password = chosen + 1
    <2>1. PICK n \in Nat : n = chosen + 1
      BY <1>3
    <2>2. account' = [account EXCEPT !.password = n, !.failed = 0, !.locked = 0]
      BY <2>1 DEF StorePassword
    <2> QED
      BY <2>1, <2>2 DEF SessionInv, SessionTyped, SessionRows, AccountRow
  <1>5. /\ UNCHANGED <<tokens, resets, minute, heirs>>
        /\ misses' = 0 /\ chosen' = chosen + 1 /\ reset' = chosen + 1
    BY DEF StorePassword
  <1>6. Live' = Live /\ Usable' = Usable
    BY <1>5 DEF Live, Usable
  <1>7. SessionCallOK(d)' /\ Knows(d)'
    BY <1>2 DEF SessionCallOK, IsCall, Knows, LoginPc, OpenPc, Exchange
  <1>8. RoomLeft' /\ Exchanged' /\ LinksLeft' /\ MissesKept'
    <2>1. RoomStep(h, d) /\ ExchangeStep(h, d) /\ LinkStep(h, d)
      BY <1>2, <1>5, <1>6 DEF RoomStep, ExchangeStep, LinkStep, Opening, Exchange
    <2> QED
      BY <1>2, <1>4, <1>5, <1>7, <2>1, RoomKept, ExchangesKept, LinksKept, MissesEnd DEF SessionInv
  <1>9. SessionRows'
    BY <1>3, <1>4, <1>5 DEF SessionInv, SessionTyped, SessionRows
  <1> QED
    BY <1>2, <1>3, <1>4, <1>5, <1>7, <1>8, <1>9, SessionMoves

\* save() selects the account, and updates the columns that differ.
LEMMA SelectUserKeeps ==
  ASSUME SessionInv, NEW h \in Handlers, SelectUser(h)
  PROVE  SessionInv'
  <1>1. PICK c : c = call[h] /\ c.pc = "select" /\ IsCall(c) /\ Running(h)
    BY DEF SelectUser, At, Running, SessionInv, SessionTyped, SessionCallOK
  <1>2. PICK d : d = [c EXCEPT !.pc = "save", !.dirty = Dirty(c.account, account)] /\ Become(h, d)
    BY <1>1 DEF SelectUser
  <1>3. d.pc = "save" /\ d.account = c.account /\ IsCall(d)
    BY <1>1, <1>2 DEF IsCall
  <1>4. SessionCallOK(d) /\ Moves(h, d)
    BY <1>1, <1>2, <1>3, BecomeMoves DEF SessionCallOK
  <1>5. UNCHANGED <<account, tokens, resets, minute, heirs, chosen, reset, misses>>
    BY DEF SelectUser, sessionTables, histories
  <1>6. Undisturbed => Knows(d)
    BY <1>1, <1>3 DEF Undisturbed, Knows, LoginPc, OpenPc, Exchange
  <1>7. chosen \in Nat
    BY DEF SessionInv, SessionTyped, SessionRows
  <1> QED
    BY <1>1, <1>3, <1>4, <1>5, <1>6, <1>7, SessionReads DEF Opening, Exchange, CountPc

\* Each column is the one of the entity or of the row.
LEMMA AccountMerged ==
  ASSUME NEW a \in AccountRow, NEW e \in AccountRow, NEW dirty, NEW m, m = Merge(a, e, dirty)
  PROVE  /\ m \in AccountRow
         /\ m.password \in {a.password, e.password} /\ m.failed \in {a.failed, e.failed}
         /\ m.locked \in {a.locked, e.locked}
  <1>1. DOMAIN a = {"password", "failed", "locked", "active"}
    BY DEF AccountRow
  <1>2. m = [c \in {"password", "failed", "locked", "active"} |-> IF c \in dirty THEN e[c] ELSE a[c]]
    BY <1>1 DEF Merge
  <1>3. /\ m.password = IF "password" \in dirty THEN e.password ELSE a.password
        /\ m.failed = IF "failed" \in dirty THEN e.failed ELSE a.failed
        /\ m.locked = IF "locked" \in dirty THEN e.locked ELSE a.locked
        /\ m.active = IF "active" \in dirty THEN e.active ELSE a.active
        /\ m = [password |-> m.password, failed |-> m.failed, locked |-> m.locked,
                active |-> m.active]
    BY <1>2
  <1> QED
    BY <1>3 DEF AccountRow

LEMMA SaveUserKeeps ==
  ASSUME SessionInv, NEW h \in Handlers, SaveUser(h)
  PROVE  SessionInv'
  <1>1. PICK c : c = call[h] /\ c.pc = "save" /\ IsCall(c) /\ Running(h)
    BY DEF SaveUser, At, Running, SessionInv, SessionTyped, SessionCallOK
  <1>2. Moves(h, Idle)
    BY <1>1, BecomeMoves DEF SaveUser, Return
  <1>3. account \in AccountRow /\ c.account \in AccountRow
    BY <1>1 DEF SessionInv, SessionTyped, SessionRows, IsCall
  <1>4. /\ account' \in AccountRow
        /\ account'.password \in {account.password, c.account.password}
        /\ account'.failed \in {account.failed, c.account.failed}
    BY <1>1, <1>3, AccountMerged DEF SaveUser
  <1>5. UNCHANGED <<tokens, resets, minute, heirs, chosen, reset, misses>>
    BY DEF SaveUser, histories
  <1>6. Live' = Live /\ Usable' = Usable
    BY <1>5 DEF Live, Usable
  <1>7. RoomLeft' /\ Exchanged' /\ LinksLeft' /\ MissesKept'
    <2>1. RoomStep(h, Idle) /\ ExchangeStep(h, Idle) /\ LinkStep(h, Idle)
      BY <1>5, <1>6, SessionIdle DEF RoomStep, ExchangeStep, LinkStep
    <2>2. MissStep(h, Idle)
      BY <1>1, <1>4, <1>5, SessionIdle DEF MissStep, CountPc
    <2> QED
      BY <1>2, <2>1, <2>2, RoomKept, ExchangesKept, LinksKept, MissesStay
  <1>8. SessionRows'
    BY <1>4, <1>5 DEF SessionInv, SessionTyped, SessionRows
  <1>9. Undisturbed /\ (\A g \in Handlers \ {h} : call[g].pc = "idle") =>
          account'.password >= reset' /\ \A t \in Live' : tokens'[t].password >= reset'
    BY <1>1, <1>4, <1>5, <1>6 DEF Undisturbed, Knows
  <1> QED
    BY <1>2, <1>5, <1>7, <1>8, <1>9, SessionIdle, SessionMoves

LEMMA MinuteKeeps ==
  ASSUME SessionInv, Minute \/ UNCHANGED sessionVars
  PROVE  SessionInv'
  <1>1. /\ UNCHANGED <<account, tokens, resets, heirs, chosen, reset, misses, call, overlaps>>
        /\ minute' \in Nat /\ minute' >= minute /\ minute \in Nat
    BY DEF Minute, sessionVars, sessionTables, histories, serverVars, SessionInv, SessionTyped,
       SessionRows
  <1>2. Live' = Live /\ (Calm' <=> Calm) /\ HandlersOK' /\ BusyCounted' /\ SessionRows'
    BY <1>1 DEF Live, Calm, HandlersOK, Alone, Running, At, BusyCounted, Busy, SessionInv,
       SessionTyped, SessionRows
  <1>3. \A c : (SessionCallOK(c) => SessionCallOK(c)')
    BY <1>1 DEF SessionCallOK
  <1>4. SessionTyped'
    BY <1>1, <1>2, <1>3 DEF SessionInv, SessionTyped
  <1>5. RoomLeft' /\ Exchanged' /\ LinksLeft' /\ MissesKept'
    BY <1>1, <1>2 DEF SessionInv, RoomLeft, Spared, Openers, Exchanged, Exchanging, LinksLeft,
       Usable, Sending, MissesKept, PastOverlaps, Busy, Running, At
  <1>6. account.locked \in Nat
    BY DEF SessionInv, SessionTyped, SessionRows, AccountRow
  <1>7. \A c : Knows(c) => Knows(c)'
    BY <1>1, <1>2, <1>6 DEF Knows
  <1> QED
    BY <1>1, <1>2, <1>4, <1>5, <1>7 DEF SessionInv, Undisturbed

-----------------------------------------------------------------------------
LEMMA SessionNextKeeps == SessionInv /\ [SessionNext]_sessionVars => SessionInv'
  <1>1. ASSUME SessionInv, NEW h \in Handlers,
               SessionArrive(h) \/ SessionContinue(h) \/ SessionCrash(h)
        PROVE  SessionInv'
    <2>1. CASE SessionArrive(h)
      BY <1>1, <2>1, LoginKeeps, TokenCallsBegin, UpdateUserKeeps DEF SessionArrive
    <2>2. CASE SessionContinue(h)
      BY <1>1, <2>2, VerifyKeeps, FailAttemptKeeps, ClearFailuresKeeps, ListSessionsKeeps,
         RevokeOldestKeeps, IssueTokenKeeps, RotateTokenKeeps, RenewTokenKeeps,
         RevocationEnds, LinkStepsKeep, StorePasswordKeeps, SelectUserKeeps, SaveUserKeeps
         DEF SessionContinue
    <2> QED
      BY <1>1, <2>1, <2>2, SessionCrashes
  <1> QED
    BY <1>1, MinuteKeeps DEF SessionNext

\* What SessionInv says of tokens, links, the account and the calls is always so.
THEOREM SessionsKept == SessionSpec => []SessionInv
  BY SessionInitOK, SessionNextKeeps, PTL DEF SessionSpec

\* An account has no more live refresh tokens than the limit and one for each call that
\* overlapped another, whatever they revoke to make room (auth.service.ts:380).
THEOREM SessionsStayBounded == SessionSpec => []SessionsBounded
  <1>1. SessionInv => SessionsBounded
    <2>1. SUFFICES ASSUME SessionInv PROVE SessionsBounded
      OBVIOUS
    <2>2. PICK Q \in SUBSET Openers : Q = {}
      OBVIOUS
    <2>3. Spared(Q) = Live
      BY <2>2 DEF Spared, Live
    <2>4. Cardinality(Q) = 0 /\ Cardinality(Spared(Q)) \in Nat
      BY <2>1, <2>2, FS_EmptySet, SparedIs DEF SessionInv
    <2>5. Cardinality(Spared(Q)) + Cardinality(Q) <= SessionLimit + overlaps
      BY <2>1 DEF SessionInv, RoomLeft
    <2> QED
      BY <2>3, <2>4, <2>5 DEF SessionsBounded
  <1> QED
    BY <1>1, SessionsKept, PTL

\* A refresh token is exchanged once, and one reset link is good at a time, but for one
\* more with every overlap (auth.service.ts, refreshTokens and forgotPassword).
THEOREM TokensUsedOnce == SessionSpec => []TokensOnce
  <1>1. SessionInv => TokensOnce
    <2>1. SUFFICES ASSUME SessionInv PROVE TokensOnce
      OBVIOUS
    <2>2. overlaps \in Nat /\ SessionTyped
      BY <2>1 DEF SessionInv, SessionTyped, BusyCounted
    <2>3. ASSUME NEW t \in DOMAIN heirs PROVE heirs[t] <= 1 + overlaps
      <3>1. t \in DOMAIN tokens /\ heirs[t] \in Nat /\ Cardinality(Exchanging(t)) \in Nat
        BY <2>2, <2>3, LiveIsFinite, ExchangingIs
      <3>2. heirs[t] + Cardinality(Exchanging(t)) <= 1 + overlaps
        BY <2>1, <3>1 DEF SessionInv, Exchanged
      <3> QED
        BY <2>2, <3>1, <3>2
    <2>4. Cardinality(Usable) <= 1 + overlaps
      BY <2>1, <2>2, LinksAre DEF SessionInv, LinksLeft
    <2> QED
      BY <2>3, <2>4 DEF TokensOnce, Usable
  <1> QED
    BY <1>1, SessionsKept, PTL

\* The count that locks an account lacks no more of the failed logins than calls
\* overlapped (auth.service.ts, applyFailedAttempt; users.service.ts, update).
THEOREM FailuresAreCounted == SessionSpec => []FailuresCounted
  <1>1. SessionInv => FailuresCounted
    <2>1. SUFFICES ASSUME SessionInv PROVE FailuresCounted
      OBVIOUS
    <2>2. /\ misses \in Nat /\ account.failed \in Nat /\ overlaps \in Nat
          /\ misses <= account.failed + PastOverlaps
          /\ IsFiniteSet(Busy) /\ Cardinality(Busy) \in Nat
      BY <2>1, CountsAre, FS_CardinalityType DEF SessionInv, SessionTyped, BusyCounted, MissesKept
    <2>3. PastOverlaps \in Int /\ PastOverlaps <= overlaps
      <3>1. Busy # {} => Cardinality(Busy) # 0
        BY <2>2, FS_EmptySet
      <3> QED
        BY <2>2, <3>1 DEF PastOverlaps
    <2> QED
      BY <2>2, <2>3 DEF FailuresCounted
  <1> QED
    BY <1>1, SessionsKept, PTL

\* Calls that run alone and to their end: no live token has a password older than the
\* last that a link stored, though an administrator changes the account in between
\* (auth.service.ts, resetPassword; users.service.ts, update).
THEOREM ResetsEndSessions == SessionSpec => []ResetEndsSessions
  <1>1. SessionInv => ResetEndsSessions
    BY DEF SessionInv, Undisturbed, ResetEndsSessions, Quiet, At
  <1> QED
    BY <1>1, SessionsKept, PTL

\* While calls run alone, a lock that has not run out is lifted by nothing but a
\* password that a link stored (auth.service.ts, login; users.service.ts, update).
THEOREM LocksHold == SessionSpec => LockHolds
  <1>1. SessionInv /\ SessionInv' /\ [SessionNext]_sessionVars =>
          [Calm' /\ account.locked > minute =>
             account'.locked = account.locked \/ reset' > reset]_sessionVars
    <2> SUFFICES ASSUME SessionInv, SessionNext, Calm', account.locked > minute
                 PROVE  account'.locked = account.locked \/ reset' > reset
      OBVIOUS
    <2>1. account.locked \in Nat /\ minute \in Nat /\ chosen \in Nat /\ reset \in Nat /\ reset <= chosen
      BY DEF SessionInv, SessionTyped, SessionRows, AccountRow
    <2>2. CASE Minute
      BY <2>2 DEF Minute, sessionTables
    <2>3. ASSUME NEW h \in Handlers, FailAttempt(h) \/ ClearFailures(h) PROVE FALSE
      <3>1. Calm /\ call[h].pc \in LoginPc
        BY <2>3 DEF FailAttempt, ClearFailures, Return, Goto, Become, At, Calm, LoginPc
      <3>2. account.locked <= minute
        BY <3>1 DEF SessionInv, Undisturbed, Knows
      <3> QED
        BY <2>1, <3>2
    <2>4. ASSUME NEW h \in Handlers, StorePassword(h) PROVE reset' > reset
      BY <2>1, <2>4 DEF StorePassword
    <2>5. ASSUME NEW h \in Handlers, SaveUser(h) PROVE account'.locked = account.locked
      <3>1. Calm /\ call[h].pc = "save"
        BY <2>5 DEF SaveUser, Return, Become, At, Calm
      <3>2. /\ call[h].account.locked = account.locked /\ call[h].account \in AccountRow
            /\ account \in AccountRow
        BY <3>1 DEF SessionInv, Undisturbed, Knows, SessionTyped, SessionRows, SessionCallOK, IsCall
      <3> QED
        BY <2>5, <3>2, AccountMerged DEF SaveUser
    <2>6. ASSUME NEW h \in Handlers, SessionArrive(h) \/ SessionContinue(h) \/ SessionCrash(h),
                 ~(FailAttempt(h) \/ ClearFailures(h)), ~StorePassword(h), ~SaveUser(h)
          PROVE  account' = account
      BY <2>6 DEF SessionArrive, SessionContinue, SessionCrash, Login, RefreshTokens, Logout,
         ForgotPassword, ResetPassword, UpdateUser, Verify, ListSessions, RevokeOldest,
         IssueToken, RotateToken, RenewToken, RevokeAll, RevokeToken, InvalidateLinks, SendLink,
         UseLink, SelectUser, sessionTables
    <2> QED
      BY <2>2, <2>3, <2>4, <2>5, <2>6 DEF SessionNext
  <1> QED
    BY <1>1, SessionsKept, PTL DEF SessionSpec, LockHolds

-----------------------------------------------------------------------------
(* Waybills and the orders they carry *)

ShipmentRow == [status : ShipmentStatus, waybill : {NoWaybill} \cup WaybillIds]

\* A call that is about to create waybill c.id.
Creating(c) == c.pc = "commit new" \/ (c.pc = "select orders" /\ c.next = "commit new")

SavePcs    == {"commit new", "commit delivery", "update order", "commit last pick"}
WaybillPcs == {"select waybill", "update waybill"}

\* What a call holds: orders on waybills there are, or on the one it creates.
TransportCallOK(c) ==
  /\ c.pc \in {"idle", "select orders", "scan lines"} \cup SavePcs \cup WaybillPcs
  /\ c.pc # "idle" =>
       /\ c.id \in {NoWaybill} \cup WaybillIds
       /\ DOMAIN c.e \subseteq Shipments /\ c.e \in [DOMAIN c.e -> ShipmentRow]
       /\ ~Creating(c) => \A o \in DOMAIN c.e : c.e[o].waybill \in {NoWaybill} \cup DOMAIN waybill
  /\ Creating(c) => /\ c.id \in WaybillIds \ DOMAIN waybill
                    /\ \A o \in DOMAIN c.e : c.e[o].waybill = c.id
  /\ c.pc = "scan lines" => c.id = NoWaybill
  /\ c.pc = "commit new" => \A o \in DOMAIN c.e : "waybill" \in c.dirty[o]
  /\ c.pc = "select orders" => c.next \in SavePcs /\ c = Saving(c.next, c.id, c.e, c.wrote)
  /\ c.pc \in WaybillPcs => c = [pc |-> c.pc, id |-> c.id, to |-> c.to, e |-> c.e]

TransportRows ==
  /\ shipment \in [Shipments -> ShipmentRow] /\ unpicked \subseteq Shipments
  /\ DOMAIN waybill \subseteq WaybillIds /\ DOMAIN carried = DOMAIN waybill
  /\ \A w \in DOMAIN waybill : carried[w] \subseteq Shipments
  /\ \A o \in Shipments : shipment[o].waybill \in {NoWaybill} \cup DOMAIN waybill

\* Nobody else is at the waybill that a call creates.
OwnIds == \A g, h \in Busy : Creating(call[h]) /\ g # h => call[g].id # call[h].id

\* A call that would take an order from waybill w.
Strays(c, w) == \E o \in DOMAIN c.e : o \in carried[w] /\ c.e[o].waybill # w

\* Waybills that have lost an order, or would if a call that runs wrote what it holds.
Exposed == {w \in DOMAIN waybill : \/ \E o \in carried[w] : shipment[o].waybill # w
                                   \/ \E h \in Busy : Strays(call[h], w)}

\* Every exposed waybill and every busy handler but one has cost an overlap.
Charged ==
  Cardinality(Exposed) + Cardinality(Busy) <= overlaps + (IF Busy = {} THEN 0 ELSE 1)

TransportTyped ==
  /\ overlaps \in Nat /\ DOMAIN call = Handlers
  /\ TransportRows /\ OwnIds /\ \A h \in Handlers : TransportCallOK(call[h])

TransportInv == TransportTyped /\ IsFiniteSet(Busy) /\ Charged

-----------------------------------------------------------------------------
LEMMA WaybillsFinite ==
  ASSUME TransportTyped
  PROVE  /\ IsFiniteSet(Exposed) /\ Cardinality(Exposed) \in Nat
         /\ \A w \in WaybillIds : w \in Nat /\ w # NoWaybill
  <1>1. \A w \in WaybillIds : w \in Nat /\ w # NoWaybill
    BY TransportAssumption DEF WaybillIds, NoWaybill
  <1>2. IsFiniteSet(WaybillIds)
    BY TransportAssumption, FS_Interval DEF WaybillIds
  <1>3. Exposed \subseteq WaybillIds
    BY DEF Exposed, TransportTyped, TransportRows
  <1> QED
    BY <1>1, <1>2, <1>3, FS_Subset, FS_CardinalityType

\* The handler h goes on with c, or begins it, or dies.
LEMMA TransportMoves ==
  ASSUME TransportTyped, NEW h \in Handlers, NEW c, Moves(h, c)
  PROVE  /\ overlaps' \in Nat /\ DOMAIN call' = Handlers /\ call'[h] = c
         /\ \A g \in Handlers \ {h} : call'[g] = call[g]
         /\ Busy' = IF c.pc = "idle" THEN Busy \ {h} ELSE Busy \cup {h}
  <1>1. /\ DOMAIN call' = Handlers /\ call'[h] = c
        /\ \A g \in Handlers \ {h} : call'[g] = call[g]
    BY DEF Moves, TransportTyped
  <1>2. overlaps' \in Nat
    BY DEF Moves, Disturb, TransportTyped
  <1>3. ASSUME NEW g PROVE g \in Busy' <=> g \in (IF c.pc = "idle" THEN Busy \ {h} ELSE Busy \cup {h})
    BY <1>1 DEF Busy, Running, At
  <1> QED
    BY <1>1, <1>2, <1>3

\* An overlap is paid by the call that begins, or dies; a waybill that is exposed by
\* the call that created it is paid by its end, if others still run.
LEMMA ChargeKept ==
  ASSUME TransportInv, TransportTyped', NEW h \in Handlers, NEW c, Moves(h, c), NEW w,
         \/ Exposed' \subseteq Exposed
         \/ /\ Running(h) /\ UNCHANGED overlaps /\ c.pc = "idle"
            /\ Exposed' \subseteq Exposed \cup {w}
            /\ Busy' = {} => Exposed' \subseteq Exposed
  PROVE  IsFiniteSet(Busy') /\ Charged'
  <1>1. Busy' = IF c.pc = "idle" THEN Busy \ {h} ELSE Busy \cup {h}
    BY TransportMoves DEF TransportInv
  <1>2. PICK m, b : m = Cardinality(Exposed) /\ b = Cardinality(Busy)
    OBVIOUS
  <1>3. /\ m \in Nat /\ b \in Nat /\ overlaps \in Nat /\ overlaps' \in Nat
        /\ IsFiniteSet(Exposed) /\ IsFiniteSet(Busy)
        /\ m + b <= overlaps + (IF Busy = {} THEN 0 ELSE 1)
    BY <1>2, WaybillsFinite, FS_CardinalityType DEF TransportInv, TransportTyped, Charged
  <1>4. PICK m2, b2 : m2 = Cardinality(Exposed') /\ b2 = Cardinality(Busy')
    OBVIOUS
  <1>5. IsFiniteSet(Busy') /\ b2 \in Nat
    BY <1>1, <1>3, <1>4, FS_AddElement, FS_RemoveElement, FS_CardinalityType
  <1>6. IsFiniteSet(Exposed') /\ m2 \in Nat
    <2>1. Exposed' \subseteq Exposed \cup {w}
      OBVIOUS
    <2> QED
      BY <1>3, <1>4, <2>1, FS_AddElement, FS_Subset, FS_CardinalityType
  <1>7. Exposed' \subseteq Exposed => m2 <= m
    BY <1>2, <1>3, <1>4, FS_Subset
  <1>8. Exposed' \subseteq Exposed \cup {w} => m2 <= m + 1
    <2>1. IsFiniteSet(Exposed \cup {w}) /\ Cardinality(Exposed \cup {w}) \in {m, m + 1}
      BY <1>2, <1>3, FS_AddElement
    <2>2. Exposed' \subseteq Exposed \cup {w} => m2 <= Cardinality(Exposed \cup {w})
      BY <1>4, <2>1, FS_Subset
    <2> QED
      BY <1>3, <1>6, <2>1, <2>2
  <1>9. /\ h \in Busy => Cardinality(Busy \ {h}) = b - 1 /\ Cardinality(Busy \cup {h}) = b
        /\ h \notin Busy => Cardinality(Busy \ {h}) = b /\ Cardinality(Busy \cup {h}) = b + 1
    <2>1. h \notin Busy => Busy \ {h} = Busy
      OBVIOUS
    <2> QED
      BY <1>2, <1>3, <2>1, FS_AddElement, FS_RemoveElement
  <1>10. Busy' = {} => b2 = 0
    BY <1>4, FS_EmptySet
  <1>11. Busy = {} <=> Quiet
    BY DEF Busy, Quiet, Running
  <1>12. Running(h) <=> h \in Busy
    BY DEF Busy
  <1>13. CASE Running(h) /\ UNCHANGED overlaps
    <2>1. CASE c.pc = "idle"
      <3>1. b2 = b - 1 /\ Busy # {}
        BY <1>1, <1>4, <1>9, <1>12, <1>13, <2>1
      <3> QED
        BY <1>3, <1>4, <1>5, <1>6, <1>7, <1>8, <1>10, <1>13, <3>1 DEF Charged
    <2>2. CASE c.pc # "idle"
      <3>1. b2 = b /\ Busy # {} /\ Busy' # {}
        BY <1>1, <1>4, <1>9, <1>12, <1>13, <2>2
      <3> QED
        BY <1>3, <1>4, <1>5, <1>6, <1>7, <1>13, <2>2, <3>1 DEF Charged
    <2> QED
      BY <2>1, <2>2
  <1>14. CASE ~(Running(h) /\ UNCHANGED overlaps) /\ Disturb
    <2>1. m2 <= m
      BY <1>7, <1>14
    <2>2. b2 <= b + 1
      BY <1>1, <1>3, <1>4, <1>5, <1>9
    <2>3. CASE Quiet
      <3>1. overlaps' = overlaps /\ Busy = {} /\ b = 0
        BY <1>2, <1>11, <2>3, <1>14, FS_EmptySet DEF Disturb
      <3> QED
        BY <1>3, <1>4, <1>5, <1>6, <1>10, <2>1, <2>2, <3>1 DEF Charged
    <2>4. CASE ~Quiet
      <3>1. overlaps' = overlaps + 1 /\ Busy # {}
        BY <1>11, <2>4, <1>14 DEF Disturb
      <3> QED
        BY <1>3, <1>4, <1>5, <1>6, <1>10, <2>1, <2>2, <3>1 DEF Charged
    <2> QED
      BY <2>3, <2>4
  <1> QED
    BY <1>13, <1>14 DEF Moves

\* What a handler begins with or goes on with are orders as they are, or as it held
\* them, and it writes orders as it held them.
Tells(h, c) ==
  c.pc # "idle" =>
    \A o \in DOMAIN c.e :
      \/ Running(h) /\ o \in DOMAIN call[h].e /\ c.e[o].waybill = call[h].e[o].waybill
      \/ shipment[o].waybill \in {NoWaybill, c.e[o].waybill}
WritesHeld(h) ==
  \A o \in Shipments :
    \/ shipment'[o].waybill = shipment[o].waybill
    \/ Running(h) /\ o \in DOMAIN call[h].e /\ shipment'[o].waybill = call[h].e[o].waybill

LEMMA ExposesNone ==
  ASSUME TransportTyped, NEW h \in Handlers, NEW c, Moves(h, c), Tells(h, c), WritesHeld(h),
         NEW w \in DOMAIN waybill, w \in DOMAIN waybill', carried'[w] = carried[w], w \in Exposed'
  PROVE  w \in Exposed
  <1>1. SUFFICES ASSUME w \notin Exposed PROVE FALSE
    OBVIOUS
  <1>2. /\ carried[w] \subseteq Shipments /\ w # NoWaybill
        /\ \A o \in carried[w] : shipment[o].waybill = w
        /\ \A g \in Busy : ~Strays(call[g], w)
    BY <1>1, WaybillsFinite DEF Exposed, TransportTyped, TransportRows
  <1>3. Running(h) => \A o \in DOMAIN call[h].e : o \in carried[w] => call[h].e[o].waybill = w
    BY <1>2 DEF Busy, Strays
  <1>4. \A o \in carried[w] : shipment'[o].waybill = w
    BY <1>2, <1>3 DEF WritesHeld
  <1>5. PICK g \in Busy' : Strays(call[g], w)'
    BY <1>4 DEF Exposed
  <1>6. g \in Handlers
    BY <1>5 DEF Busy
  <1>7. CASE g # h
    <2>1. call'[g] = call[g] /\ g \in Busy
      BY <1>5, <1>6, <1>7, TransportMoves DEF Busy, Running, At
    <2> QED
      BY <1>2, <1>5, <2>1 DEF Strays
  <1>8. CASE g = h
    <2>1. call'[h] = c
      BY TransportMoves
    <2>2. c.pc # "idle"
      BY <1>5, <1>8, <2>1 DEF Busy, Running, At
    <2>3. PICK o \in DOMAIN c.e : o \in carried[w] /\ c.e[o].waybill # w
      BY <1>5, <1>8, <2>1 DEF Strays
    <2> QED
      BY <1>2, <1>3, <2>2, <2>3 DEF Tells
  <1> QED
    BY <1>7, <1>8

\* Whether the ids stay the calls' own when h goes on with c.
IdOfItsOwn(h, c) ==
  \/ c.pc = "idle"
  \/ Running(h) /\ c.id = call[h].id /\ (Creating(c) => Creating(call[h]))
  \/ \A g \in Busy : Creating(c) \/ Creating(call[g]) => call[g].id # c.id

LEMMA TransportTypedKept ==
  ASSUME TransportTyped, NEW h \in Handlers, NEW c, Moves(h, c), TransportRows',
         TransportCallOK(c)', IdOfItsOwn(h, c), DOMAIN waybill \subseteq DOMAIN waybill',
         \A g \in Busy \ {h} : Creating(call[g]) => call[g].id \notin DOMAIN waybill'
  PROVE  TransportTyped'
  <1>1. /\ overlaps' \in Nat /\ DOMAIN call' = Handlers /\ call'[h] = c
        /\ \A g \in Handlers \ {h} : call'[g] = call[g]
        /\ Busy' = IF c.pc = "idle" THEN Busy \ {h} ELSE Busy \cup {h}
    BY TransportMoves
  <1>2. ASSUME NEW g \in Handlers PROVE TransportCallOK(call[g])'
    <2>1. CASE g = h
      BY <1>1, <2>1
    <2>2. CASE g # h
      <3>1. PICK d : d = call[g] /\ d = call'[g]
        BY <1>1, <2>2
      <3>2. TransportCallOK(d)
        BY <3>1 DEF TransportTyped
      <3>3. Creating(d) => d.id \notin DOMAIN waybill'
        <4>1. Creating(d) => g \in Busy
          BY <3>1 DEF Creating, Busy, Running, At
        <4> QED
          BY <2>2, <3>1, <4>1
      <3>4. TransportCallOK(d)'
        BY <3>2, <3>3 DEF TransportCallOK, Creating
      <3> QED
        BY <3>1, <3>4
    <2> QED
      BY <2>1, <2>2
  <1>3. ASSUME NEW f \in Busy', NEW g \in Busy', Creating(call'[g]), f # g
        PROVE  call'[f].id # call'[g].id
    <2>1. f \in Busy \cup {h} /\ g \in Busy \cup {h} /\ Busy \subseteq Handlers
          /\ (c.pc = "idle" => f # h /\ g # h)
      BY <1>1, <1>3 DEF Busy
    <2>2. CASE f # h /\ g # h
      <3>1. call'[f] = call[f] /\ call'[g] = call[g] /\ f \in Busy /\ g \in Busy
        BY <1>1, <2>1, <2>2
      <3> QED
        BY <1>3, <3>1 DEF TransportTyped, OwnIds
    <2>3. CASE f = h
      <3>1. call'[f] = c /\ call'[g] = call[g] /\ g \in Busy /\ c.pc # "idle"
        BY <1>1, <1>3, <2>1, <2>3
      <3> QED
        BY <1>3, <2>3, <3>1 DEF IdOfItsOwn, TransportTyped, OwnIds, Busy
    <2>4. CASE g = h
      <3>1. call'[g] = c /\ call'[f] = call[f] /\ f \in Busy /\ c.pc # "idle"
        BY <1>1, <1>3, <2>1, <2>4
      <3> QED
        BY <1>3, <2>4, <3>1 DEF IdOfItsOwn, TransportTyped, OwnIds, Busy
    <2> QED
      BY <2>2, <2>3, <2>4
  <1>4. OwnIds'
    BY <1>3 DEF OwnIds, Creating
  <1> QED
    BY <1>1, <1>2, <1>4 DEF TransportTyped

\* Every step but the end of a creation.
LEMMA TransportKeeps ==
  ASSUME TransportInv, NEW h \in Handlers, NEW c, Moves(h, c),
         UNCHANGED carried, DOMAIN waybill' = DOMAIN waybill, unpicked' \subseteq unpicked,
         UNCHANGED shipment \/ (~Creating(call[h]) /\ shipment' \in [Shipments -> ShipmentRow]),
         WritesHeld(h), Tells(h, c), TransportCallOK(c)', IdOfItsOwn(h, c)
  PROVE  TransportInv'
  <1>1. TransportTyped /\ TransportRows
    BY DEF TransportInv, TransportTyped
  <1>2. shipment' \in [Shipments -> ShipmentRow]
    BY <1>1 DEF TransportRows
  <1>3. ASSUME NEW o \in Shipments PROVE shipment'[o].waybill \in {NoWaybill} \cup DOMAIN waybill
    <2>1. CASE shipment'[o].waybill = shipment[o].waybill
      BY <1>1, <2>1 DEF TransportRows
    <2>2. CASE ~Creating(call[h]) /\ Running(h) /\ o \in DOMAIN call[h].e
               /\ shipment'[o].waybill = call[h].e[o].waybill
      BY <1>1, <2>2 DEF TransportTyped, TransportCallOK, Running, At
    <2> QED
      BY <2>1, <2>2 DEF WritesHeld
  <1>4. TransportRows'
    BY <1>1, <1>2, <1>3 DEF TransportRows
  <1>5. ASSUME NEW g \in Busy \ {h}, Creating(call[g]) PROVE call[g].id \notin DOMAIN waybill'
    BY <1>1, <1>5 DEF Busy, TransportTyped, TransportCallOK
  <1>6. TransportTyped'
    BY <1>1, <1>4, <1>5, TransportTypedKept
  <1>7. Exposed' \subseteq Exposed
    <2>1. ASSUME NEW w \in Exposed' PROVE w \in Exposed
      <3>1. w \in DOMAIN waybill
        BY <2>1 DEF Exposed
      <3> QED
        BY <1>1, <2>1, <3>1, ExposesNone
    <2> QED
      BY <2>1
  <1> QED
    BY <1>6, <1>7, ChargeKept DEF TransportInv

LEMMA TransportIdle == TransportCallOK(Idle) /\ TransportCallOK(Idle)'
  BY DEF Idle, TransportCallOK, Creating, WaybillPcs

LEMMA TransportEnds ==
  ASSUME TransportInv, NEW h \in Handlers, (Running(h) /\ Return(h)) \/ Crash(h),
         UNCHANGED carried, DOMAIN waybill' = DOMAIN waybill, unpicked' \subseteq unpicked,
         UNCHANGED shipment \/ (~Creating(call[h]) /\ shipment' \in [Shipments -> ShipmentRow]),
         WritesHeld(h)
  PROVE  TransportInv'
  <1>1. Moves(h, Idle)
    BY BecomeMoves, CrashMoves DEF Return
  <1>2. Tells(h, Idle) /\ IdOfItsOwn(h, Idle)
    BY DEF Tells, IdOfItsOwn, Idle
  <1> QED
    BY <1>1, <1>2, TransportIdle, TransportKeeps

\* The rows are left alone.
LEMMA NothingWritten ==
  ASSUME UNCHANGED transportVars, NEW h
  PROVE  /\ UNCHANGED <<shipment, waybill, carried>> /\ DOMAIN waybill' = DOMAIN waybill
         /\ unpicked' \subseteq unpicked /\ WritesHeld(h) /\ \A c : TransportCallOK(c) => TransportCallOK(c)'
  <1>1. UNCHANGED <<shipment, waybill, carried, unpicked>>
    BY DEF transportVars
  <1> QED
    BY <1>1 DEF WritesHeld, TransportCallOK

\* A handler goes on with the orders that it holds.
LEMMA TransportGoesOn ==
  ASSUME TransportInv, NEW h \in Handlers, Running(h), NEW d, Become(h, d),
         UNCHANGED transportVars, d.id = call[h].id, Creating(d) => Creating(call[h]),
         DOMAIN d.e = DOMAIN call[h].e,
         \A o \in DOMAIN d.e : d.e[o].waybill = call[h].e[o].waybill,
         TransportCallOK(d)
  PROVE  TransportInv'
  <1>1. Moves(h, d)
    BY BecomeMoves
  <1>2. Tells(h, d) /\ IdOfItsOwn(h, d)
    BY DEF Tells, IdOfItsOwn
  <1> QED
    BY <1>1, <1>2, NothingWritten, TransportKeeps

LEMMA TransportBegins ==
  ASSUME TransportInv, NEW h \in Handlers, NEW c, Begin(h, c), UNCHANGED transportVars,
         TransportCallOK(c), \A o \in DOMAIN c.e : shipment[o].waybill \in {NoWaybill, c.e[o].waybill},
         \A g \in Busy : Creating(c) \/ Creating(call[g]) => call[g].id # c.id
  PROVE  TransportInv'
  <1>1. Moves(h, c)
    BY BeginMoves
  <1>2. Tells(h, c) /\ IdOfItsOwn(h, c)
    BY DEF Tells, IdOfItsOwn
  <1> QED
    BY <1>1, <1>2, NothingWritten, TransportKeeps

LEMMA TransportRuns ==
  ASSUME TransportInv, NEW h \in Handlers
  PROVE  TransportCallOK(call[h]) /\ (call[h].pc # "idle" => Running(h))
  BY DEF TransportInv, TransportTyped, Running, At

\* What save() writes: the row as it is or as the handler holds it, by columns.
LEMMA RowsMerged ==
  ASSUME TransportInv, NEW h \in Handlers, Running(h),
         shipment' = MergedRows(call[h].e, call[h].dirty)
  PROVE  WritesHeld(h) /\ shipment' \in [Shipments -> ShipmentRow]
  <1>1. PICK c : c = call[h]
    OBVIOUS
  <1>2. c.e \in [DOMAIN c.e -> ShipmentRow] /\ shipment \in [Shipments -> ShipmentRow]
    BY <1>1 DEF TransportInv, TransportTyped, TransportCallOK, TransportRows, Running, At
  <1>3. ASSUME NEW row \in ShipmentRow, NEW e \in ShipmentRow, NEW dirty
        PROVE  /\ Merge(row, e, dirty) \in ShipmentRow
               /\ Merge(row, e, dirty).waybill \in {row.waybill, e.waybill}
    BY DEF Merge, ShipmentRow
  <1>4. ASSUME NEW o \in Shipments
        PROVE  /\ shipment'[o] \in ShipmentRow
               /\ \/ shipment'[o].waybill = shipment[o].waybill
                  \/ o \in DOMAIN c.e /\ shipment'[o].waybill = c.e[o].waybill
    <2>1. CASE o \in DOMAIN c.e
      <3>1. shipment'[o] = Merge(shipment[o], c.e[o], c.dirty[o])
        BY <1>1, <2>1 DEF MergedRows
      <3>2. shipment[o] \in ShipmentRow /\ c.e[o] \in ShipmentRow
        BY <1>2, <2>1
      <3> QED
        BY <1>3, <2>1, <3>1, <3>2
    <2>2. CASE o \notin DOMAIN c.e
      BY <1>1, <1>2, <2>2 DEF MergedRows
    <2> QED
      BY <2>1, <2>2
  <1>5. shipment' = [o \in Shipments |-> shipment'[o]]
    BY DEF MergedRows
  <1> QED
    BY <1>1, <1>4, <1>5 DEF WritesHeld

-----------------------------------------------------------------------------
(* One step per action of Transport *)

\* The id of a new waybill is that of no waybill and no call.
LEMMA NewIdIsFree ==
  ASSUME TransportTyped, FreeIds # {}
  PROVE  NewId \in WaybillIds \ DOMAIN waybill /\ \A g \in Busy : call[g].id # NewId
  <1>1. PICK free : free = FreeIds
    OBVIOUS
  <1>2. free \subseteq Nat /\ free # {}
    BY <1>1, WaybillsFinite DEF FreeIds
  <1>3. \E w \in free : \A v \in free : w <= v
    BY <1>2, LeastExists
  <1>4. NewId \in free
    BY <1>1, <1>3 DEF NewId
  <1> QED
    BY <1>1, <1>4 DEF FreeIds, Busy, Running

LEMMA CreateWaybillKeeps ==
  ASSUME TransportInv, NEW h \in Handlers, CreateWaybill(h)
  PROVE  TransportInv'
  <1>1. PICK w : w = NewId
    OBVIOUS
  <1>2. w \in WaybillIds \ DOMAIN waybill /\ \A g \in Busy : call[g].id # w
    BY <1>1, NewIdIsFree DEF CreateWaybill, TransportInv
  <1>3. PICK orders \in (SUBSET Shipments) \ {{}} :
          /\ \A o \in orders : Loadable(o)
          /\ Begin(h, Saving("commit new", w, [o \in orders |-> [status |-> "SHIPPED", waybill |-> w]],
                             FALSE))
    BY <1>1 DEF CreateWaybill
  <1>4. PICK e : e = [o \in orders |-> [status |-> "SHIPPED", waybill |-> w]]
    OBVIOUS
  <1>5. PICK c : c = Saving("commit new", w, e, FALSE)
    OBVIOUS
  <1>6. /\ c.pc = "select orders" /\ c.next = "commit new" /\ c.id = w /\ c.e = e
        /\ c.wrote = FALSE
    BY <1>5 DEF Saving
  <1>7. /\ DOMAIN e = orders /\ \A o \in orders : e[o].waybill = w /\ e[o] \in ShipmentRow
    BY <1>2, <1>4 DEF ShipmentRow, ShipmentStatus
  <1>8. e \in [DOMAIN e -> ShipmentRow] /\ DOMAIN e \subseteq Shipments
    BY <1>3, <1>4, <1>7
  <1>9. Creating(c)
    BY <1>6 DEF Creating
  <1>10. TransportCallOK(c)
    BY <1>2, <1>5, <1>6, <1>7, <1>8, <1>9 DEF TransportCallOK, SavePcs, WaybillPcs
  <1>11. \A o \in DOMAIN c.e : shipment[o].waybill = NoWaybill
    BY <1>3, <1>6, <1>7 DEF Loadable
  <1>12. Begin(h, c) /\ UNCHANGED transportVars
    BY <1>3, <1>4, <1>5 DEF CreateWaybill
  <1> QED
    BY <1>2, <1>6, <1>10, <1>11, <1>12, TransportBegins

\* A call that creates nothing begins with orders as they are.
LEMMA OthersBegin ==
  ASSUME TransportInv, NEW h \in Handlers, NEW c, Begin(h, c), UNCHANGED transportVars,
         c.pc \in {"select orders", "scan lines"} \cup WaybillPcs,
         c.pc = "select orders" => c.next \in SavePcs /\ c = Saving(c.next, c.id, c.e, c.wrote),
         c.pc \in WaybillPcs => c = [pc |-> c.pc, id |-> c.id, to |-> c.to, e |-> c.e],
         ~Creating(c), c.id \in {NoWaybill} \cup DOMAIN waybill,
         c.pc = "scan lines" => c.id = NoWaybill,
         DOMAIN c.e \subseteq Shipments, c.e \in [DOMAIN c.e -> ShipmentRow],
         \A o \in DOMAIN c.e : c.e[o].waybill = shipment[o].waybill
  PROVE  TransportInv'
  <1>1. TransportTyped /\ TransportRows
    BY DEF TransportInv, TransportTyped
  <1>2. TransportCallOK(c)
    BY <1>1 DEF TransportCallOK, TransportRows, SavePcs, WaybillPcs, Creating
  <1>3. ASSUME NEW g \in Busy, Creating(call[g]) PROVE call[g].id # c.id
    BY <1>1, <1>3, WaybillsFinite DEF TransportTyped, TransportCallOK, Busy
  <1> QED
    BY <1>2, <1>3, TransportBegins

LEMMA TransportArrives ==
  ASSUME TransportInv, NEW h \in Handlers,
         UpdateWaybill(h) \/ CompleteDelivery(h) \/ UpdateShipment(h) \/ PickItem(h)
  PROVE  TransportInv'
  <1>1. /\ UNCHANGED transportVars
        /\ shipment \in [Shipments -> ShipmentRow]
    BY DEF UpdateWaybill, CompleteDelivery, UpdateShipment, PickItem, TransportInv,
       TransportTyped, TransportRows
  <1>2. ASSUME NEW o \in Shipments, NEW s \in ShipmentStatus
        PROVE  /\ [shipment[o] EXCEPT !.status = s] \in ShipmentRow
               /\ [shipment[o] EXCEPT !.status = s].waybill = shipment[o].waybill
    <2>1. shipment[o] \in ShipmentRow
      BY <1>1
    <2> QED
      BY <2>1 DEF ShipmentRow
  <1>3. CASE UpdateWaybill(h)
    <2>1. PICK w \in DOMAIN waybill, s \in WaybillStatus :
            Begin(h, [pc |-> "select waybill", id |-> w, to |-> s, e |-> <<>>])
      BY <1>3 DEF UpdateWaybill
    <2>a. PICK e : e = <<>>
      OBVIOUS
    <2>b. DOMAIN e = {}
      BY <2>a
    <2>c. e \in [{} -> ShipmentRow]
      BY <2>a
    <2>2. PICK c : c = [pc |-> "select waybill", id |-> w, to |-> s, e |-> e]
      OBVIOUS
    <2>3. c.pc = "select waybill" /\ c.id = w /\ c.to = s /\ c.e = e
      BY <2>2
    <2>4. DOMAIN c.e = {}
      BY <2>b, <2>3
    <2>5. c.e \in [DOMAIN c.e -> ShipmentRow]
      BY <2>c, <2>3, <2>4
    <2>6. ~Creating(c)
      BY <2>3 DEF Creating
    <2> QED
      BY <1>1, <2>1, <2>a, <2>2, <2>3, <2>4, <2>5, <2>6, OthersBegin DEF WaybillPcs
  <1>4. CASE CompleteDelivery(h)
    <2>1. PICK w \in DOMAIN waybill, orders \in SUBSET Shipments :
            Begin(h, [pc |-> "select waybill", id |-> w, to |-> "DELIVERED",
                      e |-> [o \in orders |-> [shipment[o] EXCEPT !.status = "DELIVERED"]]])
      BY <1>4 DEF CompleteDelivery
    <2>2. PICK e : e = [o \in orders |-> [shipment[o] EXCEPT !.status = "DELIVERED"]]
      OBVIOUS
    <2>3. PICK c : c = [pc |-> "select waybill", id |-> w, to |-> "DELIVERED", e |-> e]
      OBVIOUS
    <2>4. c.pc = "select waybill" /\ c.id = w /\ c.to = "DELIVERED" /\ c.e = e
      BY <2>3
    <2>5. /\ DOMAIN e = orders
          /\ \A o \in orders : e[o] \in ShipmentRow /\ e[o].waybill = shipment[o].waybill
      BY <1>2, <2>2 DEF ShipmentStatus
    <2>6. e \in [orders -> ShipmentRow]
      BY <2>2, <2>5
    <2>7. ~Creating(c)
      BY <2>4 DEF Creating
    <2> QED
      BY <1>1, <2>1, <2>2, <2>3, <2>4, <2>5, <2>6, <2>7, OthersBegin DEF WaybillPcs
  <1>5. CASE UpdateShipment(h)
    <2>1. PICK o \in Shipments, s \in ShipmentStatus :
            Begin(h, Saving("update order", NoWaybill,
                            [x \in {o} |-> [shipment[o] EXCEPT !.status = s]], FALSE))
      BY <1>5 DEF UpdateShipment
    <2>2. PICK e : e = [x \in {o} |-> [shipment[o] EXCEPT !.status = s]]
      OBVIOUS
    <2>3. PICK c : c = Saving("update order", NoWaybill, e, FALSE)
      OBVIOUS
    <2>4. /\ c.pc = "select orders" /\ c.next = "update order" /\ c.id = NoWaybill /\ c.e = e
          /\ c.wrote = FALSE
      BY <2>3 DEF Saving
    <2>5. /\ DOMAIN e = {o}
          /\ \A x \in {o} : e[x] \in ShipmentRow /\ e[x].waybill = shipment[x].waybill
      BY <1>2, <2>2
    <2>6. e \in [{o} -> ShipmentRow]
      BY <2>2, <2>5
    <2>7. ~Creating(c)
      BY <2>4 DEF Creating
    <2> QED
      BY <1>1, <2>1, <2>2, <2>3, <2>4, <2>5, <2>6, <2>7, OthersBegin DEF SavePcs, WaybillPcs
  <1>6. CASE PickItem(h)
    <2>1. PICK o \in unpicked : Begin(h, [pc |-> "scan lines", id |-> NoWaybill,
                                          e |-> [x \in {o} |-> shipment[o]]])
      BY <1>6 DEF PickItem
    <2>2. PICK e : e = [x \in {o} |-> shipment[o]]
      OBVIOUS
    <2>3. PICK c : c = [pc |-> "scan lines", id |-> NoWaybill, e |-> e]
      OBVIOUS
    <2>4. c.pc = "scan lines" /\ c.id = NoWaybill /\ c.e = e
      BY <2>3
    <2>5. o \in Shipments
      BY DEF TransportInv, TransportTyped, TransportRows
    <2>6. /\ DOMAIN e = {o}
          /\ \A x \in {o} : e[x] \in ShipmentRow /\ e[x].waybill = shipment[x].waybill
      BY <1>1, <2>2, <2>5
    <2>7. e \in [{o} -> ShipmentRow]
      BY <2>2, <2>6
    <2>8. ~Creating(c)
      BY <2>4 DEF Creating
    <2> QED
      BY <1>1, <2>1, <2>2, <2>3, <2>4, <2>5, <2>6, <2>7, <2>8, OthersBegin DEF WaybillPcs
  <1> QED
    BY <1>3, <1>4, <1>5, <1>6

LEMMA WaybillSteps ==
  ASSUME TransportInv, NEW h \in Handlers, SelectWaybill(h) \/ WriteWaybill(h)
  PROVE  TransportInv'
  <1>1. PICK c : c = call[h]
    OBVIOUS
  <1>2. c.pc \in WaybillPcs /\ Running(h) /\ TransportCallOK(c)
    BY <1>1, TransportRuns DEF SelectWaybill, WriteWaybill, At, WaybillPcs
  <1>3. c = [pc |-> c.pc, id |-> c.id, to |-> c.to, e |-> c.e] /\ ~Creating(c)
    BY <1>2 DEF TransportCallOK, WaybillPcs, Creating
  <1>4. CASE UNCHANGED transportVars /\ Return(h)
    BY <1>2, <1>4, NothingWritten, TransportEnds
  <1>5. ASSUME UNCHANGED transportVars, NEW wrote, SaveOrders(h, wrote) PROVE TransportInv'
    <2>1. PICK d : d = Saving("commit delivery", c.id, c.e, wrote)
      OBVIOUS
    <2>2. /\ d.pc = "select orders" /\ d.next = "commit delivery" /\ d.id = c.id /\ d.e = c.e
          /\ d.wrote = wrote
      BY <2>1 DEF Saving
    <2>3. ~Creating(d)
      BY <2>2 DEF Creating
    <2>4. TransportCallOK(d)
      BY <1>2, <1>3, <2>1, <2>2, <2>3 DEF TransportCallOK, SavePcs, WaybillPcs
    <2>5. Become(h, d)
      BY <1>1, <1>5, <2>1 DEF SaveOrders
    <2> QED
      BY <1>1, <1>2, <1>5, <2>2, <2>3, <2>4, <2>5, TransportGoesOn
  <1>6. ASSUME UNCHANGED transportVars, Goto(h, "update waybill") PROVE TransportInv'
    <2>1. PICK d : d = [c EXCEPT !.pc = "update waybill"]
      OBVIOUS
    <2>2. d = [pc |-> "update waybill", id |-> c.id, to |-> c.to, e |-> c.e]
      BY <1>3, <2>1
    <2>3. d.pc = "update waybill" /\ d.id = c.id /\ d.to = c.to /\ d.e = c.e
      BY <2>2
    <2>4. ~Creating(d)
      BY <2>3 DEF Creating
    <2>5. TransportCallOK(d)
      BY <1>2, <1>3, <2>2, <2>3, <2>4 DEF TransportCallOK, WaybillPcs
    <2>6. Become(h, d)
      BY <1>1, <1>6, <2>1 DEF Goto
    <2> QED
      BY <1>1, <1>2, <1>6, <2>3, <2>4, <2>5, <2>6, TransportGoesOn
  <1>7. CASE SelectWaybill(h)
    BY <1>4, <1>5, <1>6, <1>7 DEF SelectWaybill
  <1>8. CASE WriteWaybill(h)
    <2>1. UNCHANGED <<shipment, unpicked, carried>>
      BY <1>8 DEF WriteWaybill
    <2>2. CASE SaveOrders(h, TRUE) /\ UNCHANGED waybill
      BY <1>5, <2>1, <2>2 DEF transportVars
    <2>3. CASE waybill' = [waybill EXCEPT ![c.id] = c.to] /\ Return(h)
      <3>1. DOMAIN waybill' = DOMAIN waybill /\ WritesHeld(h)
        BY <2>1, <2>3 DEF WritesHeld
      <3> QED
        BY <1>2, <2>1, <2>3, <3>1, TransportEnds
    <2> QED
      BY <1>1, <1>8, <2>2, <2>3 DEF WriteWaybill
  <1> QED
    BY <1>7, <1>8

LEMMA SelectOrdersKeeps ==
  ASSUME TransportInv, NEW h \in Handlers, SelectOrders(h)
  PROVE  TransportInv'
  <1>1. PICK c : c = call[h]
    OBVIOUS
  <1>2. c.pc = "select orders" /\ Running(h) /\ TransportCallOK(c) /\ UNCHANGED transportVars
    BY <1>1, TransportRuns DEF SelectOrders, At
  <1>3. c.next \in SavePcs /\ c = Saving(c.next, c.id, c.e, c.wrote)
    BY <1>2 DEF TransportCallOK
  <1>4. PICK dirty : dirty = DirtyRows(c.e)
    OBVIOUS
  <1>5. PICK d : d = [c EXCEPT !.pc = c.next, !.dirty = dirty]
    OBVIOUS
  <1>6. /\ d.pc = c.next /\ d.dirty = dirty /\ d.id = c.id /\ d.e = c.e
    BY <1>3, <1>5 DEF Saving
  <1>7. Become(h, d)
    BY <1>1, <1>4, <1>5 DEF SelectOrders
  <1>8. Creating(d) <=> Creating(c)
    BY <1>2, <1>3, <1>6 DEF Creating, SavePcs
  <1>9. ASSUME d.pc = "commit new", NEW o \in DOMAIN d.e PROVE "waybill" \in d.dirty[o]
    <2>1. Creating(c)
      BY <1>2, <1>6, <1>9 DEF Creating
    <2>2. o \in Shipments /\ c.e[o].waybill \notin {NoWaybill} \cup DOMAIN waybill
      BY <1>2, <1>6, <1>9, <2>1, WaybillsFinite DEF TransportCallOK, TransportInv
    <2>3. shipment[o] \in ShipmentRow /\ shipment[o].waybill \in {NoWaybill} \cup DOMAIN waybill
      BY <2>2 DEF TransportInv, TransportTyped, TransportRows
    <2>4. "waybill" \in Dirty(c.e[o], shipment[o])
      BY <2>2, <2>3 DEF Dirty, ShipmentRow
    <2> QED
      BY <1>4, <1>6, <1>9, <2>4 DEF DirtyRows
  <1>10. d.pc \in SavePcs /\ d.pc \notin WaybillPcs /\ d.pc # "select orders"
    BY <1>3, <1>6 DEF SavePcs, WaybillPcs
  <1>11. TransportCallOK(d)
    <2>1. /\ d.id \in {NoWaybill} \cup WaybillIds
          /\ DOMAIN d.e \subseteq Shipments /\ d.e \in [DOMAIN d.e -> ShipmentRow]
          /\ ~Creating(d) => \A o \in DOMAIN d.e : d.e[o].waybill \in {NoWaybill} \cup DOMAIN waybill
      BY <1>2, <1>6, <1>8 DEF TransportCallOK
    <2>2. Creating(d) => /\ d.id \in WaybillIds \ DOMAIN waybill
                         /\ \A o \in DOMAIN d.e : d.e[o].waybill = d.id
      BY <1>2, <1>6, <1>8 DEF TransportCallOK
    <2>3. d.pc # "scan lines"
      BY <1>10 DEF SavePcs
    <2> QED
      BY ONLY <1>9, <1>10, <2>1, <2>2, <2>3 DEF TransportCallOK
  <1> QED
    BY <1>1, <1>2, <1>6, <1>7, <1>8, <1>11, TransportGoesOn

LEMMA ScanLinesKeeps ==
  ASSUME TransportInv, NEW h \in Handlers, ScanLines(h)
  PROVE  TransportInv'
  <1>1. PICK c : c = call[h]
    OBVIOUS
  <1>2. c.pc = "scan lines" /\ Running(h) /\ TransportCallOK(c) /\ UNCHANGED transportVars
    BY <1>1, TransportRuns DEF ScanLines, At
  <1>3. CASE Return(h)
    BY <1>2, <1>3, NothingWritten, TransportEnds
  <1>4. CASE ~Return(h)
    <2>1. PICK next, s :
            /\ next \in {"commit last pick", "update order"} /\ s \in {"PICKED", "PICKING"}
            /\ Become(h, Saving(next, NoWaybill, [x \in DOMAIN c.e |-> [c.e[x] EXCEPT !.status = s]],
                                FALSE))
      <3>1. \/ Become(h, Saving("commit last pick", NoWaybill,
                                [x \in DOMAIN c.e |-> [c.e[x] EXCEPT !.status = "PICKED"]], FALSE))
            \/ Become(h, Saving("update order", NoWaybill,
                                [x \in DOMAIN c.e |-> [c.e[x] EXCEPT !.status = "PICKING"]], FALSE))
        BY <1>1, <1>4 DEF ScanLines
      <3> QED
        BY <3>1
    <2>2. PICK e : e = [x \in DOMAIN c.e |-> [c.e[x] EXCEPT !.status = s]]
      OBVIOUS
    <2>3. PICK d : d = Saving(next, NoWaybill, e, FALSE)
      OBVIOUS
    <2>4. /\ d.pc = "select orders" /\ d.next = next /\ d.id = NoWaybill /\ d.e = e
          /\ d.wrote = FALSE
      BY <2>3 DEF Saving
    <2>5. ~Creating(c) /\ ~Creating(d)
      BY <1>2, <2>1, <2>4 DEF Creating
    <2>6. ASSUME NEW x \in DOMAIN c.e PROVE e[x] \in ShipmentRow /\ e[x].waybill = c.e[x].waybill
      <3>1. c.e[x] \in ShipmentRow
        BY <1>2 DEF TransportCallOK
      <3> QED
        BY <2>1, <2>2, <3>1 DEF ShipmentRow, ShipmentStatus
    <2>7. DOMAIN e = DOMAIN c.e /\ e \in [DOMAIN e -> ShipmentRow]
      BY <2>2, <2>6
    <2>8. TransportCallOK(d)
      <3>1. \A o \in DOMAIN e : e[o].waybill \in {NoWaybill} \cup DOMAIN waybill
        BY <1>2, <2>5, <2>6, <2>7 DEF TransportCallOK
      <3>2. next \in SavePcs /\ DOMAIN e \subseteq Shipments
        BY <1>2, <2>1, <2>7 DEF TransportCallOK, SavePcs
      <3>3. d = Saving(d.next, d.id, d.e, d.wrote)
        BY <2>3, <2>4
      <3>4. d.pc # "commit new" /\ d.pc \notin WaybillPcs
        BY <2>4 DEF WaybillPcs
      <3>5. /\ d.next \in SavePcs /\ d.id \in {NoWaybill} \cup WaybillIds
            /\ DOMAIN d.e \subseteq Shipments /\ d.e \in [DOMAIN d.e -> ShipmentRow]
            /\ \A o \in DOMAIN d.e : d.e[o].waybill \in {NoWaybill} \cup DOMAIN waybill
        BY <2>4, <2>7, <3>1, <3>2
      <3>6. d.pc = "select orders" /\ ~Creating(d)
        BY <2>4, <2>5
      <3> HIDE DEF Saving, Creating, SavePcs, WaybillPcs
      <3> QED
        BY ONLY <3>3, <3>4, <3>5, <3>6 DEF TransportCallOK
    <2>9. d.id = c.id
      BY <1>2, <2>4 DEF TransportCallOK
    <2>10. Become(h, d)
      BY <2>1, <2>2, <2>3
    <2> QED
      BY <1>1, <1>2, <2>4, <2>5, <2>6, <2>7, <2>8, <2>9, <2>10, TransportGoesOn
  <1> QED
    BY <1>3, <1>4

LEMMA OrdersWritten ==
  ASSUME TransportInv, NEW h \in Handlers,
         CommitDelivery(h) \/ UpdateOrder(h) \/ CommitLastPick(h)
  PROVE  TransportInv'
  <1>1. /\ call[h].pc \in {"commit delivery", "update order", "commit last pick"} /\ Return(h)
        /\ shipment' = MergedRows(call[h].e, call[h].dirty) /\ UNCHANGED carried
        /\ unpicked' \subseteq unpicked
    BY DEF CommitDelivery, UpdateOrder, CommitLastPick, At
  <1>2. DOMAIN waybill' = DOMAIN waybill
    BY DEF CommitDelivery, UpdateOrder, CommitLastPick
  <1>3. ~Creating(call[h]) /\ Running(h)
    BY <1>1, TransportRuns DEF Creating
  <1> QED
    BY <1>1, <1>2, <1>3, RowsMerged, TransportEnds

\* The waybill that is created may be exposed, if other calls run.
LEMMA CommitWaybillKeeps ==
  ASSUME TransportInv, NEW h \in Handlers, CommitWaybill(h)
  PROVE  TransportInv'
  <1>1. PICK c, w : c = call[h] /\ w = c.id
    OBVIOUS
  <1>2. /\ c.pc = "commit new" /\ Running(h) /\ TransportCallOK(c) /\ Creating(c)
        /\ UNCHANGED unpicked
    BY <1>1, TransportRuns DEF CommitWaybill, At, Creating
  <1>3. /\ w \in WaybillIds \ DOMAIN waybill
        /\ \A o \in DOMAIN c.e : c.e[o].waybill = w /\ "waybill" \in c.dirty[o]
        /\ DOMAIN c.e \subseteq Shipments
    BY <1>1, <1>2 DEF TransportCallOK
  <1>4. /\ waybill' = With(waybill, w, "DRAFT") /\ carried' = With(carried, w, DOMAIN c.e)
        /\ shipment' = MergedRows(c.e, c.dirty) /\ Return(h)
    BY <1>1 DEF CommitWaybill
  <1>5. TransportTyped /\ TransportRows /\ h \in Busy
    BY <1>2 DEF TransportInv, TransportTyped, Busy
  <1>6. /\ DOMAIN waybill' = DOMAIN waybill \cup {w}
        /\ DOMAIN carried' = DOMAIN waybill \cup {w} /\ carried'[w] = DOMAIN c.e
        /\ \A v \in DOMAIN waybill : carried'[v] = carried[v]
    BY <1>3, <1>4, <1>5 DEF With, TransportRows
  <1>7. WritesHeld(h) /\ shipment' \in [Shipments -> ShipmentRow]
    BY <1>1, <1>2, <1>4, RowsMerged
  <1>8. ASSUME NEW o \in DOMAIN c.e PROVE shipment'[o].waybill = w
    <2>1. shipment'[o] = Merge(shipment[o], c.e[o], c.dirty[o])
      BY <1>3, <1>4, <1>8 DEF MergedRows
    <2>2. PICK row, e, dirty : row = shipment[o] /\ e = c.e[o] /\ dirty = c.dirty[o]
      OBVIOUS
    <2>3. row \in ShipmentRow /\ "waybill" \in dirty /\ e.waybill = w
      BY <1>3, <1>5, <1>8, <2>2 DEF TransportRows
    <2>4. Merge(row, e, dirty).waybill = w
      BY <2>3 DEF Merge, ShipmentRow
    <2> QED
      BY <2>1, <2>2, <2>4
  <1>9. ASSUME NEW o \in Shipments PROVE shipment'[o].waybill \in {NoWaybill} \cup DOMAIN waybill'
    <2>1. CASE o \in DOMAIN c.e
      BY <1>6, <1>8, <2>1
    <2>2. CASE o \notin DOMAIN c.e
      BY <1>1, <1>5, <1>6, <1>7, <2>2 DEF WritesHeld, TransportRows
    <2> QED
      BY <2>1, <2>2
  <1>10. TransportRows'
    <2>1. ASSUME NEW v \in DOMAIN waybill' PROVE carried'[v] \subseteq Shipments
      BY <1>3, <1>5, <1>6 DEF TransportRows
    <2> QED
      BY <1>2, <1>3, <1>5, <1>6, <1>7, <1>9, <2>1 DEF TransportRows
  <1>11. Moves(h, Idle)
    BY <1>2, <1>4, BecomeMoves DEF Return
  <1>12. ASSUME NEW g \in Busy \ {h}, Creating(call[g]) PROVE call[g].id \notin DOMAIN waybill'
    <2>1. call[g].id \notin DOMAIN waybill
      BY <1>5, <1>12 DEF Busy, TransportTyped, TransportCallOK
    <2>2. call[g].id # w
      BY <1>1, <1>5, <1>12 DEF TransportTyped, OwnIds
    <2> QED
      BY <1>6, <2>1, <2>2
  <1>13. TransportTyped'
    <2>1. IdOfItsOwn(h, Idle)
      BY DEF IdOfItsOwn, Idle
    <2> QED
      BY <1>5, <1>6, <1>10, <1>11, <1>12, <2>1, TransportIdle, TransportTypedKept
  <1>14. Exposed' \subseteq Exposed \cup {w}
    <2>1. ASSUME NEW v \in Exposed', v # w PROVE v \in Exposed
      <3>1. v \in DOMAIN waybill /\ v \in DOMAIN waybill'
        BY <1>6, <2>1 DEF Exposed
      <3>2. Tells(h, Idle)
        BY DEF Tells, Idle
      <3> QED
        BY <1>5, <1>6, <1>7, <1>11, <2>1, <3>1, <3>2, ExposesNone
    <2> QED
      BY <2>1
  <1>15. Busy' = {} => Exposed' \subseteq Exposed
    <2>1. ASSUME Busy' = {} PROVE w \notin Exposed'
      BY <1>6, <1>8, <2>1 DEF Exposed
    <2> QED
      BY <1>14, <2>1
  <1>16. UNCHANGED overlaps /\ Idle.pc = "idle"
    BY <1>4 DEF Return, Become, Idle
  <1> QED
    BY <1>2, <1>11, <1>13, <1>14, <1>15, <1>16, ChargeKept DEF TransportInv

LEMMA TransportInitOK == ServerInit /\ TransportInit => TransportInv
  <1> SUFFICES ASSUME ServerInit, TransportInit PROVE TransportInv
    OBVIOUS
  <1>1. /\ call = [h \in Handlers |-> Idle] /\ overlaps = 0 /\ waybill = <<>> /\ carried = <<>>
        /\ shipment = [o \in Shipments |-> [status |-> "PENDING", waybill |-> NoWaybill]]
        /\ unpicked = Shipments
    BY DEF ServerInit, TransportInit
  <1>2. \A h \in Handlers : call[h] = Idle
    BY <1>1
  <1>3. Busy = {} /\ DOMAIN waybill = {} /\ DOMAIN carried = {}
    BY <1>1, <1>2 DEF Busy, Running, At, Idle
  <1>4. Exposed = {}
    BY <1>3 DEF Exposed
  <1>5. IsFiniteSet(Busy) /\ Cardinality(Busy) = 0 /\ Cardinality(Exposed) = 0
    BY <1>3, <1>4, FS_EmptySet
  <1>6. TransportRows
    BY <1>1, <1>3 DEF TransportRows, ShipmentRow, ShipmentStatus
  <1>7. OwnIds
    BY <1>3 DEF OwnIds
  <1> QED
    BY <1>1, <1>2, <1>3, <1>5, <1>6, <1>7, TransportIdle DEF TransportInv, TransportTyped, Charged

LEMMA TransportNextKeeps ==
  TransportInv /\ [TransportNext]_<<serverVars, transportVars>> => TransportInv'
  <1> SUFFICES ASSUME TransportInv, [TransportNext]_<<serverVars, transportVars>>
               PROVE  TransportInv'
    OBVIOUS
  <1>1. CASE UNCHANGED <<serverVars, transportVars>>
    <2>1. UNCHANGED <<call, overlaps, shipment, unpicked, waybill, carried>>
      BY <1>1 DEF serverVars, transportVars
    <2>2. Busy' = Busy
      BY <2>1 DEF Busy, Running, At
    <2>3. Exposed' = Exposed
      BY <2>1, <2>2 DEF Exposed, Strays
    <2>4. TransportTyped'
      <3>1. TransportRows' /\ OwnIds'
        <4>1. TransportRows /\ OwnIds
          BY DEF TransportInv, TransportTyped
        <4>2. TransportRows'
          BY ONLY <2>1, <4>1 DEF TransportRows
        <4>3. OwnIds'
          <5>1. ASSUME NEW f \in Busy, NEW g \in Busy, Creating(call'[g]), f # g
                PROVE  call'[f].id # call'[g].id
            <6>1. call' = call
              BY <2>1
            <6> QED
              BY ONLY <4>1, <5>1, <6>1 DEF OwnIds
          <5> QED
            BY ONLY <2>2, <5>1 DEF OwnIds, Creating
        <4> QED
          BY <4>2, <4>3
      <3>2. ASSUME NEW h \in Handlers PROVE TransportCallOK(call[h])'
        <4>1. TransportCallOK(call[h])
          BY DEF TransportInv, TransportTyped
        <4> QED
          BY <2>1, <4>1 DEF TransportCallOK, Creating
      <3> QED
        BY <2>1, <3>1, <3>2 DEF TransportInv, TransportTyped
    <2> QED
      BY <2>1, <2>2, <2>3, <2>4 DEF TransportInv, Charged
  <1>2. ASSUME NEW h \in Handlers, TransportStep(h) PROVE TransportInv'
    <2>1. CASE Crash(h) /\ UNCHANGED transportVars
      BY <2>1, NothingWritten, TransportEnds
    <2> QED
      BY <1>2, <2>1, CreateWaybillKeeps, CommitWaybillKeeps, TransportArrives, WaybillSteps,
         SelectOrdersKeeps, ScanLinesKeeps, OrdersWritten DEF TransportStep
  <1> QED
    BY <1>1, <1>2 DEF TransportNext

LEMMA RobbedAreCharged == TransportInv => WaybillKeepsOrders
  <1> SUFFICES ASSUME TransportInv PROVE WaybillKeepsOrders
    OBVIOUS
  <1>1. /\ IsFiniteSet(Exposed) /\ Cardinality(Exposed) \in Nat /\ overlaps \in Nat
        /\ Cardinality(Busy) \in Nat
    BY WaybillsFinite, FS_CardinalityType DEF TransportInv, TransportTyped
  <1>2. Cardinality(Exposed) <= overlaps
    <2>1. CASE Busy = {}
      BY <1>1, <2>1 DEF TransportInv, Charged
    <2>2. CASE Busy # {}
      <3>1. Cardinality(Busy) # 0
        BY <2>2, FS_EmptySet DEF TransportInv
      <3> QED
        BY <1>1, <2>2, <3>1 DEF TransportInv, Charged
    <2> QED
      BY <2>1, <2>2
  <1>3. Robbed \subseteq Exposed
    BY DEF Robbed, Exposed
  <1>4. Cardinality(Robbed) \in Nat /\ Cardinality(Robbed) <= Cardinality(Exposed)
    BY <1>1, <1>3, FS_Subset, FS_CardinalityType
  <1> QED
    BY <1>1, <1>2, <1>4 DEF WaybillKeepsOrders

\* At most as many waybills have lost an order to another waybill, or to none, as calls
\* overlapped others or died: any orders, waybills and number of handlers, whatever is
\* picked, delivered or set by hand (tms.service.ts, outbound.service.ts).
THEOREM OrdersStay == TransportSpec => []WaybillKeepsOrders
  <1> QED
    BY TransportInitOK, TransportNextKeeps, RobbedAreCharged, PTL DEF TransportSpec

-----------------------------------------------------------------------------
(* Field work and the feed that shows it *)

FewParts == Cardinality(Parts) <= 200

SubjectStatus == {"NEW", "IN_PROGRESS", "RESOLVED", "COMPLETED"}
IsSubject(e)  == /\ e = [status |-> e.status, assigned_to |-> e.assigned_to]
                 /\ e.status \in SubjectStatus

Answering  == {"find", "record", "count"}
SubjectPcs == {"select", "update", "sync", "commit"}

\* The parts a call is about to tick.
Works(c) == IF c.pc \in {"find", "record"} THEN {c.part} ELSE c.ticks

\* What a call holds, whoever else runs.
SubjectCall(c) ==
  c = [pc |-> c.pc, e |-> c.e, ticks |-> c.ticks, seen |-> c.seen, shown |-> c.shown, tx |-> c.tx,
       verdict |-> c.verdict, dirty |-> c.dirty, add |-> c.add, drop |-> c.drop]

FieldCallOK(c) ==
  /\ c.pc \in {"idle", "insert item", "decide"} \cup Answering \cup SubjectPcs
  /\ c.pc \in Answering => kind \in Counted
  /\ c.pc = "insert item" => kind = "OFFICE_TASK"
  /\ c.pc = "decide" => kind = "INCIDENT"
  /\ c.pc \in Answering \cup SubjectPcs => IsSubject(c.e)
  /\ c.pc \in SubjectPcs =>
       /\ SubjectCall(c)
       /\ c.tx \/ c.shown # <<>>
       /\ c.pc = "sync" => c.shown # <<>>
       /\ c.pc = "commit" => c.tx
  /\ kind \in Counted /\ c.pc # "idle" =>
       /\ Works(c) # {} /\ Works(c) \subseteq c.seen
       /\ expected \subseteq c.seen /\ c.seen \subseteq listed
       /\ c.pc \in SubjectPcs => c.tx /\ c.add \subseteq c.ticks /\ c.drop = {}

FieldTyped ==
  /\ kind \in Counted \cup {"OFFICE_TASK", "INCIDENT"} /\ IsSubject(subject)
  /\ expected \subseteq listed /\ listed \subseteq Parts
  /\ DOMAIN request # {} => kind = "INCIDENT"
  /\ \A h \in Handlers : FieldCallOK(call[h])

\* Answers: every handler knows all the parts there are, or it runs alone and a part
\* was added behind its back.
CountedKnows(c) ==
  /\ ticked \subseteq c.seen
  /\ c.pc \in SubjectPcs /\ c.e.status = "COMPLETED" => expected \subseteq ticked \cup c.ticks
  /\ c.pc \in SubjectPcs \ {"select"} => c.ticks \subseteq ticked \cup c.add

CountedInv ==
  kind \in Counted /\ overlaps <= 1 =>
    /\ (\A h \in Busy : call[h].seen = listed) \/ (overlaps = 1 /\ Alone)
    /\ ticked \subseteq listed
    /\ subject.status = "COMPLETED" => expected \subseteq ticked
    /\ \A h \in Busy : CountedKnows(call[h])

\* What the feed is to show of a subject, and whether it does.
ShownAs(status) == IF status = "RESOLVED" THEN "IN_PROGRESS" ELSE status
Agree           == work.status = ShownAs(subject.status)

\* Between two awaits of a call: a save without a transaction has written the subject
\* before the feed, one within it writes the feed before the subject.
SubjectAhead(c) == c.pc = "sync" /\ ~c.tx
FeedAhead(c)    == c.pc = "commit" /\ c.shown # <<>>

FeedKnows(c) ==
  /\ ~SubjectAhead(c) /\ ~FeedAhead(c) => Agree
  /\ c.pc \in SubjectPcs =>
       IF c.shown = <<>> THEN c.e.status = subject.status
                         ELSE Synced(c.shown[1]).status = ShownAs(c.e.status)
  /\ FeedAhead(c) => work.status = ShownAs(c.e.status)

SubjectKnows(c) ==
  /\ c.pc \in SubjectPcs \ {"select"} /\ ~SubjectAhead(c) => c.dirty = Dirty(c.e, subject)
  /\ SubjectAhead(c) => c.e = subject

OfficeKnows(c) ==
  /\ c.pc = "insert item" => subject.status # "COMPLETED"
  /\ c.pc \in SubjectPcs => /\ c.ticks \subseteq listed
                            /\ c.e.status = "COMPLETED" => listed \subseteq c.ticks
  /\ c.pc \in SubjectPcs \ {"select"} /\ ~SubjectAhead(c) =>
       c.add = c.ticks \ ticked /\ c.drop = ticked \ c.ticks

OfficeRows == /\ ticked \subseteq listed
              /\ subject.status = "COMPLETED" => listed \subseteq ticked

FieldKnows(c) ==
  /\ FewParts => FeedKnows(c)
  /\ SubjectKnows(c)
  /\ kind = "OFFICE_TASK" => OfficeKnows(c)

FieldCalm ==
  Calm => /\ \A h \in Busy : FieldKnows(call[h])
          /\ FewParts /\ Busy = {} => Agree
          /\ kind = "OFFICE_TASK" => OfficeRows

FieldInv == HandlersOK /\ FieldTyped /\ CountedInv /\ FieldCalm

-----------------------------------------------------------------------------
LEMMA OneElement == \A o : <<o>> # <<>> /\ <<o>>[1] = o
  <1> TAKE o
  <1>1. DOMAIN <<o>> = {1} /\ DOMAIN <<>> = {}
    OBVIOUS
  <1> QED
    BY <1>1

LEMMA PartsFinite ==
  ASSUME FieldTyped, NEW S \in SUBSET listed
  PROVE  IsFiniteSet(S) /\ Cardinality(S) \in Nat
  <1>1. S \subseteq Parts
    BY DEF FieldTyped
  <1> QED
    BY <1>1, PartsAssumption, FS_Subset, FS_CardinalityType

\* computeTransition says COMPLETED only when nothing is left.
LEMMA AllDone ==
  ASSUME NEW S, IsFiniteSet(S), NEW T \in SUBSET S,
         Outcome(Cardinality(T), Cardinality(S)).status = "COMPLETED"
  PROVE  T = S
  <1>1. /\ IsFiniteSet(T) /\ Cardinality(T) \in Nat /\ Cardinality(S) \in Nat
        /\ Cardinality(T) <= Cardinality(S)
    BY FS_Subset, FS_CardinalityType
  <1>2. Cardinality(T) >= Cardinality(S)
    BY DEF Outcome
  <1> QED
    BY <1>1, <1>2, FS_Subset

\* With at most 200 parts, what has been started has a percentage that shows it.
LEMMA OutcomeShown ==
  ASSUME NEW done \in Nat, NEW total \in 0 .. 200
  PROVE  LET o == Outcome(done, total) IN
           /\ Synced(o).status = ShownAs(o.status)
           /\ o.status \in {"NEW", "IN_PROGRESS", "COMPLETED"}
  <1>1. CASE done >= total
    BY <1>1 DEF Outcome, Synced, ShownAs
  <1>2. CASE done < total
    <2>1. Percent(done, total) \in Int /\ (Percent(done, total) > 0 <=> done > 0)
      <3>1. PICK n, m : n = 200 * done + total /\ m = 2 * total
        OBVIOUS
      <3>2. n \in Nat /\ m \in Nat /\ m > 0 /\ (done = 0 => n < m) /\ (done > 0 => n >= m)
        BY <1>2, <3>1
      <3>3. n \div m \in Int /\ (n < m => n \div m = 0) /\ (n >= m => n \div m > 0)
        BY <3>2
      <3> QED
        BY <3>1, <3>2, <3>3 DEF Percent
    <2> QED
      BY <1>2, <2>1 DEF Outcome, Synced, ShownAs
  <1> QED
    BY <1>1, <1>2

LEMMA OutcomeStatus ==
  \A done, total : Outcome(done, total).status \in {"NEW", "IN_PROGRESS", "COMPLETED"}
  BY DEF Outcome

\* save() writes a row of the table.
LEMMA SubjectMerged ==
  ASSUME NEW row, NEW e, IsSubject(row), IsSubject(e), NEW dirty
  PROVE  /\ IsSubject(Merge(row, e, dirty))
         /\ Merge(row, e, dirty).status \in {row.status, e.status}
         /\ dirty = Dirty(e, row) => Merge(row, e, dirty) = e
  <1>1. DOMAIN row = {"status", "assigned_to"} /\ DOMAIN e = DOMAIN row
        /\ e = [c \in DOMAIN e |-> e[c]]
    BY DEF IsSubject
  <1>2. PICK m : m = Merge(row, e, dirty)
    OBVIOUS
  <1>3. m = [status |-> m.status, assigned_to |-> m.assigned_to]
    BY <1>1, <1>2 DEF Merge
  <1>4. m.status \in {row.status, e.status}
    BY <1>1, <1>2 DEF Merge
  <1>5. dirty = Dirty(e, row) => m = e
    BY <1>1, <1>2, SavedAsIs
  <1> QED
    BY <1>2, <1>3, <1>4, <1>5 DEF IsSubject

-----------------------------------------------------------------------------
LEMMA FieldBusy ==
  ASSUME FieldInv, NEW h \in Handlers, NEW d, Moves(h, d)
  PROVE  /\ HandlersOK'
         /\ call'[h] = d /\ \A g \in Handlers \ {h} : call'[g] = call[g]
         /\ Busy' = IF d.pc = "idle" THEN Busy \ {h} ELSE Busy \cup {h}
         /\ Calm' => Calm /\ Busy' \subseteq {h}
  <1>1. /\ HandlersOK' /\ call'[h] = d /\ \A g \in Handlers \ {h} : call'[g] = call[g]
        /\ Calm' => Calm /\ \A g \in Handlers \ {h} : call[g].pc = "idle"
    BY Moved DEF FieldInv
  <1>2. ASSUME NEW g PROVE g \in Busy' <=> g \in (IF d.pc = "idle" THEN Busy \ {h} ELSE Busy \cup {h})
    BY <1>1 DEF Busy, Running, At
  <1>3. Calm' => Busy' \subseteq {h}
    BY <1>1 DEF Busy, Running, At
  <1> QED
    BY <1>1, <1>2, <1>3

LEMMA FieldTypedKeeps ==
  ASSUME FieldInv, NEW h \in Handlers, NEW d, Moves(h, d), UNCHANGED <<kind, expected>>,
         listed \subseteq listed', listed' \subseteq Parts, IsSubject(subject'),
         DOMAIN request' # {} => kind = "INCIDENT", FieldCallOK(d)'
  PROVE  FieldTyped'
  <1>1. ASSUME NEW g \in Handlers \ {h} PROVE FieldCallOK(call[g])'
    <2>1. PICK c : c = call[g]
      OBVIOUS
    <2>2. FieldCallOK(c) /\ call'[g] = c
      BY <2>1, FieldBusy DEF FieldInv, FieldTyped
    <2>3. FieldCallOK(c)'
      BY <2>2 DEF FieldCallOK, Works
    <2> QED
      BY <2>2, <2>3
  <1>2. FieldCallOK(call[h])'
    BY FieldBusy
  <1> QED
    BY <1>1, <1>2 DEF FieldInv, FieldTyped

\* The overlaps that matter to answers.
LEMMA CountedKeeps ==
  ASSUME FieldInv, FieldTyped', NEW h \in Handlers, NEW d, Moves(h, d),
         UNCHANGED <<kind, expected, listed>>,
         \/ UNCHANGED ticked
         \/ /\ Running(h) /\ ticked \subseteq ticked' /\ ticked' \subseteq ticked \cup Works(call[h])
            /\ d.pc = "idle",
         kind \in Counted /\ d.pc # "idle" =>
           d.seen = (IF Running(h) THEN call[h].seen ELSE listed),
         kind \in Counted /\ overlaps <= 1 /\ CountedInv =>
           /\ subject'.status = "COMPLETED" => expected \subseteq ticked'
           /\ d.pc # "idle" => CountedKnows(d)'
  PROVE  CountedInv'
  <1> SUFFICES ASSUME kind \in Counted, overlaps' <= 1
               PROVE  /\ (\A g \in Busy' : call'[g].seen = listed) \/ (overlaps' = 1 /\ Alone')
                      /\ ticked' \subseteq listed
                      /\ subject'.status = "COMPLETED" => expected \subseteq ticked'
                      /\ \A g \in Busy' : CountedKnows(call[g])'
    BY DEF CountedInv
  <1>1. overlaps \in Nat /\ overlaps' \in Nat /\ overlaps <= overlaps'
    BY DEF FieldInv, HandlersOK, Moves, Disturb
  <1>2. overlaps <= 1 /\ CountedInv
    BY <1>1 DEF FieldInv
  <1>3. /\ (\A g \in Busy : call[g].seen = listed) \/ (overlaps = 1 /\ Alone)
        /\ ticked \subseteq listed
        /\ \A g \in Busy : CountedKnows(call[g])
    BY <1>2 DEF CountedInv
  <1>4. /\ call'[h] = d /\ \A g \in Handlers \ {h} : call'[g] = call[g]
        /\ Busy' = IF d.pc = "idle" THEN Busy \ {h} ELSE Busy \cup {h}
    BY FieldBusy
  <1>5. (\A g \in Busy' : call'[g].seen = listed) \/ (overlaps' = 1 /\ Alone')
    <2>1. CASE \A g \in Busy : call[g].seen = listed
      <3>1. ASSUME NEW g \in Busy' PROVE call'[g].seen = listed
        <4>1. CASE g # h
          <5>1. g \in Busy /\ g \in Handlers
            BY <1>4, <3>1, <4>1 DEF Busy
          <5> QED
            BY <1>4, <2>1, <4>1, <5>1
        <4>2. CASE g = h
          <5>1. d.pc # "idle"
            BY <1>4, <3>1, <4>2
          <5>2. Running(h) => call[h].seen = listed
            BY <2>1 DEF Busy
          <5>3. d.seen = listed
            BY <5>1, <5>2
          <5> QED
            BY <1>4, <4>2, <5>3
        <4> QED
          BY <4>1, <4>2
      <3> QED
        BY <3>1
    <2>2. CASE overlaps = 1 /\ Alone /\ Running(h) /\ UNCHANGED overlaps
      <3>1. Alone'
        BY <1>4, <2>2 DEF Alone, Running, At
      <3> QED
        BY <2>2, <3>1
    <2>3. CASE overlaps = 1 /\ ~(Running(h) /\ UNCHANGED overlaps)
      <3>1. Quiet
        BY <1>1, <2>3 DEF Moves, Disturb
      <3>2. Busy = {}
        BY <3>1 DEF Busy, Quiet, Running, At
      <3> QED
        BY <2>1, <3>2
    <2> QED
      BY <1>3, <2>1, <2>2, <2>3
  <1>6. ticked' \subseteq listed
    <2>1. FieldCallOK(call[h])
      BY DEF FieldInv, FieldTyped
    <2>2. Running(h) => Works(call[h]) \subseteq listed
      BY <2>1 DEF FieldCallOK, Running, At
    <2> QED
      BY <1>3, <2>2
  <1>7. ASSUME NEW g \in Busy' PROVE CountedKnows(call[g])'
    <2>1. CASE g = h
      BY <1>2, <1>4, <1>7, <2>1
    <2>2. CASE g # h
      <3>1. PICK c : c = call[g]
        OBVIOUS
      <3>2. g \in Busy /\ call'[g] = c /\ CountedKnows(c) /\ g \in Handlers
        BY <1>3, <1>4, <2>2, <3>1 DEF Busy
      <3>3. CASE UNCHANGED ticked
        <4>1. CountedKnows(c)'
          BY <3>2, <3>3 DEF CountedKnows
        <4> QED
          BY <3>2, <4>1
      <3>4. CASE ~UNCHANGED ticked
        <4>1. Running(h) /\ ~Alone
          BY <1>4, <2>2, <3>2, <3>4 DEF Alone, Busy
        <4>2. call[g].seen = listed
          BY <1>3, <3>2, <4>1
        <4>3. CountedKnows(c)'
          BY <1>6, <3>1, <3>2, <3>4, <4>2 DEF CountedKnows
        <4> QED
          BY <3>2, <4>3
      <3> QED
        BY <3>3, <3>4
    <2> QED
      BY <2>1, <2>2
  <1>8. subject'.status = "COMPLETED" => expected \subseteq ticked'
    BY <1>2
  <1> QED
    BY <1>5, <1>6, <1>7, <1>8

LEMMA CalmKeeps ==
  ASSUME FieldInv, NEW h \in Handlers, NEW d, Moves(h, d), UNCHANGED kind,
         Calm /\ ~(Running(h) /\ ~UNCHANGED overlaps) =>
           /\ d.pc # "idle" => FieldKnows(d)'
           /\ d.pc = "idle" /\ FewParts => Agree'
           /\ kind = "OFFICE_TASK" => OfficeRows'
  PROVE  FieldCalm'
  <1> SUFFICES ASSUME Calm'
               PROVE  /\ \A g \in Busy' : FieldKnows(call[g])'
                      /\ FewParts /\ Busy' = {} => Agree'
                      /\ kind = "OFFICE_TASK" => OfficeRows'
    BY DEF FieldCalm
  <1>1. /\ Calm /\ Busy' \subseteq {h} /\ call'[h] = d
        /\ Busy' = IF d.pc = "idle" THEN Busy \ {h} ELSE Busy \cup {h}
    BY FieldBusy
  <1>2. ~(Running(h) /\ ~UNCHANGED overlaps)
    BY <1>1 DEF Calm
  <1>3. ASSUME NEW g \in Busy' PROVE FieldKnows(call[g])'
    <2>1. g = h /\ d.pc # "idle" /\ call'[g] = d
      BY <1>1, <1>3
    <2>2. FieldKnows(d)'
      BY <1>1, <1>2, <2>1
    <2> QED
      BY <2>1, <2>2
  <1>4. Busy' = {} => d.pc = "idle"
    BY <1>1
  <1> QED
    BY <1>1, <1>2, <1>3, <1>4

-----------------------------------------------------------------------------
\* What a running call knows.
LEMMA FieldRuns ==
  ASSUME FieldInv, NEW h \in Handlers, NEW c, c = call[h], Running(h)
  PROVE  /\ FieldCallOK(c) /\ c.pc # "idle" /\ h \in Busy /\ IsSubject(subject)
         /\ Calm => FieldKnows(c) /\ (kind = "OFFICE_TASK" => OfficeRows)
         /\ kind \in Counted /\ overlaps <= 1 /\ CountedInv =>
              CountedKnows(c) /\ (subject.status = "COMPLETED" => expected \subseteq ticked)
  BY DEF FieldInv, FieldTyped, Running, At, Busy, FieldCalm, CountedInv

\* A handler that goes on, begins or ends.
LEMMA FieldKeeps ==
  ASSUME FieldInv, NEW h \in Handlers, NEW d, Moves(h, d),
         UNCHANGED <<kind, expected, listed>>, IsSubject(subject'), FieldCallOK(d),
         DOMAIN request' = DOMAIN request,
         \/ UNCHANGED ticked
         \/ /\ Running(h) /\ ticked \subseteq ticked' /\ ticked' \subseteq ticked \cup Works(call[h])
            /\ d.pc = "idle"
         \/ kind \notin Counted,
         kind \in Counted /\ d.pc # "idle" =>
           d.seen = (IF Running(h) THEN call[h].seen ELSE listed),
         kind \in Counted /\ overlaps <= 1 /\ CountedInv =>
           /\ subject'.status = "COMPLETED" => expected \subseteq ticked'
           /\ d.pc # "idle" => CountedKnows(d)',
         Calm /\ ~(Running(h) /\ ~UNCHANGED overlaps) =>
           /\ d.pc # "idle" => FieldKnows(d)'
           /\ d.pc = "idle" /\ FewParts => Agree'
           /\ kind = "OFFICE_TASK" => OfficeRows'
  PROVE  FieldInv'
  <1>1. HandlersOK'
    BY FieldBusy
  <1>2. FieldTyped'
    <2>1. FieldCallOK(d)'
      BY DEF FieldCallOK, Works
    <2>2. listed \subseteq listed' /\ listed' \subseteq Parts /\ (DOMAIN request' # {} => kind = "INCIDENT")
      BY DEF FieldInv, FieldTyped
    <2> QED
      BY <2>1, <2>2, FieldTypedKeeps
  <1>3. CountedInv'
    <2>1. CASE kind \in Counted
      BY <1>2, <2>1, CountedKeeps
    <2>2. CASE kind \notin Counted
      BY <2>2 DEF CountedInv
    <2> QED
      BY <2>1, <2>2
  <1>4. FieldCalm'
    BY CalmKeeps
  <1> QED
    BY <1>1, <1>2, <1>3, <1>4 DEF FieldInv

\* A handler that stops without writing.
LEMMA FieldStops ==
  ASSUME FieldInv, NEW h \in Handlers, Moves(h, Idle), Running(h),
         UNCHANGED <<kind, work, subject, listed, ticked, expected>>, DOMAIN request' = DOMAIN request,
         call[h].pc \notin {"sync", "commit"} \/ ~UNCHANGED overlaps
  PROVE  FieldInv'
  <1>1. PICK c : c = call[h]
    OBVIOUS
  <1>2. PICK d : d = Idle
    OBVIOUS
  <1>3. d.pc = "idle" /\ Moves(h, d)
    BY <1>2 DEF Idle
  <1>4. FieldCallOK(d)
    BY <1>3 DEF FieldCallOK, Answering, SubjectPcs
  <1>5. /\ Calm => FieldKnows(c) /\ (kind = "OFFICE_TASK" => OfficeRows)
        /\ kind \in Counted /\ overlaps <= 1 /\ CountedInv =>
             CountedKnows(c) /\ (subject.status = "COMPLETED" => expected \subseteq ticked)
        /\ IsSubject(subject)
    BY <1>1, FieldRuns
  <1>6. Calm /\ c.pc \notin {"sync", "commit"} /\ FewParts => Agree
    BY <1>5 DEF FieldKnows, FeedKnows, SubjectAhead, FeedAhead
  <1>7. Calm /\ ~(Running(h) /\ ~UNCHANGED overlaps) =>
          (FewParts => Agree') /\ (kind = "OFFICE_TASK" => OfficeRows')
    BY <1>1, <1>5, <1>6 DEF Agree, OfficeRows
  <1> QED
    BY <1>3, <1>4, <1>5, <1>7, FieldKeeps

LEMMA CrashFieldKeeps ==
  ASSUME FieldInv, NEW h \in Handlers, CrashField(h)
  PROVE  FieldInv'
  <1>1. Running(h) /\ Moves(h, Idle)
    BY CrashMoves DEF CrashField, Crash, Running
  <1>2. ~UNCHANGED overlaps
    BY <1>1 DEF CrashField, Crash, Disturb, Quiet, Running, FieldInv, HandlersOK
  <1> QED
    BY <1>1, <1>2, FieldStops DEF CrashField

\* An arrival finds the tables at rest, if it disturbs nobody.
LEMMA FieldArrives ==
  ASSUME FieldInv, NEW h \in Handlers, NEW d, Begin(h, d), UNCHANGED fieldVars,
         d.pc # "idle", FieldCallOK(d),
         kind \in Counted => d.pc = "find" /\ d.seen = listed,
         (FewParts => Agree) /\ (kind = "OFFICE_TASK" => OfficeRows) => FieldKnows(d)
  PROVE  FieldInv'
  <1>1. UNCHANGED <<kind, work, subject, listed, ticked, expected, request>>
    BY DEF fieldVars
  <1>2. Moves(h, d) /\ ~Running(h) /\ (Calm => Calm)
    BY BeginMoves DEF Begin, Running
  <1>3. CASE Quiet \/ ~Calm
    <2>1. Quiet => Busy = {}
      BY DEF Quiet, Busy, Running, At
    <2>2. Calm => (FewParts => Agree) /\ (kind = "OFFICE_TASK" => OfficeRows)
      BY <1>3, <2>1 DEF FieldInv, FieldCalm
    <2>3. Calm => FieldKnows(d)' /\ (kind = "OFFICE_TASK" => OfficeRows')
      <3>1. FieldKnows(d) => FieldKnows(d)'
        BY <1>1 DEF FieldKnows, FeedKnows, SubjectKnows, OfficeKnows, Agree, SubjectAhead, FeedAhead
      <3> QED
        BY <1>1, <2>2, <3>1 DEF OfficeRows
    <2>4. kind \in Counted /\ overlaps <= 1 /\ CountedInv =>
            /\ subject'.status = "COMPLETED" => expected \subseteq ticked'
            /\ CountedKnows(d)'
      BY <1>1 DEF CountedInv, CountedKnows, SubjectPcs
    <2>5. IsSubject(subject)
      BY DEF FieldInv, FieldTyped
    <2> QED
      BY <1>1, <1>2, <2>3, <2>4, <2>5, FieldKeeps
  <1>4. CASE ~Quiet /\ Calm
    <2>1. overlaps' = 1 /\ overlaps = 0
      BY <1>4 DEF Begin, Disturb, Calm
    <2>2. HandlersOK' /\ FieldTyped'
      <3>1. FieldCallOK(d)'
        BY <1>1 DEF FieldCallOK, Works
      <3>2. listed \subseteq listed' /\ listed' \subseteq Parts /\ IsSubject(subject')
            /\ (DOMAIN request' # {} => kind = "INCIDENT")
        BY <1>1 DEF FieldInv, FieldTyped
      <3> QED
        BY <1>1, <1>2, <3>1, <3>2, FieldTypedKeeps, FieldBusy
    <2>3. kind \in Counted /\ overlaps <= 1 /\ CountedInv =>
            /\ subject'.status = "COMPLETED" => expected \subseteq ticked'
            /\ CountedKnows(d)'
      BY <1>1 DEF CountedInv, CountedKnows, SubjectPcs
    <2>4. CountedInv'
      BY <1>1, <1>2, <2>2, <2>3, CountedKeeps
    <2>5. FieldCalm'
      BY <2>1 DEF FieldCalm, Calm
    <2> QED
      BY <2>2, <2>4, <2>5 DEF FieldInv
  <1> QED
    BY <1>3, <1>4

-----------------------------------------------------------------------------
(* The awaits of a save *)

LEMMA SubjectGoesOn ==
  ASSUME FieldInv, NEW h \in Handlers, NEW c, c = call[h], c.pc \in SubjectPcs,
         NEW d, SubjectCall(d), d.pc \in SubjectPcs,
         d.e = c.e, d.ticks = c.ticks, d.seen = c.seen, d.shown = c.shown, d.tx = c.tx,
         d.pc = "sync" => c.shown # <<>>, d.pc = "commit" => c.tx,
         kind \in Counted => d.add \subseteq c.ticks /\ d.drop = {}
  PROVE  FieldCallOK(d)
  <1>1. Running(h) /\ FieldCallOK(c)
    BY DEF SubjectPcs, Running, At, FieldInv, FieldTyped
  <1>2. c.pc \notin {"idle", "insert item", "decide", "find", "record", "count"}
        /\ d.pc \notin {"idle", "insert item", "decide", "find", "record", "count"}
    BY DEF SubjectPcs
  <1>3. Works(d) = Works(c)
    BY <1>2 DEF Works
  <1>4. IsSubject(d.e) /\ (d.tx \/ d.shown # <<>>)
    BY <1>1 DEF FieldCallOK
  <1>5. kind \in Counted /\ d.pc # "idle" =>
       /\ Works(d) # {} /\ Works(d) \subseteq d.seen
       /\ expected \subseteq d.seen /\ d.seen \subseteq listed
       /\ d.pc \in SubjectPcs => d.tx /\ d.add \subseteq d.ticks /\ d.drop = {}
    BY <1>1, <1>2, <1>3 DEF FieldCallOK
  <1> QED
    BY <1>2, <1>4, <1>5 DEF FieldCallOK, Answering

LEMMA SelectSubjectKeeps ==
  ASSUME FieldInv, NEW h \in Handlers, SelectSubject(h)
  PROVE  FieldInv'
  <1>1. PICK c : c = call[h]
    OBVIOUS
  <1>2. UNCHANGED <<kind, work, subject, listed, ticked, expected, request>> /\ c.pc = "select" /\ Running(h)
    BY <1>1 DEF SelectSubject, fieldVars, At, Running
  <1>3. CASE Return(h)
    BY <1>1, <1>2, <1>3, FieldStops, BecomeMoves DEF Return
  <1>4. CASE ~Return(h)
    <2>1. PICK drop : drop = IF kind = "OFFICE_TASK" THEN ticked \ c.ticks ELSE {}
      OBVIOUS
    <2>2. PICK d : d = [c EXCEPT !.pc = "update", !.dirty = Dirty(c.e, subject),
                                 !.add = c.ticks \ ticked, !.drop = drop]
      OBVIOUS
    <2>3. Become(h, d)
      BY <1>1, <1>4, <2>1, <2>2 DEF SelectSubject
    <2>4. /\ FieldCallOK(c) /\ c.pc \in SubjectPcs /\ IsSubject(subject)
          /\ Calm => FieldKnows(c) /\ (kind = "OFFICE_TASK" => OfficeRows)
          /\ kind \in Counted /\ overlaps <= 1 /\ CountedInv =>
               CountedKnows(c) /\ (subject.status = "COMPLETED" => expected \subseteq ticked)
      BY <1>1, <1>2, FieldRuns DEF SubjectPcs
    <2>5. /\ SubjectCall(d) /\ d.pc = "update" /\ d.pc \in SubjectPcs
          /\ d.e = c.e /\ d.ticks = c.ticks /\ d.seen = c.seen /\ d.shown = c.shown /\ d.tx = c.tx
          /\ d.dirty = Dirty(c.e, subject) /\ d.add = c.ticks \ ticked /\ d.drop = drop
      <3>1. SubjectCall(c)
        BY <2>4 DEF FieldCallOK
      <3> QED
        BY <2>2, <3>1 DEF SubjectCall, SubjectPcs
    <2>6. kind \in Counted => d.add \subseteq c.ticks /\ d.drop = {}
      BY <2>1, <2>5 DEF Counted
    <2>7. FieldCallOK(d)
      BY <1>1, <2>4, <2>5, <2>6, SubjectGoesOn
    <2>8. CountedKnows(c) => CountedKnows(d)'
      BY <1>2, <2>4, <2>5 DEF CountedKnows
    <2>9. FieldKnows(c) => FieldKnows(d)'
      <3>1. ~SubjectAhead(c) /\ ~FeedAhead(c) /\ ~SubjectAhead(d) /\ ~FeedAhead(d)
        BY <1>2, <2>5 DEF SubjectAhead, FeedAhead
      <3>2. FeedKnows(c) => FeedKnows(d)'
        BY <1>2, <2>4, <2>5, <3>1 DEF FeedKnows, Agree, SubjectAhead, FeedAhead
      <3>3. SubjectKnows(d)'
        BY <1>2, <2>5, <3>1 DEF SubjectKnows, SubjectAhead
      <3>4. kind = "OFFICE_TASK" /\ OfficeKnows(c) => OfficeKnows(d)'
        BY <1>2, <2>1, <2>4, <2>5, <3>1 DEF OfficeKnows, SubjectAhead
      <3> QED
        BY <1>2, <3>2, <3>3, <3>4 DEF FieldKnows
    <2>10. /\ d.pc # "idle" /\ Moves(h, d) /\ (OfficeRows => OfficeRows')
      BY <1>2, <2>3, <2>5, BecomeMoves DEF OfficeRows
    <2>11. d.seen = (IF Running(h) THEN call[h].seen ELSE listed)
      BY <1>1, <1>2, <2>5
    <2> QED
      BY <1>2, <2>4, <2>7, <2>8, <2>9, <2>10, <2>11, FieldKeeps
  <1> QED
    BY <1>3, <1>4

\* What an UPDATE makes of the rows.
LEMMA WrittenKeeps ==
  ASSUME FieldInv, NEW h \in Handlers, NEW c, c = call[h], c.pc \in {"update", "commit"},
         Written(c), UNCHANGED <<kind, listed, expected>>
  PROVE  /\ IsSubject(subject')
         /\ Calm => subject' = c.e /\ (kind = "OFFICE_TASK" => OfficeRows')
         /\ kind \in Counted =>
              /\ ticked \subseteq ticked' /\ ticked' \subseteq ticked \cup Works(c)
              /\ overlaps <= 1 /\ CountedInv =>
                   (subject'.status = "COMPLETED" => expected \subseteq ticked')
  <1>1. Running(h) /\ c.pc \in SubjectPcs \ {"select"} /\ ~SubjectAhead(c)
        /\ c.pc \notin {"idle", "find", "record"}
    BY DEF Running, At, SubjectPcs, SubjectAhead
  <1>2. /\ FieldCallOK(c) /\ IsSubject(subject)
        /\ Calm => FieldKnows(c) /\ (kind = "OFFICE_TASK" => OfficeRows)
        /\ kind \in Counted /\ overlaps <= 1 /\ CountedInv =>
             CountedKnows(c) /\ (subject.status = "COMPLETED" => expected \subseteq ticked)
    BY <1>1, FieldRuns
  <1>3. IsSubject(c.e)
    BY <1>1, <1>2 DEF FieldCallOK
  <1>4. /\ subject' = Merge(subject, c.e, c.dirty)
        /\ ticked' = (ticked \ c.drop) \cup c.add
    BY DEF Written
  <1>5. /\ IsSubject(subject') /\ subject'.status \in {subject.status, c.e.status}
        /\ Calm => subject' = c.e
    BY <1>1, <1>2, <1>3, <1>4, SubjectMerged DEF FieldKnows, SubjectKnows
  <1>6. ASSUME kind \in Counted
        PROVE  /\ ticked \subseteq ticked' /\ ticked' \subseteq ticked \cup Works(c)
               /\ overlaps <= 1 /\ CountedInv =>
                    (subject'.status = "COMPLETED" => expected \subseteq ticked')
    <2>1. c.add \subseteq c.ticks /\ c.drop = {} /\ Works(c) = c.ticks
      BY <1>1, <1>2, <1>6 DEF FieldCallOK, Works
    <2>2. ticked' = ticked \cup c.add
      BY <1>4, <2>1
    <2>3. overlaps <= 1 /\ CountedInv => c.ticks \subseteq ticked'
      BY <1>1, <1>2, <1>6, <2>2 DEF CountedKnows
    <2>4. overlaps <= 1 /\ CountedInv /\ c.e.status = "COMPLETED" => expected \subseteq ticked'
      BY <1>1, <1>2, <1>6, <2>2, <2>3 DEF CountedKnows
    <2> QED
      BY <1>2, <1>5, <1>6, <2>1, <2>2, <2>4
  <1>7. ASSUME Calm, kind = "OFFICE_TASK" PROVE OfficeRows'
    <2>1. OfficeKnows(c)
      BY <1>2, <1>7 DEF FieldKnows
    <2>2. ticked' = c.ticks
      BY <1>1, <1>4, <2>1 DEF OfficeKnows
    <2>3. c.ticks \subseteq listed /\ (c.e.status = "COMPLETED" => listed \subseteq c.ticks)
      BY <1>1, <2>1 DEF OfficeKnows
    <2> QED
      BY <1>5, <1>7, <2>2, <2>3 DEF OfficeRows
  <1> QED
    BY <1>5, <1>6, <1>7

LEMMA UpdateSubjectKeeps ==
  ASSUME FieldInv, NEW h \in Handlers, UpdateSubject(h)
  PROVE  FieldInv'
  <1>1. PICK c : c = call[h]
    OBVIOUS
  <1>2. UNCHANGED <<kind, work, listed, expected, request>> /\ c.pc = "update" /\ Running(h)
    BY <1>1 DEF UpdateSubject, At, Running
  <1>3. /\ FieldCallOK(c) /\ c.pc \in SubjectPcs /\ IsSubject(subject)
        /\ Calm => FieldKnows(c) /\ (kind = "OFFICE_TASK" => OfficeRows)
        /\ kind \in Counted /\ overlaps <= 1 /\ CountedInv =>
             CountedKnows(c) /\ (subject.status = "COMPLETED" => expected \subseteq ticked)
    BY <1>1, <1>2, FieldRuns DEF SubjectPcs
  <1>4. PICK pc : pc = IF c.shown # <<>> THEN "sync" ELSE "commit"
    OBVIOUS
  <1>5. PICK d : d = [c EXCEPT !.pc = pc]
    OBVIOUS
  <1>6. Become(h, d)
    BY <1>1, <1>4, <1>5 DEF UpdateSubject, Goto
  <1>7. /\ SubjectCall(d) /\ d.pc = pc /\ d.e = c.e /\ d.ticks = c.ticks /\ d.seen = c.seen
        /\ d.shown = c.shown /\ d.tx = c.tx /\ d.dirty = c.dirty /\ d.add = c.add /\ d.drop = c.drop
    <2>1. SubjectCall(c)
      BY <1>3 DEF FieldCallOK
    <2> QED
      BY <1>5, <2>1 DEF SubjectCall
  <1>8. pc \in {"sync", "commit"} /\ pc \in SubjectPcs /\ (pc = "sync" => c.shown # <<>>)
        /\ (pc = "commit" => c.shown = <<>>) /\ (c.tx \/ c.shown # <<>>)
    BY <1>3, <1>4 DEF SubjectPcs, FieldCallOK
  <1>9. kind \in Counted => c.add \subseteq c.ticks /\ c.drop = {} /\ c.tx
    BY <1>2, <1>3 DEF FieldCallOK
  <1>10. FieldCallOK(d)
    BY <1>1, <1>3, <1>7, <1>8, <1>9, SubjectGoesOn
  <1>11. d.pc # "idle" /\ Moves(h, d)
    BY <1>2, <1>6, <1>7, <1>8, BecomeMoves
  <1>12. d.seen = (IF Running(h) THEN call[h].seen ELSE listed)
    BY <1>1, <1>2, <1>7
  <1>13. ~SubjectAhead(c) /\ ~FeedAhead(c) /\ ~FeedAhead(d) /\ (SubjectAhead(d) <=> ~c.tx)
    BY <1>2, <1>7, <1>8 DEF SubjectAhead, FeedAhead
  <1>14. CASE c.tx
    <2>1. UNCHANGED <<subject, ticked>>
      BY <1>1, <1>14 DEF UpdateSubject
    <2>2. CountedKnows(c) => CountedKnows(d)'
      BY <1>2, <1>3, <1>7, <1>8, <2>1 DEF CountedKnows
    <2>3. FieldKnows(c) => FieldKnows(d)'
      <3>1. FeedKnows(c) => FeedKnows(d)'
        BY <1>2, <1>3, <1>7, <1>8, <1>13, <1>14, <2>1 DEF FeedKnows, Agree, SubjectAhead, FeedAhead
      <3>2. SubjectKnows(c) => SubjectKnows(d)'
        BY <1>2, <1>3, <1>7, <1>13, <1>14, <2>1 DEF SubjectKnows, SubjectAhead
      <3>3. OfficeKnows(c) => OfficeKnows(d)'
        BY <1>2, <1>3, <1>7, <1>8, <1>13, <1>14, <2>1 DEF OfficeKnows, SubjectAhead
      <3> QED
        BY <1>2, <3>1, <3>2, <3>3 DEF FieldKnows
    <2>4. OfficeRows => OfficeRows'
      BY <1>2, <2>1 DEF OfficeRows
    <2> QED
      BY <1>2, <1>3, <1>10, <1>11, <1>12, <2>1, <2>2, <2>3, <2>4, FieldKeeps
  <1>15. CASE ~c.tx
    <2>1. Written(c) /\ kind \notin Counted
      BY <1>1, <1>9, <1>15 DEF UpdateSubject
    <2>2. /\ IsSubject(subject')
          /\ Calm => subject' = c.e /\ (kind = "OFFICE_TASK" => OfficeRows')
      BY <1>1, <1>2, <2>1, WrittenKeeps
    <2>3. ASSUME Calm, FieldKnows(c) PROVE FieldKnows(d)'
      <3>1. FeedKnows(c) => FeedKnows(d)'
        BY <1>2, <1>3, <1>7, <1>8, <1>13, <1>15, <2>2, <2>3
           DEF FeedKnows, Agree, SubjectAhead, FeedAhead
      <3>2. SubjectKnows(d)'
        BY <1>7, <1>13, <1>15, <2>2, <2>3 DEF SubjectKnows, SubjectAhead
      <3>3. OfficeKnows(c) => OfficeKnows(d)'
        BY <1>2, <1>3, <1>7, <1>8, <1>13, <1>15 DEF OfficeKnows, SubjectAhead
      <3> QED
        BY <1>2, <2>3, <3>1, <3>2, <3>3 DEF FieldKnows
    <2> QED
      BY <1>2, <1>3, <1>10, <1>11, <1>12, <2>1, <2>2, <2>3, FieldKeeps
  <1> QED
    BY <1>14, <1>15

LEMMA SyncProgressKeeps ==
  ASSUME FieldInv, NEW h \in Handlers, SyncProgress(h)
  PROVE  FieldInv'
  <1>1. PICK c : c = call[h]
    OBVIOUS
  <1>2. UNCHANGED <<kind, subject, listed, ticked, expected, request>> /\ c.pc = "sync" /\ Running(h)
        /\ work' = Synced(c.shown[1])
    BY <1>1 DEF SyncProgress, At, Running
  <1>3. /\ FieldCallOK(c) /\ c.pc \in SubjectPcs /\ IsSubject(subject) /\ c.shown # <<>>
        /\ Calm => FieldKnows(c) /\ (kind = "OFFICE_TASK" => OfficeRows)
        /\ kind \in Counted /\ overlaps <= 1 /\ CountedInv =>
             CountedKnows(c) /\ (subject.status = "COMPLETED" => expected \subseteq ticked)
    <2>1. c.pc \in SubjectPcs
      BY <1>2 DEF SubjectPcs
    <2>2. FieldCallOK(c)
      BY <1>1, <1>2, FieldRuns
    <2> QED
      BY <1>1, <1>2, <2>1, <2>2, FieldRuns DEF FieldCallOK
  <1>4. FeedKnows(c) => work'.status = ShownAs(c.e.status)
    BY <1>2, <1>3 DEF FeedKnows
  <1>5. OfficeRows => OfficeRows'
    BY <1>2 DEF OfficeRows
  <1>6. CASE c.tx
    <2>1. PICK d : d = [c EXCEPT !.pc = "commit"]
      OBVIOUS
    <2>2. Become(h, d)
      BY <1>1, <1>6, <2>1 DEF SyncProgress, Goto
    <2>3. /\ SubjectCall(d) /\ d.pc = "commit" /\ d.e = c.e /\ d.ticks = c.ticks /\ d.seen = c.seen
          /\ d.shown = c.shown /\ d.tx = c.tx /\ d.dirty = c.dirty /\ d.add = c.add
          /\ d.drop = c.drop /\ d.pc \in SubjectPcs
      <3>1. SubjectCall(c)
        BY <1>3 DEF FieldCallOK
      <3> QED
        BY <2>1, <3>1 DEF SubjectCall, SubjectPcs
    <2>4. kind \in Counted => c.add \subseteq c.ticks /\ c.drop = {}
      BY <1>2, <1>3 DEF FieldCallOK
    <2>5. FieldCallOK(d)
      BY <1>1, <1>3, <1>6, <2>3, <2>4, SubjectGoesOn
    <2>6. d.pc # "idle" /\ Moves(h, d)
      BY <1>2, <2>2, <2>3, BecomeMoves
    <2>7. d.seen = (IF Running(h) THEN call[h].seen ELSE listed)
      BY <1>1, <1>2, <2>3
    <2>8. ~SubjectAhead(c) /\ ~FeedAhead(c) /\ FeedAhead(d) /\ ~SubjectAhead(d)
      BY <1>2, <1>3, <1>6, <2>3 DEF SubjectAhead, FeedAhead
    <2>9. CountedKnows(c) => CountedKnows(d)'
      BY <1>2, <1>3, <2>3 DEF CountedKnows
    <2>10. FieldKnows(c) => FieldKnows(d)'
      <3>1. FeedKnows(c) => FeedKnows(d)'
        BY <1>2, <1>3, <1>4, <2>3, <2>8 DEF FeedKnows, SubjectAhead, FeedAhead
      <3>2. SubjectKnows(c) => SubjectKnows(d)'
        BY <1>2, <1>3, <2>3, <2>8 DEF SubjectKnows, SubjectAhead
      <3>3. OfficeKnows(c) => OfficeKnows(d)'
        BY <1>2, <1>3, <2>3, <2>8 DEF OfficeKnows, SubjectAhead
      <3> QED
        BY <1>2, <3>1, <3>2, <3>3 DEF FieldKnows
    <2> QED
      BY <1>2, <1>3, <1>5, <2>5, <2>6, <2>7, <2>9, <2>10, FieldKeeps
  <1>7. CASE ~c.tx
    <2>1. Become(h, Idle)
      BY <1>1, <1>7 DEF SyncProgress, Return
    <2>2. PICK d : d = Idle
      OBVIOUS
    <2>3. d.pc = "idle" /\ Moves(h, d)
      BY <1>2, <2>1, <2>2, BecomeMoves DEF Idle
    <2>4. FieldCallOK(d)
      BY <2>3 DEF FieldCallOK, Answering, SubjectPcs
    <2>5. SubjectAhead(c)
      BY <1>2, <1>7 DEF SubjectAhead
    <2>6. Calm /\ FewParts => Agree'
      BY <1>2, <1>3, <1>4, <2>5 DEF FieldKnows, SubjectKnows, Agree
    <2> QED
      BY <1>2, <1>3, <1>5, <2>3, <2>4, <2>6, FieldKeeps
  <1> QED
    BY <1>6, <1>7

LEMMA CommitKeeps ==
  ASSUME FieldInv, NEW h \in Handlers, Commit(h)
  PROVE  FieldInv'
  <1>1. PICK c : c = call[h]
    OBVIOUS
  <1>2. UNCHANGED <<kind, work, listed, expected>> /\ c.pc = "commit" /\ Running(h)
        /\ DOMAIN request' = DOMAIN request
        /\ Written(c) /\ Become(h, Idle)
    BY <1>1 DEF Commit, At, Running, Return
  <1>3. /\ FieldCallOK(c) /\ c.pc \in SubjectPcs
        /\ Calm => FieldKnows(c)
    BY <1>1, <1>2, FieldRuns DEF SubjectPcs
  <1>4. /\ IsSubject(subject')
        /\ Calm => subject' = c.e /\ (kind = "OFFICE_TASK" => OfficeRows')
        /\ kind \in Counted =>
             /\ ticked \subseteq ticked' /\ ticked' \subseteq ticked \cup Works(c)
             /\ overlaps <= 1 /\ CountedInv =>
                  (subject'.status = "COMPLETED" => expected \subseteq ticked')
    BY <1>1, <1>2, WrittenKeeps
  <1>5. PICK d : d = Idle
    OBVIOUS
  <1>6. d.pc = "idle" /\ Moves(h, d)
    BY <1>2, <1>5, BecomeMoves DEF Idle
  <1>7. FieldCallOK(d)
    BY <1>6 DEF FieldCallOK, Answering, SubjectPcs
  <1>8. Calm /\ FewParts => Agree'
    <2>1. ASSUME FeedKnows(c), subject' = c.e PROVE Agree'
      <3>1. CASE c.shown = <<>>
        BY <1>2, <1>3, <2>1, <3>1 DEF FeedKnows, FeedAhead, SubjectAhead, Agree
      <3>2. CASE c.shown # <<>>
        BY <1>2, <2>1, <3>2 DEF FeedKnows, FeedAhead, Agree
      <3> QED
        BY <3>1, <3>2
    <2> QED
      BY <1>3, <1>4, <2>1 DEF FieldKnows
  <1> QED
    BY <1>1, <1>2, <1>4, <1>6, <1>7, <1>8, FieldKeeps

-----------------------------------------------------------------------------
(* Calls that have not saved yet *)

LEMMA SaveOfFields ==
  ASSUME NEW e, NEW ticks, NEW seen, NEW shown, NEW tx, NEW verdict, NEW d,
         d = SaveOf(e, ticks, seen, shown, tx, verdict)
  PROVE  /\ SubjectCall(d) /\ d.pc = "select" /\ d.e = e /\ d.ticks = ticks /\ d.seen = seen
         /\ d.shown = shown /\ d.tx = tx /\ d.add = {} /\ d.drop = {}
         /\ d.pc \in SubjectPcs /\ d.pc \notin Answering /\ d.pc # "idle"
         /\ ~SubjectAhead(d) /\ ~FeedAhead(d) /\ Works(d) = ticks
  BY DEF SaveOf, SubjectCall, SubjectPcs, Answering, SubjectAhead, FeedAhead, Works

\* What a call that comes to its save has to know.
LEMMA SaveOfKnows ==
  ASSUME NEW e, NEW ticks, NEW seen, NEW shown, NEW tx, NEW verdict, NEW d,
         d = SaveOf(e, ticks, seen, shown, tx, verdict), IsSubject(e), tx \/ shown # <<>>
  PROVE  /\ kind \notin Counted => FieldCallOK(d)
         /\ kind \in Counted /\ ticks # {} /\ ticks \subseteq seen /\ expected \subseteq seen
              /\ seen \subseteq listed /\ tx => FieldCallOK(d)
         /\ /\ FewParts => /\ Agree
                           /\ shown = <<>> => e.status = subject.status
                           /\ shown # <<>> => Synced(shown[1]).status = ShownAs(e.status)
            /\ kind = "OFFICE_TASK" =>
                 ticks \subseteq listed /\ (e.status = "COMPLETED" => listed \subseteq ticks)
            => FieldKnows(d)
  <1>1. /\ SubjectCall(d) /\ d.pc = "select" /\ d.e = e /\ d.ticks = ticks /\ d.seen = seen
        /\ d.shown = shown /\ d.tx = tx /\ d.add = {} /\ d.drop = {}
        /\ d.pc \in SubjectPcs /\ d.pc \notin Answering /\ d.pc # "idle"
        /\ ~SubjectAhead(d) /\ ~FeedAhead(d) /\ Works(d) = ticks
    BY SaveOfFields
  <1>2. kind \notin Counted => FieldCallOK(d)
    BY <1>1 DEF FieldCallOK
  <1>3. kind \in Counted /\ ticks # {} /\ ticks \subseteq seen /\ expected \subseteq seen
              /\ seen \subseteq listed /\ tx => FieldCallOK(d)
    BY <1>1 DEF FieldCallOK
  <1>4. SubjectKnows(d)
    BY <1>1 DEF SubjectKnows
  <1>5. ASSUME ticks \subseteq listed /\ (e.status = "COMPLETED" => listed \subseteq ticks)
        PROVE  OfficeKnows(d)
    BY <1>1, <1>5 DEF OfficeKnows
  <1>6. ASSUME Agree, shown = <<>> => e.status = subject.status,
               shown # <<>> => Synced(shown[1]).status = ShownAs(e.status)
        PROVE  FeedKnows(d)
    BY <1>1, <1>6 DEF FeedKnows
  <1> QED
    BY <1>2, <1>3, <1>4, <1>5, <1>6 DEF FieldKnows

LEMMA AnswerKeeps ==
  ASSUME FieldInv, NEW h \in Handlers, Answer(h)
  PROVE  FieldInv'
  <1>1. PICK p \in listed : /\ kind \in Counted
                            /\ Begin(h, [pc |-> "find", part |-> p, e |-> subject, seen |-> listed])
                            /\ UNCHANGED fieldVars
    BY DEF Answer
  <1>2. PICK d : d = [pc |-> "find", part |-> p, e |-> subject, seen |-> listed]
    OBVIOUS
  <1>3. d.pc = "find" /\ d.part = p /\ d.e = subject /\ d.seen = listed /\ Begin(h, d)
    BY <1>1, <1>2
  <1>4. FieldCallOK(d)
    BY <1>1, <1>3 DEF FieldInv, FieldTyped, FieldCallOK, Works, Answering, SubjectPcs, Counted
  <1>5. (FewParts => Agree) => FieldKnows(d)
    BY <1>1, <1>3 DEF FieldKnows, FeedKnows, SubjectKnows, SubjectAhead, FeedAhead, SubjectPcs,
                      Counted
  <1>6. d.pc # "idle"
    BY <1>3
  <1> QED
    BY <1>1, <1>3, <1>4, <1>5, <1>6, FieldArrives

\* A call that goes on with its answer changes nothing.
LEMMA AnswerGoesOn ==
  ASSUME FieldInv, NEW h \in Handlers, NEW c, c = call[h], c.pc \in Answering,
         UNCHANGED fieldVars, NEW d, Become(h, d), FieldCallOK(d), d.pc # "idle", d.seen = c.seen,
         overlaps <= 1 /\ CountedKnows(c) => CountedKnows(d),
         FieldKnows(c) /\ CountedKnows(c) => FieldKnows(d)
  PROVE  FieldInv'
  <1>1. UNCHANGED <<kind, work, subject, listed, ticked, expected, request>>
    BY DEF fieldVars
  <1>2. Running(h)
    BY DEF Running, At, Answering
  <1>3. /\ FieldCallOK(c) /\ IsSubject(subject)
        /\ Calm => FieldKnows(c) /\ (kind = "OFFICE_TASK" => OfficeRows)
        /\ kind \in Counted /\ overlaps <= 1 /\ CountedInv =>
             CountedKnows(c) /\ (subject.status = "COMPLETED" => expected \subseteq ticked)
    BY <1>2, FieldRuns
  <1>4. kind \in Counted /\ CountedInv
    BY <1>3 DEF FieldCallOK, FieldInv
  <1>5. Calm => overlaps <= 1
    BY DEF Calm
  <1>6. Calm => FieldKnows(d)'
    <2>1. FieldKnows(d) => FieldKnows(d)'
      BY <1>1 DEF FieldKnows, FeedKnows, SubjectKnows, OfficeKnows, Agree, SubjectAhead, FeedAhead
    <2> QED
      BY <1>3, <1>4, <1>5, <2>1
  <1>7. CountedKnows(d) => CountedKnows(d)'
    BY <1>1 DEF CountedKnows
  <1>8. Moves(h, d) /\ (OfficeRows => OfficeRows')
    BY <1>1, <1>2, BecomeMoves DEF OfficeRows
  <1> QED
    BY <1>1, <1>2, <1>3, <1>4, <1>6, <1>7, <1>8, FieldKeeps

LEMMA AwaitAnswer ==
  ASSUME NEW c, NEW d, c.pc \in {"find", "record"}, d.pc \in {"record", "count"},
         FieldCallOK(c), d.e = c.e, d.seen = c.seen, Works(d) = Works(c)
  PROVE  FieldCallOK(d) /\ (CountedKnows(c) => CountedKnows(d)) /\ (FieldKnows(c) => FieldKnows(d))
  <1>1. c.pc \in Answering /\ d.pc \in Answering /\ c.pc \notin SubjectPcs /\ d.pc \notin SubjectPcs
        /\ c.pc # "idle" /\ d.pc \notin {"idle", "insert item", "decide"}
    BY DEF Answering, SubjectPcs
  <1>2. FieldCallOK(d)
    BY <1>1 DEF FieldCallOK
  <1>3. CountedKnows(c) => CountedKnows(d)
    BY <1>1 DEF CountedKnows
  <1>4. ~SubjectAhead(c) /\ ~SubjectAhead(d) /\ ~FeedAhead(c) /\ ~FeedAhead(d)
    BY DEF SubjectAhead, FeedAhead
  <1>5. FieldKnows(c) => FieldKnows(d)
    BY <1>1, <1>4 DEF FieldKnows, FeedKnows, SubjectKnows, OfficeKnows
  <1> QED
    BY <1>2, <1>3, <1>5

LEMMA FindResultKeeps ==
  ASSUME FieldInv, NEW h \in Handlers, FindResult(h)
  PROVE  FieldInv'
  <1>1. PICK c : c = call[h]
    OBVIOUS
  <1>2. PICK d : d = [pc |-> "record", part |-> c.part, e |-> c.e, seen |-> c.seen,
                      found |-> c.part \in ticked]
    OBVIOUS
  <1>3. c.pc = "find" /\ Become(h, d) /\ UNCHANGED fieldVars /\ Running(h)
    BY <1>1, <1>2 DEF FindResult, At, Running
  <1>4. d.pc = "record" /\ d.part = c.part /\ d.e = c.e /\ d.seen = c.seen
    BY <1>2
  <1>5. Works(d) = Works(c) /\ FieldCallOK(c) /\ d.pc # "idle" /\ c.pc \in Answering
    BY <1>1, <1>3, <1>4, FieldRuns DEF Works, Answering
  <1> QED
    BY <1>1, <1>3, <1>4, <1>5, AwaitAnswer, AnswerGoesOn

LEMMA RecordResultKeeps ==
  ASSUME FieldInv, NEW h \in Handlers, RecordResult(h)
  PROVE  FieldInv'
  <1>1. PICK c : c = call[h]
    OBVIOUS
  <1>2. c.pc = "record" /\ UNCHANGED fieldVars /\ Running(h)
    BY <1>1 DEF RecordResult, At, Running
  <1>3. CASE Return(h)
    <2>1. UNCHANGED <<kind, work, subject, listed, ticked, expected, request>>
      BY <1>2 DEF fieldVars
    <2> QED
      BY <1>1, <1>2, <1>3, <2>1, FieldStops, BecomeMoves DEF Return
  <1>4. CASE ~Return(h)
    <2>1. PICK d : d = [pc |-> "count", ticks |-> {c.part}, e |-> c.e, seen |-> c.seen]
      OBVIOUS
    <2>2. Become(h, d)
      BY <1>1, <1>4, <2>1 DEF RecordResult
    <2>3. d.pc = "count" /\ d.ticks = {c.part} /\ d.e = c.e /\ d.seen = c.seen
      BY <2>1
    <2>4. Works(d) = Works(c) /\ FieldCallOK(c) /\ d.pc # "idle" /\ c.pc \in Answering
      BY <1>1, <1>2, <2>3, FieldRuns DEF Works, Answering
    <2> QED
      BY <1>1, <1>2, <2>2, <2>3, <2>4, AwaitAnswer, AnswerGoesOn
  <1> QED
    BY <1>3, <1>4

LEMMA CountResultsKeeps ==
  ASSUME FieldInv, NEW h \in Handlers, CountResults(h)
  PROVE  FieldInv'
  <1>1. PICK c : c = call[h]
    OBVIOUS
  <1>2. PICK o : o = Outcome(Cardinality(ticked \cup c.ticks), Cardinality(c.seen))
    OBVIOUS
  <1>3. PICK e : e = [c.e EXCEPT !.status = o.status]
    OBVIOUS
  <1>4. PICK shown : shown = <<o>>
    OBVIOUS
  <1>5. PICK d : d = SaveOf(e, c.ticks, c.seen, shown, TRUE, <<>>)
    OBVIOUS
  <1>6. c.pc = "count" /\ Become(h, d) /\ UNCHANGED fieldVars /\ Running(h)
    BY <1>1, <1>2, <1>3, <1>4, <1>5 DEF CountResults, At, Running
  <1>7. FieldCallOK(c) /\ c.pc \in Answering /\ c.pc \notin SubjectPcs
    BY <1>1, <1>6, FieldRuns DEF Answering, SubjectPcs
  <1>8. /\ kind \in Counted /\ c.ticks # {} /\ c.ticks \subseteq c.seen
        /\ expected \subseteq c.seen /\ c.seen \subseteq listed /\ IsSubject(c.e)
    BY <1>6, <1>7 DEF FieldCallOK, Works
  <1>9. o.status \in {"NEW", "IN_PROGRESS", "COMPLETED"}
    BY <1>2, OutcomeStatus
  <1>10. IsSubject(e) /\ e.status = o.status
    BY <1>3, <1>8, <1>9 DEF IsSubject, SubjectStatus
  <1>11. shown # <<>> /\ shown[1] = o
    BY <1>4, OneElement
  <1>12. FieldCallOK(d)
    BY <1>5, <1>8, <1>10, <1>11, SaveOfKnows
  <1>13. d.seen = c.seen /\ d.ticks = c.ticks /\ d.e = e /\ d.pc = "select" /\ d.pc # "idle"
    BY <1>5 DEF SaveOf
  <1>14. IsFiniteSet(c.seen) /\ Cardinality(c.seen) \in Nat /\ IsFiniteSet(Parts)
    BY <1>8, PartsFinite, PartsAssumption DEF FieldInv
  <1>15. ASSUME CountedKnows(c) PROVE CountedKnows(d)
    <2>1. ticked \cup c.ticks \in SUBSET c.seen
      BY <1>8, <1>15 DEF CountedKnows
    <2>2. e.status = "COMPLETED" => ticked \cup c.ticks = c.seen
      BY <1>2, <1>10, <1>14, <2>1, AllDone
    <2> QED
      BY <1>8, <1>13, <1>15, <2>2 DEF CountedKnows
  <1>16. ASSUME CountedKnows(c), FieldKnows(c) PROVE FieldKnows(d)
    <2>1. ASSUME FewParts PROVE Agree /\ Synced(o).status = ShownAs(o.status)
      <3>1. Agree
        BY <1>6, <1>16, <2>1 DEF FieldKnows, FeedKnows, SubjectAhead, FeedAhead
      <3>2. ticked \cup c.ticks \subseteq c.seen /\ c.seen \subseteq Parts
        BY <1>8, <1>16 DEF CountedKnows, FieldInv, FieldTyped
      <3>3. Cardinality(ticked \cup c.ticks) \in Nat
        BY <1>14, <3>2, FS_Subset, FS_CardinalityType
      <3>4. Cardinality(c.seen) \in 0 .. 200
        <4>1. Cardinality(c.seen) <= Cardinality(Parts) /\ Cardinality(Parts) \in Nat
          BY <1>14, <3>2, FS_Subset, FS_CardinalityType
        <4> QED
          BY <1>14, <2>1, <4>1 DEF FewParts
      <3>5. Synced(o).status = ShownAs(o.status)
        BY <1>2, <3>3, <3>4, OutcomeShown
      <3> QED
        BY <3>1, <3>5
    <2>2. kind # "OFFICE_TASK"
      BY <1>8 DEF Counted
    <2> QED
      BY <1>5, <1>10, <1>11, <2>1, <2>2, SaveOfKnows
  <1> QED
    BY <1>1, <1>6, <1>7, <1>12, <1>13, <1>15, <1>16, AnswerGoesOn

-----------------------------------------------------------------------------
(* Office tasks and incidents: none is counted *)

LEMMA KindsDiffer == "OFFICE_TASK" \notin Counted /\ "INCIDENT" \notin Counted
  BY DEF Counted

\* An arrival that saves at once.
LEMMA SaveArrives ==
  ASSUME FieldInv, NEW h \in Handlers, kind \notin Counted, UNCHANGED fieldVars,
         NEW e, NEW ticks, NEW seen, NEW o, NEW tx, IsSubject(e),
         Begin(h, SaveOf(e, ticks, seen, <<o>>, tx, <<>>)),
         FewParts /\ (kind = "OFFICE_TASK" => OfficeRows) => Synced(o).status = ShownAs(e.status),
         kind = "OFFICE_TASK" /\ OfficeRows =>
           ticks \subseteq listed /\ (e.status = "COMPLETED" => listed \subseteq ticks)
  PROVE  FieldInv'
  <1>1. PICK shown : shown = <<o>>
    OBVIOUS
  <1>2. shown # <<>> /\ shown[1] = o
    BY <1>1, OneElement
  <1>3. PICK d : d = SaveOf(e, ticks, seen, shown, tx, <<>>)
    OBVIOUS
  <1>4. Begin(h, d) /\ d.pc # "idle"
    BY <1>1, <1>3, SaveOfFields
  <1>5. FieldCallOK(d)
    BY <1>2, <1>3, SaveOfKnows
  <1>6. ASSUME FewParts => Agree, kind = "OFFICE_TASK" => OfficeRows PROVE FieldKnows(d)
    BY <1>2, <1>3, <1>6, SaveOfKnows
  <1> QED
    BY <1>4, <1>5, <1>6, FieldArrives

LEMMA ToggleItemKeeps ==
  ASSUME FieldInv, NEW h \in Handlers, ToggleItem(h)
  PROVE  FieldInv'
  <1>1. PICK p \in listed, is_done \in BOOLEAN :
          /\ Unfinished
          /\ LET ticks == IF is_done THEN ticked \cup {p} ELSE ticked \ {p}
                 o     == Outcome(Cardinality(ticks), Cardinality(listed))
             IN  Begin(h, SaveOf([subject EXCEPT !.status = o.status], ticks, listed, <<o>>,
                                 TRUE, <<>>))
          /\ UNCHANGED fieldVars
    BY DEF ToggleItem
  <1>2. PICK ticks : ticks = IF is_done THEN ticked \cup {p} ELSE ticked \ {p}
    OBVIOUS
  <1>3. PICK o : o = Outcome(Cardinality(ticks), Cardinality(listed))
    OBVIOUS
  <1>4. PICK e : e = [subject EXCEPT !.status = o.status]
    OBVIOUS
  <1>5. Begin(h, SaveOf(e, ticks, listed, <<o>>, TRUE, <<>>)) /\ UNCHANGED fieldVars
    BY <1>1, <1>2, <1>3, <1>4
  <1>6. kind = "OFFICE_TASK" /\ kind \notin Counted /\ IsSubject(subject) /\ FieldTyped
    BY <1>1, KindsDiffer DEF Unfinished, FieldInv, FieldTyped
  <1>7. o.status \in {"NEW", "IN_PROGRESS", "COMPLETED"}
    BY <1>3, OutcomeStatus
  <1>8. IsSubject(e) /\ e.status = o.status
    BY <1>4, <1>6, <1>7 DEF IsSubject, SubjectStatus
  <1>9. OfficeRows => ticks \in SUBSET listed
    BY <1>1, <1>2 DEF OfficeRows
  <1>10. IsFiniteSet(listed) /\ Cardinality(listed) \in Nat
    <2>1. listed \in SUBSET listed
      OBVIOUS
    <2> QED
      BY <1>6, <2>1, PartsFinite
  <1>11. OfficeRows /\ e.status = "COMPLETED" => listed \subseteq ticks
    <2>1. ASSUME ticks \in SUBSET listed, e.status = "COMPLETED" PROVE ticks = listed
      <3>1. Outcome(Cardinality(ticks), Cardinality(listed)).status = "COMPLETED"
        BY <1>3, <1>8, <2>1
      <3> QED
        BY <1>10, <2>1, <3>1, AllDone
    <2> QED
      BY <1>9, <2>1
  <1>12. ASSUME FewParts, OfficeRows PROVE Synced(o).status = ShownAs(e.status)
    <2>1. Cardinality(ticks) \in Nat
      BY <1>6, <1>9, <1>12, PartsFinite
    <2>2. Cardinality(listed) \in 0 .. 200
      <3>1. listed \subseteq Parts
        BY <1>6 DEF FieldTyped
      <3>2. Cardinality(listed) <= Cardinality(Parts) /\ Cardinality(Parts) \in Nat
        BY <3>1, PartsAssumption, FS_Subset, FS_CardinalityType
      <3> QED
        BY <1>10, <1>12, <3>2 DEF FewParts
    <2> QED
      BY <1>3, <1>8, <2>1, <2>2, OutcomeShown
  <1> QED
    BY <1>5, <1>6, <1>8, <1>9, <1>11, <1>12, SaveArrives

LEMMA CompleteKeeps ==
  ASSUME FieldInv, NEW h \in Handlers, Complete(h)
  PROVE  FieldInv'
  <1>1. PICK e : e = [subject EXCEPT !.status = "COMPLETED"]
    OBVIOUS
  <1>2. PICK o : o = [pct |-> 100, completed |-> TRUE]
    OBVIOUS
  <1>3. /\ Begin(h, SaveOf(e, ticked, listed, <<o>>, FALSE, <<>>)) /\ UNCHANGED fieldVars
        /\ kind = "OFFICE_TASK" /\ kind \notin Counted /\ listed \subseteq ticked
    BY <1>1, <1>2, KindsDiffer DEF Complete, Unfinished
  <1>4. IsSubject(e) /\ e.status = "COMPLETED"
    BY <1>1 DEF FieldInv, FieldTyped, IsSubject, SubjectStatus
  <1>5. Synced(o).status = ShownAs(e.status)
    BY <1>2, <1>4 DEF Synced, ShownAs
  <1> QED
    BY <1>3, <1>4, <1>5, SaveArrives DEF OfficeRows

LEMMA IncidentKeeps ==
  ASSUME FieldInv, NEW h \in Handlers, NEW action, NEW e, NEW pct \in Nat, NEW tx,
         Incident(h, action, e, pct, tx), IsSubject(e), pct > 0,
         e.status \in {"IN_PROGRESS", "RESOLVED", "COMPLETED"},
         e.status = "COMPLETED" <=> pct = 100
  PROVE  FieldInv'
  <1>1. PICK o : o = [pct |-> pct, completed |-> pct = 100]
    OBVIOUS
  <1>2. /\ Begin(h, SaveOf(e, {}, {}, <<o>>, tx, <<>>)) /\ UNCHANGED fieldVars
        /\ kind = "INCIDENT" /\ kind # "OFFICE_TASK" /\ kind \notin Counted
    BY <1>1, KindsDiffer DEF Incident
  <1>3. o.pct = pct /\ (o.completed <=> pct = 100)
    BY <1>1
  <1>4. Synced(o).status = ShownAs(e.status)
    BY <1>3 DEF Synced, ShownAs
  <1> QED
    BY <1>2, <1>4, SaveArrives

LEMMA IncidentsKeep ==
  ASSUME FieldInv, NEW h \in Handlers, Assign(h) \/ Resolve(h) \/ Close(h)
  PROVE  FieldInv'
  <1>1. IsSubject(subject)
    BY DEF FieldInv, FieldTyped
  <1>2. CASE Assign(h)
    <2>1. PICK u \in People :
            Incident(h, "ASSIGN", [status |-> "IN_PROGRESS", assigned_to |-> u], 25, FALSE)
      BY <1>2 DEF Assign
    <2>2. PICK e : e = [status |-> "IN_PROGRESS", assigned_to |-> u]
      OBVIOUS
    <2>3. IsSubject(e) /\ e.status = "IN_PROGRESS"
      BY <2>2 DEF IsSubject, SubjectStatus
    <2>4. Incident(h, "ASSIGN", e, 25, FALSE)
      BY <2>1, <2>2
    <2>5. 25 \in Nat /\ 25 > 0 /\ (e.status = "COMPLETED" <=> 25 = 100)
      BY <2>3
    <2>6. e.status \in {"IN_PROGRESS", "RESOLVED", "COMPLETED"}
      BY <2>3
    <2> QED
      BY ONLY FieldInv, h \in Handlers, <2>3, <2>4, <2>5, <2>6, IncidentKeeps
  <1>3. CASE Resolve(h)
    <2>1. PICK e : e = [subject EXCEPT !.status = "RESOLVED"]
      OBVIOUS
    <2>2. IsSubject(e) /\ e.status = "RESOLVED"
      BY <1>1, <2>1 DEF IsSubject, SubjectStatus
    <2>3. Incident(h, "RESOLVE", e, 75, TRUE)
      BY <1>3, <2>1 DEF Resolve
    <2>5. 75 \in Nat /\ 75 > 0 /\ (e.status = "COMPLETED" <=> 75 = 100)
      BY <2>2
    <2>6. e.status \in {"IN_PROGRESS", "RESOLVED", "COMPLETED"}
      BY <2>2
    <2> QED
      BY ONLY FieldInv, h \in Handlers, <2>2, <2>3, <2>5, <2>6, IncidentKeeps
  <1>4. CASE Close(h)
    <2>1. PICK e : e = [subject EXCEPT !.status = "COMPLETED"]
      OBVIOUS
    <2>2. IsSubject(e) /\ e.status = "COMPLETED"
      BY <1>1, <2>1 DEF IsSubject, SubjectStatus
    <2>3. Incident(h, "CLOSE", e, 100, FALSE)
      BY <1>4, <2>1 DEF Close
    <2>5. 100 \in Nat /\ 100 > 0 /\ (e.status = "COMPLETED" <=> 100 = 100)
      BY <2>2
    <2>6. e.status \in {"IN_PROGRESS", "RESOLVED", "COMPLETED"}
      BY <2>2
    <2> QED
      BY ONLY FieldInv, h \in Handlers, <2>2, <2>3, <2>5, <2>6, IncidentKeeps
  <1> QED
    BY <1>2, <1>3, <1>4

\* Calls that decide about nothing at their arrival.
LEMMA PlainArrivals ==
  ASSUME FieldInv, NEW h \in Handlers, AddItem(h) \/ Decide(h)
  PROVE  FieldInv'
  <1>1. PICK d : /\ Begin(h, d) /\ UNCHANGED fieldVars
                 /\ \/ d.pc = "insert item" /\ kind = "OFFICE_TASK" /\ subject.status # "COMPLETED"
                    \/ d.pc = "decide" /\ kind = "INCIDENT"
    <2>1. CASE AddItem(h)
      <3>1. PICK d : d = [pc |-> "insert item"]
        OBVIOUS
      <3>2. d.pc = "insert item"
        BY <3>1
      <3> QED
        BY <2>1, <3>1, <3>2 DEF AddItem, Unfinished
    <2>2. CASE Decide(h)
      <3>1. PICK r, verdict : Begin(h, [pc |-> "decide", id |-> r, verdict |-> verdict])
                              /\ UNCHANGED fieldVars /\ r \in DOMAIN request /\ kind = "INCIDENT"
        BY <2>2 DEF Decide, FieldInv, FieldTyped
      <3>2. PICK d : d = [pc |-> "decide", id |-> r, verdict |-> verdict]
        OBVIOUS
      <3>3. d.pc = "decide" /\ Begin(h, d)
        BY <3>1, <3>2
      <3> QED
        BY <3>1, <3>3
    <2> QED
      BY <2>1, <2>2
  <1>2. kind \notin Counted /\ d.pc # "idle"
    BY <1>1, KindsDiffer
  <1>3. FieldCallOK(d)
    BY <1>1, <1>2 DEF FieldCallOK, Answering, SubjectPcs
  <1>4. (FewParts => Agree) => FieldKnows(d)
    BY <1>1 DEF FieldKnows, FeedKnows, SubjectKnows, OfficeKnows, SubjectAhead, FeedAhead, SubjectPcs
  <1> QED
    BY <1>1, <1>2, <1>3, <1>4, FieldArrives

\* Decided and not approved, nothing is left to do; else the incident is saved.
LEMMA DecideRequestKeeps ==
  ASSUME FieldInv, NEW h \in Handlers, DecideRequest(h)
  PROVE  FieldInv'
  <1>1. PICK c : c = call[h]
    OBVIOUS
  <1>2. /\ c.pc = "decide" /\ UNCHANGED <<kind, work, subject, listed, ticked, expected>>
        /\ Running(h) /\ DOMAIN request' = DOMAIN request
    BY <1>1 DEF DecideRequest, At, Running
  <1>3. CASE Return(h)
    BY <1>1, <1>2, <1>3, FieldStops, BecomeMoves DEF Return
  <1>4. CASE ~Return(h)
    <2>1. PICK who : who = request[c.id].who
      OBVIOUS
    <2>2. PICK row : row = IF who = None THEN [subject EXCEPT !.status = "NEW"]
                           ELSE [subject EXCEPT !.assigned_to = who]
      OBVIOUS
    <2>3. PICK o : o = [pct |-> 0, completed |-> FALSE]
      OBVIOUS
    <2>4. PICK shown : shown = IF who = None THEN <<o>> ELSE <<>>
      OBVIOUS
    <2>5. PICK verdict : verdict = <<c.id, "APPROVED">>
      OBVIOUS
    <2>6. PICK d : d = SaveOf(row, {}, {}, shown, TRUE, verdict)
      OBVIOUS
    <2>7. Become(h, d)
      BY <1>1, <1>4, <2>1, <2>2, <2>3, <2>4, <2>5, <2>6 DEF DecideRequest
    <2>8. /\ FieldCallOK(c) /\ IsSubject(subject)
          /\ Calm => FieldKnows(c) /\ (kind = "OFFICE_TASK" => OfficeRows)
      BY <1>1, <1>2, FieldRuns
    <2>9. kind = "INCIDENT" /\ kind \notin Counted
      BY <1>2, <2>8, KindsDiffer DEF FieldCallOK
    <2>10. IsSubject(row) /\ row.status = IF who = None THEN "NEW" ELSE subject.status
      BY <2>2, <2>8 DEF IsSubject, SubjectStatus
    <2>11. /\ shown = <<>> => row.status = subject.status
           /\ shown # <<>> => Synced(shown[1]).status = ShownAs(row.status)
      <3>1. Synced(o).status = "NEW"
        BY <2>3 DEF Synced
      <3>2. <<o>> # <<>> /\ <<o>>[1] = o
        BY OneElement
      <3>3. CASE who = None
        <4>1. shown = <<o>>
          BY <2>4, <3>3
        <4> QED
          BY <2>10, <3>1, <3>2, <3>3, <4>1 DEF ShownAs
      <3>4. CASE who # None
        BY <2>4, <2>10, <3>4
      <3> QED
        BY <3>3, <3>4
    <2>12. Calm /\ FewParts => Agree
      BY <1>2, <2>8 DEF FieldKnows, FeedKnows, SubjectAhead, FeedAhead
    <2>13. FieldCallOK(d) /\ (Calm => FieldKnows(d))
      <3>1. kind \notin Counted => FieldCallOK(d)
        BY <2>6, <2>10, SaveOfKnows
      <3>2. ASSUME FewParts => Agree PROVE FieldKnows(d)
        BY <2>6, <2>9, <2>10, <2>11, <3>2, SaveOfKnows
      <3> QED
        BY <2>9, <2>12, <3>1, <3>2
    <2>14. Calm => FieldKnows(d)'
      <3>1. FieldKnows(d) => FieldKnows(d)'
        BY <1>2 DEF FieldKnows, FeedKnows, SubjectKnows, OfficeKnows, Agree, SubjectAhead, FeedAhead
      <3> QED
        BY <2>13, <3>1
    <2>15. d.pc # "idle"
      BY <2>6 DEF SaveOf
    <2>16. Moves(h, d) /\ kind # "OFFICE_TASK"
      BY <1>2, <2>7, <2>9, BecomeMoves
    <2> QED
      BY <1>2, <2>8, <2>9, <2>13, <2>14, <2>15, <2>16, FieldKeeps
  <1> QED
    BY <1>3, <1>4

LEMMA InsertItemKeeps ==
  ASSUME FieldInv, NEW h \in Handlers, InsertItem(h)
  PROVE  FieldInv'
  <1>1. PICK c : c = call[h]
    OBVIOUS
  <1>2. /\ c.pc = "insert item" /\ UNCHANGED <<kind, work, subject, ticked, request, expected>>
        /\ Running(h) /\ listed \subseteq listed' /\ listed' \subseteq Parts /\ Become(h, Idle)
    BY <1>1 DEF InsertItem, At, Running, Return, FieldInv, FieldTyped
  <1>3. /\ FieldCallOK(c) /\ IsSubject(subject)
        /\ Calm => FieldKnows(c) /\ (kind = "OFFICE_TASK" => OfficeRows)
    BY <1>1, <1>2, FieldRuns
  <1>4. kind = "OFFICE_TASK" /\ kind \notin Counted
    BY <1>2, <1>3, KindsDiffer DEF FieldCallOK
  <1>5. PICK d : d = Idle
    OBVIOUS
  <1>6. d.pc = "idle" /\ Moves(h, d)
    BY <1>2, <1>5, BecomeMoves DEF Idle
  <1>7. FieldCallOK(d)'
    BY <1>6 DEF FieldCallOK, Answering, SubjectPcs
  <1>8. HandlersOK' /\ FieldTyped'
    <2>1. DOMAIN request' # {} => kind = "INCIDENT"
      BY <1>2 DEF FieldInv, FieldTyped
    <2> QED
      BY <1>2, <1>3, <1>6, <1>7, <2>1, FieldTypedKeeps, FieldBusy
  <1>9. CountedInv'
    BY <1>2, <1>4 DEF CountedInv
  <1>10. Calm => (FewParts => Agree') /\ OfficeRows'
    <2>1. ASSUME Calm PROVE OfficeRows'
      <3>1. OfficeKnows(c)
        BY <1>3, <1>4, <2>1 DEF FieldKnows
      <3>2. subject.status # "COMPLETED"
        BY <1>2, <3>1 DEF OfficeKnows
      <3> QED
        BY <1>2, <1>3, <1>4, <2>1, <3>2 DEF OfficeRows
    <2>2. ASSUME Calm, FewParts PROVE Agree'
      BY <1>2, <1>3, <2>2 DEF FieldKnows, FeedKnows, SubjectAhead, FeedAhead, Agree
    <2> QED
      BY <2>1, <2>2
  <1>11. FieldCalm'
    BY <1>2, <1>6, <1>10, CalmKeeps
  <1> QED
    BY <1>8, <1>9, <1>11 DEF FieldInv

\* What happens beside the calls: a part is added to the template, a request made.
LEMMA BesidesKeeps ==
  ASSUME FieldInv, Disturb, UNCHANGED <<call, kind, work, subject, ticked, expected>>,
         listed \subseteq listed', listed' \subseteq Parts,
         DOMAIN request' # {} => kind = "INCIDENT", kind # "OFFICE_TASK",
         kind \in Counted \/ UNCHANGED listed
  PROVE  FieldInv'
  <1>1. /\ overlaps \in Nat /\ overlaps' \in Nat /\ overlaps <= overlaps'
        /\ Calm' => Calm
        /\ Busy' = Busy
    BY DEF FieldInv, HandlersOK, Disturb, Calm, Busy, Running, At
  <1>2. HandlersOK'
    BY <1>1 DEF FieldInv, HandlersOK, Alone, Running, At
  <1>3. FieldTyped'
    <2>1. ASSUME NEW g \in Handlers PROVE FieldCallOK(call[g])'
      <3>1. PICK c : c = call[g]
        OBVIOUS
      <3>2. FieldCallOK(c) /\ call'[g] = c
        BY <3>1 DEF FieldInv, FieldTyped
      <3>3. FieldCallOK(c)'
        BY <3>2 DEF FieldCallOK, Works
      <3> QED
        BY <3>2, <3>3
    <2> QED
      BY <2>1 DEF FieldInv, FieldTyped, IsSubject
  <1>4. CountedInv'
    <2> SUFFICES ASSUME kind \in Counted, overlaps' <= 1
                 PROVE  /\ (\A g \in Busy : call[g].seen = listed') \/ (overlaps' = 1 /\ Alone)
                        /\ ticked \subseteq listed'
                        /\ subject.status = "COMPLETED" => expected \subseteq ticked
                        /\ \A g \in Busy : CountedKnows(call[g])'
      BY <1>1 DEF CountedInv, Alone, Running, At
    <2>1. CountedInv /\ overlaps <= 1
      BY <1>1 DEF FieldInv
    <2>2. \/ Busy = {}
          \/ overlaps' = 1 /\ Alone
      BY <1>1 DEF FieldInv, HandlersOK, Calm, Disturb, Quiet, Busy, Running
    <2>3. ASSUME NEW g \in Busy PROVE CountedKnows(call[g])'
      BY <2>1, <2>3 DEF CountedInv, CountedKnows
    <2> QED
      BY <2>1, <2>2, <2>3 DEF CountedInv
  <1>5. FieldCalm'
    <2> SUFFICES ASSUME Calm' PROVE /\ \A h \in Busy : FieldKnows(call[h])'
                                    /\ FewParts /\ Busy = {} => Agree
      BY <1>1 DEF FieldCalm, Agree
    <2>1. Busy = {}
      BY DEF Calm, Disturb, Quiet, Busy, Running, FieldInv, HandlersOK
    <2> QED
      BY <1>1, <2>1 DEF FieldInv, FieldCalm
  <1> QED
    BY <1>2, <1>3, <1>4, <1>5 DEF FieldInv

LEMMA FieldStarts == ServerInit /\ FieldInit => FieldInv
  <1> SUFFICES ASSUME ServerInit, FieldInit PROVE FieldInv
    OBVIOUS
  <1>1. /\ DOMAIN call = Handlers /\ overlaps = 0 /\ \A h \in Handlers : call[h] = Idle
        /\ kind \in {"CHECKLIST", "ENERGY_INSPECTION", "OFFICE_TASK", "INCIDENT"}
        /\ work.status = "NEW" /\ subject = [status |-> "NEW", assigned_to |-> None]
        /\ listed \subseteq Parts /\ ticked = {} /\ request = <<>> /\ expected = listed
    <2>1. /\ call = [h \in Handlers |-> Idle] /\ overlaps = 0
          /\ kind \in {"CHECKLIST", "ENERGY_INSPECTION", "OFFICE_TASK", "INCIDENT"}
          /\ work = [status |-> "NEW", pct |-> 0] /\ subject = [status |-> "NEW", assigned_to |-> None]
          /\ ticked = {} /\ request = <<>> /\ expected = listed
      BY DEF ServerInit, FieldInit
    <2>2. listed \in IF kind = "INCIDENT" THEN {{}}
                     ELSE {p \in SUBSET Parts : kind = "ENERGY_INSPECTION" => p # {}}
      BY DEF FieldInit
    <2>3. listed \subseteq Parts
      <3>1. CASE kind = "INCIDENT"
        BY <2>2, <3>1
      <3>2. CASE kind # "INCIDENT"
        BY <2>2, <3>2
      <3> QED
        BY <3>1, <3>2
    <2> QED
      BY <2>1, <2>3
  <1>2. \A h \in Handlers : call[h].pc = "idle"
    BY <1>1 DEF Idle
  <1>3. Busy = {} /\ HandlersOK
    BY <1>1, <1>2 DEF Busy, HandlersOK, Alone, Running, At
  <1>4. IsSubject(subject) /\ subject.status = "NEW" /\ Agree
    BY <1>1 DEF IsSubject, SubjectStatus, Agree, ShownAs
  <1>5. DOMAIN request = {}
    <2>1. PICK e : e = <<>>
      OBVIOUS
    <2>2. DOMAIN e = {}
      BY <2>1
    <2> QED
      BY <1>1, <2>1, <2>2
  <1>6. FieldTyped
    <2>1. \A h \in Handlers : FieldCallOK(call[h])
      BY <1>2 DEF FieldCallOK, Answering, SubjectPcs
    <2> QED
      BY <1>1, <1>4, <1>5, <2>1 DEF FieldTyped, Counted
  <1>7. CountedInv
    BY <1>1, <1>3, <1>4 DEF CountedInv
  <1>8. FieldCalm
    BY <1>1, <1>3, <1>4 DEF FieldCalm, OfficeRows
  <1> QED
    BY <1>3, <1>6, <1>7, <1>8 DEF FieldInv

LEMMA FieldStepKeeps ==
  ASSUME FieldInv, NEW h \in Handlers, FieldStep(h)
  PROVE  FieldInv'
  <1>1. CASE AddTemplateItem(h)
    <2>1. /\ Disturb /\ UNCHANGED <<call, kind, work, subject, ticked, expected, request>>
          /\ kind = "CHECKLIST" /\ listed \subseteq listed' /\ listed' \subseteq Parts
      BY <1>1 DEF AddTemplateItem, FieldInv, FieldTyped
    <2>2. kind \in Counted /\ kind # "OFFICE_TASK" /\ (DOMAIN request' # {} => kind = "INCIDENT")
      BY <2>1 DEF Counted, FieldInv, FieldTyped
    <2> QED
      BY <2>1, <2>2, BesidesKeeps
  <1>2. CASE Ask(h)
    <2>1. /\ Disturb /\ UNCHANGED <<call, kind, work, subject, ticked, expected, listed>>
          /\ kind = "INCIDENT" /\ listed \subseteq listed' /\ listed' \subseteq Parts
      BY <1>2 DEF Ask, FieldInv, FieldTyped
    <2> QED
      BY <2>1, BesidesKeeps
  <1> QED
    BY <1>1, <1>2, SelectSubjectKeeps, UpdateSubjectKeeps, SyncProgressKeeps, CommitKeeps,
       AnswerKeeps, FindResultKeeps, RecordResultKeeps, CountResultsKeeps, PlainArrivals,
       InsertItemKeeps, ToggleItemKeeps, CompleteKeeps, IncidentsKeep, DecideRequestKeeps,
       CrashFieldKeeps DEF FieldStep

LEMMA FieldStutters ==
  ASSUME FieldInv, UNCHANGED <<serverVars, fieldVars>>
  PROVE  FieldInv'
  <1>1. /\ UNCHANGED <<call, overlaps>>
        /\ UNCHANGED <<kind, work, subject, listed, ticked, request, expected>>
    BY DEF serverVars, fieldVars
  <1>2. Busy' = Busy /\ (Alone <=> Alone') /\ (Calm <=> Calm')
    BY <1>1 DEF Busy, Alone, Running, At, Calm
  <1>3. HandlersOK'
    BY <1>1, <1>2 DEF FieldInv, HandlersOK
  <1>4. FieldTyped'
    <2>1. ASSUME NEW g \in Handlers PROVE FieldCallOK(call[g])'
      <3>1. PICK c : c = call[g]
        OBVIOUS
      <3>2. FieldCallOK(c) /\ call'[g] = c
        BY <1>1, <3>1 DEF FieldInv, FieldTyped
      <3>3. FieldCallOK(c)'
        BY <1>1, <3>2 DEF FieldCallOK, Works
      <3> QED
        BY <3>2, <3>3
    <2> QED
      BY <1>1, <2>1 DEF FieldInv, FieldTyped, IsSubject
  <1>5. CountedInv'
    <2>1. \A c : CountedKnows(c) => CountedKnows(c)'
      BY <1>1 DEF CountedKnows
    <2> QED
      BY <1>1, <1>2, <2>1 DEF FieldInv, CountedInv
  <1>6. FieldCalm'
    <2>1. ASSUME NEW c, FieldKnows(c) PROVE FieldKnows(c)'
      BY <1>1, <2>1 DEF FieldKnows, FeedKnows, SubjectKnows, OfficeKnows, Agree, SubjectAhead, FeedAhead
    <2> QED
      BY <1>1, <1>2, <2>1 DEF FieldInv, FieldCalm, Agree, OfficeRows
  <1> QED
    BY <1>3, <1>4, <1>5, <1>6 DEF FieldInv

LEMMA FieldAlways == FieldSpec => []FieldInv
  <1>1. FieldInv /\ [FieldNext]_<<serverVars, fieldVars>> => FieldInv'
    BY FieldStepKeeps, FieldStutters DEF FieldNext
  <1> QED
    BY FieldStarts, <1>1, PTL DEF FieldSpec

\* A completed checklist or inspection has a result for every part it had when it was
\* made, for any number of handlers and parts and even if one call or crash comes in the
\* way of another; a completed office task has every item ticked, if none does
\* (checklists.service.ts, energy-inspection.service.ts, office-tasks.service.ts).
THEOREM AllPartsDone == FieldSpec => []DoneMeansAllDone
  <1>1. FieldInv => DoneMeansAllDone
    BY DEF FieldInv, CountedInv, FieldCalm, OfficeRows, DoneMeansAllDone
  <1> QED
    BY FieldAlways, <1>1, PTL

\* With at most 200 parts the feed shows what became of the subject whenever no call
\* runs and none was disturbed.  With more, one part done of them all is 0 % rounded,
\* which the feed takes for NEW (work-items.service.ts, syncProgress).
THEOREM FeedFollows ==
  ASSUME FewParts
  PROVE  FieldSpec => []WorkItemFollows
  <1>1. FieldInv => WorkItemFollows
    <2> SUFFICES ASSUME FieldInv, Calm, Quiet PROVE Agree
      BY DEF WorkItemFollows, Agree, ShownAs
    <2>1. Busy = {}
      BY DEF Quiet, Busy, Running
    <2> QED
      BY <2>1 DEF FieldInv, FieldCalm
  <1> QED
    BY FieldAlways, <1>1, PTL

-----------------------------------------------------------------------------
(* Proposals of projects *)

IsProposal(r) ==
  /\ r = [status |-> r.status, code |-> r.code, back |-> r.back, deployed |-> r.deployed]
  /\ r.code \in Codes

ProjectRow == [code : Codes, from : Proposals \cup {Direct}, born : Codes]

ApprovalPcs == {"find project", "insert project", "folders", "deploy", "approve only"}
Deploying   == {"folders", "deploy"}
Recoding    == {"edit", "resubmit"}

\* An approval before and after it has made its project.
Approving(c) == [pc |-> c.pc, op |-> c.op, id |-> c.id, e |-> c.e, dirty |-> c.dirty]
Building(c)  == [pc |-> c.pc, op |-> c.op, id |-> c.id, e |-> c.e, dirty |-> c.dirty,
                 made |-> c.made]

\* Call c is about the request of project i, with the code the project was given.
Makes(c, i) == c.id = project[i].from /\ c.e.code = project[i].born

\* What a call holds, whoever else runs.
ProposalCallOK(c) ==
  /\ c.pc \in {"idle", "select", "update", "save project"} \cup ApprovalPcs
  /\ c.pc = "save project" =>
       /\ c = [pc |-> c.pc, row |-> c.row, code |-> c.code]
       /\ c.row \in DOMAIN project /\ c.code \in Codes
  /\ c.pc \notin {"idle", "save project"} =>
       /\ c.id \in DOMAIN proposal /\ IsProposal(c.e) /\ c.e.status # "DEPLOYED"
       /\ c.e.status = "DEPT_APPROVED" => c.op = "endorse"
  /\ c.pc = "select" => c = [pc |-> c.pc, op |-> c.op, id |-> c.id, e |-> c.e]
  /\ c.pc \in {"update"} \cup ApprovalPcs => c = Approving(c) \/ c = Building(c)
  /\ c.pc \in ApprovalPcs => c.op = "approve"
  /\ c.pc \in Deploying => c = Building(c) /\ c.made \in DOMAIN project /\ Makes(c, c.made)

ProposalRows ==
  /\ DOMAIN proposal \subseteq Proposals /\ DOMAIN endorsed = Proposals
  /\ \A q \in DOMAIN proposal : IsProposal(proposal[q])
  /\ project \in Seq(ProjectRow)
  /\ \A i \in DOMAIN project : project[i].from # Direct => project[i].from \in DOMAIN proposal

ProposalTyped == ProposalRows /\ \A h \in Handlers : ProposalCallOK(call[h])

\* A call whose request is as it was when it was loaded.
FreshCall(c) ==
  LET row == proposal[c.id] IN
  c.pc # "save project" =>
    /\ c.op = "endorse"  => row.status = "SUBMITTED"
    /\ c.op = "edit"     => row.status = "DRAFT"
    /\ c.op = "resubmit" => row.status = "PENDING_INFO"
    /\ c.op \notin Recoding => c.e.code = row.code
    /\ row.status # "DEPLOYED"

\* save() takes the project away from no request that it leaves deployed.
KeepsProject(c) == c.pc = "select" \/ ("deployed" \in c.dirty => "status" \in c.dirty)

\* What is left of that when one other call came in between.
EndorsedCall(c) ==
  LET row == proposal[c.id] IN
  c.pc # "save project" =>
    /\ c.op = "approve"  => c.e.code \in endorsed[c.id]
    /\ c.op = "endorse"  => c.e.code = row.code
    /\ c.op \in Recoding => row.status # "DEPT_APPROVED"
    /\ row.status = "DEPT_APPROVED" => c.e.code \in endorsed[c.id]
    /\ row.status # "DEPLOYED" => c.e.deployed = row.deployed
    /\ KeepsProject(c)

EndorsedRow(q) == proposal[q].status = "DEPT_APPROVED" => proposal[q].code \in endorsed[q]
BuiltRow(q)    ==
  LET r == proposal[q] IN
  r.status = "DEPLOYED" => r.deployed \in DOMAIN project /\ project[r.deployed].from = q
BornEndorsed(i) ==
  project[i].from # Direct => project[i].born \in endorsed[project[i].from]

\* With one overlap no more than two calls run, and they have loaded what is there.
EndorsedInv ==
  overlaps <= 1 =>
    /\ \A f, g, h \in Busy : f = g \/ g = h \/ f = h
    /\ \A q \in DOMAIN proposal : EndorsedRow(q) /\ BuiltRow(q)
    /\ \A i \in DOMAIN project : BornEndorsed(i)
    /\ \A h \in Busy : /\ EndorsedCall(call[h])
                       /\ Calm \/ ~Alone => FreshCall(call[h])

Deployed(i) ==
  LET r == proposal[project[i].from]
  IN  r.status = "DEPLOYED" /\ r.deployed = i /\ r.code = project[i].born
Deploys(c, i) == c.pc \in Deploying /\ c.made = i /\ Makes(c, i)

DeployedInv ==
  Calm => \A i \in DOMAIN project :
            project[i].from # Direct => Deployed(i) \/ \E h \in Busy : Deploys(call[h], i)

ProposalInv == HandlersOK /\ ProposalTyped /\ EndorsedInv /\ DeployedInv

-----------------------------------------------------------------------------
LEMMA ProposalMoves ==
  ASSUME ProposalInv, NEW h \in Handlers, NEW d, Moves(h, d)
  PROVE  /\ HandlersOK'
         /\ call'[h] = d /\ \A g \in Handlers \ {h} : call'[g] = call[g]
         /\ Busy' = IF d.pc = "idle" THEN Busy \ {h} ELSE Busy \cup {h}
         /\ Calm' => Calm /\ Busy' \subseteq {h}
         /\ overlaps \in Nat /\ overlaps' \in Nat /\ overlaps <= overlaps'
  <1>1. /\ HandlersOK' /\ call'[h] = d /\ \A g \in Handlers \ {h} : call'[g] = call[g]
        /\ Calm' => Calm /\ \A g \in Handlers \ {h} : call[g].pc = "idle"
    BY Moved DEF ProposalInv
  <1>2. ASSUME NEW g PROVE g \in Busy' <=> g \in (IF d.pc = "idle" THEN Busy \ {h} ELSE Busy \cup {h})
    BY <1>1 DEF Busy, Running, At
  <1>3. Calm' => Busy' \subseteq {h}
    BY <1>1 DEF Busy, Running, At
  <1>4. overlaps \in Nat /\ overlaps' \in Nat /\ overlaps <= overlaps'
    BY <1>1 DEF ProposalInv, HandlersOK, Moves, Disturb
  <1> QED
    BY <1>1, <1>2, <1>3, <1>4

\* How many run when h goes on with d: never a third with one overlap, and whoever
\* shares the server with h found it there, or came while it ran.
LEMMA PairsKept ==
  ASSUME ProposalInv, NEW h \in Handlers, NEW d, Moves(h, d), overlaps' <= 1
  PROVE  /\ \A f, g, k \in Busy' : f = g \/ g = k \/ f = k
         /\ overlaps <= 1
         /\ \A g \in Busy' \ {h} : (Calm' \/ ~Alone') => g \in Busy /\ (Calm \/ ~Alone)
         /\ d.pc = "idle" /\ Running(h) => Alone'
         /\ Running(h) /\ (Calm' \/ ~Alone') => Calm \/ ~Alone
         /\ ~Running(h) /\ (Calm' \/ ~Alone') => Calm \/ Busy' \subseteq {h}
  <1>1. /\ HandlersOK' /\ call'[h] = d /\ \A g \in Handlers \ {h} : call'[g] = call[g]
        /\ Busy' = IF d.pc = "idle" THEN Busy \ {h} ELSE Busy \cup {h}
        /\ Calm' => Calm /\ Busy' \subseteq {h}
        /\ overlaps \in Nat /\ overlaps' \in Nat /\ overlaps <= overlaps'
    BY ProposalMoves
  <1>2. \A f, g, k \in Busy : f = g \/ g = k \/ f = k
    BY <1>1 DEF ProposalInv, EndorsedInv
  <1>3. Alone <=> \A f, g \in Busy : f = g
    BY DEF Alone, Busy
  <1>4. Alone' <=> \A f, g \in Busy' : f = g
    BY <1>3 DEF Alone, Busy, Running, At
  <1>5. h \in Busy <=> Running(h)
    BY DEF Busy
  <1>6. \/ Running(h) /\ UNCHANGED overlaps
        \/ Busy = {}
        \/ overlaps = 0 /\ (\A f, g \in Busy : f = g) /\ ~Calm'
    <2>1. CASE Disturb /\ ~Quiet
      <3>1. overlaps = 0 /\ overlaps' = 1
        BY <1>1, <2>1 DEF Disturb
      <3> QED
        BY <1>3, <3>1 DEF ProposalInv, HandlersOK, Calm
    <2>2. CASE Quiet
      BY <2>2 DEF Quiet, Busy, Running, At
    <2> QED
      BY <2>1, <2>2 DEF Moves
  <1>7. \A f, g, k \in Busy' : f = g \/ g = k \/ f = k
    BY <1>1, <1>2, <1>5, <1>6
  <1>8. d.pc = "idle" /\ Running(h) => Alone'
    BY <1>1, <1>2, <1>4, <1>5
  <1>9. Running(h) /\ (Calm' \/ ~Alone') => Calm \/ ~Alone
    <2>1. Running(h) => Busy' \subseteq Busy
      BY <1>1, <1>5
    <2> QED
      BY <1>1, <1>3, <1>4, <2>1
  <1>10. ~Running(h) /\ (Calm' \/ ~Alone') => Calm \/ Busy' \subseteq {h}
    BY <1>1, <1>5, <1>6 DEF Calm
  <1>11. ASSUME NEW g \in Busy' \ {h}, Calm' \/ ~Alone' PROVE g \in Busy /\ (Calm \/ ~Alone)
    BY <1>1, <1>9, <1>10, <1>11
  <1> QED
    BY <1>1, <1>7, <1>8, <1>9, <1>10, <1>11

\* Projects are only added, and keep their origin; their codes may change.
ProjectsGrow ==
  /\ project' \in Seq(ProjectRow) /\ DOMAIN project \subseteq DOMAIN project'
  /\ \A i \in DOMAIN project : /\ project'[i].from = project[i].from
                               /\ project'[i].born = project[i].born

LEMMA ProjectsSame == ProposalInv /\ UNCHANGED project => ProjectsGrow
  BY DEF ProposalInv, ProposalTyped, ProposalRows, ProjectsGrow

LEMMA ProposalCallKept ==
  ASSUME NEW c, ProposalCallOK(c), DOMAIN proposal \subseteq DOMAIN proposal', ProjectsGrow
  PROVE  ProposalCallOK(c)'
  <1>1. c.pc \notin {"idle", "save project"} => c.id \in DOMAIN proposal'
    BY DEF ProposalCallOK
  <1>2. c.pc = "save project" => c.row \in DOMAIN project'
    BY DEF ProposalCallOK, ProjectsGrow
  <1>3. c.pc \in Deploying => c.made \in DOMAIN project' /\ Makes(c, c.made)'
    BY DEF ProposalCallOK, ProjectsGrow, Makes
  <1>4. IsProposal(c.e)' <=> IsProposal(c.e)
    BY DEF IsProposal
  <1> QED
    BY <1>1, <1>2, <1>3, <1>4 DEF ProposalCallOK, Approving, Building

\* A call that goes on keeps what it knows, as its request, what it would write and
\* what it is about stay the same.
LEMMA SameProposal ==
  ASSUME NEW c, NEW d, d.op = c.op, d.id = c.id, d.e = c.e, c.pc # "save project",
         EndorsedCall(c) => KeepsProject(d)
  PROVE  (EndorsedCall(c) => EndorsedCall(d)) /\ (FreshCall(c) => FreshCall(d))
  BY DEF EndorsedCall, FreshCall

\* A step that leaves the requests alone.
LEMMA ProposalGoes ==
  ASSUME ProposalInv, NEW h \in Handlers, NEW d, Moves(h, d), UNCHANGED <<proposal, endorsed>>,
         ProjectsGrow, ProposalCallOK(d)',
         \A i \in DOMAIN project' \ DOMAIN project :
           /\ d.pc # "idle" /\ Deploys(d, i)' /\ project'[i].from \in DOMAIN proposal
           /\ overlaps <= 1 => project'[i].born \in endorsed[project'[i].from],
         d.pc # "idle" /\ overlaps' <= 1 =>
           EndorsedCall(d) /\ (Calm' \/ ~Alone' => FreshCall(d)),
         Calm' => \A i \in DOMAIN project :
                    Deploys(call[h], i) /\ Running(h) => d.pc # "idle" /\ Deploys(d, i)
  PROVE  ProposalInv'
  <1>1. /\ HandlersOK' /\ call'[h] = d /\ \A g \in Handlers \ {h} : call'[g] = call[g]
        /\ Busy' = IF d.pc = "idle" THEN Busy \ {h} ELSE Busy \cup {h}
        /\ Calm' => Calm /\ Busy' \subseteq {h}
        /\ overlaps \in Nat /\ overlaps' \in Nat /\ overlaps <= overlaps'
    BY ProposalMoves
  <1>2. ProposalRows /\ \A g \in Handlers : ProposalCallOK(call[g])
    BY DEF ProposalInv, ProposalTyped
  <1>3. ProposalTyped'
    <2>1. ASSUME NEW g \in Handlers PROVE ProposalCallOK(call[g])'
      <3>1. CASE g = h
        BY <1>1, <3>1
      <3>2. CASE g # h
        <4>1. PICK c : c = call[g]
          OBVIOUS
        <4>2. ProposalCallOK(c) /\ call'[g] = c
          BY <1>1, <1>2, <3>2, <4>1
        <4>3. ProposalCallOK(c)'
          BY <4>2, ProposalCallKept
        <4> QED
          BY <4>2, <4>3
      <3> QED
        BY <3>1, <3>2
    <2>2. ProposalRows'
      <3>1. ASSUME NEW i \in DOMAIN project', project'[i].from # Direct
            PROVE  project'[i].from \in DOMAIN proposal
        BY <1>2, <3>1 DEF ProposalRows, ProjectsGrow
      <3>2. \A q \in DOMAIN proposal' : IsProposal(proposal[q])'
        BY <1>2 DEF ProposalRows, IsProposal
      <3> QED
        BY <1>2, <3>1, <3>2 DEF ProposalRows, ProjectsGrow
    <2> QED
      BY <2>1, <2>2 DEF ProposalTyped
  <1>4. EndorsedInv'
    <2> SUFFICES ASSUME overlaps' <= 1
                 PROVE  /\ \A f, g, k \in Busy' : f = g \/ g = k \/ f = k
                        /\ \A q \in DOMAIN proposal : EndorsedRow(q) /\ BuiltRow(q)'
                        /\ \A i \in DOMAIN project' : BornEndorsed(i)'
                        /\ \A g \in Busy' : /\ EndorsedCall(call[g])'
                                            /\ Calm' \/ ~Alone' => FreshCall(call[g])'
      BY DEF EndorsedInv, EndorsedRow
    <2>1. overlaps <= 1 /\ \A f, g, k \in Busy' : f = g \/ g = k \/ f = k
      BY PairsKept
    <2>2. /\ \A q \in DOMAIN proposal : EndorsedRow(q) /\ BuiltRow(q)
          /\ \A i \in DOMAIN project : BornEndorsed(i)
          /\ \A g \in Busy : /\ EndorsedCall(call[g])
                             /\ Calm \/ ~Alone => FreshCall(call[g])
      BY <2>1 DEF ProposalInv, EndorsedInv
    <2>3. ASSUME NEW i \in DOMAIN project' PROVE BornEndorsed(i)'
      BY <2>1, <2>2, <2>3 DEF ProjectsGrow, BornEndorsed
    <2>4. ASSUME NEW g \in Busy'
          PROVE  EndorsedCall(call[g])' /\ (Calm' \/ ~Alone' => FreshCall(call[g])')
      <3>1. PICK c : c = call'[g]
        OBVIOUS
      <3>2. EndorsedCall(c) /\ (Calm' \/ ~Alone' => FreshCall(c))
        <4>1. CASE g = h
          BY <1>1, <2>4, <3>1, <4>1
        <4>2. CASE g # h
          <5>1. g \in Busy /\ c = call[g] /\ g \in Handlers
            BY <1>1, <2>4, <3>1, <4>2 DEF Busy
          <5>2. Calm' \/ ~Alone' => Calm \/ ~Alone
            BY <2>4, <4>2, PairsKept
          <5> QED
            BY <2>2, <5>1, <5>2
        <4> QED
          BY <4>1, <4>2
      <3> QED
        BY <3>1, <3>2 DEF EndorsedCall, FreshCall, KeepsProject
    <2>5. ASSUME NEW q \in DOMAIN proposal PROVE BuiltRow(q)'
      BY <2>2, <2>5 DEF BuiltRow, ProjectsGrow
    <2> QED
      BY <2>1, <2>2, <2>3, <2>4, <2>5
  <1>5. DeployedInv'
    <2> SUFFICES ASSUME Calm', NEW i \in DOMAIN project', project'[i].from # Direct
                 PROVE  Deployed(i)' \/ \E g \in Busy' : Deploys(call[g], i)'
      BY DEF DeployedInv
    <2>1. CASE i \notin DOMAIN project
      <3>1. h \in Busy' /\ Deploys(d, i)' /\ call'[h] = d
        BY <1>1, <2>1
      <3> QED
        BY <3>1
    <2>2. CASE i \in DOMAIN project
      <3>1. project'[i].from = project[i].from /\ project'[i].born = project[i].born
        BY <2>2 DEF ProjectsGrow
      <3>2. Deployed(i) => Deployed(i)'
        BY <3>1 DEF Deployed
      <3>3. ASSUME NEW g \in Busy, Deploys(call[g], i) PROVE h \in Busy' /\ Deploys(d, i)'
        <4>1. g = h
          BY <1>1, <3>3 DEF ProposalInv, HandlersOK, Alone, Busy, Moves, Disturb, Quiet, Calm, Running, At
        <4>2. d.pc # "idle" /\ Deploys(d, i)
          BY <2>2, <3>3, <4>1 DEF Busy
        <4>3. Deploys(d, i)'
          BY <3>1, <4>2 DEF Deploys, Makes
        <4> QED
          BY <1>1, <4>2, <4>3
      <3>4. Deployed(i) \/ \E g \in Busy : Deploys(call[g], i)
        BY <1>1, <2>2, <3>1 DEF ProposalInv, DeployedInv
      <3> QED
        BY <1>1, <3>2, <3>3, <3>4
    <2> QED
      BY <2>1, <2>2
  <1> QED
    BY <1>1, <1>3, <1>4, <1>5 DEF ProposalInv

\* What a running call knows.
LEMMA ProposalRuns ==
  ASSUME ProposalInv, NEW h \in Handlers, NEW c, c = call[h], c.pc # "idle"
  PROVE  /\ Running(h) /\ h \in Busy /\ ProposalCallOK(c)
         /\ c.pc # "save project" => c.id \in DOMAIN proposal
         /\ overlaps <= 1 => EndorsedCall(c) /\ (Calm \/ ~Alone => FreshCall(c))
  BY DEF ProposalInv, ProposalTyped, ProposalCallOK, EndorsedInv, Busy, Running, At

LEMMA ProposalIdle == Idle.pc = "idle" /\ ProposalCallOK(Idle)
  BY DEF Idle, ProposalCallOK, ApprovalPcs, Deploying

\* A call that goes on about the same request.
LEMMA ProposalGoesOn ==
  ASSUME ProposalInv, NEW h \in Handlers, NEW c, c = call[h],
         c.pc \notin {"idle", "save project"},
         NEW d, Moves(h, d), UNCHANGED <<proposal, endorsed, project>>, d.pc # "idle", ProposalCallOK(d),
         d.op = c.op, d.id = c.id, d.e = c.e, EndorsedCall(c) => KeepsProject(d),
         Calm' /\ c.pc \in Deploying => d.pc \in Deploying /\ d.made = c.made
  PROVE  ProposalInv'
  <1>1. ProjectsGrow
    BY ProjectsSame
  <1>2. ProposalCallOK(d)'
    BY <1>1, ProposalCallKept
  <1>3. ASSUME overlaps' <= 1 PROVE EndorsedCall(d) /\ (Calm' \/ ~Alone' => FreshCall(d))
    <2>1. overlaps <= 1 /\ (Calm' \/ ~Alone' => Calm \/ ~Alone)
      BY <1>3, ProposalRuns, PairsKept
    <2> QED
      BY <2>1, ProposalRuns, SameProposal
  <1>4. Calm' => \A i \in DOMAIN project :
                   Deploys(call[h], i) /\ Running(h) => d.pc # "idle" /\ Deploys(d, i)
    BY DEF Deploys, Makes
  <1>5. DOMAIN project' \ DOMAIN project = {}
    OBVIOUS
  <1> QED
    BY <1>1, <1>2, <1>3, <1>4, <1>5, ProposalGoes

LEMMA ProposalArrives ==
  ASSUME ProposalInv, NEW h \in Handlers, NEW op, NEW q \in DOMAIN proposal, NEW e,
         Change(h, op, q, e), IsProposal(e), e.status # "DEPLOYED",
         e.status = "DEPT_APPROVED" => op = "endorse",
         proposal[q].status # "DEPLOYED", e.deployed = proposal[q].deployed,
         op = "endorse"  => proposal[q].status = "SUBMITTED",
         op = "edit"     => proposal[q].status = "DRAFT",
         op = "resubmit" => proposal[q].status = "PENDING_INFO",
         op = "approve"  => proposal[q].status = "DEPT_APPROVED",
         op \notin Recoding => e.code = proposal[q].code
  PROVE  ProposalInv'
  <1>1. PICK d : d = [pc |-> "select", op |-> op, id |-> q, e |-> e]
    OBVIOUS
  <1>2. d.pc = "select" /\ d.op = op /\ d.id = q /\ d.e = e /\ d.pc # "idle"
    BY <1>1
  <1>3. Begin(h, d) /\ UNCHANGED <<proposal, endorsed, project>> /\ Moves(h, d) /\ ~Running(h)
    BY <1>1, BeginMoves DEF Change, requestVars, Begin, Running
  <1>4. ProjectsGrow /\ DOMAIN project' \ DOMAIN project = {}
    BY <1>3, ProjectsSame
  <1>5. ProposalCallOK(d)
    BY <1>1, <1>2 DEF ProposalCallOK, ApprovalPcs, Deploying
  <1>6. ProposalCallOK(d)'
    BY <1>3, <1>4, <1>5, ProposalCallKept
  <1>7. FreshCall(d)
    BY <1>2 DEF FreshCall
  <1>8. ASSUME overlaps' <= 1 PROVE EndorsedCall(d)
    <2>1. overlaps <= 1
      BY <1>3, <1>8, PairsKept
    <2>2. EndorsedRow(q)
      BY <2>1 DEF ProposalInv, EndorsedInv
    <2>3. op \in Recoding => proposal[q].status # "DEPT_APPROVED"
      BY DEF Recoding
    <2>4. op \notin Recoding /\ proposal[q].status = "DEPT_APPROVED" => e.code \in endorsed[q]
      BY <2>2 DEF EndorsedRow
    <2>5. op = "approve" \/ op = "endorse" => op \notin Recoding
      BY DEF Recoding
    <2> QED
      BY <1>2, <2>3, <2>4, <2>5 DEF EndorsedCall, KeepsProject
  <1> QED
    BY <1>2, <1>3, <1>4, <1>6, <1>7, <1>8, ProposalGoes

\* Changes of the status only.
LEMMA ProposalMovesTo ==
  ASSUME ProposalInv, NEW h \in Handlers,
         Submit(h) \/ ApproveDept(h) \/ Reject(h) \/ ApproveExec(h)
  PROVE  ProposalInv'
  <1>1. PICK op \in {"submit", "endorse", "reject", "approve"},
             s \in {"SUBMITTED", "DEPT_APPROVED", "REJECTED", "EXEC_APPROVED"}, q \in DOMAIN proposal :
          /\ s = "DEPT_APPROVED" <=> op = "endorse"
          /\ s = "EXEC_APPROVED" <=> op = "approve"
          /\ s \in Transitions(proposal[q].status)
          /\ Change(h, op, q, [proposal[q] EXCEPT !.status = s])
    <2>1. CASE Submit(h)
      BY <2>1 DEF Submit, MoveTo
    <2>2. CASE ApproveDept(h)
      BY <2>2 DEF ApproveDept, MoveTo
    <2>3. CASE Reject(h)
      BY <2>3 DEF Reject, MoveTo
    <2>4. CASE ApproveExec(h)
      BY <2>4 DEF ApproveExec
    <2> QED
      BY <2>1, <2>2, <2>3, <2>4
  <1>2. PICK e : e = [proposal[q] EXCEPT !.status = s]
    OBVIOUS
  <1>3. /\ s # "DEPLOYED" /\ (s = "DEPT_APPROVED" => op = "endorse")
        /\ op = "endorse" => s = "DEPT_APPROVED"
        /\ op = "approve" => s = "EXEC_APPROVED"
    BY <1>1
  <1>4. /\ proposal[q].status # "DEPLOYED"
        /\ s = "DEPT_APPROVED" => proposal[q].status = "SUBMITTED"
        /\ s = "EXEC_APPROVED" => proposal[q].status = "DEPT_APPROVED"
    BY <1>1, <1>3 DEF Transitions
  <1>5. IsProposal(e) /\ e.status = s /\ e.code = proposal[q].code
        /\ e.deployed = proposal[q].deployed
    BY <1>2 DEF IsProposal, ProposalInv, ProposalTyped, ProposalRows
  <1>6. op \notin Recoding /\ op # "edit" /\ op # "resubmit"
    BY <1>3 DEF Recoding
  <1>7. Change(h, op, q, e)
    BY <1>1, <1>2
  <1> QED
    BY <1>3, <1>4, <1>5, <1>6, <1>7, ProposalArrives

LEMMA ProposalChanges ==
  ASSUME ProposalInv, NEW h \in Handlers,
         Edit(h) \/ Remove(h) \/ CancelProposal(h) \/ RequestInfo(h) \/ Resubmit(h)
  PROVE  ProposalInv'
  <1>1. \A q \in DOMAIN proposal : IsProposal(proposal[q])
    BY DEF ProposalInv, ProposalTyped, ProposalRows
  <1>2. CASE Edit(h)
    <2>1. PICK q \in DOMAIN proposal, c \in Codes :
            /\ proposal[q].status = "DRAFT"
            /\ Change(h, "edit", q, [proposal[q] EXCEPT !.code = c])
      BY <1>2 DEF Edit
    <2>2. PICK e : e = [proposal[q] EXCEPT !.code = c]
      OBVIOUS
    <2>3. IsProposal(e) /\ e.status = "DRAFT" /\ Change(h, "edit", q, e) /\ "edit" \in Recoding
          /\ e.deployed = proposal[q].deployed
      BY <1>1, <2>1, <2>2 DEF IsProposal, Recoding
    <2> QED
      BY <2>1, <2>3, ProposalArrives
  <1>3. CASE Remove(h) \/ CancelProposal(h)
    <2>1. PICK op \in {"remove", "cancel"}, q \in DOMAIN proposal :
            /\ proposal[q].status # "DEPLOYED"
            /\ Change(h, op, q, [proposal[q] EXCEPT !.status = "CANCELED"])
      BY <1>3 DEF Remove, CancelProposal
    <2>2. PICK e : e = [proposal[q] EXCEPT !.status = "CANCELED"]
      OBVIOUS
    <2>3. IsProposal(e) /\ e.status = "CANCELED" /\ e.code = proposal[q].code /\ Change(h, op, q, e)
          /\ e.deployed = proposal[q].deployed
      BY <1>1, <2>1, <2>2 DEF IsProposal
    <2> QED
      BY <2>1, <2>3, ProposalArrives
  <1>4. CASE RequestInfo(h)
    <2>1. PICK q \in DOMAIN proposal :
            /\ "PENDING_INFO" \in Transitions(proposal[q].status)
            /\ Change(h, "request info", q,
                      [proposal[q] EXCEPT !.status = "PENDING_INFO", !.back = proposal[q].status])
      BY <1>4 DEF RequestInfo
    <2>2. PICK e : e = [proposal[q] EXCEPT !.status = "PENDING_INFO", !.back = proposal[q].status]
      OBVIOUS
    <2>3. IsProposal(e) /\ e.status = "PENDING_INFO" /\ e.code = proposal[q].code
          /\ Change(h, "request info", q, e) /\ e.deployed = proposal[q].deployed
      <3>1. Change(h, "request info", q, e)
        BY <2>1, <2>2
      <3>2. PICK r : r = proposal[q]
        OBVIOUS
      <3>3. e = [r EXCEPT !.status = "PENDING_INFO", !.back = r.status] /\ IsProposal(r)
        BY <1>1, <2>2, <3>2
      <3>4. e = [status |-> "PENDING_INFO", code |-> r.code, back |-> r.status, deployed |-> r.deployed]
        BY <3>3 DEF IsProposal
      <3> QED
        BY <2>1, <3>3, <3>1, <3>2, <3>4 DEF IsProposal
    <2>4. proposal[q].status # "DEPLOYED"
      BY <2>1 DEF Transitions
    <2> QED
      BY <2>3, <2>4, ProposalArrives
  <1>5. CASE Resubmit(h)
    <2>1. PICK q \in DOMAIN proposal, c \in Codes :
            /\ proposal[q].status = "PENDING_INFO"
            /\ Change(h, "resubmit", q,
                      [proposal[q] EXCEPT !.code = c, !.status = "SUBMITTED", !.back = Nobody])
      BY <1>5 DEF Resubmit
    <2>2. PICK e : e = [proposal[q] EXCEPT !.code = c, !.status = "SUBMITTED", !.back = Nobody]
      OBVIOUS
    <2>3. IsProposal(e) /\ e.status = "SUBMITTED" /\ Change(h, "resubmit", q, e)
          /\ "resubmit" \in Recoding /\ e.deployed = proposal[q].deployed
      <3>1. Change(h, "resubmit", q, e) /\ "resubmit" \in Recoding
        BY <2>1, <2>2 DEF Recoding
      <3>2. PICK r : r = proposal[q]
        OBVIOUS
      <3>3. e = [r EXCEPT !.code = c, !.status = "SUBMITTED", !.back = Nobody] /\ IsProposal(r)
        BY <1>1, <2>2, <3>2
      <3>4. e = [status |-> "SUBMITTED", code |-> c, back |-> Nobody, deployed |-> r.deployed]
        BY <3>3 DEF IsProposal
      <3>5. e.status = "SUBMITTED" /\ e.deployed = proposal[q].deployed /\ IsProposal(e)
        BY <3>2, <3>4 DEF IsProposal
      <3> QED
        BY <3>1, <3>5
    <2> QED
      BY <2>1, <2>3, ProposalArrives
  <1> QED
    BY <1>2, <1>3, <1>4, <1>5

-----------------------------------------------------------------------------
(* The awaits of a call *)

LEMMA SelectProposalKeeps ==
  ASSUME ProposalInv, NEW h \in Handlers, SelectProposal(h)
  PROVE  ProposalInv'
  <1>1. PICK c : c = call[h]
    OBVIOUS
  <1>2. c.pc = "select" /\ UNCHANGED <<proposal, endorsed, project>>
    BY <1>1 DEF SelectProposal, At, requestVars
  <1>3. PICK row, dirty : row = proposal[c.id] /\ dirty = Dirty(c.e, row)
    OBVIOUS
  <1>4. PICK d : d = [pc |-> "update", op |-> c.op, id |-> c.id, e |-> c.e, dirty |-> dirty]
    OBVIOUS
  <1>5. ProposalCallOK(c) /\ Running(h) /\ c.pc \notin {"idle", "save project"}
    BY <1>1, <1>2, ProposalRuns
  <1>6. c.id \in DOMAIN proposal /\ c.e.status # "DEPLOYED" /\ IsProposal(row)
    BY <1>3, <1>5 DEF ProposalCallOK, ProposalInv, ProposalTyped, ProposalRows
  <1>8. Become(h, d)
    BY <1>1, <1>3, <1>4 DEF SelectProposal
  <1>9. d.pc = "update" /\ d.op = c.op /\ d.id = c.id /\ d.e = c.e /\ d.dirty = dirty
    BY <1>4
  <1>10. ProposalCallOK(d)
    BY <1>2, <1>4, <1>5, <1>9 DEF ProposalCallOK, ApprovalPcs, Deploying, Approving
  <1>11. Moves(h, d) /\ d.pc # "idle" /\ c.pc \notin Deploying
    BY <1>2, <1>5, <1>8, <1>9, BecomeMoves DEF Deploying
  <1>12. EndorsedCall(c) => KeepsProject(d)
    <2>1. DOMAIN row = {"status", "code", "back", "deployed"}
      BY <1>6 DEF IsProposal
    <2>2. "deployed" \in dirty /\ "status" \notin dirty => c.e.deployed # row.deployed /\ row.status = c.e.status
      BY <1>3, <2>1 DEF Dirty
    <2> QED
      BY <1>3, <1>5, <1>6, <1>9, <2>2 DEF EndorsedCall, KeepsProject
  <1> QED
    BY <1>1, <1>2, <1>5, <1>9, <1>10, <1>11, <1>12, ProposalGoesOn

\* An approval that goes on at another await.
LEMMA ApprovalGoesOn ==
  ASSUME ProposalInv, NEW h \in Handlers, NEW c, c = call[h], c.pc \in {"update"} \cup ApprovalPcs,
         c.op = "approve", NEW pc \in ApprovalPcs,
         Moves(h, [call[h] EXCEPT !.pc = pc]), UNCHANGED <<proposal, endorsed, project>>,
         pc \in Deploying => c.pc \in Deploying, Calm' /\ c.pc \in Deploying => pc \in Deploying
  PROVE  ProposalInv'
  <1>1. c.pc \notin {"idle", "save project", "select"} /\ pc \notin {"idle", "select", "update", "save project"}
    BY DEF ApprovalPcs
  <1>2. ProposalCallOK(c)
    BY <1>1, ProposalRuns
  <1>3. PICK d : d = [c EXCEPT !.pc = pc]
    OBVIOUS
  <1>4. c = Approving(c) \/ c = Building(c)
    BY <1>2 DEF ProposalCallOK
  <1>5. /\ d.pc = pc /\ d.op = c.op /\ d.id = c.id /\ d.e = c.e /\ d.dirty = c.dirty
        /\ d = Approving(d) \/ d = Building(d)
        /\ c = Building(c) => d = Building(d) /\ d.made = c.made
    <2>1. CASE c = Approving(c)
      <3>1. d = [pc |-> pc, op |-> c.op, id |-> c.id, e |-> c.e, dirty |-> c.dirty]
        BY <1>3, <2>1 DEF Approving
      <3>2. c # Building(c)
        BY <2>1 DEF Approving, Building
      <3> QED
        BY <3>1, <3>2 DEF Approving
    <2>2. CASE c = Building(c)
      <3>1. d = [pc |-> pc, op |-> c.op, id |-> c.id, e |-> c.e, dirty |-> c.dirty, made |-> c.made]
        BY <1>3, <2>2 DEF Building
      <3> QED
        BY <3>1 DEF Building
    <2> QED
      BY <1>4, <2>1, <2>2
  <1>6. ProposalCallOK(d)
    <2>1. pc \in Deploying => d = Building(d) /\ d.made \in DOMAIN project /\ Makes(d, d.made)
      BY <1>2, <1>5 DEF ProposalCallOK, Makes
    <2> QED
      BY <1>1, <1>2, <1>5, <2>1 DEF ProposalCallOK
  <1>7. EndorsedCall(c) => KeepsProject(d)
    BY <1>1, <1>5 DEF EndorsedCall, KeepsProject
  <1>8. Calm' /\ c.pc \in Deploying => d.pc \in Deploying /\ d.made = c.made
    BY <1>2, <1>5 DEF ProposalCallOK
  <1> QED
    BY <1>1, <1>3, <1>5, <1>6, <1>7, <1>8, ProposalGoesOn

LEMMA ProposalStops ==
  ASSUME ProposalInv, NEW h \in Handlers, CrashProposal(h)
  PROVE  ProposalInv'
  <1>1. PICK d : d = Idle
    OBVIOUS
  <1>2. Moves(h, d) /\ Running(h) /\ UNCHANGED <<proposal, endorsed, project>>
    BY <1>1, CrashMoves DEF CrashProposal, Crash, Running
  <1>3. d.pc = "idle" /\ ProposalCallOK(d)
    BY <1>1, ProposalIdle
  <1>4. ProjectsGrow /\ DOMAIN project' \ DOMAIN project = {}
    BY <1>2, ProjectsSame
  <1>5. ProposalCallOK(d)'
    BY <1>2, <1>3, <1>4, ProposalCallKept
  <1>6. ~Calm'
    BY <1>2 DEF CrashProposal, Crash, Disturb, Quiet, Calm, Running, ProposalInv, HandlersOK
  <1> QED
    BY <1>2, <1>3, <1>4, <1>5, <1>6, ProposalGoes

-----------------------------------------------------------------------------
(* The ends of calls *)

\* A call ends and makes `row` of its request.
Writes(c, row) ==
  /\ c.pc \notin {"idle", "save project"}
  /\ proposal' = [proposal EXCEPT ![c.id] = row] /\ UNCHANGED project
  /\ endorsed' = IF c.op = "endorse" THEN [endorsed EXCEPT ![c.id] = @ \cup {c.e.code}] ELSE endorsed
  /\ IsProposal(row)
  /\ row.status \in {proposal[c.id].status, c.e.status} \/ (row.status = "DEPLOYED" /\ c.pc \in Deploying)
  /\ row.code \in {proposal[c.id].code, c.e.code}
  /\ c.pc \in Deploying => row.status = "DEPLOYED" /\ row.deployed = c.made
  /\ c.pc \notin Deploying =>
       /\ row.deployed \in {proposal[c.id].deployed, c.e.deployed}
       /\ row.status = "DEPLOYED" /\ KeepsProject(c) => row.deployed = proposal[c.id].deployed

LEMMA WriteTyped ==
  ASSUME ProposalInv, NEW h \in Handlers, NEW c, c = call[h], c.pc # "idle",
         Become(h, Idle), NEW row, Writes(c, row)
  PROVE  ProposalTyped'
  <1>1. /\ Running(h) /\ ProposalCallOK(c) /\ c.id \in DOMAIN proposal
        /\ ProposalRows /\ \A g \in Handlers : ProposalCallOK(call[g])
    BY ProposalRuns DEF ProposalInv, ProposalTyped, Writes
  <1>2. PICK d : d = Idle
    OBVIOUS
  <1>3. d.pc = "idle" /\ ProposalCallOK(d) /\ Moves(h, d)
    BY <1>1, <1>2, ProposalIdle, BecomeMoves
  <1>4. DOMAIN proposal' = DOMAIN proposal /\ ProjectsGrow /\ UNCHANGED project
        /\ proposal'[c.id] = row /\ \A q \in DOMAIN proposal \ {c.id} : proposal'[q] = proposal[q]
    BY <1>1, ProjectsSame DEF Writes
  <1>5. DOMAIN endorsed' = DOMAIN endorsed
    BY DEF Writes
  <1>7. ProposalRows'
    <2>1. ASSUME NEW q \in DOMAIN proposal PROVE IsProposal(proposal'[q])
      BY <1>1, <1>4 DEF ProposalRows, Writes
    <2>2. \A q \in DOMAIN proposal' : IsProposal(proposal[q])'
      BY <1>4, <2>1 DEF IsProposal
    <2> QED
      BY <1>1, <1>4, <1>5, <2>2 DEF ProposalRows
  <1>8. ASSUME NEW g \in Handlers PROVE ProposalCallOK(call[g])'
    <2>1. PICK b : b = call'[g]
      OBVIOUS
    <2>2. ProposalCallOK(b)
      <3>1. CASE g = h
        BY <1>3, <2>1, <3>1, ProposalMoves
      <3>2. CASE g # h
        BY <1>1, <1>3, <2>1, <3>2, ProposalMoves
      <3> QED
        BY <3>1, <3>2
    <2>3. ProposalCallOK(b)'
      BY <1>4, <2>2, ProposalCallKept
    <2> QED
      BY <2>1, <2>3
  <1> QED
    BY <1>7, <1>8 DEF ProposalTyped

\* What another call knows after the write; it had loaded the row too.
LEMMA WriteSeen ==
  ASSUME NEW c, NEW b, NEW row, Writes(c, row), c.id \in DOMAIN proposal,
         DOMAIN proposal \subseteq DOMAIN endorsed, ProposalCallOK(c),
         EndorsedCall(c), FreshCall(c), EndorsedCall(b), FreshCall(b),
         b.pc # "save project", b.id \in DOMAIN proposal
  PROVE  EndorsedCall(b)'
  <1>1. /\ proposal'[c.id] = row /\ \A q \in DOMAIN proposal \ {c.id} : proposal'[q] = proposal[q]
    BY DEF Writes
  <1>2. endorsed[b.id] \subseteq endorsed'[b.id]
    BY DEF Writes
  <1>3. CASE b.id # c.id
    <2>1. proposal'[b.id] = proposal[b.id]
      BY <1>1, <1>3
    <2> QED
      BY <1>2, <2>1 DEF EndorsedCall, KeepsProject
  <1>4. CASE b.id = c.id
    <2>1. PICK old : old = proposal[c.id]
      OBVIOUS
    <2>2. /\ row.status \in {old.status, c.e.status, "DEPLOYED"} /\ row.code \in {old.code, c.e.code}
          /\ c.e.status = "DEPT_APPROVED" => c.op = "endorse"
          /\ c.op = "endorse" => old.status = "SUBMITTED" /\ c.op \notin Recoding
          /\ c.op \in Recoding => old.status \in {"DRAFT", "PENDING_INFO"}
          /\ c.op \notin Recoding => c.e.code = old.code
          /\ old.status # "DEPLOYED"
      BY <2>1 DEF Writes, FreshCall, ProposalCallOK, Recoding
    <2>3. /\ b.op = "endorse" => old.status = "SUBMITTED" /\ b.op \notin Recoding
          /\ b.op \in Recoding => old.status \in {"DRAFT", "PENDING_INFO"}
          /\ b.op \notin Recoding => b.e.code = old.code
      BY <1>4, <2>1 DEF FreshCall, Recoding
    <2>4. b.op = "endorse" => b.e.code = row.code
      BY <2>2, <2>3
    <2>5. b.op \in Recoding => row.status # "DEPT_APPROVED"
      BY <2>2, <2>3
    <2>6. ASSUME row.status = "DEPT_APPROVED" PROVE b.e.code \in endorsed'[b.id]
      <3>1. CASE c.op = "endorse"
        <4>1. c.e.code \in endorsed'[c.id]
          BY <3>1 DEF Writes
        <4> QED
          BY <1>4, <2>2, <2>3, <3>1, <4>1
      <3>2. CASE c.op # "endorse"
        <4>1. old.status = "DEPT_APPROVED"
          BY <2>2, <2>6, <3>2
        <4> QED
          BY <1>2, <1>4, <2>1, <4>1 DEF EndorsedCall
      <3> QED
        BY <3>1, <3>2
    <2>7. b.op = "approve" => b.e.code \in endorsed'[b.id]
      BY <1>2 DEF EndorsedCall
    <2>8. proposal'[b.id] = row
      BY <1>1, <1>4
    <2>9. row.status # "DEPLOYED" => b.e.deployed = row.deployed
      <3>1. b.e.deployed = old.deployed /\ c.e.deployed = old.deployed
        BY <1>4, <2>1, <2>2 DEF EndorsedCall, Writes
      <3> QED
        BY <2>1, <3>1 DEF Writes
    <2>10. KeepsProject(b)
      BY DEF EndorsedCall
    <2> QED
      BY <2>4, <2>5, <2>6, <2>7, <2>8, <2>9, <2>10 DEF EndorsedCall, KeepsProject
  <1> QED
    BY <1>3, <1>4

LEMMA ProposalEnds ==
  ASSUME ProposalInv, NEW h \in Handlers, NEW c, c = call[h],
         Become(h, Idle), NEW row, Writes(c, row)
  PROVE  ProposalInv'
  <1>0. c.pc \notin {"idle", "save project"} /\ c.pc # "idle"
    BY DEF Writes
  <1>1. /\ Running(h) /\ h \in Busy /\ ProposalCallOK(c) /\ c.id \in DOMAIN proposal
        /\ overlaps <= 1 => EndorsedCall(c) /\ (Calm \/ ~Alone => FreshCall(c))
    BY <1>0, ProposalRuns
  <1>2. PICK d : d = Idle
    OBVIOUS
  <1>3. d.pc = "idle" /\ Moves(h, d) /\ UNCHANGED overlaps
    BY <1>1, <1>2, ProposalIdle, BecomeMoves DEF Become
  <1>4. /\ HandlersOK' /\ \A g \in Handlers \ {h} : call'[g] = call[g]
        /\ Busy' = Busy \ {h} /\ (Calm' => Calm /\ Busy' \subseteq {h})
    BY <1>3, ProposalMoves
  <1>5. ProposalRows /\ DOMAIN proposal \subseteq DOMAIN endorsed
    BY DEF ProposalInv, ProposalTyped, ProposalRows
  <1>6. /\ DOMAIN proposal' = DOMAIN proposal /\ UNCHANGED project
        /\ proposal'[c.id] = row /\ \A q \in DOMAIN proposal \ {c.id} : proposal'[q] = proposal[q]
        /\ \A q \in DOMAIN proposal : endorsed[q] \subseteq endorsed'[q]
    BY <1>1, <1>5 DEF Writes
  <1>7. EndorsedInv'
    <2> SUFFICES ASSUME overlaps' <= 1
                 PROVE  /\ \A f, g, k \in Busy' : f = g \/ g = k \/ f = k
                        /\ \A q \in DOMAIN proposal : EndorsedRow(q)' /\ BuiltRow(q)'
                        /\ \A i \in DOMAIN project : BornEndorsed(i)'
                        /\ \A g \in Busy' : /\ EndorsedCall(call[g])'
                                            /\ Calm' \/ ~Alone' => FreshCall(call[g])'
      BY <1>6 DEF EndorsedInv
    <2>1. overlaps <= 1 /\ Alone' /\ \A f, g, k \in Busy' : f = g \/ g = k \/ f = k
      BY <1>1, <1>3, PairsKept
    <2>2. /\ \A q \in DOMAIN proposal : EndorsedRow(q) /\ BuiltRow(q)
          /\ \A i \in DOMAIN project : BornEndorsed(i)
          /\ \A g \in Busy : /\ EndorsedCall(call[g])
                             /\ Calm \/ ~Alone => FreshCall(call[g])
      BY <2>1 DEF ProposalInv, EndorsedInv
    <2>3. \A i \in DOMAIN project : BornEndorsed(i)'
      BY <1>5, <1>6, <2>2 DEF ProposalRows, BornEndorsed
    <2>4. ASSUME NEW q \in DOMAIN proposal, proposal'[q].status = "DEPT_APPROVED"
          PROVE  proposal'[q].code \in endorsed'[q]
      <3>1. CASE q # c.id
        BY <1>6, <2>2, <2>4, <3>1 DEF EndorsedRow
      <3>2. CASE q = c.id /\ c.op = "endorse"
        <4>1. c.e.code \in endorsed'[c.id] /\ row.code \in {proposal[c.id].code, c.e.code}
          BY <1>1, <1>5, <3>2 DEF Writes
        <4>2. c.e.code = proposal[c.id].code
          BY <1>0, <1>1, <2>1, <3>2 DEF EndorsedCall
        <4> QED
          BY <1>6, <3>2, <4>1, <4>2
      <3>3. CASE q = c.id /\ c.op # "endorse"
        <4>1. proposal[c.id].status = "DEPT_APPROVED"
          BY <1>0, <1>1, <1>6, <2>4, <3>3 DEF Writes, ProposalCallOK
        <4>2. c.e.code \in endorsed[c.id] /\ proposal[c.id].code \in endorsed[c.id]
          BY <1>0, <1>1, <2>1, <2>2, <4>1 DEF EndorsedCall, EndorsedRow
        <4>3. row.code \in {proposal[c.id].code, c.e.code}
          BY DEF Writes
        <4> QED
          BY <1>1, <1>6, <3>3, <4>2, <4>3
      <3> QED
        BY <3>1, <3>2, <3>3
    <2>5. ASSUME NEW q \in DOMAIN proposal PROVE BuiltRow(q)'
      <3>1. CASE q # c.id
        BY <1>6, <2>2, <2>5, <3>1 DEF BuiltRow
      <3>2. CASE q = c.id /\ c.pc \in Deploying
        <4>1. c.made \in DOMAIN project /\ project[c.made].from = q /\ row.deployed = c.made
          BY <1>1, <3>2 DEF ProposalCallOK, Writes, Makes
        <4> QED
          BY <1>6, <3>2, <4>1 DEF BuiltRow
      <3>3. CASE q = c.id /\ c.pc \notin Deploying
        <4>1. SUFFICES ASSUME row.status = "DEPLOYED"
                       PROVE  row.deployed \in DOMAIN project /\ project[row.deployed].from = q
          BY <1>6, <3>3 DEF BuiltRow
        <4>2. KeepsProject(c) /\ c.e.status # "DEPLOYED"
          BY <1>0, <1>1, <2>1 DEF EndorsedCall, ProposalCallOK
        <4>3. row.deployed = proposal[c.id].deployed /\ proposal[c.id].status = "DEPLOYED"
          BY <3>3, <4>1, <4>2 DEF Writes
        <4> QED
          BY <1>1, <2>2, <3>3, <4>3 DEF BuiltRow
      <3> QED
        BY <3>1, <3>2, <3>3
    <2>6. ASSUME NEW g \in Busy' PROVE EndorsedCall(call[g])' /\ ~Calm'
      <3>1. PICK b : b = call[g]
        OBVIOUS
      <3>2. g \in Busy /\ g # h /\ call'[g] = b /\ g \in Handlers
        BY <1>4, <2>6, <3>1 DEF Busy
      <3>3. ~Alone /\ ~Calm'
        BY <1>1, <1>4, <2>6, <3>2 DEF Alone, Busy
      <3>4. CASE b.pc = "save project"
        BY <3>2, <3>3, <3>4 DEF EndorsedCall
      <3>5. CASE b.pc # "save project"
        <4>1. b.id \in DOMAIN proposal
          BY <3>1, <3>2, <3>5, ProposalRuns DEF Busy, Running, At
        <4>2. EndorsedCall(b) /\ FreshCall(b)
          BY <2>2, <3>1, <3>2, <3>3
        <4>3. EndorsedCall(b)'
          BY <1>1, <1>5, <2>1, <3>3, <3>5, <4>1, <4>2, WriteSeen
        <4>4. EndorsedCall(b)' <=> EndorsedCall(call[g])'
          BY <3>2 DEF EndorsedCall, KeepsProject
        <4> QED
          BY <3>3, <4>3, <4>4
      <3> QED
        BY <3>4, <3>5
    <2> QED
      BY <2>1, <2>3, <2>4, <2>5, <2>6 DEF EndorsedRow
  <1>8. DeployedInv'
    <2> SUFFICES ASSUME Calm', NEW i \in DOMAIN project, project[i].from # Direct PROVE Deployed(i)'
      BY <1>6 DEF DeployedInv
    <2>1. Calm /\ overlaps <= 1 /\ FreshCall(c) /\ Busy = {h}
      BY <1>1, <1>4 DEF Calm
    <2>2. Deployed(i) \/ Deploys(c, i)
      BY <2>1 DEF ProposalInv, DeployedInv
    <2>3. project[i].from \in DOMAIN proposal
      BY <1>5 DEF ProposalRows
    <2>4. CASE project[i].from # c.id
      <3>1. proposal'[project[i].from] = proposal[project[i].from]
        BY <1>6, <2>3, <2>4
      <3>2. Deployed(i)
        BY <2>2, <2>4 DEF Deploys, Makes
      <3> QED
        BY <1>6, <3>1, <3>2 DEF Deployed
    <2>5. CASE project[i].from = c.id
      <3>1. ~Deployed(i)
        BY <1>0, <2>1, <2>5 DEF Deployed, FreshCall
      <3>2. c.pc \in Deploying /\ c.e.code = project[i].born /\ c.made = i
        BY <2>2, <3>1 DEF Deploys, Makes
      <3>3. c.op = "approve" /\ c.op \notin Recoding
        BY <1>1, <3>2 DEF ProposalCallOK, Deploying, ApprovalPcs, Recoding
      <3>4. c.e.code = proposal[c.id].code
        BY <1>0, <2>1, <3>3 DEF FreshCall
      <3>5. row.status = "DEPLOYED" /\ row.deployed = i /\ row.code = project[i].born
        BY <3>2, <3>4 DEF Writes
      <3> QED
        BY <1>6, <2>5, <3>5 DEF Deployed
    <2> QED
      BY <2>4, <2>5
  <1>9. ProposalTyped'
    BY <1>0, WriteTyped
  <1> QED
    BY <1>4, <1>7, <1>8, <1>9 DEF ProposalInv

\* save() writes a row of the table.
LEMMA ProposalMerged ==
  ASSUME NEW old, NEW e, IsProposal(old), IsProposal(e), NEW dirty, NEW m, m = Merge(old, e, dirty)
  PROVE  /\ IsProposal(m) /\ m.status \in {old.status, e.status} /\ m.code \in {old.code, e.code}
         /\ m.deployed \in {old.deployed, e.deployed}
         /\ "status" \in dirty => m.status = e.status
         /\ "deployed" \notin dirty => m.deployed = old.deployed
  <1>1. DOMAIN old = {"status", "code", "back", "deployed"}
    BY DEF IsProposal
  <1>2. m = [c \in {"status", "code", "back", "deployed"} |-> IF c \in dirty THEN e[c] ELSE old[c]]
    BY <1>1 DEF Merge
  <1>3. /\ m.status = IF "status" \in dirty THEN e.status ELSE old.status
        /\ m.code = IF "code" \in dirty THEN e.code ELSE old.code
        /\ m.deployed = IF "deployed" \in dirty THEN e.deployed ELSE old.deployed
    BY <1>2
  <1>4. IsProposal(m)
    <2>1. m = [status |-> m.status, code |-> m.code, back |-> m.back, deployed |-> m.deployed]
      BY <1>2
    <2> QED
      BY <1>3, <2>1 DEF IsProposal
  <1> QED
    BY <1>3, <1>4

LEMMA CommitApprovalKeeps ==
  ASSUME ProposalInv, NEW h \in Handlers, CommitApproval(h)
  PROVE  ProposalInv'
  <1>1. PICK c : c = call[h]
    OBVIOUS
  <1>2. c.pc \in {"approve only", "deploy"} /\ c.pc \notin {"idle", "save project"} /\ c.pc \in ApprovalPcs
    BY <1>1 DEF CommitApproval, At, ApprovalPcs
  <1>3. ProposalCallOK(c) /\ c.op = "approve" /\ c.id \in DOMAIN proposal
    BY <1>1, <1>2, ProposalRuns DEF ProposalCallOK
  <1>4. PICK old, m : old = proposal[c.id] /\ m = Merge(old, c.e, c.dirty)
    OBVIOUS
  <1>5. IsProposal(old) /\ IsProposal(c.e) /\ c.e.status # "DEPLOYED"
    BY <1>2, <1>3, <1>4 DEF ProposalInv, ProposalTyped, ProposalRows, ProposalCallOK
  <1>6. /\ IsProposal(m) /\ m.status \in {old.status, c.e.status} /\ m.code \in {old.code, c.e.code}
        /\ m.deployed \in {old.deployed, c.e.deployed}
        /\ m.status = "DEPLOYED" /\ KeepsProject(c) => m.deployed = old.deployed
    <2>1. PICK e, dirty : e = c.e /\ dirty = c.dirty
      OBVIOUS
    <2>2. /\ IsProposal(m) /\ m.status \in {old.status, e.status} /\ m.code \in {old.code, e.code}
          /\ m.deployed \in {old.deployed, e.deployed}
          /\ "status" \in dirty => m.status = e.status
          /\ "deployed" \notin dirty => m.deployed = old.deployed
      BY <1>4, <1>5, <2>1, ProposalMerged
    <2>3. KeepsProject(c) => ("deployed" \in dirty => "status" \in dirty)
      BY <1>2, <2>1 DEF KeepsProject
    <2> QED
      BY <1>5, <2>1, <2>2, <2>3
  <1>7. PICK row : row = IF c.pc = "deploy" THEN [m EXCEPT !.status = "DEPLOYED", !.deployed = c.made]
                         ELSE m
    OBVIOUS
  <1>8. /\ IsProposal(row) /\ row.code = m.code
        /\ c.pc = "deploy" => row.status = "DEPLOYED" /\ row.deployed = c.made
        /\ c.pc # "deploy" => row = m
    <2>1. CASE c.pc = "deploy"
      <3>1. row = [status |-> "DEPLOYED", code |-> m.code, back |-> m.back, deployed |-> c.made]
        BY <1>6, <1>7, <2>1 DEF IsProposal
      <3> QED
        BY <1>6, <2>1, <3>1 DEF IsProposal
    <2>2. CASE c.pc # "deploy"
      BY <1>6, <1>7, <2>2
    <2> QED
      BY <2>1, <2>2
  <1>9. /\ proposal' = [proposal EXCEPT ![c.id] = row] /\ Become(h, Idle)
        /\ UNCHANGED <<project, endorsed>>
    BY <1>1, <1>4, <1>7 DEF CommitApproval, Release, Return, At
  <1>10. Writes(c, row)
    <2>1. c.pc \in Deploying <=> c.pc = "deploy"
      BY <1>2 DEF Deploying
    <2> QED
      BY <1>2, <1>3, <1>4, <1>6, <1>8, <1>9, <2>1 DEF Writes
  <1> QED
    BY <1>1, <1>9, <1>10, ProposalEnds

LEMMA UpdateProposalKeeps ==
  ASSUME ProposalInv, NEW h \in Handlers, UpdateProposal(h)
  PROVE  ProposalInv'
  <1>1. PICK c : c = call[h]
    OBVIOUS
  <1>2. c.pc = "update" /\ c.pc \notin {"idle", "save project"} /\ UNCHANGED project /\ c.pc \notin Deploying
    BY <1>1 DEF UpdateProposal, At, Deploying
  <1>3. ProposalCallOK(c) /\ c.id \in DOMAIN proposal /\ Running(h)
    BY <1>1, <1>2, ProposalRuns
  <1>4. CASE c.op = "approve"
    <2>1. Become(h, [call[h] EXCEPT !.pc = "find project"]) /\ UNCHANGED <<proposal, endorsed>>
      BY <1>1, <1>4 DEF UpdateProposal, Goto
    <2>2. "find project" \in ApprovalPcs /\ "find project" \notin Deploying
      BY DEF ApprovalPcs, Deploying
    <2>3. Moves(h, [call[h] EXCEPT !.pc = "find project"])
      BY <1>3, <2>1, BecomeMoves
    <2> QED
      BY <1>1, <1>2, <1>4, <2>1, <2>2, <2>3, ApprovalGoesOn
  <1>5. CASE c.op # "approve"
    <2>1. PICK old, m : old = proposal[c.id] /\ m = Merge(old, c.e, c.dirty)
      OBVIOUS
    <2>2. IsProposal(old) /\ IsProposal(c.e) /\ c.e.status # "DEPLOYED"
      BY <1>2, <1>3, <2>1 DEF ProposalInv, ProposalTyped, ProposalRows, ProposalCallOK
    <2>3. /\ IsProposal(m) /\ m.status \in {old.status, c.e.status} /\ m.code \in {old.code, c.e.code}
          /\ m.deployed \in {old.deployed, c.e.deployed}
          /\ m.status = "DEPLOYED" /\ KeepsProject(c) => m.deployed = old.deployed
      BY <1>2, <2>1, <2>2, ProposalMerged DEF KeepsProject
    <2>4. proposal' = [proposal EXCEPT ![c.id] = m] /\ Become(h, Idle)
      BY <1>1, <1>5, <2>1 DEF UpdateProposal, Return
    <2>5. endorsed' = IF c.op = "endorse" THEN [endorsed EXCEPT ![c.id] = @ \cup {c.e.code}] ELSE endorsed
      BY <1>1, <1>5 DEF UpdateProposal
    <2>6. Writes(c, m)
      BY <1>2, <2>1, <2>3, <2>4, <2>5 DEF Writes
    <2> QED
      BY <1>1, <2>4, <2>6, ProposalEnds
  <1> QED
    BY <1>4, <1>5

LEMMA FindProjectKeeps ==
  ASSUME ProposalInv, NEW h \in Handlers, FindProject(h)
  PROVE  ProposalInv'
  <1>1. PICK c : c = call[h]
    OBVIOUS
  <1>2. c.pc = "find project" /\ c.pc # "idle" /\ UNCHANGED <<proposal, endorsed, project>>
        /\ c.pc \in ApprovalPcs /\ c.pc \notin Deploying
    BY <1>1 DEF FindProject, At, requestVars, ApprovalPcs, Deploying
  <1>3. Running(h) /\ c.op = "approve"
    BY <1>1, <1>2, ProposalRuns DEF ProposalCallOK
  <1>4. PICK pc : pc = IF c.e.code \in Taken THEN "approve only" ELSE "insert project"
    OBVIOUS
  <1>5. pc \in ApprovalPcs /\ pc \notin Deploying
    BY <1>4 DEF ApprovalPcs, Deploying
  <1>6. Become(h, [call[h] EXCEPT !.pc = pc])
    BY <1>1, <1>4 DEF FindProject, Goto
  <1>7. Moves(h, [call[h] EXCEPT !.pc = pc])
    BY <1>3, <1>6, BecomeMoves
  <1> QED
    BY <1>1, <1>2, <1>3, <1>5, <1>7, ApprovalGoesOn

LEMMA MakeFoldersKeeps ==
  ASSUME ProposalInv, NEW h \in Handlers, MakeFolders(h)
  PROVE  ProposalInv'
  <1>1. PICK c : c = call[h]
    OBVIOUS
  <1>2. c.pc = "folders" /\ c.pc # "idle" /\ UNCHANGED <<proposal, endorsed, project>>
        /\ c.pc \in ApprovalPcs /\ c.pc \in Deploying
    BY <1>1 DEF MakeFolders, At, requestVars, ApprovalPcs, Deploying
  <1>3. Running(h) /\ c.op = "approve" /\ overlaps \in Nat
    BY <1>1, <1>2, ProposalRuns DEF ProposalCallOK, ProposalInv, HandlersOK
  <1>4. CASE Goto(h, "deploy")
    <2>1. Moves(h, [call[h] EXCEPT !.pc = "deploy"])
      BY <1>3, <1>4, BecomeMoves DEF Goto
    <2>2. "deploy" \in ApprovalPcs /\ "deploy" \in Deploying
      BY DEF ApprovalPcs, Deploying
    <2> QED
      BY <1>1, <1>2, <1>3, <2>1, <2>2, ApprovalGoesOn
  <1>5. CASE ~Goto(h, "deploy")
    <2>1. /\ overlaps < MaxOverlaps /\ overlaps' = overlaps + 1
          /\ call' = [call EXCEPT ![h].pc = "approve only"]
      BY <1>5 DEF MakeFolders
    <2>2. ~Quiet
      BY <1>3 DEF Quiet, Running
    <2>3. Moves(h, [call[h] EXCEPT !.pc = "approve only"])
      BY <2>1, <2>2 DEF Moves, Disturb
    <2>4. "approve only" \in ApprovalPcs /\ "approve only" \notin Deploying
      BY DEF ApprovalPcs, Deploying
    <2>5. ~Calm'
      <3>1. overlaps \in Nat /\ overlaps' = overlaps + 1
        BY <1>3, <2>1
      <3>2. overlaps' # 0
        BY ONLY <3>1
      <3> QED
        BY ONLY <3>2 DEF Calm
    <2> QED
      BY <1>1, <1>2, <1>3, <2>3, <2>4, <2>5, ApprovalGoesOn
  <1> QED
    BY <1>4, <1>5

\* A row added to the projects.
LEMMA ProjectAdded ==
  ASSUME ProposalInv, NEW row \in ProjectRow, project' = Append(project, row)
  PROVE  /\ ProjectsGrow /\ DOMAIN project' \ DOMAIN project = {Len(project) + 1}
         /\ project'[Len(project) + 1] = row /\ Len(project) + 1 \in DOMAIN project'
  <1>1. project \in Seq(ProjectRow)
    BY DEF ProposalInv, ProposalTyped, ProposalRows
  <1>2. /\ project' \in Seq(ProjectRow) /\ Len(project') = Len(project) + 1
        /\ \A i \in 1..Len(project) : project'[i] = project[i]
        /\ project'[Len(project) + 1] = row
    BY <1>1, AppendProperties
  <1>3. DOMAIN project = 1..Len(project) /\ DOMAIN project' = 1..Len(project') /\ Len(project) \in Nat
    BY <1>1, <1>2
  <1> QED
    BY <1>2, <1>3 DEF ProjectsGrow

LEMMA InsertProjectKeeps ==
  ASSUME ProposalInv, NEW h \in Handlers, InsertProject(h)
  PROVE  ProposalInv'
  <1>1. PICK c : c = call[h]
    OBVIOUS
  <1>2. c.pc = "insert project" /\ c.pc \notin {"idle", "save project"} /\ UNCHANGED <<proposal, endorsed>>
        /\ c.pc \in ApprovalPcs /\ c.pc \notin Deploying
    BY <1>1 DEF InsertProject, At, ApprovalPcs, Deploying
  <1>3. /\ Running(h) /\ c.op = "approve" /\ ProposalCallOK(c) /\ c.id \in DOMAIN proposal
        /\ overlaps <= 1 => EndorsedCall(c) /\ (Calm \/ ~Alone => FreshCall(c))
    BY <1>1, <1>2, ProposalRuns DEF ProposalCallOK
  <1>4. CASE c.e.code \in Taken
    <2>1. Goto(h, "approve only") /\ UNCHANGED project
      BY <1>1, <1>4 DEF InsertProject
    <2>2. Moves(h, [call[h] EXCEPT !.pc = "approve only"])
      BY <1>3, <2>1, BecomeMoves DEF Goto
    <2>3. "approve only" \in ApprovalPcs /\ "approve only" \notin Deploying
      BY DEF ApprovalPcs, Deploying
    <2> QED
      BY <1>1, <1>2, <1>3, <2>1, <2>2, <2>3, ApprovalGoesOn
  <1>5. CASE c.e.code \notin Taken
    <2>1. PICK i, row : i = Len(project) + 1 /\ row = NewRow(c.e.code, c.id)
      OBVIOUS
    <2>2. PICK d : d = [pc |-> "folders", op |-> c.op, id |-> c.id, e |-> c.e,
                        dirty |-> c.dirty, made |-> i]
      OBVIOUS
    <2>3. project' = Append(project, row) /\ Become(h, d)
      BY <1>1, <1>5, <2>1, <2>2 DEF InsertProject
    <2>4. /\ d.pc = "folders" /\ d.op = c.op /\ d.id = c.id /\ d.e = c.e /\ d.dirty = c.dirty
          /\ d.pc # "idle" /\ d.pc \in ApprovalPcs /\ d.pc \in Deploying
          /\ d = Building(d) /\ d.made = i
      BY <2>2 DEF ApprovalPcs, Deploying, Building
    <2>5. row \in ProjectRow /\ row.from = c.id /\ row.born = c.e.code
      <3>1. c.id \in Proposals /\ c.e.code \in Codes
        BY <1>2, <1>3 DEF ProposalCallOK, IsProposal, ProposalInv, ProposalTyped, ProposalRows
      <3> QED
        BY <2>1, <3>1 DEF NewRow, ProjectRow
    <2>6. /\ ProjectsGrow /\ DOMAIN project' \ DOMAIN project = {i}
          /\ project'[i] = row /\ i \in DOMAIN project'
      BY <2>1, <2>3, <2>5, ProjectAdded
    <2>7. Makes(d, i)'
      BY <2>4, <2>5, <2>6 DEF Makes
    <2>8. ProposalCallOK(d)'
      <3>1. /\ d.id \in DOMAIN proposal' /\ IsProposal(d.e)' /\ d.e.status # "DEPLOYED"
            /\ d.e.status = "DEPT_APPROVED" => d.op = "endorse"
        BY <1>2, <1>3, <2>4 DEF ProposalCallOK, IsProposal
      <3>2. d.made \in DOMAIN project' /\ Makes(d, d.made)'
        BY <2>4, <2>6, <2>7
      <3> QED
        BY <1>3, <2>4, <3>1, <3>2 DEF ProposalCallOK, Building
    <2>9. ASSUME NEW k \in DOMAIN project' \ DOMAIN project
          PROVE  /\ Deploys(d, k)' /\ project'[k].from \in DOMAIN proposal
                 /\ overlaps <= 1 => project'[k].born \in endorsed[project'[k].from]
      <3>1. k = i /\ project'[k] = row
        BY <2>6, <2>9
      <3>2. Deploys(d, k)'
        BY <2>4, <2>7, <3>1 DEF Deploys
      <3> QED
        BY <1>2, <1>3, <2>5, <3>1, <3>2 DEF EndorsedCall
    <2>10. Moves(h, d)
      BY <1>3, <2>3, BecomeMoves
    <2>11. ASSUME overlaps' <= 1 PROVE EndorsedCall(d) /\ (Calm' \/ ~Alone' => FreshCall(d))
      <3>1. overlaps <= 1 /\ (Calm' \/ ~Alone' => Calm \/ ~Alone)
        BY <1>3, <2>10, <2>11, PairsKept
      <3>2. EndorsedCall(c) => KeepsProject(d)
        BY <1>2, <2>4 DEF EndorsedCall, KeepsProject
      <3> QED
        BY <1>2, <1>3, <2>4, <3>1, <3>2, SameProposal
    <2>12. ASSUME NEW k \in DOMAIN project PROVE ~Deploys(call[h], k)
      BY <1>1, <1>2 DEF Deploys
    <2> QED
      BY <1>2, <2>4, <2>6, <2>8, <2>9, <2>10, <2>11, <2>12, ProposalGoes
  <1> QED
    BY <1>4, <1>5

-----------------------------------------------------------------------------
(* ProjectsService *)

LEMMA LoadProjectKeeps ==
  ASSUME ProposalInv, NEW h \in Handlers, LoadProject(h)
  PROVE  ProposalInv'
  <1>1. PICK i \in DOMAIN project, code \in Codes :
          /\ Begin(h, [pc |-> "save project", row |-> i, code |-> code])
          /\ UNCHANGED <<proposal, endorsed, project>>
    BY DEF LoadProject, requestVars
  <1>2. PICK d : d = [pc |-> "save project", row |-> i, code |-> code]
    OBVIOUS
  <1>3. d.pc = "save project" /\ d.row = i /\ d.code = code /\ d.pc # "idle"
    BY <1>2
  <1>4. Moves(h, d) /\ ~Running(h)
    BY <1>1, <1>2, BeginMoves DEF Begin, Running
  <1>5. ProjectsGrow /\ DOMAIN project' \ DOMAIN project = {}
    BY <1>1, ProjectsSame
  <1>6. ProposalCallOK(d)
    BY <1>2, <1>3 DEF ProposalCallOK, ApprovalPcs, Deploying
  <1>7. ProposalCallOK(d)'
    BY <1>1, <1>5, <1>6, ProposalCallKept
  <1>8. EndorsedCall(d) /\ FreshCall(d)
    BY <1>3 DEF EndorsedCall, FreshCall
  <1> QED
    BY <1>1, <1>3, <1>4, <1>5, <1>7, <1>8, ProposalGoes

LEMMA SaveProjectKeeps ==
  ASSUME ProposalInv, NEW h \in Handlers, SaveProject(h)
  PROVE  ProposalInv'
  <1>1. PICK c : c = call[h]
    OBVIOUS
  <1>2. c.pc = "save project" /\ UNCHANGED <<proposal, endorsed>> /\ Become(h, Idle)
        /\ project' = IF c.code \in Taken THEN project
                      ELSE [project EXCEPT ![c.row].code = c.code]
    BY <1>1 DEF SaveProject, At, Return
  <1>3. Running(h) /\ ProposalCallOK(c)
    BY <1>1, <1>2, ProposalRuns
  <1>4. c.row \in DOMAIN project /\ c.code \in Codes /\ project \in Seq(ProjectRow)
    BY <1>2, <1>3 DEF ProposalCallOK, ProposalInv, ProposalTyped, ProposalRows
  <1>5. ProjectsGrow /\ DOMAIN project' \ DOMAIN project = {}
    <2>1. CASE c.code \in Taken
      BY <1>2, <2>1, ProjectsSame
    <2>2. CASE c.code \notin Taken
      <3>1. PICK row : row = [project[c.row] EXCEPT !.code = c.code]
        OBVIOUS
      <3>2. project[c.row] \in ProjectRow
        BY <1>4
      <3>3. row \in ProjectRow /\ row.from = project[c.row].from /\ row.born = project[c.row].born
        BY <1>4, <3>1, <3>2 DEF ProjectRow
      <3>4. project' = [project EXCEPT ![c.row] = row]
        BY <1>2, <2>2, <3>1
      <3>5. c.row \in 1..Len(project) /\ DOMAIN project' = DOMAIN project
        BY <1>4, <3>4
      <3>6. project' \in Seq(ProjectRow)
        BY <1>4, <3>3, <3>4, <3>5, ExceptSeq
      <3>7. \A i \in DOMAIN project : project'[i] = IF i = c.row THEN row ELSE project[i]
        BY <3>4
      <3> QED
        BY <3>3, <3>5, <3>6, <3>7 DEF ProjectsGrow
    <2> QED
      BY <2>1, <2>2
  <1>6. PICK d : d = Idle
    OBVIOUS
  <1>7. d.pc = "idle" /\ ProposalCallOK(d) /\ Moves(h, d)
    BY <1>2, <1>3, <1>6, ProposalIdle, BecomeMoves
  <1>8. ProposalCallOK(d)'
    BY <1>2, <1>5, <1>7, ProposalCallKept
  <1>9. ASSUME NEW i \in DOMAIN project PROVE ~Deploys(call[h], i)
    BY <1>1, <1>2 DEF Deploys, Deploying
  <1> QED
    BY <1>2, <1>5, <1>7, <1>8, <1>9, ProposalGoes

\* What happens beside the calls: a request is drafted, a project made without one.
LEMMA BesidesRequests ==
  ASSUME ProposalInv, Disturb, UNCHANGED <<call, endorsed>>,
         DOMAIN proposal \subseteq DOMAIN proposal', DOMAIN proposal' \subseteq Proposals,
         \A q \in DOMAIN proposal : proposal'[q] = proposal[q],
         \A q \in DOMAIN proposal' \ DOMAIN proposal :
           IsProposal(proposal'[q]) /\ proposal'[q].status = "DRAFT",
         ProjectsGrow, \A i \in DOMAIN project' \ DOMAIN project : project'[i].from = Direct
  PROVE  ProposalInv'
  <1>1. /\ overlaps \in Nat /\ overlaps' \in Nat /\ overlaps <= overlaps'
        /\ Busy' = Busy /\ (Alone' <=> Alone)
        /\ Calm' => Calm
        /\ Quiet \/ overlaps' = overlaps + 1
    BY DEF ProposalInv, HandlersOK, Disturb, Calm, Busy, Alone, Running, At
  <1>2. HandlersOK'
    BY <1>1 DEF ProposalInv, HandlersOK
  <1>3. ProposalRows /\ \A g \in Handlers : ProposalCallOK(call[g])
    BY DEF ProposalInv, ProposalTyped
  <1>4. ProposalTyped'
    <2>1. ASSUME NEW g \in Handlers PROVE ProposalCallOK(call[g])'
      <3>1. PICK c : c = call[g]
        OBVIOUS
      <3>2. ProposalCallOK(c) /\ call'[g] = c
        BY <1>3, <3>1
      <3>3. ProposalCallOK(c)'
        BY <3>2, ProposalCallKept
      <3> QED
        BY <3>2, <3>3
    <2>2. ASSUME NEW q \in DOMAIN proposal' PROVE IsProposal(proposal'[q])
      BY <1>3, <2>2 DEF ProposalRows
    <2>3. ASSUME NEW i \in DOMAIN project', project'[i].from # Direct
          PROVE  project'[i].from \in DOMAIN proposal'
      BY <1>3, <2>3 DEF ProposalRows, ProjectsGrow
    <2>4. \A q \in DOMAIN proposal' : IsProposal(proposal[q])'
      BY <2>2 DEF IsProposal
    <2>5. ProposalRows'
      BY <1>3, <2>3, <2>4 DEF ProposalRows, ProjectsGrow
    <2> QED
      BY <2>1, <2>5 DEF ProposalTyped
  <1>5. ASSUME NEW c, c.pc # "save project" => c.id \in DOMAIN proposal
        PROVE  (EndorsedCall(c) => EndorsedCall(c)') /\ (FreshCall(c) => FreshCall(c)')
    <2>1. c.pc # "save project" => proposal'[c.id] = proposal[c.id]
      BY <1>5
    <2> QED
      BY <2>1 DEF EndorsedCall, FreshCall, KeepsProject
  <1>6. EndorsedInv'
    <2> SUFFICES ASSUME overlaps' <= 1
                 PROVE  /\ \A f, g, k \in Busy : f = g \/ g = k \/ f = k
                        /\ \A q \in DOMAIN proposal' : EndorsedRow(q)' /\ BuiltRow(q)'
                        /\ \A i \in DOMAIN project' : BornEndorsed(i)'
                        /\ \A h \in Busy : /\ EndorsedCall(call[h])'
                                           /\ Calm' \/ ~Alone' => FreshCall(call[h])'
      BY <1>1 DEF EndorsedInv
    <2>1. overlaps <= 1 /\ EndorsedInv
      BY <1>1 DEF ProposalInv
    <2>2. ASSUME NEW q \in DOMAIN proposal' PROVE EndorsedRow(q)' /\ BuiltRow(q)'
      BY <2>1, <2>2 DEF EndorsedInv, EndorsedRow, BuiltRow, ProjectsGrow
    <2>3. ASSUME NEW i \in DOMAIN project' PROVE BornEndorsed(i)'
      BY <2>1, <2>3 DEF EndorsedInv, BornEndorsed, ProjectsGrow
    <2>4. ASSUME NEW h \in Busy
          PROVE  EndorsedCall(call[h])' /\ (Calm' \/ ~Alone' => FreshCall(call[h])')
      <3>1. PICK c : c = call[h]
        OBVIOUS
      <3>2. /\ c.pc # "save project" => c.id \in DOMAIN proposal
            /\ EndorsedCall(c) /\ (Calm \/ ~Alone => FreshCall(c))
        BY <2>1, <2>4, <3>1, ProposalRuns DEF Busy, Running, At
      <3>3. EndorsedCall(c)' /\ (Calm \/ ~Alone => FreshCall(c)')
        BY <1>5, <3>2
      <3>4. call'[h] = c
        BY <3>1
      <3> QED
        BY <1>1, <3>3, <3>4
    <2> QED
      BY <2>1, <2>2, <2>3, <2>4 DEF EndorsedInv
  <1>7. DeployedInv'
    <2> SUFFICES ASSUME Calm', NEW i \in DOMAIN project', project'[i].from # Direct PROVE Deployed(i)'
      BY DEF DeployedInv
    <2>1. Calm /\ Quiet
      BY <1>1 DEF Calm
    <2>2. Busy = {}
      BY <2>1 DEF Quiet, Busy, Running
    <2>3. /\ i \in DOMAIN project
          /\ project'[i].from = project[i].from /\ project'[i].born = project[i].born
      BY DEF ProjectsGrow
    <2>4. Deployed(i)
      BY <2>1, <2>2, <2>3 DEF ProposalInv, DeployedInv
    <2>5. project[i].from \in DOMAIN proposal
      BY <1>3, <2>3 DEF ProposalRows
    <2> QED
      BY <2>3, <2>4, <2>5 DEF Deployed
  <1> QED
    BY <1>2, <1>4, <1>6, <1>7 DEF ProposalInv

LEMMA ProposalStarts == ServerInit /\ RequestsInit => ProposalInv
  <1> SUFFICES ASSUME ServerInit, RequestsInit PROVE ProposalInv
    OBVIOUS
  <1>1. /\ DOMAIN call = Handlers /\ overlaps = 0 /\ \A h \in Handlers : call[h] = Idle
        /\ proposal = <<>> /\ project = <<>> /\ DOMAIN endorsed = Proposals
    BY DEF ServerInit, RequestsInit
  <1>2. DOMAIN proposal = {} /\ DOMAIN project = {}
    <2>1. PICK e : e = <<>>
      OBVIOUS
    <2>2. DOMAIN e = {}
      BY <2>1
    <2> QED
      BY <1>1, <2>1, <2>2
  <1>3. \A h \in Handlers : ProposalCallOK(call[h]) /\ call[h].pc = "idle"
    BY <1>1, ProposalIdle
  <1>4. Busy = {} /\ HandlersOK
    BY <1>1, <1>3 DEF Busy, HandlersOK, Alone, Running, At
  <1>5. project \in Seq(ProjectRow)
    BY <1>1
  <1> QED
    BY <1>1, <1>2, <1>3, <1>4, <1>5 DEF ProposalInv, ProposalTyped, ProposalRows, EndorsedInv, DeployedInv

LEMMA RequestStepKeeps ==
  ASSUME ProposalInv, NEW h \in Handlers, RequestStep(h)
  PROVE  ProposalInv'
  <1>1. CASE CreateProposal(h)
    <2>1. PICK q \in Proposals \ DOMAIN proposal, c \in Codes :
            /\ Disturb /\ UNCHANGED <<call, project, endorsed>>
            /\ proposal' = [r \in DOMAIN proposal \cup {q} |->
                              IF r = q THEN [status |-> "DRAFT", code |-> c, back |-> Nobody,
                                             deployed |-> 0]
                              ELSE proposal[r]]
      BY <1>1 DEF CreateProposal
    <2>2. PICK row : row = [status |-> "DRAFT", code |-> c, back |-> Nobody, deployed |-> 0]
      OBVIOUS
    <2>3. IsProposal(row) /\ row.status = "DRAFT"
      BY <2>1, <2>2 DEF IsProposal
    <2>4. /\ DOMAIN proposal' = DOMAIN proposal \cup {q} /\ proposal'[q] = row
          /\ \A r \in DOMAIN proposal : proposal'[r] = proposal[r]
      BY <2>1, <2>2
    <2>5. DOMAIN proposal \subseteq Proposals
      BY DEF ProposalInv, ProposalTyped, ProposalRows
    <2>6. ProjectsGrow /\ DOMAIN project' \ DOMAIN project = {}
      BY <2>1, ProjectsSame
    <2>7. ASSUME NEW r \in DOMAIN proposal' \ DOMAIN proposal
          PROVE  IsProposal(proposal'[r]) /\ proposal'[r].status = "DRAFT"
      BY <2>3, <2>4, <2>7
    <2> QED
      BY <2>1, <2>4, <2>5, <2>6, <2>7, BesidesRequests
  <1> QED
    BY <1>1, ProposalMovesTo, ProposalChanges, SelectProposalKeeps, UpdateProposalKeeps,
       FindProjectKeeps, InsertProjectKeeps, MakeFoldersKeeps, CommitApprovalKeeps,
       LoadProjectKeeps, SaveProjectKeeps, ProposalStops
       DEF RequestStep

LEMMA RequestsNextKeeps == ProposalInv /\ [RequestsNext]_<<serverVars, requestVars>> => ProposalInv'
  <1> SUFFICES ASSUME ProposalInv, [RequestsNext]_<<serverVars, requestVars>> PROVE ProposalInv'
    OBVIOUS
  <1>1. CASE CreateDirectly
    <2>1. PICK c \in Codes \ Taken :
            /\ project' = Append(project, NewRow(c, Direct))
            /\ Disturb /\ UNCHANGED <<call, proposal, endorsed>>
      BY <1>1 DEF CreateDirectly
    <2>2. ProjectsGrow /\ \A i \in DOMAIN project' \ DOMAIN project : project'[i].from = Direct
      <3>1. PICK row : row = NewRow(c, Direct)
        OBVIOUS
      <3>2. row \in ProjectRow /\ row.from = Direct
        BY <3>1 DEF NewRow, ProjectRow
      <3>3. ProjectsGrow /\ \A i \in DOMAIN project' \ DOMAIN project : project'[i] = row
        BY <2>1, <3>1, <3>2, ProjectAdded
      <3> QED
        BY <3>2, <3>3
    <2>3. DOMAIN proposal \subseteq Proposals
      BY DEF ProposalInv, ProposalTyped, ProposalRows
    <2>4. DOMAIN proposal' \ DOMAIN proposal = {}
      BY <2>1
    <2> QED
      BY <2>1, <2>2, <2>3, <2>4, BesidesRequests
  <1>2. CASE UNCHANGED <<serverVars, requestVars>>
    <2>1. UNCHANGED <<call, overlaps, proposal, project, endorsed>>
      BY <1>2 DEF serverVars, requestVars
    <2>2. Busy' = Busy /\ (Alone <=> Alone') /\ (Calm <=> Calm')
      BY <2>1 DEF Busy, Alone, Running, At, Calm
    <2>3. HandlersOK'
      BY <2>1, <2>2 DEF ProposalInv, HandlersOK
    <2>4. ProposalTyped'
      <3>1. ProjectsGrow /\ DOMAIN proposal \subseteq DOMAIN proposal'
        BY <2>1, ProjectsSame
      <3>2. ASSUME NEW g \in Handlers PROVE ProposalCallOK(call[g])'
        <4>1. PICK c : c = call[g]
          OBVIOUS
        <4>2. ProposalCallOK(c) /\ call'[g] = c
          BY <2>1, <4>1 DEF ProposalInv, ProposalTyped
        <4>3. ProposalCallOK(c)'
          BY <3>1, <4>2, ProposalCallKept
        <4> QED
          BY <4>2, <4>3
      <3>3. ProposalRows'
        BY <2>1 DEF ProposalInv, ProposalTyped, ProposalRows, IsProposal
      <3> QED
        BY <3>2, <3>3 DEF ProposalTyped
    <2>5. EndorsedInv'
      <3>1. ASSUME NEW c PROVE (EndorsedCall(c) => EndorsedCall(c)') /\ (FreshCall(c) => FreshCall(c)')
        BY <2>1 DEF EndorsedCall, FreshCall, KeepsProject
      <3> QED
        BY <2>1, <2>2, <3>1 DEF ProposalInv, EndorsedInv, EndorsedRow, BuiltRow, BornEndorsed
    <2>6. DeployedInv'
      BY <2>1, <2>2 DEF ProposalInv, DeployedInv, Deployed, Deploys, Makes
    <2> QED
      BY <2>3, <2>4, <2>5, <2>6 DEF ProposalInv
  <1> QED
    BY <1>1, <1>2, RequestStepKeeps DEF RequestsNext

\* A project made from a request was given a code the department head approved for it,
\* and a request called DEPLOYED has its project, for any number of handlers, requests
\* and codes and even if one call or crash comes in the way of another; calls that run
\* alone and to their end also deploy a request once, as what it still proposes, though
\* the project's code may change afterwards (project-requests.service.ts, approveExec;
\* projects.service.ts, update).
THEOREM ProjectsWereEndorsed == RequestsSpec => []ProjectsEndorsed
  <1>1. ProposalInv => ProjectsEndorsed
    <2> SUFFICES ASSUME ProposalInv PROVE ProjectsEndorsed
      OBVIOUS
    <2>1. overlaps <= 1 =>
            /\ \A i \in DOMAIN project : BornEndorsed(i)
            /\ \A q \in DOMAIN proposal : BuiltRow(q)
      BY DEF ProposalInv, EndorsedInv
    <2>2. ASSUME Calm, Quiet, NEW i \in DOMAIN project, project[i].from # Direct PROVE Deployed(i)
      <3>1. Busy = {}
        BY <2>2 DEF Quiet, Busy, Running
      <3> QED
        BY <2>2, <3>1 DEF ProposalInv, DeployedInv
    <2> QED
      BY <2>1, <2>2 DEF ProjectsEndorsed, Deployed, BuiltRow, BornEndorsed
  <1> QED
    BY ProposalStarts, RequestsNextKeeps, <1>1, PTL DEF RequestsSpec
=============================================================================

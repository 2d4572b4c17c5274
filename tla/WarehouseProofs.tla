---------------------------- MODULE WarehouseProofs ----------------------------
(***************************************************************************)
(* Theorems about Warehouse, for every set of handlers, rows, quantities   *)
(* and operations.                                                         *)
(*                                                                         *)
(* Whatever the interleaving (Inv: each row and each entity a method holds *)
(* is within bounds and is explained by committed movements and by what    *)
(* the method itself will commit):                                         *)
(*   WarehouseTyped    Spec => []TypeOK                                    *)
(*   NoneInvented      Spec => []NothingInvented                           *)
(*   BoundsKept        Spec => []WithinBounds, while capacities stay fixed *)
(*                                                                         *)
(* One call at a time (SerialInv: at each stage of each method, which rows *)
(* it has written, what it holds of the others, and that the rest is as it *)
(* is committed; from this each commit is known completely):               *)
(*   ShelvedIsCompleted, OccupancyIsStock                                  *)
(*                     the invariants of the same subjects                 *)
(*   LastLineConcludes Spec => OrderFollowsLines                           *)
(*   WarehouseKeepsLedger  Spec => MovesAreLedgerMoves: the warehouse      *)
(*                     implements StockLedger                              *)
(***************************************************************************)
EXTENDS Warehouse, SumFacts, TLAPS

-----------------------------------------------------------------------------
(* Rows and stages *)

\* Capacities stay as they are: nobody edits locations, or there is one value.
FixedCapacity == \/ "location" \notin Operations
                 \/ \A m, n \in Capacities : m = n

\* The rows of the six tables are distinct, so each has one type.
LEMMA Tables ==
  /\ \A r \in Items     : Table(r) = InventoryItem
  /\ \A r \in Locations : Table(r) = Location
  /\ \A r \in Lines     : Table(r) = InboundLine
  /\ \A r \in OutLines  : Table(r) = OutboundLine
  /\ \A r \in Receipts  : Table(r) = [status : InboundStatus]
  /\ \A r \in Orders    : Table(r) = [status : OutboundStatus]
  <1>1. ASSUME NEW r \in Items PROVE Table(r) = InventoryItem
    BY TableAssumption DEF Table
  <1>2. ASSUME NEW r \in Locations PROVE Table(r) = Location
    BY TableAssumption DEF Table
  <1>3. ASSUME NEW r \in Lines PROVE Table(r) = InboundLine
    BY TableAssumption DEF Table
  <1>4. ASSUME NEW r \in OutLines PROVE Table(r) = OutboundLine
    BY TableAssumption DEF Table
  <1>5. ASSUME NEW r \in Receipts PROVE Table(r) = [status : InboundStatus]
    BY TableAssumption DEF Table
  <1>6. ASSUME NEW r \in Orders PROVE Table(r) = [status : OutboundStatus]
    BY TableAssumption DEF Table
  <1> QED
    BY <1>1, <1>2, <1>3, <1>4, <1>5, <1>6

\* What Over contains.
LEMMA OverValue ==
  ASSUME NEW f, NEW g
  PROVE  /\ DOMAIN Over(f, g) = DOMAIN f \cup DOMAIN g
         /\ \A x \in DOMAIN f : Over(f, g)[x] = f[x]
         /\ \A x \in DOMAIN g \ DOMAIN f : Over(f, g)[x] = g[x]
  BY DEF Over

\* An empty partial function has no rows.
LEMMA NoRows == DOMAIN (<<>>) = {}
  OBVIOUS

\* The stage at each position of a method.
LEMMA Stages ==
  /\ DOMAIN Program = {"putaway", "pick", "transfer", "adjust", "qc", "status",
                       "location"}
  /\ Program["putaway"] = <<"checkLocation", "line", "findItem", "item",
                            "location", "scan", "header", "commit">>
  /\ Program["pick"] = <<"findItem", "item", "readLocation", "location", "line",
                         "scan", "header", "commit">>
  /\ Program["transfer"] = <<"item", "findItem", "item", "commit">>
  /\ Program["adjust"] = <<"item", "commit">>
  /\ Program["qc"] = <<"line", "commit">>
  /\ Program["status"] = <<"header", "commit">>
  /\ Program["location"] = <<"location", "commit">>
  BY DEF Program

LEMMA PutawayStage ==
  \A n \in 1..8 :
    /\ Program["putaway"][n] = "checkLocation" <=> n = 1
    /\ Program["putaway"][n] = "line" <=> n = 2
    /\ Program["putaway"][n] = "findItem" <=> n = 3
    /\ Program["putaway"][n] = "item" <=> n = 4
    /\ Program["putaway"][n] = "location" <=> n = 5
    /\ Program["putaway"][n] = "scan" <=> n = 6
    /\ Program["putaway"][n] = "header" <=> n = 7
    /\ Program["putaway"][n] = "commit" <=> n = 8
    /\ Program["putaway"][n] # "readLocation"
  BY Stages

LEMMA PickStage ==
  \A n \in 1..8 :
    /\ Program["pick"][n] = "findItem" <=> n = 1
    /\ Program["pick"][n] = "item" <=> n = 2
    /\ Program["pick"][n] = "readLocation" <=> n = 3
    /\ Program["pick"][n] = "location" <=> n = 4
    /\ Program["pick"][n] = "line" <=> n = 5
    /\ Program["pick"][n] = "scan" <=> n = 6
    /\ Program["pick"][n] = "header" <=> n = 7
    /\ Program["pick"][n] = "commit" <=> n = 8
    /\ Program["pick"][n] # "checkLocation"
  BY Stages

LEMMA TransferStage ==
  \A n \in 1..4 :
    /\ Program["transfer"][n] = "item" <=> n = 1 \/ n = 3
    /\ Program["transfer"][n] = "findItem" <=> n = 2
    /\ Program["transfer"][n] = "commit" <=> n = 4
    /\ Program["transfer"][n] \notin {"line", "location", "header", "scan",
                                      "checkLocation", "readLocation"}
  BY Stages

\* The methods of one save: what they save, then the commit.
LEMMA ShortStage ==
  \A op \in {"adjust", "qc", "status", "location"} : \A n \in 1..2 :
    /\ Program[op][n] = "item" <=> op = "adjust" /\ n = 1
    /\ Program[op][n] = "line" <=> op = "qc" /\ n = 1
    /\ Program[op][n] = "header" <=> op = "status" /\ n = 1
    /\ Program[op][n] = "location" <=> op = "location" /\ n = 1
    /\ Program[op][n] = "commit" <=> n = 2
    /\ Program[op][n] \notin {"scan", "findItem", "checkLocation", "readLocation"}
  BY Stages

-----------------------------------------------------------------------------
(* The inductive invariant *)

Columns == {"qty_on_hand", "status", "current_qty", "max_capacity",
            "received_qty", "accepted_qty", "rejected_qty", "qc_status",
            "putaway_location", "requested_qty", "picked_qty", "pick_status"}

\* partial functions from ids to rows
AnyRow  == UNION {Table(r) : r \in Rows}
Partial == UNION {[S -> AnyRow] : S \in SUBSET Rows}

Calls == [op : DOMAIN Program \cup {"none"}, at : Nat,
          line : Lines \cup OutLines \cup {NoRow},
          header : Receipts \cup Orders \cup {NoRow},
          location : Locations \cup {NoRow}, item : Items \cup {NoRow},
          qty : Int, entity : Partial, dirty : SUBSET Columns]

\* the units a call will bring to item i, or take for line l, when it commits
Brings(c, i) == /\ c.item = i /\ c.qty > 0
                /\ \/ c.op = "putaway" /\ c.at > 3
                   \/ c.op = "transfer" /\ c.at > 2
                   \/ c.op = "adjust"
ItemGain(c, i) == IF Brings(c, i) THEN c.qty ELSE 0
LineGain(c, l) == IF c.line = l /\ c.op = "pick" /\ c.at > 3 THEN c.qty ELSE 0

\* row e of id r respects the bounds
Fits(r, e) ==
  /\ e \in Table(r)
  /\ r \in Items => e.qty_on_hand >= 0
  /\ r \in Locations =>
       /\ e.max_capacity \in Capacities
       /\ FixedCapacity /\ e.max_capacity > 0 => e.current_qty <= e.max_capacity
  /\ r \in OutLines => e.picked_qty <= e.requested_qty

\* row e of id r claims no more than committed movements and the call c explain
Earned(c, r, e) ==
  /\ r \in Items => e.qty_on_hand <= arrived[r] + ItemGain(c, r)
  /\ r \in OutLines =>
       /\ e.picked_qty <= taken[r] + LineGain(c, r)
       /\ e.pick_status = "PICKED" => e.requested_qty <= taken[r] + LineGain(c, r)
       /\ e.requested_qty = db[r].requested_qty
  /\ r \in Locations /\ FixedCapacity => e.max_capacity = db[r].max_capacity
  /\ r \in Lines => \/ e.putaway_location = NoRow
                    \/ shelved[r] > 0
                    \/ c.op = "putaway" /\ c.line = r

\* the entities a call holds at each of its stages, and what they still owe
Holds(c) ==
  LET held == DOMAIN c.entity
  IN  /\ c.op = "putaway" =>
           /\ c.at \in 1..8 /\ c.line \in Lines /\ c.header \in Receipts
           /\ c.location \in Locations /\ c.qty >= 0
           /\ c.line \in held /\ c.header \in held
           /\ c.at > 1 => c.location \in held
           /\ c.at = 4 => c.item \in held \cup {NoRow}
      /\ c.op = "pick" =>
           /\ c.at \in 1..8 /\ c.line \in OutLines /\ c.header \in Orders
           /\ c.location \in Locations /\ c.qty >= 0
           /\ c.line \in held /\ c.header \in held
           /\ c.at <= 3 =>
                /\ c.entity[c.line].picked_qty + c.qty
                     <= c.entity[c.line].requested_qty
                /\ c.entity[c.line].picked_qty <= taken[c.line]
           /\ c.at > 1 => c.item \in held
           /\ c.at > 3 => c.location \in held
      /\ c.op = "transfer" =>
           /\ c.at \in 1..4 /\ c.location \in Locations /\ c.qty >= 0
           /\ c.at = 1 => c.item \in held
           /\ c.at = 3 => c.item \in held \cup {NoRow}
      /\ c.op = "adjust" =>
           /\ c.at \in 1..2 /\ c.location \in Locations
           /\ c.at = 1 => \/ c.item \in held
                          \/ c.item = NoRow /\ c.qty >= 0
      /\ c.op = "qc" => c.at \in 1..2 /\ c.line \in held \cap Lines
      /\ c.op = "status" => c.at \in 1..2 /\ c.header \in held
      /\ c.op = "location" => c.at \in 1..2 /\ c.location \in held

\* only a save of an existing row has columns to write
DirtyOK(c) ==
  c.dirty # {} =>
    \E s \in Saves : c.op # "none" /\ Program[c.op][c.at] = s /\ Target(c, s) # NoRow

\* rows exist; those of a transaction not committed yet may be new items
Loaded(h, c) ==
  \A r \in DOMAIN c.entity :
    r \in DOMAIN Over(own[h], db) /\ Fits(r, c.entity[r]) /\ Earned(c, r, c.entity[r])
Written(h, c) ==
  \A r \in DOMAIN own[h] :
    r \in DOMAIN db \cup Items /\ Fits(r, own[h][r]) /\ Earned(c, r, own[h][r])

CallOK(h, c) ==
  /\ c \in Calls
  /\ c.op = "none" => own[h] = <<>>
  /\ Holds(c)
  /\ DirtyOK(c)
  /\ Loaded(h, c)
  /\ Written(h, c)

DbOK == /\ Locations \subseteq DOMAIN db
        /\ \A l \in Lines \cap DOMAIN db : ReceiptOf[l] \in DOMAIN db
        /\ \A l \in OutLines \cap DOMAIN db : OrderOf[l] \in DOMAIN db
        /\ \A r \in DOMAIN db : Fits(r, db[r]) /\ Earned(Idle, r, db[r])

HistoryOK == /\ arrived \in [Items -> Nat]
             /\ shelved \in [Lines -> Nat]
             /\ taken \in [OutLines -> Nat]
             /\ adjusted \in [Locations -> Int]

Inv == /\ db \in Partial
       /\ own \in [Handlers -> Partial]
       /\ call \in [Handlers -> Calls]
       /\ HistoryOK
       /\ DbOK
       /\ \A h \in Handlers : CallOK(h, call[h])

\* Partial functions stay partial functions when they are laid over another.
LEMMA OverPartial ==
  ASSUME NEW f \in Partial, NEW g \in Partial
  PROVE  Over(f, g) \in Partial
  <1>1. PICK S \in SUBSET Rows : f \in [S -> AnyRow]
    BY DEF Partial
  <1>2. PICK T \in SUBSET Rows : g \in [T -> AnyRow]
    BY DEF Partial
  <1>3. Over(f, g) \in [S \cup T -> AnyRow]
    BY <1>1, <1>2 DEF Over
  <1> QED
    BY <1>3 DEF Partial

LEMMA SinglePartial ==
  ASSUME NEW r \in Rows, NEW e \in Table(r)
  PROVE  [x \in {r} |-> e] \in Partial
  <1>1. e \in AnyRow
    BY DEF AnyRow
  <1>2. [x \in {r} |-> e] \in [{r} -> AnyRow] /\ {r} \in SUBSET Rows
    BY <1>1
  <1> QED
    BY <1>2 DEF Partial

LEMMA PartialRows ==
  ASSUME NEW f \in Partial
  PROVE  DOMAIN f \subseteq Rows
  BY DEF Partial

LEMMA EmptyPartial == <<>> \in Partial
  <1>1. <<>> \in [{} -> AnyRow]
    BY NoRows
  <1> QED
    BY <1>1 DEF Partial

LEMMA RestrictPartial ==
  ASSUME NEW f \in Partial, NEW S \in SUBSET DOMAIN f
  PROVE  [r \in S |-> f[r]] \in Partial
  <1>1. PICK T \in SUBSET Rows : f \in [T -> AnyRow]
    BY DEF Partial
  <1>2. [r \in S |-> f[r]] \in [S -> AnyRow] /\ S \in SUBSET Rows
    BY <1>1
  <1> QED
    BY <1>2 DEF Partial

LEMMA IdleCall == Idle \in Calls
  BY EmptyPartial DEF Idle, Calls

LEMMA IdleOK ==
  ASSUME NEW h \in Handlers, own[h] = <<>>
  PROVE  CallOK(h, Idle)
  BY IdleCall, NoRows DEF CallOK, Holds, DirtyOK, Loaded, Written, Idle

-----------------------------------------------------------------------------
(* Steps that write no row *)

\* What a call may claim depends on the rows and the history only.
LEMMA Frame ==
  ASSUME UNCHANGED <<db, own, history>>
  PROVE  /\ DbOK' <=> DbOK
         /\ HistoryOK' <=> HistoryOK
         /\ \A h, c : CallOK(h, c)' <=> CallOK(h, c)
  <1> USE DEF history
  <1>1. \A c, r, e : Earned(c, r, e)' <=> Earned(c, r, e)
    BY DEF Earned
  <1>2. DbOK' <=> DbOK
    BY <1>1 DEF DbOK
  <1>3. \A h, c : CallOK(h, c)' <=> CallOK(h, c)
    BY <1>1 DEF CallOK, Holds, DirtyOK, Loaded, Written
  <1> QED
    BY <1>2, <1>3 DEF HistoryOK

LEMMA PrivateStep ==
  ASSUME Inv, NEW h \in Handlers, NEW c, CallOK(h, c),
         call' = [call EXCEPT ![h] = c], UNCHANGED <<db, own, history>>
  PROVE  Inv'
  <1>1. c \in Calls
    BY DEF CallOK
  <1>2. call' \in [Handlers -> Calls]
    BY <1>1 DEF Inv
  <1>3. \A g \in Handlers : CallOK(g, call'[g])
    BY DEF Inv
  <1>4. \A g \in Handlers : CallOK(g, call[g])'
    BY <1>3, Frame
  <1> QED
    BY <1>2, <1>4, Frame DEF Inv

\* A row a call explains stays explained while its gain does not shrink.
LEMMA EarnedMore ==
  ASSUME HistoryOK, NEW r \in Rows, NEW e, Fits(r, e), NEW c \in Calls, NEW d \in Calls,
         Earned(c, r, e),
         r \in Items => ItemGain(c, r) <= ItemGain(d, r), LineGain(c, r) <= LineGain(d, r),
         c.op = "putaway" /\ c.line = r => d.op = "putaway" /\ d.line = r
  PROVE  Earned(d, r, e)
  <1>1. CASE r \in Items
    <2>0. e \in InventoryItem
      BY <1>1, Tables DEF Fits
    <2>1. e.qty_on_hand \in Int
      BY <2>0 DEF InventoryItem
    <2>2. arrived[r] \in Nat /\ ItemGain(c, r) \in Int /\ ItemGain(d, r) \in Int
      BY <1>1 DEF HistoryOK, ItemGain, Calls
    <2> QED
      BY <1>1, <2>1, <2>2, TableAssumption DEF Earned
  <1>2. CASE r \in OutLines
    <2>0. e \in OutboundLine
      BY <1>2, Tables DEF Fits
    <2>1. e.picked_qty \in Nat /\ e.requested_qty \in Nat
      BY <2>0 DEF OutboundLine
    <2>2. taken[r] \in Nat /\ LineGain(c, r) \in Int /\ LineGain(d, r) \in Int
      BY <1>2 DEF HistoryOK, LineGain, Calls
    <2> QED
      BY <1>2, <2>1, <2>2, TableAssumption DEF Earned
  <1>3. CASE r \in Lines
    BY <1>3, TableAssumption DEF Earned
  <1>4. CASE r \in Locations
    BY <1>4, TableAssumption DEF Earned
  <1> QED
    BY <1>1, <1>2, <1>3, <1>4 DEF Earned

\* A committed row is explained to every call.
LEMMA IdleGain ==
  ASSUME NEW h \in Handlers, Inv, NEW r, NEW e, r \in Rows, Fits(r, e), Earned(Idle, r, e)
  PROVE  Earned(call[h], r, e)
  <1> DEFINE c == call[h]
  <1>1. ItemGain(Idle, r) = 0 /\ LineGain(Idle, r) = 0
    BY DEF ItemGain, LineGain, Brings, Idle
  <1>2. c \in Calls /\ CallOK(h, c)
    BY DEF Inv
  <1>3. ItemGain(c, r) >= 0
    BY <1>2 DEF ItemGain, Brings, Calls
  <1>4. LineGain(c, r) >= 0
    BY <1>2 DEF LineGain, CallOK, Holds, Calls
  <1> QED
    BY <1>1, <1>2, <1>3, <1>4, IdleCall, EarnedMore DEF Inv, Idle

\* What transaction h sees is well-formed and explained.
LEMMA SeenOK ==
  ASSUME Inv, NEW h \in Handlers
  PROVE  /\ Sees(h) \in Partial
         /\ DOMAIN Sees(h) = DOMAIN own[h] \cup DOMAIN db
         /\ \A r \in DOMAIN Sees(h) :
              r \in Rows /\ Fits(r, Sees(h)[r]) /\ Earned(call[h], r, Sees(h)[r])
  <1>1. Sees(h) \in Partial
    BY OverPartial DEF Inv, Sees
  <1>2. DOMAIN Sees(h) = DOMAIN own[h] \cup DOMAIN db
    BY OverValue DEF Sees
  <1>3. ASSUME NEW r \in DOMAIN Sees(h)
        PROVE  r \in Rows /\ Fits(r, Sees(h)[r]) /\ Earned(call[h], r, Sees(h)[r])
    <2>1. r \in Rows
      BY <1>1, PartialRows
    <2>2. CASE r \in DOMAIN own[h]
      <3>1. Sees(h)[r] = own[h][r]
        BY <2>2, OverValue DEF Sees
      <3> QED
        BY <2>1, <2>2, <3>1 DEF Inv, CallOK, Written
    <2>3. CASE r \notin DOMAIN own[h]
      <3>0. r \in DOMAIN db
        BY <2>3, <1>2
      <3>00. Over(own[h], db)[r] = db[r]
        BY <2>3, <3>0 DEF Over
      <3>1. r \in DOMAIN db /\ Sees(h)[r] = db[r]
        BY <3>0, <3>00 DEF Sees
      <3>2. Fits(r, db[r]) /\ Earned(Idle, r, db[r])
        BY <3>1 DEF Inv, DbOK
      <3> QED
        BY <2>1, <3>1, <3>2, IdleGain
    <2> QED
      BY <2>2, <2>3
  <1> QED
    BY <1>1, <1>2, <1>3


-----------------------------------------------------------------------------
(* Calls that go on *)

\* What explains a row to a call explains it to the call at a later stage.
LEMMA Later ==
  ASSUME Inv, NEW h \in Handlers, NEW d \in Calls, call[h].op # "none",
         d.op = call[h].op, d.line = call[h].line, d.qty = call[h].qty,
         d.at >= call[h].at,
         d.item = call[h].item \/ \A i \in Items : ItemGain(call[h], i) = 0,
         NEW r \in Rows, NEW e, Fits(r, e), Earned(call[h], r, e)
  PROVE  Earned(d, r, e)
  <1> DEFINE c == call[h]
  <1>1. c \in Calls /\ Holds(c)
    BY DEF Inv, CallOK
  <1>2. c.at \in Nat /\ d.at \in Nat /\ c.qty \in Int
    BY <1>1 DEF Calls
  <1>3. ASSUME r \in Items PROVE ItemGain(c, r) <= ItemGain(d, r)
    <2>1. CASE d.item = c.item
      <3>1. Brings(c, r) => Brings(d, r)
        BY <2>1, <1>2 DEF Brings
      <3> QED
        BY <3>1, <1>2 DEF ItemGain, Brings
    <2>2. CASE d.item # c.item
      BY <2>2, <1>2, <1>3 DEF ItemGain, Brings
    <2> QED
      BY <2>1, <2>2
  <1>4. LineGain(c, r) <= LineGain(d, r)
    <2>1. CASE c.op = "pick"
      <3>1. c.qty >= 0
        BY <1>1, <2>1 DEF Holds
      <3> QED
        BY <3>1, <1>2 DEF LineGain
    <2>2. CASE c.op # "pick"
      BY <2>2 DEF LineGain
    <2> QED
      BY <2>1, <2>2
  <1> QED
    BY <1>1, <1>3, <1>4, EarnedMore DEF Inv

\* A call stays well-formed when it goes to a later stage with entities that
\* it held already or that are explained.
LEMMA AdvanceOK ==
  ASSUME Inv, NEW h \in Handlers, NEW d \in Calls, call[h].op # "none",
         d.op = call[h].op, d.line = call[h].line, d.qty = call[h].qty,
         d.at >= call[h].at,
         d.item = call[h].item \/ \A i \in Items : ItemGain(call[h], i) = 0,
         Holds(d), DirtyOK(d),
         \A r \in DOMAIN d.entity :
           \/ r \in DOMAIN call[h].entity /\ d.entity[r] = call[h].entity[r]
           \/ r \in DOMAIN Sees(h) /\ Fits(r, d.entity[r]) /\ Earned(d, r, d.entity[r])
  PROVE  CallOK(h, d)
  <1> DEFINE c == call[h]
  <1>1. CallOK(h, c)
    BY DEF Inv
  <1>2. ASSUME NEW r \in Rows, NEW e, Fits(r, e), Earned(c, r, e)
        PROVE  Earned(d, r, e)
    BY <1>2, Later
  <1>3. ASSUME NEW r \in DOMAIN d.entity
        PROVE  r \in DOMAIN Over(own[h], db) /\ Fits(r, d.entity[r])
               /\ Earned(d, r, d.entity[r])
    <2>1. DOMAIN d.entity \subseteq Rows
      BY PartialRows DEF Calls
    <2>2. CASE r \in DOMAIN c.entity /\ d.entity[r] = c.entity[r]
      BY <1>1, <1>2, <2>1, <2>2 DEF CallOK, Loaded
    <2>3. CASE r \in DOMAIN Sees(h) /\ Fits(r, d.entity[r]) /\ Earned(d, r, d.entity[r])
      BY <2>3 DEF Sees
    <2> QED
      BY <2>2, <2>3
  <1>4. Written(h, d)
    <2>1. DOMAIN own[h] \subseteq Rows
      BY PartialRows DEF Inv
    <2> QED
      BY <1>1, <1>2, <2>1 DEF CallOK, Written
  <1> QED
    BY <1>3, <1>4 DEF CallOK, Loaded

\* What With changes.
LEMMA WithOK ==
  ASSUME NEW c \in Calls, NEW r \in Rows, NEW e \in Table(r)
  PROVE  /\ With(c, r, e) \in Calls
         /\ With(c, r, e) = [c EXCEPT !.entity = With(c, r, e).entity]
         /\ DOMAIN With(c, r, e).entity = {r} \cup DOMAIN c.entity
         /\ With(c, r, e).entity[r] = e
         /\ \A x \in DOMAIN c.entity \ {r} : With(c, r, e).entity[x] = c.entity[x]
  <1> DEFINE f == [x \in {r} |-> e]
  <1>1. f \in Partial /\ c.entity \in Partial
    BY SinglePartial DEF Calls
  <1>2. Over(f, c.entity) \in Partial
    BY <1>1, OverPartial
  <1>3. With(c, r, e).entity = Over(f, c.entity)
    BY DEF With, Calls
  <1>4. With(c, r, e) = [c EXCEPT !.entity = Over(f, c.entity)]
    BY DEF With
  <1>5. [c EXCEPT !.entity = Over(f, c.entity)] \in Calls
    BY <1>2 DEF Calls
  <1>6. /\ DOMAIN Over(f, c.entity) = {r} \cup DOMAIN c.entity
        /\ Over(f, c.entity)[r] = e
        /\ \A x \in DOMAIN c.entity \ {r} : Over(f, c.entity)[x] = c.entity[x]
    BY DEF Over
  <1> QED
    BY <1>3, <1>4, <1>5, <1>6

\* The call at its next stage.
LEMMA NextOK ==
  ASSUME NEW c \in Calls
  PROVE  LET d == [c EXCEPT !.at = @ + 1] IN
         /\ d \in Calls /\ d.op = c.op /\ d.at = c.at + 1 /\ d.qty = c.qty
         /\ d.line = c.line /\ d.header = c.header /\ d.location = c.location
         /\ d.item = c.item /\ d.entity = c.entity /\ d.dirty = c.dirty
  BY DEF Calls

\* The call once it names an item.
LEMMA NamedOK ==
  ASSUME NEW c \in Calls, NEW i \in Items \cup {NoRow}
  PROVE  LET d == [c EXCEPT !.item = i] IN
         /\ d \in Calls /\ d.op = c.op /\ d.at = c.at /\ d.qty = c.qty
         /\ d.line = c.line /\ d.header = c.header /\ d.location = c.location
         /\ d.item = i /\ d.entity = c.entity /\ d.dirty = c.dirty
  BY DEF Calls

\* The call once it holds another entity.
LEMMA HeldOK ==
  ASSUME NEW c \in Calls, NEW r \in Rows, NEW e \in Table(r)
  PROVE  LET d == With(c, r, e) IN
         /\ d \in Calls /\ d.op = c.op /\ d.at = c.at /\ d.qty = c.qty
         /\ d.line = c.line /\ d.header = c.header /\ d.location = c.location
         /\ d.item = c.item /\ d.dirty = c.dirty
         /\ DOMAIN d.entity = {r} \cup DOMAIN c.entity
         /\ d.entity[r] = e
         /\ \A x \in DOMAIN c.entity \ {r} : d.entity[x] = c.entity[x]
  <1> DEFINE d == With(c, r, e)
  <1>1. /\ d \in Calls /\ d = [c EXCEPT !.entity = d.entity]
        /\ DOMAIN d.entity = {r} \cup DOMAIN c.entity
        /\ d.entity[r] = e
        /\ \A x \in DOMAIN c.entity \ {r} : d.entity[x] = c.entity[x]
    BY WithOK
  <1> HIDE DEF d
  <1>2. /\ d.op = c.op /\ d.at = c.at /\ d.qty = c.qty
        /\ d.line = c.line /\ d.header = c.header /\ d.location = c.location
        /\ d.item = c.item /\ d.dirty = c.dirty
    BY <1>1 DEF Calls
  <1> QED
    BY <1>1, <1>2 DEF d

\* A call that does not save has nothing left to write.
LEMMA NothingDirty ==
  ASSUME Inv, NEW h \in Handlers, NEW stage, At(h, stage), stage \notin Saves
  PROVE  call[h].dirty = {}
  BY DEF Inv, CallOK, DirtyOK, At

\* A save finds the entity it is to write, unless it is a new item.
LEMMA TargetHeld ==
  ASSUME Inv, NEW h \in Handlers, NEW s \in Saves, At(h, s),
         Target(call[h], s) # NoRow
  PROVE  Target(call[h], s) \in DOMAIN call[h].entity
  <1> DEFINE c == call[h]
  <1>1. c \in Calls /\ Holds(c) /\ c.op # "none" /\ Program[c.op][c.at] = s
    BY DEF Inv, CallOK, At
  <1>2. CASE c.op = "putaway"
    <2>1. c.at \in 1..8
      BY <1>1, <1>2 DEF Holds
    <2>2. \/ s = "line" /\ c.at = 2
          \/ s = "item" /\ c.at = 4
          \/ s = "location" /\ c.at = 5
          \/ s = "header" /\ c.at = 7
      BY <1>1, <1>2, <2>1, PutawayStage DEF Saves
    <2> QED
      BY <1>1, <1>2, <2>2 DEF Holds, Target
  <1>3. CASE c.op = "pick"
    <2>1. c.at \in 1..8
      BY <1>1, <1>3 DEF Holds
    <2>2. \/ s = "line" /\ c.at = 5
          \/ s = "item" /\ c.at = 2
          \/ s = "location" /\ c.at = 4
          \/ s = "header" /\ c.at = 7
      BY <1>1, <1>3, <2>1, PickStage DEF Saves
    <2> QED
      BY <1>1, <1>3, <2>2 DEF Holds, Target
  <1>4. CASE c.op = "transfer"
    <2>1. c.at \in 1..4
      BY <1>1, <1>4 DEF Holds
    <2>2. s = "item" /\ c.at \in {1, 3}
      BY <1>1, <1>4, <2>1, TransferStage DEF Saves
    <2> QED
      BY <1>1, <1>4, <2>2 DEF Holds, Target
  <1>5. CASE c.op \in {"adjust", "qc", "status", "location"}
    <2>1. c.at \in 1..2
      BY <1>1, <1>5 DEF Holds
    <2>2. \/ c.op = "adjust" /\ s = "item" /\ c.at = 1
          \/ c.op = "qc" /\ s = "line"
          \/ c.op = "status" /\ s = "header"
          \/ c.op = "location" /\ s = "location"
      BY <1>1, <1>5, <2>1, ShortStage DEF Saves
    <2> QED
      BY <1>1, <2>2 DEF Holds, Target
  <1> QED
    BY <1>1, <1>2, <1>3, <1>4, <1>5, Stages DEF Calls

\* A call that has saved holds what its next stage needs; d may hold a new item.
LEMMA SavedHolds ==
  ASSUME Inv, NEW h \in Handlers, NEW s \in Saves, At(h, s), NEW d \in Calls,
         d.op = call[h].op, d.at = call[h].at + 1, d.line = call[h].line,
         d.header = call[h].header, d.location = call[h].location,
         d.qty = call[h].qty, d.entity = call[h].entity,
         d.item = call[h].item \/ call[h].item = NoRow
  PROVE  Holds(d)
  <1> DEFINE c == call[h]
  <1>1. c \in Calls /\ Holds(c) /\ c.op # "none" /\ Program[c.op][c.at] = s
    BY DEF Inv, CallOK, At
  <1>0. DOMAIN c.entity \subseteq Rows /\ NoRow \notin Rows
    BY <1>1, PartialRows, TableAssumption DEF Calls, Rows
  <1>2. CASE c.op = "putaway"
    <2>1. c.at \in 1..8
      BY <1>1, <1>2 DEF Holds
    <2>2. c.at \in {2, 4, 5, 7}
      BY <1>1, <1>2, <2>1, PutawayStage DEF Saves
    <2> QED
      BY <1>1, <1>2, <2>2 DEF Holds
  <1>3. CASE c.op = "pick"
    <2>1. c.at \in 1..8
      BY <1>1, <1>3 DEF Holds
    <2>2. c.at \in {2, 4, 5, 7}
      BY <1>1, <1>3, <2>1, PickStage DEF Saves
    <2>3. c.item \in DOMAIN c.entity
      BY <1>1, <1>3, <2>2 DEF Holds
    <2>4. d.item = c.item
      BY <1>0, <2>3
    <2> QED
      BY <1>1, <1>3, <2>2, <2>3, <2>4 DEF Holds
  <1>4. CASE c.op = "transfer"
    <2>1. c.at \in 1..4
      BY <1>1, <1>4 DEF Holds
    <2>2. c.at \in {1, 3}
      BY <1>1, <1>4, <2>1, TransferStage DEF Saves
    <2> QED
      BY <1>1, <1>4, <2>2 DEF Holds
  <1>5. CASE c.op \in {"adjust", "qc", "status", "location"}
    <2>1. c.at \in 1..2
      BY <1>1, <1>5 DEF Holds
    <2>2. c.at = 1
      BY <1>1, <1>5, <2>1, ShortStage DEF Saves
    <2> QED
      BY <1>1, <1>5, <2>2 DEF Holds
  <1> QED
    BY <1>1, <1>2, <1>3, <1>4, <1>5, Stages DEF Calls

\* Where in which method each stage is.
LEMMA StageAt ==
  ASSUME Inv, NEW h \in Handlers
  PROVE  LET c == call[h] IN
    /\ At(h, "checkLocation") => c.op = "putaway" /\ c.at = 1
    /\ At(h, "readLocation") => c.op = "pick" /\ c.at = 3
    /\ At(h, "scan") => c.op \in {"putaway", "pick"} /\ c.at = 6
    /\ At(h, "findItem") => \/ c.op = "putaway" /\ c.at = 3
                            \/ c.op = "pick" /\ c.at = 1
                            \/ c.op = "transfer" /\ c.at = 2
    /\ At(h, "item") => \/ c.op = "putaway" /\ c.at = 4
                        \/ c.op = "pick" /\ c.at = 2
                        \/ c.op = "transfer" /\ c.at \in {1, 3}
                        \/ c.op = "adjust" /\ c.at = 1
    /\ At(h, "commit") /\ c.op \in {"putaway", "pick"} => c.at = 8
    /\ At(h, "commit") /\ c.op = "transfer" => c.at = 4
  <1> DEFINE c == call[h]
  <1>1. c \in Calls /\ Holds(c)
    BY DEF Inv, CallOK
  <1>2. CASE c.op = "putaway"
    <2>1. c.at \in 1..8
      BY <1>1, <1>2 DEF Holds
    <2> QED
      BY <1>2, <2>1, PutawayStage DEF At
  <1>3. CASE c.op = "pick"
    <2>1. c.at \in 1..8
      BY <1>1, <1>3 DEF Holds
    <2> QED
      BY <1>3, <2>1, PickStage DEF At
  <1>4. CASE c.op = "transfer"
    <2>1. c.at \in 1..4
      BY <1>1, <1>4 DEF Holds
    <2> QED
      BY <1>4, <2>1, TransferStage DEF At
  <1>5. CASE c.op \in {"adjust", "qc", "status", "location"}
    <2>1. c.at \in 1..2
      BY <1>1, <1>5 DEF Holds
    <2> QED
      BY <1>5, <2>1, ShortStage DEF At
  <1>6. CASE c.op = "none"
    BY <1>6 DEF At
  <1> QED
    BY <1>1, <1>2, <1>3, <1>4, <1>5, <1>6, Stages DEF Calls

-----------------------------------------------------------------------------
(* Reads of putaway, transfer and picking *)

LEMMA FillOK ==
  ASSUME NEW e \in Location, NEW q \in Nat
  PROVE  /\ Fill(e, q) \in Location
         /\ Fill(e, q).max_capacity = e.max_capacity
         /\ Fill(e, q).current_qty = e.current_qty + q
  <1>1. /\ e.current_qty \in Nat /\ e.max_capacity \in Nat
        /\ e.status \in LocationStatus /\ "FULL" \in LocationStatus
    BY DEF Location, LocationStatus
  <1>2. e.current_qty + q \in Nat
    BY <1>1
  <1> DEFINE s == IF e.max_capacity > 0 /\ e.current_qty + q >= e.max_capacity
                  THEN "FULL" ELSE e.status
  <1>3. Fill(e, q) = [e EXCEPT !.current_qty = e.current_qty + q, !.status = s]
    BY DEF Fill
  <1>4. s \in LocationStatus
    BY <1>1
  <1> HIDE DEF s
  <1> QED
    BY <1>2, <1>3, <1>4 DEF Location

LEMMA CheckLocationStep ==
  ASSUME Inv, NEW h \in Handlers, CheckLocation(h)
  PROVE  Inv'
  <1> DEFINE c == call[h]
             location == Sees(h)[c.location]
             line == [c.entity[c.line] EXCEPT !.putaway_location = c.location]
             full == Fill(location, c.qty)
             m == With(c, c.line, line)
             n == With(m, c.location, full)
             d == [n EXCEPT !.at = @ + 1]
  <1>1. /\ c \in Calls /\ Holds(c) /\ Loaded(h, c) /\ c.op # "none"
        /\ Program[c.op][c.at] = "checkLocation"
    BY DEF Inv, CallOK, CheckLocation, At
  <1>2. c.op = "putaway" /\ c.at = 1
    BY StageAt DEF CheckLocation
  <1>3. /\ c.line \in Lines /\ c.location \in Locations /\ c.header \in Receipts
        /\ c.qty \in Nat /\ c.line \in DOMAIN c.entity /\ c.header \in DOMAIN c.entity
    BY <1>1, <1>2 DEF Holds, Calls
  <1>4. c.location \in DOMAIN Sees(h)
    BY <1>3, SeenOK DEF Inv, DbOK
  <1>5. Fits(c.location, location) /\ Earned(c, c.location, location)
    BY <1>4, SeenOK
  <1>6. location \in Location /\ location.max_capacity \in Capacities
    BY <1>3, <1>5, Tables DEF Fits
  <1>7. /\ full \in Location /\ Fits(c.location, full)
        /\ full.max_capacity = location.max_capacity
    <2>1. HasRoom(location, c.qty)
      BY DEF CheckLocation
    <2>2. /\ location.current_qty \in Nat /\ location.max_capacity \in Nat
          /\ location.status \in LocationStatus
      BY <1>6 DEF Location
    <2>3. full \in Location
      BY <1>3, <1>6, FillOK
    <2>4. /\ full.max_capacity = location.max_capacity
          /\ full.current_qty = location.current_qty + c.qty
      BY <1>3, <1>6, FillOK
    <2>5. c.location \notin Items /\ c.location \notin OutLines
      BY <1>3, TableAssumption
    <2>6. full.max_capacity > 0 => full.current_qty <= full.max_capacity
      BY <2>1, <2>4 DEF HasRoom
    <2>7. full \in Table(c.location)
      BY <1>3, <2>3, Tables
    <2> HIDE DEF c, location, full
    <2> QED
      BY <1>3, <1>6, <2>3, <2>4, <2>5, <2>6, <2>7 DEF Fits
  <1>8. line \in InboundLine /\ Fits(c.line, line)
    <2>1. c.entity[c.line] \in InboundLine
      BY <1>1, <1>3, Tables DEF Loaded, Fits
    <2>2. line \in InboundLine
      BY <1>3, <2>1 DEF InboundLine
    <2>3. c.line \notin Items /\ c.line \notin OutLines /\ c.line \notin Locations
      BY <1>3, TableAssumption
    <2> QED
      BY <1>3, <2>2, <2>3, Tables DEF Fits
  <1>9. c.line \in Rows /\ c.location \in Rows /\ c.line # c.location
    BY <1>3, TableAssumption DEF Rows
  <1>10. /\ m \in Calls /\ m.op = c.op /\ m.at = c.at /\ m.qty = c.qty
         /\ m.line = c.line /\ m.header = c.header /\ m.location = c.location
         /\ m.item = c.item /\ m.dirty = c.dirty
         /\ DOMAIN m.entity = {c.line} \cup DOMAIN c.entity
         /\ m.entity[c.line] = line
         /\ \A x \in DOMAIN c.entity \ {c.line} : m.entity[x] = c.entity[x]
    <2>1. line \in Table(c.line)
      BY <1>3, <1>8, Tables
    <2> HIDE DEF c, line
    <2> QED
      BY <1>1, <1>9, <2>1, HeldOK
  <1> HIDE DEF m
  <1>11. /\ n \in Calls /\ n.op = c.op /\ n.at = c.at /\ n.qty = c.qty
         /\ n.line = c.line /\ n.header = c.header /\ n.location = c.location
         /\ n.item = c.item /\ n.dirty = c.dirty
         /\ DOMAIN n.entity = {c.location} \cup DOMAIN m.entity
         /\ n.entity[c.location] = full
         /\ \A x \in DOMAIN m.entity \ {c.location} : n.entity[x] = m.entity[x]
    <2>1. full \in Table(c.location)
      BY <1>3, <1>7, Tables
    <2> HIDE DEF c, full
    <2> QED
      BY <1>9, <1>10, <2>1, HeldOK
  <1> HIDE DEF n
  <1>12. /\ d \in Calls /\ d.op = "putaway" /\ d.at = 2 /\ d.qty = c.qty
         /\ d.line = c.line /\ d.header = c.header /\ d.location = c.location
         /\ d.item = c.item /\ d.entity = n.entity /\ d.dirty = c.dirty
    BY <1>2, <1>11, NextOK
  <1>13. Holds(d)
    <2> HIDE DEF c, d
    <2> QED
      BY <1>3, <1>10, <1>11, <1>12 DEF Holds
  <1>14. DirtyOK(d)
    BY <1>12, NothingDirty DEF CheckLocation, DirtyOK, Saves
  <1>15. ASSUME NEW r \in DOMAIN d.entity
         PROVE  \/ r \in DOMAIN c.entity /\ d.entity[r] = c.entity[r]
                \/ r \in DOMAIN Sees(h) /\ Fits(r, d.entity[r]) /\ Earned(d, r, d.entity[r])
    <2> HIDE DEF c, d, line, full
    <2>1. CASE r = c.location
      <3>1. c.location \notin Items \cup OutLines \cup Lines
        BY <1>3, TableAssumption
      <3>2. Earned(d, r, d.entity[r])
        BY <1>3, <1>5, <1>7, <1>11, <1>12, <2>1, <3>1 DEF Earned
      <3> QED
        BY <1>4, <1>7, <1>11, <1>12, <2>1, <3>2
    <2>2. CASE r = c.line
      <3>1. c.line \notin Items \cup OutLines \cup Locations
        BY <1>3, TableAssumption
      <3>2. Earned(d, r, d.entity[r])
        BY <1>12, <2>2, <3>1 DEF Earned
      <3>3. c.line \in DOMAIN Sees(h)
        BY <1>1, <1>3 DEF Loaded, Sees
      <3> QED
        BY <1>8, <1>9, <1>10, <1>11, <1>12, <2>2, <3>2, <3>3
    <2>3. CASE r # c.location /\ r # c.line
      BY <1>10, <1>11, <1>12, <2>3
    <2> QED
      BY <2>1, <2>2, <2>3
  <1>16. CallOK(h, d)
    <2> HIDE DEF d
    <2> QED
      BY <1>1, <1>2, <1>12, <1>13, <1>14, <1>15, AdvanceOK
  <1>17. call' = [call EXCEPT ![h] = d] /\ UNCHANGED <<db, own, history>>
    BY DEF CheckLocation, Continue, n, m
  <1> QED
    BY <1>16, <1>17, PrivateStep

LEMMA ItemRow ==
  ASSUME Inv, NEW h \in Handlers, NEW i \in Items \cap DOMAIN Sees(h)
  PROVE  /\ Sees(h)[i] \in InventoryItem
         /\ Sees(h)[i].qty_on_hand \in Nat
         /\ arrived[i] \in Nat
         /\ Sees(h)[i].qty_on_hand <= arrived[i] + ItemGain(call[h], i)
  <1> DEFINE e == Sees(h)[i]
  <1>1. Fits(i, e) /\ Earned(call[h], i, e)
    BY SeenOK
  <1>2. e \in InventoryItem
    BY <1>1, Tables DEF Fits
  <1>3. e.qty_on_hand \in Int
    BY <1>2 DEF InventoryItem
  <1>4. e.qty_on_hand >= 0
    BY <1>1 DEF Fits
  <1>5. arrived[i] \in Nat
    BY DEF Inv, HistoryOK
  <1> QED
    BY <1>1, <1>2, <1>3, <1>4, <1>5 DEF Earned

LEMMA ItemChange ==
  ASSUME NEW e \in InventoryItem, NEW q \in Int
  PROVE  /\ [e EXCEPT !.qty_on_hand = @ + q] \in InventoryItem
         /\ [e EXCEPT !.qty_on_hand = @ + q].qty_on_hand = e.qty_on_hand + q
         /\ [e EXCEPT !.qty_on_hand = @ - q] \in InventoryItem
         /\ [e EXCEPT !.qty_on_hand = @ - q].qty_on_hand = e.qty_on_hand - q
  BY DEF InventoryItem

LEMMA ItemFits ==
  ASSUME NEW i \in Items, NEW e \in InventoryItem, e.qty_on_hand >= 0, NEW c,
         e.qty_on_hand <= arrived[i] + ItemGain(c, i)
  PROVE  Fits(i, e) /\ Earned(c, i, e)
  <1>1. i \notin Locations /\ i \notin OutLines /\ i \notin Lines
    BY TableAssumption
  <1>2. Table(i) = InventoryItem
    BY Tables
  <1> QED
    BY <1>1, <1>2 DEF Fits, Earned

\* findOne found item i, of which the method goes on to hold e.
LEMMA FoundStep ==
  ASSUME Inv, NEW h \in Handlers, At(h, "findItem"),
         NEW i \in Items \cap DOMAIN Sees(h), NEW e \in InventoryItem,
         e.qty_on_hand >= 0,
         e.qty_on_hand <= arrived[i] + (IF call[h].op = "pick" THEN 0 ELSE call[h].qty),
         Continue(h, With([call[h] EXCEPT !.item = i], i, e)),
         UNCHANGED <<db, own, history>>
  PROVE  Inv'
  <1> DEFINE c == call[h]
             b == [c EXCEPT !.item = i]
             n == With(b, i, e)
             d == [n EXCEPT !.at = @ + 1]
  <1>1. /\ c \in Calls /\ Holds(c) /\ c.op # "none"
        /\ \/ c.op = "putaway" /\ c.at = 3
           \/ c.op = "transfer" /\ c.at = 2
           \/ c.op = "pick" /\ c.at = 1
    BY StageAt DEF Inv, CallOK, At
  <1>2. c.qty \in Nat /\ c.dirty = {}
    BY <1>1, NothingDirty DEF Holds, Calls, Saves
  <1>3. \A x \in Items : ItemGain(c, x) = 0
    BY <1>1 DEF ItemGain, Brings
  <1>4. i \in Rows /\ e \in Table(i)
    BY Tables DEF Rows
  <1>5. call' = [call EXCEPT ![h] = d]
    BY DEF Continue
  <1>6. /\ b \in Calls /\ b.op = c.op /\ b.at = c.at /\ b.qty = c.qty
        /\ b.line = c.line /\ b.header = c.header /\ b.location = c.location
        /\ b.item = i /\ b.entity = c.entity /\ b.dirty = c.dirty
    <2> HIDE DEF c
    <2> QED
      BY <1>1, NamedOK
  <1> HIDE DEF b
  <1>7. /\ n \in Calls /\ n.op = c.op /\ n.at = c.at /\ n.qty = c.qty
        /\ n.line = c.line /\ n.header = c.header /\ n.location = c.location
        /\ n.item = i /\ n.dirty = c.dirty
        /\ DOMAIN n.entity = {i} \cup DOMAIN c.entity
        /\ n.entity[i] = e
        /\ \A x \in DOMAIN c.entity \ {i} : n.entity[x] = c.entity[x]
    BY <1>4, <1>6, HeldOK
  <1> HIDE DEF n
  <1>8. /\ d \in Calls /\ d.op = c.op /\ d.at = c.at + 1 /\ d.qty = c.qty
        /\ d.line = c.line /\ d.header = c.header /\ d.location = c.location
        /\ d.item = i /\ d.dirty = c.dirty /\ d.entity = n.entity
    BY <1>7, NextOK
  <1> HIDE DEF d
  <1>9. Holds(d)
    <2>1. c.op = "pick" => c.line \in DOMAIN c.entity \ {i}
      BY <1>1, TableAssumption DEF Holds
    <2> QED
      BY <1>1, <1>7, <1>8, <2>1 DEF Holds
  <1>10. Fits(i, e) /\ Earned(d, i, e)
    <2>1. ItemGain(d, i) = IF c.op = "pick" THEN 0 ELSE c.qty
      BY <1>1, <1>2, <1>8 DEF ItemGain, Brings
    <2> QED
      BY <2>1, ItemFits
  <1>11. ASSUME NEW r \in DOMAIN d.entity
         PROVE  \/ r \in DOMAIN c.entity /\ d.entity[r] = c.entity[r]
                \/ r \in DOMAIN Sees(h) /\ Fits(r, d.entity[r])
                   /\ Earned(d, r, d.entity[r])
    BY <1>7, <1>8, <1>10
  <1>12. CallOK(h, d)
    BY <1>1, <1>2, <1>3, <1>8, <1>9, <1>11, AdvanceOK DEF DirtyOK
  <1> QED
    BY <1>5, <1>12, PrivateStep

LEMMA FindReceiverStep ==
  ASSUME Inv, NEW h \in Handlers, FindReceiver(h)
  PROVE  Inv'
  <1> DEFINE c == call[h]
  <1>1. /\ c \in Calls /\ Holds(c) /\ c.op # "none"
        /\ \/ c.op = "putaway" /\ c.at = 3
           \/ c.op = "transfer" /\ c.at = 2
    BY StageAt DEF Inv, CallOK, FindReceiver, At
  <1>2. c.qty \in Nat /\ c.dirty = {}
    BY <1>1, NothingDirty DEF Holds, Calls, FindReceiver, Saves
  <1>3. \A i \in Items : ItemGain(c, i) = 0
    BY <1>1 DEF ItemGain, Brings
  <1>4. PICK i \in FindItem(h, c.location) :
          Continue(h, IF i = NoRow THEN [c EXCEPT !.item = NoRow]
                      ELSE With([c EXCEPT !.item = i], i,
                                [Sees(h)[i] EXCEPT !.qty_on_hand = @ + c.qty]))
    BY DEF FindReceiver
  <1>5. CASE i = NoRow
    <2> DEFINE b == [c EXCEPT !.item = NoRow]
               d == [b EXCEPT !.at = @ + 1]
    <2>1. call' = [call EXCEPT ![h] = d]
      BY <1>4, <1>5 DEF Continue
    <2>2. /\ b \in Calls /\ b.op = c.op /\ b.at = c.at /\ b.qty = c.qty
          /\ b.line = c.line /\ b.header = c.header /\ b.location = c.location
          /\ b.item = NoRow /\ b.entity = c.entity /\ b.dirty = c.dirty
      <3> HIDE DEF c
      <3> QED
        BY <1>1, NamedOK
    <2> HIDE DEF b
    <2>3. /\ d \in Calls /\ d.op = c.op /\ d.at = c.at + 1 /\ d.qty = c.qty
          /\ d.line = c.line /\ d.header = c.header /\ d.location = c.location
          /\ d.item = NoRow /\ d.entity = c.entity /\ d.dirty = c.dirty
      BY <2>2, NextOK
    <2> HIDE DEF d
    <2>4. Holds(d)
      BY <1>1, <2>3 DEF Holds
    <2>5. CallOK(h, d)
      BY <1>1, <1>2, <1>3, <2>3, <2>4, AdvanceOK DEF DirtyOK
    <2> QED
      BY <2>1, <2>5, PrivateStep DEF FindReceiver
  <1>6. CASE i # NoRow
    <2> DEFINE e == [Sees(h)[i] EXCEPT !.qty_on_hand = @ + c.qty]
    <2>1. i \in Items \cap DOMAIN Sees(h)
      BY <1>4, <1>6 DEF FindItem, ItemsSeen
    <2>2. /\ Sees(h)[i] \in InventoryItem /\ Sees(h)[i].qty_on_hand \in Nat
          /\ arrived[i] \in Nat /\ Sees(h)[i].qty_on_hand <= arrived[i]
      BY <1>3, <2>1, ItemRow
    <2>3. /\ e \in InventoryItem
          /\ e.qty_on_hand = Sees(h)[i].qty_on_hand + c.qty
      <3>1. c.qty \in Int
        BY <1>2
      <3> HIDE DEF c
      <3> QED
        BY <2>2, <3>1, ItemChange
    <2>4. Continue(h, With([c EXCEPT !.item = i], i, e))
      BY <1>4, <1>6
    <2> HIDE DEF e
    <2>5. /\ e.qty_on_hand >= 0
          /\ e.qty_on_hand <= arrived[i] + (IF c.op = "pick" THEN 0 ELSE c.qty)
      BY <1>1, <1>2, <2>2, <2>3
    <2> QED
      BY <2>1, <2>3, <2>4, <2>5, FoundStep DEF FindReceiver
  <1> QED
    BY <1>5, <1>6

LEMMA FindStockStep ==
  ASSUME Inv, NEW h \in Handlers, FindStock(h)
  PROVE  Inv'
  <1> DEFINE c == call[h]
  <1>1. c \in Calls /\ Holds(c) /\ c.op = "pick" /\ c.at = 1
    BY StageAt DEF Inv, CallOK, FindStock
  <1>2. c.qty \in Nat
    BY <1>1 DEF Holds, Calls
  <1>3. PICK i \in ItemsSeen(h, c.location) :
          /\ Sees(h)[i].qty_on_hand >= c.qty
          /\ Continue(h, With([c EXCEPT !.item = i], i,
                              [Sees(h)[i] EXCEPT !.qty_on_hand = @ - c.qty]))
    BY DEF FindStock
  <1> DEFINE e == [Sees(h)[i] EXCEPT !.qty_on_hand = @ - c.qty]
  <1>4. i \in Items \cap DOMAIN Sees(h)
    BY <1>3 DEF ItemsSeen
  <1>5. ItemGain(c, i) = 0
    BY <1>1 DEF ItemGain, Brings
  <1>6. /\ Sees(h)[i] \in InventoryItem /\ Sees(h)[i].qty_on_hand \in Nat
        /\ arrived[i] \in Nat /\ Sees(h)[i].qty_on_hand <= arrived[i]
    BY <1>4, <1>5, ItemRow
  <1>7. /\ e \in InventoryItem
        /\ e.qty_on_hand = Sees(h)[i].qty_on_hand - c.qty
    <2>1. c.qty \in Int
      BY <1>2
    <2> HIDE DEF c
    <2> QED
      BY <1>6, <2>1, ItemChange
  <1>8. Continue(h, With([c EXCEPT !.item = i], i, e))
    BY <1>3
  <1> HIDE DEF e
  <1>9. /\ e.qty_on_hand >= 0
        /\ e.qty_on_hand <= arrived[i] + (IF c.op = "pick" THEN 0 ELSE c.qty)
    BY <1>1, <1>2, <1>3, <1>6, <1>7
  <1> QED
    BY <1>4, <1>7, <1>8, <1>9, FoundStep DEF FindStock


LEMMA DrainOK ==
  ASSUME NEW e \in Location, NEW q \in Nat
  PROVE  /\ Drain(e, q) \in Location
         /\ Drain(e, q).max_capacity = e.max_capacity
         /\ Drain(e, q).current_qty <= e.current_qty
  <1> DEFINE n == IF e.current_qty > q THEN e.current_qty - q ELSE 0
  <1>1. e.current_qty \in Nat /\ e.max_capacity \in Nat
    BY DEF Location
  <1>2. n \in Nat /\ n <= e.current_qty
    BY <1>1
  <1>3. Drain(e, q) = [e EXCEPT !.current_qty = n]
    BY DEF Drain
  <1> HIDE DEF n
  <1> QED
    BY <1>2, <1>3 DEF Location

LEMMA PickedOK ==
  ASSUME NEW e \in OutboundLine, NEW q \in Nat
  PROVE  /\ Picked(e, q) \in OutboundLine
         /\ Picked(e, q).requested_qty = e.requested_qty
         /\ Picked(e, q).picked_qty = e.picked_qty + q
         /\ Picked(e, q).pick_status = "PICKED" => e.picked_qty + q >= e.requested_qty
  <1> DEFINE n == e.picked_qty + q
             s == IF n >= e.requested_qty THEN "PICKED" ELSE "PARTIAL"
  <1>1. n \in Nat
    BY DEF OutboundLine
  <1>2. s \in PickStatus
    BY DEF PickStatus
  <1>3. Picked(e, q) = [e EXCEPT !.picked_qty = n, !.pick_status = s]
    BY DEF Picked
  <1> HIDE DEF n, s
  <1>4. /\ Picked(e, q) \in OutboundLine
        /\ Picked(e, q).requested_qty = e.requested_qty
        /\ Picked(e, q).picked_qty = n
        /\ Picked(e, q).pick_status = s
    BY <1>1, <1>2, <1>3 DEF OutboundLine
  <1>5. s = "PICKED" => n >= e.requested_qty
    BY DEF s
  <1> QED
    BY <1>4, <1>5 DEF n

LEMMA ReadLocationStep ==
  ASSUME Inv, NEW h \in Handlers, ReadLocation(h)
  PROVE  Inv'
  <1> DEFINE c == call[h]
             location == Sees(h)[c.location]
             line == c.entity[c.line]
             drained == Drain(location, c.qty)
             more == Picked(line, c.qty)
             m == With(c, c.location, drained)
             n == With(m, c.line, more)
             d == [n EXCEPT !.at = @ + 1]
  <1>1. /\ c \in Calls /\ Holds(c) /\ Loaded(h, c) /\ c.op = "pick" /\ c.at = 3
    BY StageAt DEF Inv, CallOK, ReadLocation
  <1>2. /\ c.line \in OutLines /\ c.location \in Locations /\ c.header \in Orders
        /\ c.qty \in Nat /\ c.line \in DOMAIN c.entity /\ c.header \in DOMAIN c.entity
        /\ c.item \in DOMAIN c.entity
        /\ line.picked_qty + c.qty <= line.requested_qty
        /\ line.picked_qty <= taken[c.line]
    BY <1>1 DEF Holds, Calls
  <1>3. /\ c.location \in Rows /\ c.line \in Rows /\ c.line # c.location
        /\ c.location \notin Items \cup OutLines \cup Lines
        /\ c.line \notin Items \cup Lines \cup Locations
    BY <1>2, TableAssumption DEF Rows
  <1>4. c.location \in DOMAIN Sees(h) /\ c.line \in DOMAIN Sees(h)
    BY <1>1, <1>2, SeenOK DEF Inv, DbOK, Loaded, Sees
  <1>5. /\ Fits(c.location, location) /\ Earned(c, c.location, location)
        /\ Fits(c.line, line) /\ Earned(c, c.line, line)
    BY <1>1, <1>2, <1>4, SeenOK DEF Loaded
  <1>6. location \in Location /\ line \in OutboundLine
    BY <1>2, <1>5, Tables DEF Fits
  <1>7. /\ drained \in Location /\ drained.max_capacity = location.max_capacity
        /\ drained.current_qty <= location.current_qty
    <2> HIDE DEF c, location
    <2> QED
      BY <1>2, <1>6, DrainOK
  <1>8. /\ more \in OutboundLine /\ more.requested_qty = line.requested_qty
        /\ more.picked_qty = line.picked_qty + c.qty
        /\ more.pick_status = "PICKED" => line.picked_qty + c.qty >= line.requested_qty
    <2> HIDE DEF c, line
    <2> QED
      BY <1>2, <1>6, PickedOK
  <1>9. drained \in Table(c.location) /\ more \in Table(c.line)
    BY <1>2, <1>7, <1>8, Tables
  <1> HIDE DEF drained, more
  <1>10. Fits(c.location, drained)
    <2>1. /\ location.current_qty \in Nat /\ location.max_capacity \in Nat
          /\ drained.current_qty \in Nat
      BY <1>6, <1>7 DEF Location
    <2> QED
      BY <1>2, <1>3, <1>5, <1>7, <1>9, <2>1 DEF Fits
  <1>11. Fits(c.line, more)
    BY <1>2, <1>3, <1>8, <1>9 DEF Fits
  <1>12. /\ m \in Calls /\ m.op = c.op /\ m.at = c.at /\ m.qty = c.qty
         /\ m.line = c.line /\ m.header = c.header /\ m.location = c.location
         /\ m.item = c.item /\ m.dirty = c.dirty
         /\ DOMAIN m.entity = {c.location} \cup DOMAIN c.entity
         /\ m.entity[c.location] = drained
         /\ \A x \in DOMAIN c.entity \ {c.location} : m.entity[x] = c.entity[x]
    <2> HIDE DEF c
    <2> QED
      BY <1>1, <1>3, <1>9, HeldOK
  <1> HIDE DEF m
  <1>13. /\ n \in Calls /\ n.op = c.op /\ n.at = c.at /\ n.qty = c.qty
         /\ n.line = c.line /\ n.header = c.header /\ n.location = c.location
         /\ n.item = c.item /\ n.dirty = c.dirty
         /\ DOMAIN n.entity = {c.line} \cup DOMAIN m.entity
         /\ n.entity[c.line] = more
         /\ \A x \in DOMAIN m.entity \ {c.line} : n.entity[x] = m.entity[x]
    <2> HIDE DEF c
    <2> QED
      BY <1>3, <1>9, <1>12, HeldOK
  <1> HIDE DEF n
  <1>14. /\ d \in Calls /\ d.op = "pick" /\ d.at = 4 /\ d.qty = c.qty
         /\ d.line = c.line /\ d.header = c.header /\ d.location = c.location
         /\ d.item = c.item /\ d.entity = n.entity /\ d.dirty = c.dirty
    BY <1>1, <1>12, <1>13, NextOK
  <1>15. call' = [call EXCEPT ![h] = d] /\ UNCHANGED <<db, own, history>>
    BY DEF ReadLocation, Continue, n, m, drained, more
  <1> HIDE DEF d
  <1>16. Holds(d)
    <2> HIDE DEF c
    <2> QED
      BY <1>2, <1>12, <1>13, <1>14 DEF Holds
  <1>17. DirtyOK(d)
    BY <1>14, NothingDirty DEF ReadLocation, DirtyOK, Saves
  <1>18. Earned(d, c.line, more)
    <2>1. line.requested_qty = db[c.line].requested_qty
      BY <1>2, <1>5 DEF Earned
    <2>2. LineGain(d, c.line) = c.qty
      BY <1>14 DEF LineGain
    <2>3. taken[c.line] \in Nat /\ line.picked_qty \in Nat
      BY <1>2, <1>6 DEF Inv, HistoryOK, OutboundLine
    <2>4. more.picked_qty <= taken[c.line] + LineGain(d, c.line)
      BY <1>2, <1>8, <2>2, <2>3
    <2>5. line.requested_qty \in Nat
      BY <1>6 DEF OutboundLine
    <2>6. more.pick_status = "PICKED" =>
            more.requested_qty <= taken[c.line] + LineGain(d, c.line)
      BY <1>2, <1>8, <2>2, <2>3, <2>5
    <2> QED
      BY <1>2, <1>3, <1>8, <2>1, <2>4, <2>6 DEF Earned
  <1>19. Earned(d, c.location, drained)
    BY <1>2, <1>3, <1>5, <1>7 DEF Earned
  <1>20. ASSUME NEW r \in DOMAIN d.entity
         PROVE  \/ r \in DOMAIN c.entity /\ d.entity[r] = c.entity[r]
                \/ r \in DOMAIN Sees(h) /\ Fits(r, d.entity[r]) /\ Earned(d, r, d.entity[r])
    <2> HIDE DEF c
    <2>1. CASE r = c.line
      BY <1>4, <1>11, <1>13, <1>14, <1>18, <2>1
    <2>2. CASE r = c.location
      BY <1>3, <1>4, <1>10, <1>12, <1>13, <1>14, <1>19, <2>2
    <2>3. CASE r # c.location /\ r # c.line
      BY <1>12, <1>13, <1>14, <2>3
    <2> QED
      BY <2>1, <2>2, <2>3
  <1>21. CallOK(h, d)
    BY <1>1, <1>14, <1>16, <1>17, <1>20, AdvanceOK
  <1> QED
    BY <1>15, <1>21, PrivateStep

LEMMA ConcludeStep ==
  ASSUME Inv, NEW h \in Handlers, At(h, "scan"), NEW done, NEW status,
         call[h].op = "putaway" => status \in InboundStatus,
         call[h].op = "pick" => status \in OutboundStatus,
         Conclude(h, done, status), UNCHANGED <<db, own, history>>
  PROVE  Inv'
  <1> DEFINE c == call[h]
             header == [c.entity[c.header] EXCEPT !.status = status]
  <1>1. /\ c \in Calls /\ Holds(c) /\ Loaded(h, c) /\ c.op \in {"putaway", "pick"}
        /\ c.at = 6
    BY StageAt DEF Inv, CallOK
  <1>2. c.dirty = {}
    BY NothingDirty DEF Saves
  <1>3. /\ c.header \in DOMAIN c.entity
        /\ c.op = "putaway" => c.header \in Receipts
        /\ c.op = "pick" => c.header \in Orders
    BY <1>1 DEF Holds
  <1>4. c.header \in DOMAIN Sees(h) /\ Fits(c.header, c.entity[c.header])
    BY <1>1, <1>3 DEF Loaded, Sees
  <1>5. /\ c.header \in Rows
        /\ c.header \notin Items \cup Locations \cup Lines \cup OutLines
    BY <1>1, <1>3, TableAssumption DEF Rows
  <1>6. header \in Table(c.header)
    <2>1. CASE c.op = "putaway"
      <3>1. c.entity[c.header] \in [status : InboundStatus]
        BY <1>3, <1>4, <2>1, Tables DEF Fits
      <3>2. header \in [status : InboundStatus]
        BY <2>1, <3>1
      <3> QED
        BY <1>3, <2>1, <3>2, Tables
    <2>2. CASE c.op = "pick"
      <3>1. c.entity[c.header] \in [status : OutboundStatus]
        BY <1>3, <1>4, <2>2, Tables DEF Fits
      <3>2. header \in [status : OutboundStatus]
        BY <2>2, <3>1
      <3> QED
        BY <1>3, <2>2, <3>2, Tables
    <2> QED
      BY <1>1, <2>1, <2>2
  <1> HIDE DEF header
  <1>7. CASE Continue(h, [c EXCEPT !.at = @ + 1])
    <2> DEFINE b == [c EXCEPT !.at = @ + 1]
               d == [b EXCEPT !.at = @ + 1]
    <2>1. /\ b \in Calls /\ b.op = c.op /\ b.at = 7 /\ b.qty = c.qty
          /\ b.line = c.line /\ b.header = c.header /\ b.location = c.location
          /\ b.item = c.item /\ b.entity = c.entity /\ b.dirty = c.dirty
      <3> HIDE DEF c
      <3> QED
        BY <1>1, NextOK
    <2>2. call' = [call EXCEPT ![h] = d]
      BY <1>7 DEF Continue
    <2> HIDE DEF b
    <2>3. /\ d \in Calls /\ d.op = c.op /\ d.at = 8 /\ d.qty = c.qty
          /\ d.line = c.line /\ d.header = c.header /\ d.location = c.location
          /\ d.item = c.item /\ d.entity = c.entity /\ d.dirty = c.dirty
      BY <2>1, NextOK
    <2> HIDE DEF d
    <2>4. Holds(d)
      BY <1>1, <2>3 DEF Holds
    <2>5. CallOK(h, d)
      BY <1>1, <1>2, <2>3, <2>4, AdvanceOK DEF DirtyOK
    <2> QED
      BY <2>2, <2>5, PrivateStep
  <1>8. CASE Continue(h, With(c, c.header, header))
    <2> DEFINE n == With(c, c.header, header)
               d == [n EXCEPT !.at = @ + 1]
    <2>1. call' = [call EXCEPT ![h] = d]
      BY <1>8 DEF Continue
    <2>2. /\ n \in Calls /\ n.op = c.op /\ n.at = c.at /\ n.qty = c.qty
          /\ n.line = c.line /\ n.header = c.header /\ n.location = c.location
          /\ n.item = c.item /\ n.dirty = c.dirty
          /\ DOMAIN n.entity = {c.header} \cup DOMAIN c.entity
          /\ n.entity[c.header] = header
          /\ \A x \in DOMAIN c.entity \ {c.header} : n.entity[x] = c.entity[x]
      <3> HIDE DEF c
      <3> QED
        BY <1>1, <1>5, <1>6, HeldOK
    <2> HIDE DEF n
    <2>3. /\ d \in Calls /\ d.op = c.op /\ d.at = 7 /\ d.qty = c.qty
          /\ d.line = c.line /\ d.header = c.header /\ d.location = c.location
          /\ d.item = c.item /\ d.dirty = c.dirty /\ d.entity = n.entity
      BY <1>1, <2>2, NextOK
    <2> HIDE DEF d
    <2>4. Holds(d)
      BY <1>1, <2>2, <2>3 DEF Holds
    <2>5. Fits(c.header, header) /\ Earned(d, c.header, header)
      BY <1>5, <1>6 DEF Fits, Earned
    <2>6. ASSUME NEW r \in DOMAIN d.entity
          PROVE  \/ r \in DOMAIN c.entity /\ d.entity[r] = c.entity[r]
                 \/ r \in DOMAIN Sees(h) /\ Fits(r, d.entity[r])
                    /\ Earned(d, r, d.entity[r])
      BY <1>4, <2>2, <2>3, <2>5
    <2>7. CallOK(h, d)
      BY <1>1, <1>2, <2>3, <2>4, <2>6, AdvanceOK DEF DirtyOK
    <2> QED
      BY <2>1, <2>7, PrivateStep
  <1> QED
    BY <1>7, <1>8 DEF Conclude, header

LEMMA ScanStep ==
  ASSUME Inv, NEW h \in Handlers, ScanInbound(h) \/ ScanOutbound(h)
  PROVE  Inv'
  <1>1. CASE ScanInbound(h)
    <2> DEFINE all == \A l \in LinesOf(h, call[h].header) :
                        Sees(h)[l].putaway_location # NoRow
               status == IF all THEN "COMPLETED" ELSE "PUTAWAY"
    <2>1. /\ call[h].op = "putaway" /\ At(h, "scan") /\ Conclude(h, all, status)
          /\ UNCHANGED <<db, own, history>>
      BY <1>1 DEF ScanInbound
    <2>2. status \in InboundStatus
      BY DEF InboundStatus
    <2> HIDE DEF all, status
    <2> QED
      BY <2>1, <2>2, ConcludeStep
  <1>2. CASE ScanOutbound(h)
    <2> DEFINE all == \A l \in OutLinesOf(h, call[h].header) :
                        Sees(h)[l].pick_status = "PICKED"
               status == IF all THEN "PICKED" ELSE "PICKING"
    <2>1. /\ call[h].op = "pick" /\ At(h, "scan") /\ Conclude(h, all, status)
          /\ UNCHANGED <<db, own, history>>
      BY <1>2 DEF ScanOutbound
    <2>2. status \in OutboundStatus
      BY DEF OutboundStatus
    <2> HIDE DEF all, status
    <2> QED
      BY <2>1, <2>2, ConcludeStep
  <1> QED
    BY <1>1, <1>2

-----------------------------------------------------------------------------
(* Saves *)

\* The tables have no other columns.
LEMMA RowColumns ==
  ASSUME NEW r \in Rows, NEW e \in Table(r)
  PROVE  DOMAIN e \subseteq Columns
  <1>1. CASE r \in Items
    <2>1. e \in InventoryItem
      BY <1>1, Tables
    <2> QED
      BY <2>1 DEF InventoryItem, Columns
  <1>2. CASE r \in Locations
    <2>1. e \in Location
      BY <1>2, Tables
    <2> QED
      BY <2>1 DEF Location, Columns
  <1>3. CASE r \in Lines
    <2>1. e \in InboundLine
      BY <1>3, Tables
    <2> QED
      BY <2>1 DEF InboundLine, Columns
  <1>4. CASE r \in OutLines
    <2>1. e \in OutboundLine
      BY <1>4, Tables
    <2> QED
      BY <2>1 DEF OutboundLine, Columns
  <1>5. CASE r \in Receipts
    <2>1. e \in [status : InboundStatus]
      BY <1>5, Tables
    <2> QED
      BY <2>1 DEF Columns
  <1>6. CASE r \in Orders
    <2>1. e \in [status : OutboundStatus]
      BY <1>6, Tables
    <2> QED
      BY <2>1 DEF Columns
  <1> QED
    BY <1>1, <1>2, <1>3, <1>4, <1>5, <1>6 DEF Rows

LEMMA SelectStep ==
  ASSUME Inv, NEW h \in Handlers, Select(h)
  PROVE  Inv'
  <1> DEFINE c == call[h]
  <1>1. PICK s \in Saves :
          LET t == Target(c, s)
              e == Differing(c.entity[t], Sees(h)[t])
          IN  /\ At(h, s) /\ c.dirty = {} /\ t # NoRow
              /\ IF e = {} THEN Continue(h, c)
                           ELSE call' = [call EXCEPT ![h].dirty = e]
              /\ UNCHANGED <<db, own, history>>
    BY DEF Select
  <1> DEFINE t == Target(c, s)
             e == Differing(c.entity[t], Sees(h)[t])
  <1>2. /\ c \in Calls /\ Holds(c) /\ Loaded(h, c) /\ c.op # "none"
        /\ Program[c.op][c.at] = s
    BY <1>1 DEF Inv, CallOK, At
  <1>3. t \in DOMAIN c.entity
    BY <1>1, TargetHeld
  <1>4. t \in DOMAIN Sees(h)
    BY <1>2, <1>3 DEF Loaded, Sees
  <1>5. e \subseteq Columns
    <2>1. t \in Rows /\ Sees(h)[t] \in Table(t)
      BY <1>4, SeenOK DEF Fits
    <2> QED
      BY <2>1, RowColumns DEF Differing
  <1>6. CASE e = {}
    <2> DEFINE d == [c EXCEPT !.at = @ + 1]
    <2>1. call' = [call EXCEPT ![h] = d]
      BY <1>1, <1>6 DEF Continue
    <2>2. /\ d \in Calls /\ d.op = c.op /\ d.at = c.at + 1 /\ d.qty = c.qty
          /\ d.line = c.line /\ d.header = c.header /\ d.location = c.location
          /\ d.item = c.item /\ d.entity = c.entity /\ d.dirty = c.dirty
      <3> HIDE DEF c
      <3> QED
        BY <1>2, NextOK
    <2> HIDE DEF d
    <2>3. Holds(d)
      BY <1>1, <2>2, SavedHolds
    <2>4. c.at \in Nat
      BY <1>2 DEF Calls
    <2>5. CallOK(h, d)
      BY <1>1, <1>2, <2>2, <2>3, <2>4, AdvanceOK DEF DirtyOK
    <2> QED
      BY <1>1, <2>1, <2>5, PrivateStep
  <1>7. CASE e # {}
    <2> DEFINE d == [c EXCEPT !.dirty = e]
    <2>1. call' = [call EXCEPT ![h] = d]
      BY <1>1, <1>7
    <2>2. /\ d \in Calls /\ d.op = c.op /\ d.at = c.at /\ d.qty = c.qty
          /\ d.line = c.line /\ d.header = c.header /\ d.location = c.location
          /\ d.item = c.item /\ d.entity = c.entity
      <3> HIDE DEF e
      <3> QED
        BY <1>2, <1>5 DEF Calls
    <2>3. Holds(d)
      <3> HIDE DEF d
      <3> QED
        BY <1>2, <2>2 DEF Holds
    <2>4. DirtyOK(d)
      <3> HIDE DEF d
      <3>1. Target(d, s) = t
        BY <2>2 DEF Target
      <3> QED
        BY <1>1, <1>2, <2>2, <3>1 DEF DirtyOK
    <2>5. c.at \in Nat
      BY <1>2 DEF Calls
    <2> HIDE DEF d
    <2>6. CallOK(h, d)
      BY <1>2, <2>2, <2>3, <2>4, <2>5, AdvanceOK
    <2> QED
      BY <1>1, <2>1, <2>6, PrivateStep
  <1> QED
    BY <1>6, <1>7

\* A row that has some columns of one explained row and the rest of another is
\* explained: the columns of a line or a location that depend on each other
\* are changed by nobody else.
LEMMA MergeOK ==
  ASSUME NEW r \in Rows, NEW c, NEW e, Fits(r, e), Earned(c, r, e),
         NEW row, Fits(r, row), Earned(c, r, row), NEW columns
  PROVE  Fits(r, Merge(e, row, columns)) /\ Earned(c, r, Merge(e, row, columns))
  <1> DEFINE n == Merge(e, row, columns)
  <1> SUFFICES Fits(r, n) /\ Earned(c, r, n)
    OBVIOUS
  <1>1. CASE r \in Items
    <2>1. e \in InventoryItem /\ row \in InventoryItem
      BY <1>1, Tables DEF Fits
    <2>2. n \in InventoryItem /\ n.qty_on_hand \in {e.qty_on_hand, row.qty_on_hand}
      BY <2>1 DEF InventoryItem, Merge
    <2>3. r \notin Locations /\ r \notin OutLines /\ r \notin Lines
      BY <1>1, TableAssumption
    <2> HIDE DEF n
    <2>9. n \in Table(r)
      BY <1>1, <2>2, Tables
    <2> QED
      BY <1>1, <2>2, <2>3, <2>9 DEF Fits, Earned
  <1>2. CASE r \in Locations
    <2>1. e \in Location /\ row \in Location
      BY <1>2, Tables DEF Fits
    <2>2. /\ n \in Location
          /\ n.current_qty \in {e.current_qty, row.current_qty}
          /\ n.max_capacity \in {e.max_capacity, row.max_capacity}
      BY <2>1 DEF Location, Merge
    <2>3. r \notin Items /\ r \notin OutLines /\ r \notin Lines
      BY <1>2, TableAssumption
    <2>4. e.max_capacity \in Capacities /\ row.max_capacity \in Capacities
      BY <1>2 DEF Fits
    <2>5. FixedCapacity => /\ e.max_capacity = db[r].max_capacity
                           /\ row.max_capacity = db[r].max_capacity
      BY <1>2 DEF Earned
    <2> HIDE DEF n
    <2>6. FixedCapacity /\ n.max_capacity > 0 => n.current_qty <= n.max_capacity
      BY <1>2, <2>2, <2>5 DEF Fits
    <2>9. n \in Table(r)
      BY <1>2, <2>2, Tables
    <2> QED
      BY <1>2, <2>2, <2>3, <2>4, <2>5, <2>6, <2>9 DEF Fits, Earned
  <1>3. CASE r \in Lines
    <2>1. e \in InboundLine /\ row \in InboundLine
      BY <1>3, Tables DEF Fits
    <2>2. /\ n \in InboundLine
          /\ n.putaway_location \in {e.putaway_location, row.putaway_location}
      BY <2>1 DEF InboundLine, Merge
    <2>3. r \notin Items /\ r \notin OutLines /\ r \notin Locations
      BY <1>3, TableAssumption
    <2> HIDE DEF n
    <2>9. n \in Table(r)
      BY <1>3, <2>2, Tables
    <2> QED
      BY <1>3, <2>2, <2>3, <2>9 DEF Fits, Earned
  <1>4. CASE r \in OutLines
    <2>1. e \in OutboundLine /\ row \in OutboundLine
      BY <1>4, Tables DEF Fits
    <2>2. /\ n \in OutboundLine
          /\ n.picked_qty \in {e.picked_qty, row.picked_qty}
          /\ n.pick_status \in {e.pick_status, row.pick_status}
          /\ n.requested_qty \in {e.requested_qty, row.requested_qty}
      BY <2>1 DEF OutboundLine, Merge
    <2>3. r \notin Items /\ r \notin Lines /\ r \notin Locations
      BY <1>4, TableAssumption
    <2> HIDE DEF n
    <2>9. n \in Table(r)
      BY <1>4, <2>2, Tables
    <2> QED
      BY <1>4, <2>2, <2>3, <2>9 DEF Fits, Earned
  <1>5. CASE r \in Receipts
    <2>1. e \in [status : InboundStatus] /\ row \in [status : InboundStatus]
      BY <1>5, Tables DEF Fits
    <2>2. n \in [status : InboundStatus]
      BY <2>1 DEF Merge
    <2>3. r \notin Items \cup Lines \cup Locations \cup OutLines
      BY <1>5, TableAssumption
    <2> HIDE DEF n
    <2>9. n \in Table(r)
      BY <1>5, <2>2, Tables
    <2> QED
      BY <1>5, <2>2, <2>3, <2>9 DEF Fits, Earned
  <1>6. CASE r \in Orders
    <2>1. e \in [status : OutboundStatus] /\ row \in [status : OutboundStatus]
      BY <1>6, Tables DEF Fits
    <2>2. n \in [status : OutboundStatus]
      BY <2>1 DEF Merge
    <2>3. r \notin Items \cup Lines \cup Locations \cup OutLines
      BY <1>6, TableAssumption
    <2> HIDE DEF n
    <2>9. n \in Table(r)
      BY <1>6, <2>2, Tables
    <2> QED
      BY <1>6, <2>2, <2>3, <2>9 DEF Fits, Earned
  <1> QED
    BY <1>1, <1>2, <1>3, <1>4, <1>5, <1>6 DEF Rows

\* A step that only writes row t in the transaction of h.
LEMMA WriteStep ==
  ASSUME Inv, NEW h \in Handlers, NEW d, d.op # "none", CallOK(h, d),
         NEW t \in Rows, t \in DOMAIN db \cup Items,
         NEW row, Fits(t, row), Earned(d, t, row),
         own' = [own EXCEPT ![h] = Over([x \in {t} |-> row], @)],
         call' = [call EXCEPT ![h] = d], UNCHANGED <<db, history>>
  PROVE  Inv'
  <1> DEFINE new == [x \in {t} |-> row]
             f == Over(new, own[h])
  <1>1. new \in Partial /\ own[h] \in Partial
    BY SinglePartial DEF Fits, Inv
  <1>2. /\ f \in Partial
        /\ DOMAIN f = {t} \cup DOMAIN own[h]
        /\ f[t] = row
        /\ \A x \in DOMAIN own[h] \ {t} : f[x] = own[h][x]
    <2>1. f \in Partial
      BY <1>1, OverPartial
    <2> QED
      BY <2>1 DEF Over
  <1>3. own' = [own EXCEPT ![h] = f]
    OBVIOUS
  <1> HIDE DEF f
  <1>4. own' \in [Handlers -> Partial] /\ own'[h] = f
        /\ \A g \in Handlers \ {h} : own'[g] = own[g]
    BY <1>2, <1>3 DEF Inv
  <1>5. call' \in [Handlers -> Calls] /\ call'[h] = d
        /\ \A g \in Handlers \ {h} : call'[g] = call[g]
    BY DEF Inv, CallOK
  <1>6. \A c, r, e : Earned(c, r, e)' <=> Earned(c, r, e)
    BY DEF Earned, history
  <1>7. DbOK'
    BY <1>6 DEF Inv, DbOK, history
  <1>8. HistoryOK'
    BY DEF Inv, HistoryOK, history
  <1>9. ASSUME NEW g \in Handlers
        PROVE  CallOK(g, call[g])' 
    <2>1. CASE g = h
      <3>1. Holds(d)'
        BY DEF CallOK, Holds, history
      <3>2. Loaded(h, d)'
        <4>1. DOMAIN Over(own[h], db) \subseteq DOMAIN Over(own'[h], db')
          BY <1>2, <1>4 DEF Over
        <4> QED
          BY <1>6, <4>1 DEF CallOK, Loaded
      <3>3. Written(h, d)'
        <4>1. ASSUME NEW r \in DOMAIN f
              PROVE  r \in DOMAIN db \cup Items /\ Fits(r, f[r]) /\ Earned(d, r, f[r])
          BY <1>2 DEF CallOK, Written
        <4> QED
          BY <1>4, <1>6, <4>1 DEF Written
      <3> QED
        BY <1>5, <2>1, <3>1, <3>2, <3>3 DEF CallOK, DirtyOK
    <2>2. CASE g # h
      <3>1. CallOK(g, call[g])
        BY DEF Inv
      <3>2. own'[g] = own[g] /\ call'[g] = call[g]
        BY <1>4, <1>5, <2>2
      <3>3. Holds(call[g])' /\ DirtyOK(call[g])'
        BY <3>1, <3>2 DEF CallOK, Holds, DirtyOK, history
      <3>4. Loaded(g, call[g])' /\ Written(g, call[g])'
        BY <1>6, <3>1, <3>2 DEF CallOK, Loaded, Written
      <3> QED
        BY <3>1, <3>2, <3>3, <3>4 DEF CallOK
    <2> QED
      BY <2>1, <2>2
  <1> QED
    BY <1>4, <1>5, <1>7, <1>8, <1>9 DEF Inv

LEMMA UpdateStep ==
  ASSUME Inv, NEW h \in Handlers, Update(h)
  PROVE  Inv'
  <1> DEFINE c == call[h]
  <1>1. PICK s \in Saves :
          LET t == Target(c, s)
              row == Merge(c.entity[t], Sees(h)[t], c.dirty)
          IN  /\ At(h, s) /\ c.dirty # {} /\ t \notin Locked(h)
              /\ own' = [own EXCEPT ![h] = Over([x \in {t} |-> row], @)]
              /\ Continue(h, [c EXCEPT !.dirty = {}])
              /\ UNCHANGED <<db, history>>
    BY DEF Update
  <1> DEFINE t == Target(c, s)
             row == Merge(c.entity[t], Sees(h)[t], c.dirty)
             b == [c EXCEPT !.dirty = {}]
             d == [b EXCEPT !.at = @ + 1]
  <1>2. /\ c \in Calls /\ Holds(c) /\ Loaded(h, c) /\ c.op # "none"
        /\ Program[c.op][c.at] = s /\ Written(h, c) /\ DirtyOK(c) /\ c.at \in Nat
    BY <1>1 DEF Inv, CallOK, At, Calls
  <1>3. t # NoRow
    BY <1>1, <1>2 DEF DirtyOK
  <1>4. t \in DOMAIN c.entity
    BY <1>1, <1>3, TargetHeld
  <1>5. t \in DOMAIN Sees(h)
    BY <1>2, <1>4 DEF Loaded, Sees
  <1>6. t \in Rows /\ t \in DOMAIN db \cup Items
    BY <1>2, <1>5, SeenOK DEF Written
  <1>7. call' = [call EXCEPT ![h] = d]
    BY <1>1 DEF Continue
  <1>8. /\ b \in Calls /\ b.op = c.op /\ b.at = c.at /\ b.qty = c.qty
        /\ b.line = c.line /\ b.header = c.header /\ b.location = c.location
        /\ b.item = c.item /\ b.entity = c.entity /\ b.dirty = {}
    BY <1>2 DEF Calls
  <1> HIDE DEF b
  <1>9. /\ d \in Calls /\ d.op = c.op /\ d.at = c.at + 1 /\ d.qty = c.qty
        /\ d.line = c.line /\ d.header = c.header /\ d.location = c.location
        /\ d.item = c.item /\ d.entity = c.entity /\ d.dirty = {}
    BY <1>8, NextOK
  <1> HIDE DEF d
  <1>10. Holds(d)
    BY <1>1, <1>9, SavedHolds
  <1>11. CallOK(h, d)
    BY <1>2, <1>9, <1>10, AdvanceOK DEF DirtyOK
  <1>12. Fits(t, row) /\ Earned(c, t, row)
    <2>1. Fits(t, c.entity[t]) /\ Earned(c, t, c.entity[t])
      BY <1>2, <1>4 DEF Loaded
    <2>2. Fits(t, Sees(h)[t]) /\ Earned(c, t, Sees(h)[t])
      BY <1>5, SeenOK
    <2> QED
      BY <1>6, <2>1, <2>2, MergeOK
  <1>13. own' = [own EXCEPT ![h] = Over([x \in {t} |-> row], @)] /\ UNCHANGED <<db, history>>
    BY <1>1
  <1> HIDE DEF row
  <1>14. Earned(d, t, row)
    BY <1>2, <1>6, <1>9, <1>12, Later
  <1> QED
    BY <1>2, <1>6, <1>7, <1>9, <1>11, <1>12, <1>13, <1>14, WriteStep

LEMMA InsertStep ==
  ASSUME Inv, NEW h \in Handlers, Insert(h)
  PROVE  Inv'
  <1> DEFINE c == call[h]
  <1>1. PICK i \in Items :
          /\ At(h, "item") /\ c.item = NoRow
          /\ own' = [own EXCEPT ![h] = Over([x \in {i} |-> [qty_on_hand |-> c.qty]], @)]
          /\ Continue(h, [c EXCEPT !.item = i])
          /\ UNCHANGED <<db, history>>
    BY DEF Insert
  <1> DEFINE row == [qty_on_hand |-> c.qty]
             b == [c EXCEPT !.item = i]
             d == [b EXCEPT !.at = @ + 1]
  <1>2. /\ c \in Calls /\ Holds(c) /\ c.op # "none" /\ DirtyOK(c) /\ c.at \in Nat
    BY <1>1 DEF Inv, CallOK, At, Calls
  <1>3. \/ c.op = "putaway" /\ c.at = 4
        \/ c.op = "transfer" /\ c.at = 3
        \/ c.op = "adjust" /\ c.at = 1
    <2>1. c.item \notin DOMAIN c.entity
      BY <1>1, <1>2, PartialRows, TableAssumption DEF Calls, Rows
    <2> QED
      BY <1>1, <1>2, <2>1, StageAt DEF Holds
  <1>4. c.qty \in Nat
    <2>1. c.item \notin DOMAIN c.entity
      BY <1>1, <1>2, PartialRows, TableAssumption DEF Calls, Rows
    <2> QED
      BY <1>2, <1>3, <2>1 DEF Holds, Calls
  <1>5. c.dirty = {}
    <2>1. ASSUME NEW s \in Saves, Program[c.op][c.at] = s PROVE Target(c, s) = NoRow
      BY <1>1, <2>1 DEF At, Target
    <2> QED
      BY <1>2, <2>1 DEF DirtyOK
  <1>6. call' = [call EXCEPT ![h] = d]
    BY <1>1 DEF Continue
  <1>7. /\ b \in Calls /\ b.op = c.op /\ b.at = c.at /\ b.qty = c.qty
        /\ b.line = c.line /\ b.header = c.header /\ b.location = c.location
        /\ b.item = i /\ b.entity = c.entity /\ b.dirty = c.dirty
    <2> HIDE DEF c
    <2> QED
      BY <1>2, NamedOK
  <1> HIDE DEF b
  <1>8. /\ d \in Calls /\ d.op = c.op /\ d.at = c.at + 1 /\ d.qty = c.qty
        /\ d.line = c.line /\ d.header = c.header /\ d.location = c.location
        /\ d.item = i /\ d.entity = c.entity /\ d.dirty = c.dirty
    BY <1>7, NextOK
  <1> HIDE DEF d
  <1>9. Holds(d)
    BY <1>1, <1>8, SavedHolds DEF Saves
  <1>10. \A x \in Items : ItemGain(c, x) = 0
    BY <1>1, TableAssumption DEF ItemGain, Brings
  <1>11. CallOK(h, d)
    BY <1>2, <1>5, <1>8, <1>9, <1>10, AdvanceOK DEF DirtyOK
  <1>12. row \in InventoryItem /\ row.qty_on_hand = c.qty
    BY <1>4 DEF InventoryItem
  <1>13. ItemGain(d, i) = c.qty /\ arrived[i] \in Nat
    BY <1>3, <1>4, <1>8 DEF ItemGain, Brings, Inv, HistoryOK
  <1>14. own' = [own EXCEPT ![h] = Over([x \in {i} |-> row], @)] /\ UNCHANGED <<db, history>>
    BY <1>1
  <1> HIDE DEF row
  <1>15. Fits(i, row) /\ Earned(d, i, row)
    <2>1. row.qty_on_hand >= 0 /\ row.qty_on_hand <= arrived[i] + ItemGain(d, i)
      BY <1>4, <1>12, <1>13
    <2> QED
      BY <1>12, <2>1, ItemFits
  <1> QED
    BY <1>2, <1>6, <1>8, <1>11, <1>14, <1>15, WriteStep DEF Rows

LEMMA RollbackStep ==
  ASSUME Inv, NEW h \in Handlers, Rollback(h)
  PROVE  Inv'
  <1>1. /\ own' = [own EXCEPT ![h] = <<>>] /\ call' = [call EXCEPT ![h] = Idle]
        /\ UNCHANGED <<db, history>>
    BY DEF Rollback
  <1>2. own' \in [Handlers -> Partial] /\ own'[h] = <<>>
        /\ \A g \in Handlers \ {h} : own'[g] = own[g]
    BY <1>1, EmptyPartial DEF Inv
  <1>3. call' \in [Handlers -> Calls] /\ call'[h] = Idle
        /\ \A g \in Handlers \ {h} : call'[g] = call[g]
    BY <1>1, IdleCall DEF Inv
  <1>4. \A c, r, e : Earned(c, r, e)' <=> Earned(c, r, e)
    BY <1>1 DEF Earned, history
  <1>5. DbOK' /\ HistoryOK'
    BY <1>1, <1>4 DEF Inv, DbOK, HistoryOK, history
  <1>6. ASSUME NEW g \in Handlers
        PROVE  CallOK(g, call[g])'
    <2>1. CASE g = h
      <3>1. own'[h] = <<>>
        BY <1>2
      <3>2. CallOK(h, Idle)'
        BY <3>1, IdleCall, NoRows DEF CallOK, Holds, DirtyOK, Loaded, Written, Idle
      <3> QED
        BY <1>3, <2>1, <3>2
    <2>2. CASE g # h
      <3>1. CallOK(g, call[g])
        BY DEF Inv
      <3>2. own'[g] = own[g] /\ call'[g] = call[g]
        BY <1>2, <1>3, <2>2
      <3>3. Holds(call[g])' /\ DirtyOK(call[g])'
        BY <1>1, <3>1, <3>2 DEF CallOK, Holds, DirtyOK, history
      <3>4. Loaded(g, call[g])' /\ Written(g, call[g])'
        BY <1>1, <1>4, <3>1, <3>2 DEF CallOK, Loaded, Written
      <3> QED
        BY <3>1, <3>2, <3>3, <3>4 DEF CallOK
    <2> QED
      BY <2>1, <2>2
  <1> QED
    BY <1>1, <1>2, <1>3, <1>5, <1>6 DEF Inv

-----------------------------------------------------------------------------
(* Steps that write committed rows *)

\* Rows are never deleted, requests and fixed capacities never change and
\* history only grows.
Grows ==
  /\ DOMAIN db \subseteq DOMAIN db'
  /\ \A l \in OutLines \cap DOMAIN db : db'[l].requested_qty = db[l].requested_qty
  /\ FixedCapacity => \A l \in Locations : db'[l].max_capacity = db[l].max_capacity
  /\ \A i \in Items : arrived'[i] >= arrived[i]
  /\ \A l \in Lines : shelved'[l] >= shelved[l]
  /\ \A l \in OutLines : taken'[l] >= taken[l]

\* What was explained to a call stays explained while the database grows.
LEMMA EarnedGrows ==
  ASSUME HistoryOK, HistoryOK', Grows, NEW c \in Calls, NEW r \in Rows, NEW e,
         Fits(r, e), Earned(c, r, e), r \in DOMAIN db \cup Items
  PROVE  Earned(c, r, e)'
  <1>1. CASE r \in Items
    <2>1. e \in InventoryItem
      BY <1>1, Tables DEF Fits
    <2>2. /\ e.qty_on_hand \in Int /\ arrived[r] \in Nat /\ arrived'[r] \in Nat
          /\ ItemGain(c, r) \in Int
      BY <1>1, <2>1 DEF InventoryItem, HistoryOK, ItemGain, Calls
    <2>3. arrived'[r] >= arrived[r] /\ e.qty_on_hand <= arrived[r] + ItemGain(c, r)
      BY <1>1 DEF Earned, Grows
    <2>4. e.qty_on_hand <= arrived'[r] + ItemGain(c, r)
      BY <2>2, <2>3
    <2> QED
      BY <1>1, <2>4, TableAssumption DEF Earned
  <1>2. CASE r \in OutLines
    <2>1. e \in OutboundLine
      BY <1>2, Tables DEF Fits
    <2>2. /\ e.picked_qty \in Nat /\ taken[r] \in Nat /\ taken'[r] \in Nat
          /\ LineGain(c, r) \in Int
      BY <1>2, <2>1 DEF OutboundLine, HistoryOK, LineGain, Calls
    <2>3. taken'[r] >= taken[r] /\ e.picked_qty <= taken[r] + LineGain(c, r)
      BY <1>2 DEF Earned, Grows
    <2>4. e.picked_qty <= taken'[r] + LineGain(c, r)
      BY <2>2, <2>3
    <2>5. r \in DOMAIN db
      BY <1>2, TableAssumption
    <2>6. e.requested_qty = db'[r].requested_qty
      BY <1>2, <2>5 DEF Earned, Grows
    <2>7. e.requested_qty \in Nat
      BY <2>1 DEF OutboundLine
    <2>8. ASSUME e.pick_status = "PICKED"
          PROVE  e.requested_qty <= taken'[r] + LineGain(c, r)
      <3>1. e.requested_qty <= taken[r] + LineGain(c, r)
        BY <1>2, <2>8 DEF Earned
      <3> QED
        BY <2>2, <2>3, <2>7, <3>1
    <2> QED
      BY <1>2, <2>4, <2>6, <2>8, TableAssumption DEF Earned
  <1>3. CASE r \in Lines
    <2>1. shelved[r] \in Nat /\ shelved'[r] \in Nat /\ shelved'[r] >= shelved[r]
      BY <1>3 DEF HistoryOK, Grows
    <2> QED
      BY <1>3, <2>1, TableAssumption DEF Earned
  <1>4. CASE r \notin Items \cup OutLines \cup Lines
    BY <1>4 DEF Earned, Grows
  <1> QED
    BY <1>1, <1>2, <1>3, <1>4

LEMMA OtherCalls ==
  ASSUME Inv, HistoryOK', Grows, NEW g \in Handlers,
         own'[g] = own[g], call'[g] = call[g]
  PROVE  CallOK(g, call[g])'
  <1> DEFINE c == call[g]
  <1>1. CallOK(g, c) /\ c \in Calls /\ HistoryOK
    BY DEF Inv
  <1>2. ASSUME NEW r \in Rows, NEW e, Fits(r, e), Earned(c, r, e), r \in DOMAIN db \cup Items
        PROVE  Earned(c, r, e)'
    BY <1>1, <1>2, EarnedGrows
  <1>3. DOMAIN own[g] \subseteq (DOMAIN db \cup Items) \cap Rows
    BY <1>1, PartialRows DEF CallOK, Written, Inv
  <1>4. Written(g, c)'
    <2>1. ASSUME NEW r \in DOMAIN own[g]
          PROVE  r \in DOMAIN db' \cup Items /\ Fits(r, own[g][r]) /\ Earned(c, r, own[g][r])'
      BY <1>1, <1>2, <1>3, <2>1 DEF CallOK, Written, Grows
    <2> QED
      BY <2>1 DEF Written
  <1>5. Loaded(g, c)'
    <2>1. DOMAIN Over(own[g], db) \subseteq DOMAIN Over(own'[g], db')
      BY DEF Over, Grows
    <2>2. DOMAIN Over(own[g], db) = DOMAIN own[g] \cup DOMAIN db
      BY DEF Over
    <2>3. DOMAIN c.entity \subseteq Rows
      BY <1>1, PartialRows DEF Calls
    <2>4. ASSUME NEW r \in DOMAIN c.entity
          PROVE  r \in DOMAIN Over(own'[g], db') /\ Fits(r, c.entity[r])
                 /\ Earned(c, r, c.entity[r])'
      <3>1. r \in DOMAIN Over(own[g], db) /\ Fits(r, c.entity[r])
            /\ Earned(c, r, c.entity[r])
        BY <1>1 DEF CallOK, Loaded
      <3>2. r \in DOMAIN db \cup Items
        BY <1>3, <2>2, <3>1
      <3> QED
        BY <1>2, <2>1, <2>3, <3>1, <3>2
    <2> QED
      BY <2>4 DEF Loaded
  <1>6. Holds(c)'
    <2>1. ASSUME c.op = "pick", c.at <= 3
          PROVE  c.entity[c.line].picked_qty <= taken'[c.line]
      <3>1. /\ c.entity[c.line].picked_qty <= taken[c.line] /\ c.line \in OutLines
            /\ c.line \in DOMAIN c.entity
        BY <1>1, <2>1 DEF CallOK, Holds
      <3>2. c.entity[c.line] \in OutboundLine
        BY <1>1, <3>1, Tables DEF CallOK, Loaded, Fits
      <3>3. c.entity[c.line].picked_qty \in Nat
        BY <3>2 DEF OutboundLine
      <3>4. taken[c.line] \in Nat /\ taken'[c.line] \in Nat
            /\ taken'[c.line] >= taken[c.line]
        BY <1>1, <3>1 DEF HistoryOK, Grows
      <3> QED
        BY <3>1, <3>3, <3>4
    <2>2. Holds(c)
      BY <1>1 DEF CallOK
    <2> QED
      BY <2>1, <2>2 DEF Holds
  <1>7. DirtyOK(c)'
    BY <1>1 DEF CallOK, DirtyOK
  <1> QED
    BY <1>1, <1>4, <1>5, <1>6, <1>7 DEF CallOK

LEMMA CommitStep ==
  ASSUME Inv, NEW h \in Handlers, Commit(h)
  PROVE  Inv'
  <1> DEFINE c == call[h]
  <1>1. /\ c \in Calls /\ Holds(c) /\ Written(h, c) /\ At(h, "commit") /\ c.op # "none"
        /\ HistoryOK /\ c.qty \in Int
    BY DEF Inv, CallOK, Commit, At, Calls
  <1>2. /\ db' = Over(own[h], db)
        /\ own' = [own EXCEPT ![h] = <<>>]
        /\ call' = [call EXCEPT ![h] = Idle]
        /\ arrived' = IF c.op \in {"putaway", "transfer", "adjust"} /\ c.qty > 0
                      THEN [arrived EXCEPT ![c.item] = @ + c.qty] ELSE arrived
        /\ shelved' = IF c.op = "putaway" THEN [shelved EXCEPT ![c.line] = @ + 1]
                                          ELSE shelved
        /\ taken' = IF c.op = "pick" THEN [taken EXCEPT ![c.line] = @ + c.qty] ELSE taken
        /\ adjusted' = IF c.op = "adjust" THEN [adjusted EXCEPT ![c.location] = @ + c.qty]
                                          ELSE adjusted
    BY DEF Commit
  <1>3. c.op = "pick" => c.qty \in Nat
    BY <1>1 DEF Holds, Calls
  <1>4. ASSUME NEW i \in Items
        PROVE  arrived'[i] \in Nat /\ arrived'[i] >= arrived[i] + ItemGain(c, i)
               /\ arrived'[i] >= arrived[i]
    <2>1. arrived[i] \in Nat /\ DOMAIN arrived = Items
      BY <1>1 DEF HistoryOK
    <2>2. CASE Brings(c, i)
      <3>1. arrived'[i] = arrived[i] + c.qty
        BY <1>2, <2>1, <2>2 DEF Brings
      <3> QED
        BY <1>1, <2>1, <2>2, <3>1 DEF ItemGain, Brings
    <2>3. CASE ~ Brings(c, i)
      <3>1. ItemGain(c, i) = 0
        BY <2>3 DEF ItemGain
      <3>2. CASE arrived' = arrived
        BY <2>1, <3>1, <3>2
      <3>3. CASE c.qty > 0 /\ arrived' = [arrived EXCEPT ![c.item] = @ + c.qty]
        <4>1. arrived'[i] \in {arrived[i], arrived[i] + c.qty}
          BY <2>1, <3>3
        <4> QED
          BY <1>1, <2>1, <3>1, <3>3, <4>1
      <3> QED
        BY <1>2, <3>2, <3>3
    <2> QED
      BY <2>2, <2>3
  <1>5. ASSUME NEW l \in OutLines
        PROVE  taken'[l] \in Nat /\ taken'[l] >= taken[l] + LineGain(c, l)
               /\ taken'[l] >= taken[l]
    <2>1. taken[l] \in Nat /\ DOMAIN taken = OutLines
      BY <1>1 DEF HistoryOK
    <2>2. CASE c.op = "pick" /\ c.line = l
      <3>1. taken'[l] = taken[l] + c.qty
        BY <1>2, <2>1, <2>2
      <3> QED
        BY <1>3, <2>1, <2>2, <3>1 DEF LineGain
    <2>3. CASE ~ (c.op = "pick" /\ c.line = l)
      <3>1. LineGain(c, l) = 0
        BY <2>3 DEF LineGain
      <3>2. taken'[l] = taken[l]
        BY <1>2, <2>1, <2>3
      <3> QED
        BY <2>1, <3>1, <3>2
    <2> QED
      BY <2>2, <2>3
  <1>6. ASSUME NEW l \in Lines
        PROVE  /\ shelved'[l] \in Nat /\ shelved'[l] >= shelved[l]
               /\ c.op = "putaway" /\ c.line = l => shelved'[l] > 0
    <2>1. shelved[l] \in Nat /\ DOMAIN shelved = Lines
      BY <1>1 DEF HistoryOK
    <2>2. CASE c.op = "putaway" /\ c.line = l
      <3>1. shelved'[l] = shelved[l] + 1
        BY <1>2, <2>1, <2>2
      <3> QED
        BY <2>1, <3>1
    <2>3. CASE ~ (c.op = "putaway" /\ c.line = l)
      <3>1. shelved'[l] = shelved[l]
        BY <1>2, <2>1, <2>3
      <3> QED
        BY <2>1, <2>3, <3>1
    <2> QED
      BY <2>2, <2>3
  <1>7. HistoryOK'
    <2>0. /\ DOMAIN arrived = Items /\ arrived = [i \in Items |-> arrived[i]]
          /\ DOMAIN shelved = Lines /\ shelved = [l \in Lines |-> shelved[l]]
          /\ DOMAIN taken = OutLines /\ taken = [l \in OutLines |-> taken[l]]
      BY <1>1 DEF HistoryOK
    <2>1. /\ arrived' = [i \in Items |-> arrived'[i]]
          /\ shelved' = [l \in Lines |-> shelved'[l]]
          /\ taken' = [l \in OutLines |-> taken'[l]]
      <3>1. arrived' = [i \in Items |-> arrived'[i]]
        BY <1>2, <2>0
      <3>2. shelved' = [l \in Lines |-> shelved'[l]]
        BY <1>2, <2>0
      <3>3. taken' = [l \in OutLines |-> taken'[l]]
        BY <1>2, <2>0
      <3> QED
        BY <3>1, <3>2, <3>3
    <2>2. adjusted' \in [Locations -> Int]
      <3>1. adjusted \in [Locations -> Int]
        BY <1>1 DEF HistoryOK
      <3>2. CASE c.op = "adjust"
        <4>1. c.location \in Locations
          BY <1>1, <3>2 DEF Holds
        <4>2. adjusted[c.location] + c.qty \in Int
          BY <1>1, <3>1, <4>1
        <4>3. adjusted' = [adjusted EXCEPT ![c.location] = adjusted[c.location] + c.qty]
          BY <1>2, <3>2
        <4> HIDE DEF c
        <4> QED
          BY <3>1, <4>2, <4>3
      <3>3. CASE c.op # "adjust"
        BY <1>2, <3>1, <3>3
      <3> QED
        BY <3>2, <3>3
    <2>3. /\ arrived' \in [Items -> Nat] /\ shelved' \in [Lines -> Nat]
          /\ taken' \in [OutLines -> Nat]
      BY <1>4, <1>5, <1>6, <2>1
    <2> QED
      BY <2>2, <2>3 DEF HistoryOK
  <1>8. /\ DOMAIN db' = DOMAIN own[h] \cup DOMAIN db
        /\ \A r \in DOMAIN own[h] : db'[r] = own[h][r]
        /\ \A r \in DOMAIN db \ DOMAIN own[h] : db'[r] = db[r]
    BY <1>2 DEF Over
  <1>9. db' \in Partial /\ DOMAIN own[h] \subseteq Rows /\ DOMAIN db \subseteq Rows
    BY <1>2, OverPartial, PartialRows DEF Inv
  <1>10. Grows
    <2>1. ASSUME NEW l \in OutLines \cap DOMAIN db
          PROVE  db'[l].requested_qty = db[l].requested_qty
      <3>1. CASE l \in DOMAIN own[h]
        BY <1>1, <1>8, <3>1 DEF Written, Earned
      <3>2. CASE l \notin DOMAIN own[h]
        BY <1>8, <3>2
      <3> QED
        BY <3>1, <3>2
    <2>2. ASSUME FixedCapacity, NEW l \in Locations
          PROVE  db'[l].max_capacity = db[l].max_capacity
      <3>1. CASE l \in DOMAIN own[h]
        BY <1>1, <1>8, <2>2, <3>1 DEF Written, Earned
      <3>2. CASE l \notin DOMAIN own[h]
        BY <1>8, <3>2 DEF Inv, DbOK
      <3> QED
        BY <3>1, <3>2
    <2> QED
      BY <1>4, <1>5, <1>6, <1>8, <2>1, <2>2 DEF Grows
  <1>11. DOMAIN own[h] \subseteq DOMAIN db \cup Items
    BY <1>1 DEF Written
  <1>12. ASSUME NEW r \in DOMAIN own[h]
         PROVE  Fits(r, db'[r]) /\ Earned(Idle, r, db[r])'
    <2>1. Fits(r, own[h][r]) /\ Earned(c, r, own[h][r]) /\ r \in Rows /\ db'[r] = own[h][r]
      BY <1>1, <1>8, <1>9 DEF Written
    <2>2. ItemGain(Idle, r) = 0 /\ LineGain(Idle, r) = 0
      BY DEF ItemGain, LineGain, Brings, Idle
    <2>3. CASE r \in Items
      <3>1. own[h][r] \in InventoryItem
        BY <2>1, <2>3, Tables DEF Fits
      <3>2. /\ own[h][r].qty_on_hand \in Int /\ arrived[r] \in Nat
            /\ ItemGain(c, r) \in Int
        BY <1>1, <2>3, <3>1 DEF InventoryItem, HistoryOK, ItemGain
      <3>3. own[h][r].qty_on_hand <= arrived[r] + ItemGain(c, r)
        BY <2>1, <2>3 DEF Earned
      <3>4. own[h][r].qty_on_hand <= arrived'[r] + ItemGain(Idle, r)
        BY <1>4, <2>2, <2>3, <3>2, <3>3
      <3> QED
        BY <2>1, <2>3, <3>4, TableAssumption DEF Earned
    <2>4. CASE r \in OutLines
      <3>1. own[h][r] \in OutboundLine
        BY <2>1, <2>4, Tables DEF Fits
      <3>2. /\ own[h][r].picked_qty \in Nat /\ taken[r] \in Nat
            /\ LineGain(c, r) \in Int
        BY <1>1, <2>4, <3>1 DEF OutboundLine, HistoryOK, LineGain
      <3>3. own[h][r].picked_qty <= taken[r] + LineGain(c, r)
        BY <2>1, <2>4 DEF Earned
      <3>4. own[h][r].picked_qty <= taken'[r] + LineGain(Idle, r)
        BY <1>5, <2>2, <2>4, <3>2, <3>3
      <3>5. own[h][r].requested_qty \in Nat
        BY <3>1 DEF OutboundLine
      <3>6. ASSUME own[h][r].pick_status = "PICKED"
            PROVE  own[h][r].requested_qty <= taken'[r] + LineGain(Idle, r)
        <4>1. own[h][r].requested_qty <= taken[r] + LineGain(c, r)
          BY <2>1, <2>4, <3>6 DEF Earned
        <4> QED
          BY <1>5, <2>2, <2>4, <3>2, <3>5, <4>1
      <3> QED
        BY <2>1, <2>4, <3>4, <3>6, TableAssumption DEF Earned
    <2>5. CASE r \in Lines
      <3>1. \/ own[h][r].putaway_location = NoRow
            \/ shelved[r] > 0
            \/ c.op = "putaway" /\ c.line = r
        BY <2>1, <2>5 DEF Earned
      <3>2. shelved[r] \in Nat
        BY <1>1, <2>5 DEF HistoryOK
      <3>3. own[h][r].putaway_location = NoRow \/ shelved'[r] > 0
        BY <1>6, <2>5, <3>1, <3>2
      <3> QED
        BY <2>1, <2>5, <3>3, TableAssumption DEF Earned
    <2>6. CASE r \notin Items \cup OutLines \cup Lines
      BY <2>1, <2>6 DEF Earned
    <2> QED
      BY <2>1, <2>3, <2>4, <2>5, <2>6
  <1>13. ASSUME NEW r \in DOMAIN db \ DOMAIN own[h]
         PROVE  Fits(r, db'[r]) /\ Earned(Idle, r, db[r])'
    <2>1. Fits(r, db[r]) /\ Earned(Idle, r, db[r]) /\ r \in Rows /\ db'[r] = db[r]
      BY <1>8, <1>9 DEF Inv, DbOK
    <2> QED
      BY <1>1, <1>7, <1>10, <2>1, IdleCall, EarnedGrows
  <1>14. DbOK'
    <2>1. Locations \subseteq DOMAIN db'
      BY <1>8 DEF Inv, DbOK
    <2>2. \A l \in Lines \cap DOMAIN db' : ReceiptOf[l] \in DOMAIN db'
      BY <1>8, <1>11, TableAssumption DEF Inv, DbOK
    <2>3. \A l \in OutLines \cap DOMAIN db' : OrderOf[l] \in DOMAIN db'
      BY <1>8, <1>11, TableAssumption DEF Inv, DbOK
    <2>4. ASSUME NEW r \in DOMAIN db'
          PROVE  Fits(r, db'[r]) /\ Earned(Idle, r, db[r])'
      BY <1>8, <1>12, <1>13
    <2> QED
      BY <2>1, <2>2, <2>3, <2>4 DEF DbOK
  <1>15. own' \in [Handlers -> Partial] /\ own'[h] = <<>>
         /\ \A g \in Handlers \ {h} : own'[g] = own[g]
    BY <1>2, EmptyPartial DEF Inv
  <1>16. call' \in [Handlers -> Calls] /\ call'[h] = Idle
         /\ \A g \in Handlers \ {h} : call'[g] = call[g]
    BY <1>2, IdleCall DEF Inv
  <1>17. ASSUME NEW g \in Handlers
         PROVE  CallOK(g, call[g])'
    <2>1. CASE g = h
      <3>1. own'[h] = <<>>
        BY <1>15
      <3>2. CallOK(h, Idle)'
        BY <3>1, IdleCall, NoRows DEF CallOK, Holds, DirtyOK, Loaded, Written, Idle
      <3> QED
        BY <1>16, <2>1, <3>2
    <2>2. CASE g # h
      BY <1>7, <1>10, <1>15, <1>16, <2>2, OtherCalls
    <2> QED
      BY <2>1, <2>2
  <1> QED
    BY <1>7, <1>9, <1>14, <1>15, <1>16, <1>17 DEF Inv

\* A step that only adds rows, which claim no movement.
LEMMA CreateStep ==
  ASSUME Inv, NEW new \in Partial, DOMAIN new \cap DOMAIN db = {},
         db' = Over(new, db), UNCHANGED <<own, call, history>>,
         \A r \in DOMAIN new :
           /\ r \notin Items /\ Fits(r, new[r])
           /\ r \in OutLines => /\ new[r].picked_qty = 0 /\ OrderOf[r] \in DOMAIN new
                                /\ new[r].pick_status = "PENDING"
           /\ r \in Lines => new[r].putaway_location = NoRow /\ ReceiptOf[r] \in DOMAIN new
  PROVE  Inv'
  <1>1. /\ DOMAIN db' = DOMAIN new \cup DOMAIN db
        /\ \A r \in DOMAIN new : db'[r] = new[r]
        /\ \A r \in DOMAIN db : db'[r] = db[r]
    BY DEF Over
  <1>2. db' \in Partial /\ DOMAIN new \subseteq Rows /\ DOMAIN db \subseteq Rows
    BY OverPartial, PartialRows DEF Inv
  <1>3. HistoryOK /\ HistoryOK'
    BY DEF Inv, HistoryOK, history
  <1>4. Grows
    <2>1. \A l \in Locations : db'[l] = db[l]
      BY <1>1 DEF Inv, DbOK
    <2> QED
      BY <1>1, <1>3, <2>1 DEF Grows, HistoryOK, history
  <1>5. ASSUME NEW r \in DOMAIN new
        PROVE  Fits(r, db'[r]) /\ Earned(Idle, r, db[r])'
    <2>1. Fits(r, new[r]) /\ db'[r] = new[r] /\ r \in Rows /\ r \notin Items
      BY <1>1, <1>2
    <2>2. CASE r \in OutLines
      <3>1. /\ taken'[r] \in Nat /\ LineGain(Idle, r) = 0
            /\ new[r].picked_qty = 0 /\ new[r].pick_status # "PICKED"
        BY <1>3, <2>2 DEF HistoryOK, LineGain, Idle
      <3>2. new[r].picked_qty <= taken'[r] + LineGain(Idle, r)
        BY <3>1
      <3> QED
        BY <2>1, <2>2, <3>1, <3>2, TableAssumption DEF Earned
    <2>3. CASE r \in Lines
      BY <2>1, <2>3, TableAssumption DEF Earned
    <2>4. CASE r \notin OutLines \cup Lines
      BY <2>1, <2>4 DEF Earned
    <2> QED
      BY <2>1, <2>2, <2>3, <2>4
  <1>6. ASSUME NEW r \in DOMAIN db
        PROVE  Fits(r, db'[r]) /\ Earned(Idle, r, db[r])'
    <2>1. Fits(r, db[r]) /\ Earned(Idle, r, db[r]) /\ r \in Rows /\ db'[r] = db[r]
      BY <1>1, <1>2 DEF Inv, DbOK
    <2> QED
      BY <1>3, <1>4, <2>1, IdleCall, EarnedGrows
  <1>7. DbOK'
    <2>1. Locations \subseteq DOMAIN db'
      BY <1>1 DEF Inv, DbOK
    <2>2. \A l \in Lines \cap DOMAIN db' : ReceiptOf[l] \in DOMAIN db'
      BY <1>1 DEF Inv, DbOK
    <2>3. \A l \in OutLines \cap DOMAIN db' : OrderOf[l] \in DOMAIN db'
      BY <1>1 DEF Inv, DbOK
    <2>4. ASSUME NEW r \in DOMAIN db'
          PROVE  Fits(r, db'[r]) /\ Earned(Idle, r, db[r])'
      BY <1>1, <1>5, <1>6
    <2> QED
      BY <2>1, <2>2, <2>3, <2>4 DEF DbOK
  <1>8. \A g \in Handlers : CallOK(g, call[g])'
    BY <1>3, <1>4, OtherCalls
  <1>9. own' \in [Handlers -> Partial] /\ call' \in [Handlers -> Calls]
    BY DEF Inv
  <1> QED
    BY <1>2, <1>3, <1>7, <1>8, <1>9 DEF Inv

LEMMA CreateReceiptStep ==
  ASSUME Inv, NEW rc \in Receipts, CreateReceipt(rc)
  PROVE  Inv'
  <1>1. PICK ls \in SUBSET {l \in Lines : ReceiptOf[l] = rc} :
        \E received \in [ls -> LineQtys] :
          db' = Over([r \in ls \cup {rc} |->
                        IF r = rc THEN [status |-> "PENDING"]
                        ELSE [received_qty |-> received[r], accepted_qty |-> 0,
                              rejected_qty |-> 0, qc_status |-> "PENDING",
                              putaway_location |-> NoRow]], db)
    BY DEF CreateReceipt
  <1>2. PICK received \in [ls -> LineQtys] :
          db' = Over([r \in ls \cup {rc} |->
                        IF r = rc THEN [status |-> "PENDING"]
                        ELSE [received_qty |-> received[r], accepted_qty |-> 0,
                              rejected_qty |-> 0, qc_status |-> "PENDING",
                              putaway_location |-> NoRow]], db)
    BY <1>1
  <1> DEFINE new == [r \in ls \cup {rc} |->
                       IF r = rc THEN [status |-> "PENDING"]
                       ELSE [received_qty |-> received[r], accepted_qty |-> 0,
                             rejected_qty |-> 0, qc_status |-> "PENDING",
                             putaway_location |-> NoRow]]
  <1>3. rc \notin DOMAIN db /\ UNCHANGED <<own, call, history>> /\ db' = Over(new, db)
    BY <1>2 DEF CreateReceipt
  <1>4. /\ rc \in Rows /\ rc \notin Items \cup Lines \cup OutLines \cup Locations
        /\ \A l \in ls : /\ l \in Rows /\ l \in Lines /\ ReceiptOf[l] = rc
                         /\ l \notin Items \cup OutLines \cup Locations
    BY TableAssumption DEF Rows
  <1>5. DOMAIN new = ls \cup {rc}
    OBVIOUS
  <1>6. new[rc] \in [status : InboundStatus]
    BY DEF InboundStatus
  <1>7. ASSUME NEW l \in ls
        PROVE  new[l] \in InboundLine /\ new[l].putaway_location = NoRow
    <2>1. l # rc /\ received[l] \in Nat
      BY <1>4, BoundAssumption
    <2> QED
      BY <2>1 DEF InboundLine, QcStatus
  <1> HIDE DEF new
  <1>8. Fits(rc, new[rc])
    BY <1>4, <1>6, Tables DEF Fits
  <1>9. \A l \in ls : Fits(l, new[l])
    BY <1>4, <1>7, Tables DEF Fits
  <1>10. new \in Partial
    <2>1. \A r \in DOMAIN new : r \in Rows /\ new[r] \in AnyRow
      BY <1>4, <1>5, <1>8, <1>9 DEF Fits, AnyRow
    <2>2. new = [r \in DOMAIN new |-> new[r]]
      BY DEF new
    <2>3. new \in [DOMAIN new -> AnyRow] /\ DOMAIN new \in SUBSET Rows
      BY <2>1, <2>2
    <2> QED
      BY <2>3 DEF Partial
  <1>11. DOMAIN new \cap DOMAIN db = {}
    BY <1>3, <1>4, <1>5 DEF Inv, DbOK
  <1> QED
    BY <1>3, <1>4, <1>5, <1>7, <1>8, <1>9, <1>10, <1>11, CreateStep

LEMMA CreateOrderStep ==
  ASSUME Inv, NEW o \in Orders, CreateOrder(o)
  PROVE  Inv'
  <1>1. PICK ls \in SUBSET {l \in OutLines : OrderOf[l] = o} :
        \E requested \in [ls -> LineQtys \ {0}] :
          db' = Over([r \in ls \cup {o} |->
                        IF r = o THEN [status |-> "PENDING"]
                        ELSE [requested_qty |-> requested[r], picked_qty |-> 0,
                              pick_status |-> "PENDING"]], db)
    BY DEF CreateOrder
  <1>2. PICK requested \in [ls -> LineQtys \ {0}] :
          db' = Over([r \in ls \cup {o} |->
                        IF r = o THEN [status |-> "PENDING"]
                        ELSE [requested_qty |-> requested[r], picked_qty |-> 0,
                              pick_status |-> "PENDING"]], db)
    BY <1>1
  <1> DEFINE new == [r \in ls \cup {o} |->
                       IF r = o THEN [status |-> "PENDING"]
                       ELSE [requested_qty |-> requested[r], picked_qty |-> 0,
                             pick_status |-> "PENDING"]]
  <1>3. o \notin DOMAIN db /\ UNCHANGED <<own, call, history>> /\ db' = Over(new, db)
    BY <1>2 DEF CreateOrder
  <1>4. /\ o \in Rows /\ o \notin Items \cup Lines \cup OutLines \cup Locations
        /\ \A l \in ls : /\ l \in Rows /\ l \in OutLines /\ OrderOf[l] = o
                         /\ l \notin Items \cup Lines \cup Locations
    BY TableAssumption DEF Rows
  <1>5. DOMAIN new = ls \cup {o}
    OBVIOUS
  <1>6. new[o] \in [status : OutboundStatus]
    BY DEF OutboundStatus
  <1>7. ASSUME NEW l \in ls
        PROVE  /\ new[l] \in OutboundLine /\ new[l].picked_qty = 0
               /\ new[l].pick_status = "PENDING"
               /\ new[l].picked_qty <= new[l].requested_qty
    <2>1. l # o /\ requested[l] \in Nat
      BY <1>4, BoundAssumption
    <2> QED
      BY <2>1 DEF OutboundLine, PickStatus
  <1> HIDE DEF new
  <1>8. Fits(o, new[o])
    BY <1>4, <1>6, Tables DEF Fits
  <1>9. \A l \in ls : Fits(l, new[l])
    BY <1>4, <1>7, Tables DEF Fits
  <1>10. new \in Partial
    <2>1. \A r \in DOMAIN new : r \in Rows /\ new[r] \in AnyRow
      BY <1>4, <1>5, <1>8, <1>9 DEF Fits, AnyRow
    <2>2. new = [r \in DOMAIN new |-> new[r]]
      BY DEF new
    <2>3. new \in [DOMAIN new -> AnyRow] /\ DOMAIN new \in SUBSET Rows
      BY <2>1, <2>2
    <2> QED
      BY <2>3 DEF Partial
  <1>11. DOMAIN new \cap DOMAIN db = {}
    BY <1>3, <1>4, <1>5 DEF Inv, DbOK
  <1> QED
    BY <1>3, <1>4, <1>5, <1>7, <1>8, <1>9, <1>10, <1>11, CreateStep

-----------------------------------------------------------------------------
(* The first reads of the methods *)

LEMMA BeginStep ==
  ASSUME Inv, NEW h \in Handlers, call[h].op = "none",
         NEW c \in Calls, c.op # "none", c.dirty = {}, Holds(c),
         \A r \in DOMAIN c.entity :
           r \in DOMAIN db /\ Fits(r, c.entity[r]) /\ Earned(c, r, c.entity[r]),
         call' = [call EXCEPT ![h] = c], UNCHANGED <<db, own, history>>
  PROVE  Inv'
  <1>1. own[h] = <<>>
    BY DEF Inv, CallOK
  <1>2. Loaded(h, c)
    <2>1. DOMAIN db \subseteq DOMAIN Over(own[h], db)
      BY DEF Over
    <2> QED
      BY <2>1 DEF Loaded
  <1>3. Written(h, c)
    BY <1>1, NoRows DEF Written
  <1>4. CallOK(h, c)
    BY <1>1, <1>2, <1>3 DEF CallOK, DirtyOK
  <1> QED
    BY <1>4, PrivateStep

\* A committed row is well-formed and explained to a call that begins.
LEMMA DbRow ==
  ASSUME Inv, NEW r \in DOMAIN db, NEW c \in Calls, c.at = 1
  PROVE  r \in Rows /\ Fits(r, db[r]) /\ Earned(c, r, db[r])
  <1>1. r \in Rows
    BY PartialRows DEF Inv
  <1>2. Fits(r, db[r]) /\ Earned(Idle, r, db[r])
    BY DEF Inv, DbOK
  <1>3. ItemGain(Idle, r) = 0 /\ LineGain(Idle, r) = 0 /\ LineGain(c, r) = 0
    BY DEF ItemGain, LineGain, Brings, Idle
  <1>4. ItemGain(c, r) >= 0
    BY DEF ItemGain, Brings, Calls
  <1>5. Idle.op # "putaway"
    BY DEF Idle
  <1> QED
    BY <1>1, <1>2, <1>3, <1>4, <1>5, IdleCall, EarnedMore DEF Inv

LEMMA PutawayStep ==
  ASSUME Inv, NEW h \in Handlers, NEW ln \in Lines, NEW loc \in Locations,
         Putaway(h, ln, loc)
  PROVE  Inv'
  <1> DEFINE rc == ReceiptOf[ln]
             f == [r \in {ln, rc} |-> db[r]]
             c == [Idle EXCEPT !.op = "putaway", !.at = 1, !.line = ln, !.header = rc,
                               !.location = loc, !.qty = db[ln].accepted_qty, !.entity = f]
  <1>1. /\ call[h].op = "none" /\ ln \in DOMAIN db
        /\ call' = [call EXCEPT ![h] = c] /\ UNCHANGED <<db, own, history>>
    BY DEF Putaway, Start
  <1>2. rc \in DOMAIN db /\ rc \in Receipts
    BY <1>1, TableAssumption DEF Inv, DbOK
  <1>3. db[ln] \in InboundLine
    BY <1>1, Tables DEF Inv, DbOK, Fits
  <1>4. db[ln].accepted_qty \in Nat
    BY <1>3 DEF InboundLine
  <1>5. f \in Partial /\ DOMAIN f = {ln, rc} /\ \A r \in {ln, rc} : f[r] = db[r]
    BY <1>1, <1>2, RestrictPartial DEF Inv
  <1> HIDE DEF f
  <1>6. /\ c.op = "putaway" /\ c.at = 1 /\ c.line = ln /\ c.header = rc
        /\ c.location = loc /\ c.item = NoRow /\ c.qty = db[ln].accepted_qty
        /\ c.entity = f /\ c.dirty = {}
    BY DEF Idle
  <1>7. c \in Calls
    <2>1. "putaway" \in DOMAIN Program /\ 1 \in Nat /\ db[ln].accepted_qty \in Int
      BY <1>4, Stages
    <2> QED
      BY <1>2, <1>5, <2>1, IdleCall DEF Calls
  <1> HIDE DEF c
  <1>8. Holds(c)
    BY <1>2, <1>4, <1>5, <1>6 DEF Holds
  <1>9. ASSUME NEW r \in DOMAIN c.entity
        PROVE  r \in DOMAIN db /\ Fits(r, c.entity[r]) /\ Earned(c, r, c.entity[r])
    BY <1>1, <1>2, <1>5, <1>6, <1>7, DbRow
  <1> QED
    BY <1>1, <1>6, <1>7, <1>8, <1>9, BeginStep

LEMMA PickStep ==
  ASSUME Inv, NEW h \in Handlers, NEW ol \in OutLines, NEW loc \in Locations,
         NEW qty \in Quantities, Pick(h, ol, loc, qty)
  PROVE  Inv'
  <1> DEFINE o == OrderOf[ol]
             f == [r \in {ol, o} |-> db[r]]
             c == [Idle EXCEPT !.op = "pick", !.at = 1, !.line = ol, !.header = o,
                               !.location = loc, !.qty = qty, !.entity = f]
  <1>1. /\ call[h].op = "none" /\ ol \in DOMAIN db
        /\ qty <= db[ol].requested_qty - db[ol].picked_qty
        /\ call' = [call EXCEPT ![h] = c] /\ UNCHANGED <<db, own, history>>
    BY DEF Pick, Start
  <1>2. o \in DOMAIN db /\ o \in Orders
    BY <1>1, TableAssumption DEF Inv, DbOK
  <1>3. db[ol] \in OutboundLine
    BY <1>1, Tables DEF Inv, DbOK, Fits
  <1>4. /\ db[ol].requested_qty \in Nat /\ db[ol].picked_qty \in Nat /\ qty \in Nat
        /\ taken[ol] \in Nat
    BY <1>3, BoundAssumption DEF OutboundLine, Inv, HistoryOK
  <1>5. f \in Partial /\ DOMAIN f = {ol, o} /\ \A r \in {ol, o} : f[r] = db[r]
    BY <1>1, <1>2, RestrictPartial DEF Inv
  <1> HIDE DEF f
  <1>6. /\ c.op = "pick" /\ c.at = 1 /\ c.line = ol /\ c.header = o
        /\ c.location = loc /\ c.item = NoRow /\ c.qty = qty
        /\ c.entity = f /\ c.dirty = {}
    BY DEF Idle
  <1>7. c \in Calls
    <2>1. "pick" \in DOMAIN Program /\ 1 \in Nat /\ qty \in Int
      BY <1>4, Stages
    <2> QED
      BY <1>2, <1>5, <2>1, IdleCall DEF Calls
  <1> HIDE DEF c
  <1>8. Holds(c)
    <2>1. db[ol].picked_qty <= taken[ol]
      <3>1. Earned(Idle, ol, db[ol]) /\ LineGain(Idle, ol) = 0
        BY <1>1 DEF Inv, DbOK, LineGain, Idle
      <3> QED
        BY <1>4, <3>1 DEF Earned
    <2>2. db[ol].picked_qty + qty <= db[ol].requested_qty
      BY <1>1, <1>4
    <2> QED
      BY <1>2, <1>4, <1>5, <1>6, <2>1, <2>2 DEF Holds
  <1>9. ASSUME NEW r \in DOMAIN c.entity
        PROVE  r \in DOMAIN db /\ Fits(r, c.entity[r]) /\ Earned(c, r, c.entity[r])
    BY <1>1, <1>2, <1>5, <1>6, <1>7, DbRow
  <1> QED
    BY <1>1, <1>6, <1>7, <1>8, <1>9, BeginStep

LEMMA TransferStep ==
  ASSUME Inv, NEW h \in Handlers, NEW from \in Locations, NEW to \in Locations,
         NEW qty \in Quantities, Transfer(h, from, to, qty)
  PROVE  Inv'
  <1>1. PICK i \in ItemsSeen(h, from) :
          /\ db[i].qty_on_hand >= qty
          /\ call' = [call EXCEPT ![h] =
               [Idle EXCEPT !.op = "transfer", !.at = 1, !.location = to, !.item = i,
                            !.qty = qty,
                            !.entity = [r \in {i} |->
                               [db[i] EXCEPT !.qty_on_hand = @ - qty]]]]
    BY DEF Transfer
  <1> DEFINE e == [db[i] EXCEPT !.qty_on_hand = @ - qty]
             f == [r \in {i} |-> e]
             c == [Idle EXCEPT !.op = "transfer", !.at = 1, !.location = to, !.item = i,
                               !.qty = qty, !.entity = f]
  <1>2. /\ call[h].op = "none"
        /\ call' = [call EXCEPT ![h] = c] /\ UNCHANGED <<db, own, history>>
    BY <1>1 DEF Transfer, Start
  <1>3. i \in Items /\ i \in DOMAIN db
    <2>1. own[h] = <<>>
      BY <1>2 DEF Inv, CallOK
    <2> QED
      BY <2>1, SeenOK, NoRows DEF ItemsSeen
  <1>4. /\ db[i] \in InventoryItem /\ db[i].qty_on_hand \in Int /\ qty \in Nat
        /\ arrived[i] \in Nat /\ db[i].qty_on_hand <= arrived[i]
    <2>1. Fits(i, db[i]) /\ Earned(Idle, i, db[i])
      BY <1>3 DEF Inv, DbOK
    <2>2. db[i] \in InventoryItem
      BY <1>3, <2>1, Tables DEF Fits
    <2>3. ItemGain(Idle, i) = 0
      BY DEF ItemGain, Brings, Idle
    <2>4. db[i].qty_on_hand \in Int
      BY <2>2 DEF InventoryItem
    <2>5. arrived[i] \in Nat
      BY <1>3 DEF Inv, HistoryOK
    <2> QED
      BY <1>3, <2>1, <2>2, <2>3, <2>4, <2>5, BoundAssumption DEF Earned
  <1>5. e \in InventoryItem /\ e.qty_on_hand = db[i].qty_on_hand - qty
    <2>1. qty \in Int
      BY <1>4
    <2> QED
      BY <1>4, <2>1, ItemChange
  <1> HIDE DEF e
  <1>6. f \in Partial /\ DOMAIN f = {i} /\ f[i] = e
    BY <1>3, <1>5, SinglePartial, Tables DEF Rows
  <1> HIDE DEF f
  <1>7. /\ c.op = "transfer" /\ c.at = 1 /\ c.line = NoRow /\ c.header = NoRow
        /\ c.location = to /\ c.item = i /\ c.qty = qty
        /\ c.entity = f /\ c.dirty = {}
    BY DEF Idle
  <1>8. c \in Calls
    <2>1. "transfer" \in DOMAIN Program /\ 1 \in Nat /\ qty \in Int
      BY <1>4, Stages
    <2> QED
      BY <1>3, <1>6, <2>1, IdleCall DEF Calls
  <1> HIDE DEF c
  <1>9. Holds(c)
    BY <1>4, <1>6, <1>7 DEF Holds
  <1>10. Fits(i, e) /\ Earned(c, i, e)
    <2>1. ItemGain(c, i) = 0
      BY <1>7 DEF ItemGain, Brings
    <2>2. e.qty_on_hand >= 0 /\ e.qty_on_hand <= arrived[i] + ItemGain(c, i)
      BY <1>1, <1>4, <1>5, <2>1
    <2> QED
      BY <1>3, <1>5, <2>2, ItemFits
  <1> QED
    BY <1>2, <1>3, <1>6, <1>7, <1>8, <1>9, <1>10, BeginStep

LEMMA AdjustStep ==
  ASSUME Inv, NEW h \in Handlers, NEW loc \in Locations, NEW qty \in Int,
         Adjust(h, loc, qty)
  PROVE  Inv'
  <1>1. PICK i \in FindItem(h, loc) :
          /\ i = NoRow => qty >= 0
          /\ i # NoRow => db[i].qty_on_hand + qty >= 0
          /\ call' = [call EXCEPT ![h] =
               [Idle EXCEPT !.op = "adjust", !.at = 1, !.location = loc, !.item = i,
                            !.qty = qty,
                            !.entity = IF i = NoRow THEN <<>> ELSE [r \in {i} |->
                               [db[i] EXCEPT !.qty_on_hand = @ + qty]]]]
    BY DEF Adjust
  <1> DEFINE e == [db[i] EXCEPT !.qty_on_hand = @ + qty]
             f == IF i = NoRow THEN <<>> ELSE [r \in {i} |-> e]
             c == [Idle EXCEPT !.op = "adjust", !.at = 1, !.location = loc, !.item = i,
                               !.qty = qty, !.entity = f]
  <1>2. /\ call[h].op = "none"
        /\ call' = [call EXCEPT ![h] = c] /\ UNCHANGED <<db, own, history>>
    BY <1>1 DEF Adjust, Start
  <1>3. i = NoRow \/ i \in Items \cap DOMAIN db
    <2>1. own[h] = <<>>
      BY <1>2 DEF Inv, CallOK
    <2> QED
      BY <2>1, SeenOK, NoRows DEF FindItem, ItemsSeen
  <1>4. ASSUME i # NoRow
        PROVE  /\ db[i].qty_on_hand \in Int /\ arrived[i] \in Nat
               /\ db[i].qty_on_hand <= arrived[i]
               /\ e \in InventoryItem /\ e.qty_on_hand = db[i].qty_on_hand + qty
    <2>1. Fits(i, db[i]) /\ Earned(Idle, i, db[i])
      BY <1>3, <1>4 DEF Inv, DbOK
    <2>2. db[i] \in InventoryItem
      BY <1>3, <1>4, <2>1, Tables DEF Fits
    <2>3. ItemGain(Idle, i) = 0
      BY DEF ItemGain, Brings, Idle
    <2>4. db[i].qty_on_hand \in Int
      BY <2>2 DEF InventoryItem
    <2>5. arrived[i] \in Nat
      BY <1>3, <1>4 DEF Inv, HistoryOK
    <2>6. e \in InventoryItem /\ e.qty_on_hand = db[i].qty_on_hand + qty
      BY <2>2, ItemChange
    <2> QED
      BY <1>3, <1>4, <2>1, <2>3, <2>4, <2>5, <2>6 DEF Earned
  <1> HIDE DEF e
  <1>5. f \in Partial /\ DOMAIN f = {i} \ {NoRow} /\ (i # NoRow => f[i] = e)
    <2>1. CASE i = NoRow
      BY <2>1, EmptyPartial, NoRows
    <2>2. CASE i # NoRow
      <3>1. i \in Rows /\ e \in Table(i)
        BY <1>3, <1>4, <2>2, Tables DEF Rows
      <3>2. [r \in {i} |-> e] \in Partial
        BY <3>1, SinglePartial
      <3> QED
        BY <2>2, <3>2
    <2> QED
      BY <2>1, <2>2
  <1> HIDE DEF f
  <1>6. /\ c.op = "adjust" /\ c.at = 1 /\ c.location = loc /\ c.item = i /\ c.qty = qty
        /\ c.entity = f /\ c.dirty = {}
    BY DEF Idle
  <1>7. c \in Calls
    <2>1. "adjust" \in DOMAIN Program /\ 1 \in Nat
      BY Stages
    <2> QED
      BY <1>3, <1>5, <2>1, IdleCall DEF Calls
  <1> HIDE DEF c
  <1>8. Holds(c)
    BY <1>1, <1>5, <1>6 DEF Holds
  <1>9. ASSUME i # NoRow
        PROVE  i \in DOMAIN db /\ Fits(i, e) /\ Earned(c, i, e)
    <2>1. ItemGain(c, i) = IF qty > 0 THEN qty ELSE 0
      BY <1>6 DEF ItemGain, Brings
    <2>2. e.qty_on_hand >= 0 /\ e.qty_on_hand <= arrived[i] + ItemGain(c, i)
      BY <1>1, <1>4, <1>9, <2>1
    <2> QED
      BY <1>3, <1>4, <1>9, <2>2, ItemFits
  <1> QED
    BY <1>2, <1>5, <1>6, <1>7, <1>8, <1>9, BeginStep

LEMMA QcStep ==
  ASSUME Inv, NEW h \in Handlers, NEW ln \in Lines, NEW status \in QcStatus,
         NEW accepted \in Nat, NEW rejected \in Nat,
         UpdateQcResult(h, ln, status, accepted, rejected)
  PROVE  Inv'
  <1> DEFINE e == [db[ln] EXCEPT !.qc_status = status, !.accepted_qty = accepted,
                                 !.rejected_qty = rejected]
             f == [r \in {ln} |-> e]
             c == [Idle EXCEPT !.op = "qc", !.at = 1, !.line = ln, !.entity = f]
  <1>1. /\ call[h].op = "none" /\ ln \in DOMAIN db
        /\ call' = [call EXCEPT ![h] = c] /\ UNCHANGED <<db, own, history>>
    BY DEF UpdateQcResult, Start
  <1>2. /\ ln \in Rows /\ ln \notin Items \cup OutLines \cup Locations
    BY TableAssumption DEF Rows
  <1>3. Fits(ln, db[ln]) /\ Earned(Idle, ln, db[ln])
    BY <1>1 DEF Inv, DbOK
  <1>4. db[ln] \in InboundLine
    BY <1>3, Tables DEF Fits
  <1>5. e \in InboundLine /\ e.putaway_location = db[ln].putaway_location
    BY <1>4 DEF InboundLine
  <1> HIDE DEF e
  <1>6. e \in Table(ln) /\ Fits(ln, e)
    BY <1>2, <1>5, Tables DEF Fits
  <1>7. f \in Partial /\ DOMAIN f = {ln} /\ f[ln] = e
    BY <1>2, <1>6, SinglePartial
  <1> HIDE DEF f
  <1>8. c.op = "qc" /\ c.at = 1 /\ c.line = ln /\ c.entity = f /\ c.dirty = {}
    BY DEF Idle
  <1>9. c \in Calls
    <2>1. "qc" \in DOMAIN Program /\ 1 \in Nat
      BY Stages
    <2> QED
      BY <1>7, <2>1, IdleCall DEF Calls
  <1> HIDE DEF c
  <1>10. Holds(c)
    BY <1>7, <1>8 DEF Holds
  <1>11. Earned(c, ln, e)
    BY <1>2, <1>3, <1>5 DEF Earned, Idle
  <1> QED
    BY <1>1, <1>6, <1>7, <1>8, <1>9, <1>10, <1>11, BeginStep

LEMMA StatusStep ==
  ASSUME Inv, NEW h \in Handlers, call[h].op = "none", NEW final, NEW status,
         NEW header, UpdateStatus(h, header, final, status),
         \/ header \in Receipts /\ status \in InboundStatus
         \/ header \in Orders /\ status \in OutboundStatus
  PROVE  Inv'
  <1> DEFINE e == [status |-> status]
             f == [r \in {header} |-> e]
             c == [Idle EXCEPT !.op = "status", !.at = 1, !.header = header, !.entity = f]
  <1>1. /\ header \in DOMAIN db
        /\ call' = [call EXCEPT ![h] = c] /\ UNCHANGED <<db, own, history>>
    BY DEF UpdateStatus
  <1>2. /\ header \in Rows /\ header \notin Items \cup Lines \cup OutLines \cup Locations
    BY TableAssumption DEF Rows
  <1>3. e \in Table(header)
    BY Tables
  <1> HIDE DEF e
  <1>4. Fits(header, e)
    BY <1>2, <1>3 DEF Fits
  <1>5. f \in Partial /\ DOMAIN f = {header} /\ f[header] = e
    BY <1>2, <1>3, SinglePartial
  <1> HIDE DEF f
  <1>6. c.op = "status" /\ c.at = 1 /\ c.header = header /\ c.entity = f /\ c.dirty = {}
    BY DEF Idle
  <1>7. c \in Calls
    <2>1. "status" \in DOMAIN Program /\ 1 \in Nat
      BY Stages
    <2> QED
      BY <1>5, <2>1, IdleCall DEF Calls
  <1> HIDE DEF c
  <1>8. Holds(c)
    BY <1>5, <1>6 DEF Holds
  <1>9. Earned(c, header, e)
    BY <1>2 DEF Earned
  <1> QED
    BY <1>1, <1>4, <1>5, <1>6, <1>7, <1>8, <1>9, BeginStep

LEMMA LocationStep ==
  ASSUME Inv, NEW h \in Handlers, NEW loc \in Locations, NEW status \in LocationStatus,
         NEW capacity \in Capacities, UpdateLocation(h, loc, status, capacity)
  PROVE  Inv'
  <1> DEFINE e == [db[loc] EXCEPT !.status = status, !.max_capacity = capacity]
             f == [r \in {loc} |-> e]
             c == [Idle EXCEPT !.op = "location", !.at = 1, !.location = loc, !.entity = f]
  <1>1. /\ call[h].op = "none" /\ loc \in DOMAIN db
        /\ call' = [call EXCEPT ![h] = c] /\ UNCHANGED <<db, own, history>>
    BY DEF UpdateLocation, Start, Inv, DbOK
  <1>2. /\ loc \in Rows /\ loc \notin Items \cup OutLines \cup Lines
    BY TableAssumption DEF Rows
  <1>3. Fits(loc, db[loc])
    BY <1>1 DEF Inv, DbOK
  <1>0. FixedCapacity => db[loc].max_capacity = capacity
    BY <1>3 DEF Fits, FixedCapacity, UpdateLocation, Start
  <1>4. db[loc] \in Location /\ capacity \in Nat
    BY <1>3, Tables, BoundAssumption DEF Fits
  <1>5. /\ e \in Location /\ e.max_capacity = capacity
        /\ e.current_qty = db[loc].current_qty
    BY <1>4 DEF Location
  <1> HIDE DEF e
  <1>6. e \in Table(loc)
    BY <1>5, Tables
  <1>7. Fits(loc, e)
    BY <1>0, <1>2, <1>3, <1>5, <1>6 DEF Fits
  <1>8. f \in Partial /\ DOMAIN f = {loc} /\ f[loc] = e
    BY <1>2, <1>6, SinglePartial
  <1> HIDE DEF f
  <1>9. c.op = "location" /\ c.at = 1 /\ c.location = loc /\ c.entity = f /\ c.dirty = {}
    BY DEF Idle
  <1>10. c \in Calls
    <2>1. "location" \in DOMAIN Program /\ 1 \in Nat
      BY Stages
    <2> QED
      BY <1>8, <2>1, IdleCall DEF Calls
  <1> HIDE DEF c
  <1>11. Holds(c)
    BY <1>8, <1>9 DEF Holds
  <1>12. Earned(c, loc, e)
    BY <1>0, <1>2, <1>5 DEF Earned
  <1> QED
    BY <1>1, <1>7, <1>8, <1>9, <1>10, <1>11, <1>12, BeginStep

-----------------------------------------------------------------------------
(* The theorems *)

LEMMA InitInv == Init => Inv
  <1> SUFFICES ASSUME Init PROVE Inv
    OBVIOUS
  <1>1. PICK capacity \in [Locations -> Capacities] :
          db = [l \in Locations |-> [status |-> "ACTIVE", current_qty |-> 0,
                                     max_capacity |-> capacity[l]]]
    BY DEF Init
  <1>2. /\ own = [h \in Handlers |-> <<>>]
        /\ call = [h \in Handlers |-> Idle]
        /\ arrived = [i \in Items |-> 0]
        /\ shelved = [l \in Lines |-> 0]
        /\ taken = [l \in OutLines |-> 0]
        /\ adjusted = [l \in Locations |-> 0]
    BY DEF Init
  <1>3. ASSUME NEW l \in Locations
        PROVE  /\ db[l] \in Location /\ db[l].max_capacity \in Capacities
               /\ db[l].max_capacity \in Nat /\ db[l].current_qty = 0
    <2>1. capacity[l] \in Capacities /\ capacity[l] \in Nat
      BY BoundAssumption
    <2> QED
      BY <1>1, <2>1 DEF Location, LocationStatus
  <1>4. DOMAIN db = Locations /\ Locations \subseteq Rows
    BY <1>1 DEF Rows
  <1>5. \A l \in Locations : l \notin Items \cup OutLines \cup Lines
    BY TableAssumption
  <1>6. ASSUME NEW l \in Locations
        PROVE  Fits(l, db[l]) /\ Earned(Idle, l, db[l])
    BY <1>3, <1>5, Tables DEF Fits, Earned
  <1>7. db \in Partial
    <2>1. db = [l \in Locations |-> db[l]]
      BY <1>1
    <2>2. \A l \in Locations : db[l] \in AnyRow
      BY <1>4, <1>6 DEF Fits, AnyRow
    <2>3. db \in [Locations -> AnyRow] /\ Locations \in SUBSET Rows
      BY <1>4, <2>1, <2>2
    <2> QED
      BY <2>3 DEF Partial
  <1>8. DbOK
    BY <1>4, <1>5, <1>6 DEF DbOK
  <1>9. HistoryOK
    BY <1>2 DEF HistoryOK
  <1>10. own \in [Handlers -> Partial] /\ call \in [Handlers -> Calls]
    BY <1>2, EmptyPartial, IdleCall
  <1>11. \A h \in Handlers : CallOK(h, call[h])
    BY <1>2, IdleOK
  <1> QED
    BY <1>7, <1>8, <1>9, <1>10, <1>11 DEF Inv

LEMMA BeginInv ==
  ASSUME Inv, NEW h \in Handlers, Begin(h)
  PROVE  Inv'
  <1>1. CASE \E ln \in Lines, loc \in Locations : Putaway(h, ln, loc)
    BY <1>1, PutawayStep
  <1>2. CASE \E ol \in OutLines, loc \in Locations, q \in Quantities : Pick(h, ol, loc, q)
    BY <1>2, PickStep
  <1>3. CASE \E from, to \in Locations, q \in Quantities : Transfer(h, from, to, q)
    BY <1>3, TransferStep
  <1>4. CASE \E loc \in Locations, q \in Quantities \cup {0 - n : n \in Quantities} :
               Adjust(h, loc, q)
    <2>1. PICK loc \in Locations, q \in Quantities \cup {0 - n : n \in Quantities} :
            Adjust(h, loc, q)
      BY <1>4
    <2>2. q \in Int
      BY BoundAssumption
    <2> QED
      BY <2>1, <2>2, AdjustStep
  <1>5. CASE \E ln \in Lines, s \in QcStatus \cap Targets, a, r \in LineQtys \cup {0} :
               UpdateQcResult(h, ln, s, a, r)
    <2>1. LineQtys \cup {0} \subseteq Nat
      BY BoundAssumption
    <2> QED
      BY <1>5, <2>1, QcStep
  <1>6. CASE \E rc \in Receipts, s \in InboundStatus \cap Targets :
               UpdateInboundStatus(h, rc, s)
    BY <1>6, StatusStep DEF UpdateInboundStatus, Start
  <1>7. CASE \E o \in Orders, s \in OutboundStatus \cap Targets :
               UpdateOutboundStatus(h, o, s)
    BY <1>7, StatusStep DEF UpdateOutboundStatus, Start
  <1>8. CASE \E loc \in Locations, s \in LocationStatus \cap Targets, m \in Capacities :
               UpdateLocation(h, loc, s, m)
    BY <1>8, LocationStep
  <1> QED
    BY <1>1, <1>2, <1>3, <1>4, <1>5, <1>6, <1>7, <1>8 DEF Begin

LEMMA StepInv ==
  ASSUME Inv, NEW h \in Handlers, Step(h)
  PROVE  Inv'
  BY CheckLocationStep, FindReceiverStep, FindStockStep, ReadLocationStep, ScanStep,
     SelectStep, UpdateStep, InsertStep, CommitStep, RollbackStep DEF Step

LEMMA NextInv == Inv /\ [Next]_vars => Inv'
  <1> SUFFICES ASSUME Inv, [Next]_vars PROVE Inv'
    OBVIOUS
  <1>1. CASE Next
    BY <1>1, CreateReceiptStep, CreateOrderStep, BeginInv, StepInv DEF Next
  <1>2. CASE UNCHANGED vars
    <2>1. UNCHANGED <<db, own, call, history>>
      BY <1>2 DEF vars, history
    <2>2. \A h \in Handlers : CallOK(h, call[h])'
      <3>1. \A h \in Handlers : CallOK(h, call'[h])
        BY <2>1 DEF Inv
      <3> QED
        BY <2>1, <3>1, Frame
    <2> QED
      BY <2>1, <2>2, Frame DEF Inv
  <1> QED
    BY <1>1, <1>2

LEMMA InvTyped == Inv => TypeOK
  <1> SUFFICES ASSUME Inv PROVE TypeOK
    OBVIOUS
  <1>1. Locations \subseteq DOMAIN db /\ DOMAIN db \subseteq Rows
    BY PartialRows DEF Inv, DbOK
  <1>2. \A r \in DOMAIN db : db[r] \in Table(r)
    BY DEF Inv, DbOK, Fits
  <1>3. ASSUME NEW h \in Handlers
        PROVE  /\ DOMAIN own[h] \subseteq Rows
               /\ \A r \in DOMAIN own[h] : own[h][r] \in Table(r)
               /\ \A r \in DOMAIN call[h].entity : call[h].entity[r] \in Table(r)
               /\ call[h].op = "none" => own[h] = <<>>
    <2>1. CallOK(h, call[h])
      BY DEF Inv
    <2>2. DOMAIN own[h] \subseteq Rows
      BY PartialRows DEF Inv
    <2> QED
      BY <2>1, <2>2 DEF CallOK, Loaded, Written, Fits
  <1> QED
    BY <1>1, <1>2, <1>3 DEF Inv, HistoryOK, TypeOK

LEMMA InvInvented == Inv => NothingInvented
  <1> SUFFICES ASSUME Inv PROVE NothingInvented
    OBVIOUS
  <1>1. \A r : ItemGain(Idle, r) = 0 /\ LineGain(Idle, r) = 0
    BY DEF ItemGain, LineGain, Brings, Idle
  <1>2. ASSUME NEW i \in Items, Has(i)
        PROVE  db[i].qty_on_hand <= arrived[i]
    <2>1. Earned(Idle, i, db[i]) /\ arrived[i] \in Nat
      BY <1>2 DEF Inv, DbOK, HistoryOK, Has
    <2> QED
      BY <1>1, <2>1 DEF Earned
  <1>3. ASSUME NEW l \in OutLines, Has(l)
        PROVE  db[l].picked_qty <= taken[l]
    <2>1. Earned(Idle, l, db[l]) /\ taken[l] \in Nat
      BY <1>3 DEF Inv, DbOK, HistoryOK, Has
    <2> QED
      BY <1>1, <2>1 DEF Earned
  <1>4. ASSUME NEW l \in Lines, Has(l), db[l].putaway_location # NoRow
        PROVE  shelved[l] > 0
    BY <1>4 DEF Inv, DbOK, Has, Earned, Idle
  <1> QED
    BY <1>2, <1>3, <1>4 DEF NothingInvented

LEMMA InvTaken == Inv => PickedWasTaken
  <1> SUFFICES ASSUME Inv, NEW l \in OutLines, Has(l), db[l].pick_status = "PICKED"
               PROVE  db[l].requested_qty <= taken[l]
    BY DEF PickedWasTaken
  <1>1. LineGain(Idle, l) = 0
    BY DEF LineGain, Idle
  <1>2. Earned(Idle, l, db[l]) /\ taken[l] \in Nat
    BY DEF Inv, DbOK, HistoryOK, Has
  <1> QED
    BY <1>1, <1>2 DEF Earned

LEMMA InvBounds ==
  ASSUME FixedCapacity
  PROVE  Inv => WithinBounds
  BY DEF Inv, DbOK, Fits, WithinBounds, Has

\* Rows, the writes of open transactions and the entities of the methods are
\* well-typed in every interleaving (entities of @entities under
\* wms-backend/src/{inbound,outbound,inventory}).
THEOREM WarehouseTyped == Spec => []TypeOK
  <1>1. Spec => []Inv
    BY InitInv, NextInv, PTL DEF Spec
  <1> QED
    BY <1>1, InvTyped, PTL

\* Lost updates never invent stock: an item shows no more than the committed
\* movements brought to it, a line no more picked than the committed pickings
\* took, and a line that names a shelf has been put away (putaway, pickItem,
\* transferInventory and adjustInventory).
THEOREM NoneInvented == Spec => []NothingInvented
  <1>1. Spec => []Inv
    BY InitInv, NextInv, PTL DEF Spec
  <1> QED
    BY <1>1, InvInvented, PTL

\* A line that says PICKED had its whole request taken by committed pickings,
\* however the columns of pickings that overlap mix (pickItem, outbound.service.ts).
THEOREM DoneIsTaken == Spec => []PickedWasTaken
  <1>1. Spec => []Inv
    BY InitInv, NextInv, PTL DEF Spec
  <1> QED
    BY <1>1, InvTaken, PTL

\* No item is negative, no location above its capacity and no line picked
\* beyond its request, in any interleaving, as long as nobody changes
\* capacities (BR-02 of docs/features/wms-core/BA_SPEC.md).
THEOREM BoundsKept ==
  ASSUME FixedCapacity
  PROVE  Spec => []WithinBounds
  <1>1. Spec => []Inv
    BY InitInv, NextInv, PTL DEF Spec
  <1>2. Inv => WithinBounds
    BY InvBounds
  <1> QED
    BY <1>1, <1>2, PTL

-----------------------------------------------------------------------------
(* One call at a time *)

OneCall == \A g, h \in Handlers : g = h

\* units of item i in the rows f
Quantity(f, i) == IF i \in DOMAIN f THEN f[i].qty_on_hand ELSE 0

\* In the rows v, what differs from the committed rows: rows in S, q units of
\* item i.
Unlike(v, S)    == \A r \in Rows \ S : /\ r \in DOMAIN v <=> r \in DOMAIN db
                                       /\ r \in DOMAIN db => v[r] = db[r]
Shift(v, i, q)  == \A j \in Items :
                     Quantity(v, j) = Quantity(db, j) + (IF j = i THEN q ELSE 0)
\* The row t is saved at stage n.
SavedAt(c, v, n, t) == /\ t \in DOMAIN db /\ t \in DOMAIN v
                       /\ v[t] = IF c.at > n THEN c.entity[t] ELSE db[t]

\* a location found when the rows are v: an item there, or none
ItemsIn(v, loc) == {i \in Items \cap DOMAIN v : ItemAt[i] = loc}
Receives(c, v) ==
  \/ c.item = NoRow /\ ItemsIn(v, c.location) = {}
  \/ /\ c.item \in ItemsIn(v, c.location)
     /\ c.entity[c.item].qty_on_hand = v[c.item].qty_on_hand + c.qty
Received(c, v) == c.item \in ItemsIn(v, c.location)

\* What a call holds, has written in v, and knows of the committed rows.
PutawayCall(c, v) ==
  /\ c.header = ReceiptOf[c.line] /\ c.line \in DOMAIN db
  /\ db[c.line].putaway_location = NoRow
  /\ c.qty = db[c.line].accepted_qty /\ c.qty > 0
  /\ c.entity[c.line] = IF c.at = 1 THEN db[c.line]
                        ELSE [db[c.line] EXCEPT !.putaway_location = c.location]
  /\ c.at > 1 => c.entity[c.location] = Fill(db[c.location], c.qty)
  /\ c.at = 4 => Receives(c, v)
  /\ c.at > 4 => Received(c, v)
  /\ Shift(v, c.item, IF c.at > 4 THEN c.qty ELSE 0)
  /\ SavedAt(c, v, 2, c.line) /\ SavedAt(c, v, 5, c.location) /\ SavedAt(c, v, 7, c.header)
  /\ c.at <= 6 => c.entity[c.header] = db[c.header]
  /\ c.at > 6 => c.entity[c.header].status =
       IF \A l \in Lines \cap DOMAIN v : ReceiptOf[l] = c.header => v[l].putaway_location # NoRow
       THEN "COMPLETED" ELSE "PUTAWAY"
  /\ Unlike(v, Items \cup {c.line, c.location, c.header})

PickCall(c, v) ==
  /\ c.header = OrderOf[c.line] /\ c.line \in DOMAIN db
  /\ c.qty > 0 /\ c.qty <= db[c.line].requested_qty - db[c.line].picked_qty
  /\ c.entity[c.line] = IF c.at <= 3 THEN db[c.line] ELSE Picked(db[c.line], c.qty)
  /\ c.at > 1 => /\ c.item \in ItemsIn(db, c.location)
                 /\ db[c.item].qty_on_hand >= c.qty
  /\ c.at = 2 => c.entity[c.item].qty_on_hand = db[c.item].qty_on_hand - c.qty
  /\ c.at > 3 => c.entity[c.location] = Drain(db[c.location], c.qty)
  /\ Shift(v, c.item, IF c.at > 2 THEN 0 - c.qty ELSE 0)
  /\ SavedAt(c, v, 4, c.location) /\ SavedAt(c, v, 5, c.line) /\ SavedAt(c, v, 7, c.header)
  /\ c.at <= 6 => c.entity[c.header] = db[c.header]
  /\ c.at > 6 => c.entity[c.header].status =
       IF \A l \in OutLines \cap DOMAIN v : OrderOf[l] = c.header => v[l].pick_status = "PICKED"
       THEN "PICKED" ELSE "PICKING"
  /\ Unlike(v, Items \cup {c.line, c.location, c.header})

TransferCall(c, v) ==
  /\ "transfer" \in Operations /\ c.qty > 0
  /\ Unlike(v, Items)
  /\ \E i \in Items \cap DOMAIN db :
       /\ db[i].qty_on_hand >= c.qty
       /\ c.at = 1 => /\ c.item = i /\ Shift(v, i, 0)
                      /\ c.entity[i].qty_on_hand = db[i].qty_on_hand - c.qty
       /\ c.at \in {2, 3} => Shift(v, i, 0 - c.qty)
       /\ c.at = 3 => Receives(c, v)
       /\ c.at = 4 => /\ Received(c, v)
                      /\ \A j \in Items :
                           Quantity(v, j) = (Quantity(db, j) - (IF j = i THEN c.qty ELSE 0))
                                             + (IF j = c.item THEN c.qty ELSE 0)

AdjustCall(c, v) ==
  /\ "adjust" \in Operations
  /\ c.at = 1 => /\ Receives(c, v)
                 /\ c.item # NoRow => c.item \in DOMAIN db /\ db[c.item].qty_on_hand + c.qty >= 0
  /\ c.at = 2 => Received(c, v) /\ v[c.item].qty_on_hand >= 0
  /\ Shift(v, c.item, IF c.at = 2 THEN c.qty ELSE 0)
  /\ Unlike(v, Items)

QcCall(c, v) ==
  LET e == c.entity[c.line]
  IN  /\ SavedAt(c, v, 1, c.line)
      /\ e = [db[c.line] EXCEPT !.qc_status = e.qc_status, !.accepted_qty = e.accepted_qty,
                                !.rejected_qty = e.rejected_qty]
      /\ e.accepted_qty + e.rejected_qty <= e.received_qty
      /\ Unlike(v, {c.line})

StatusCall(c, v) ==
  /\ SavedAt(c, v, 1, c.header) /\ c.header \in Receipts \cup Orders
  /\ c.header \in Receipts => db[c.header].status # "COMPLETED"
  /\ Unlike(v, {c.header})

LocationCall(c, v) ==
  /\ SavedAt(c, v, 1, c.location)
  /\ c.entity[c.location].current_qty = db[c.location].current_qty
  /\ Unlike(v, {c.location})

\* What a save has found to write.
DirtyIs(c, v) ==
  c.dirty # {} => \A s \in Saves :
    Program[c.op][c.at] = s => c.dirty = Differing(c.entity[Target(c, s)], v[Target(c, s)])

Serial(c, v) ==
  /\ DirtyIs(c, v)
  /\ c.op = "putaway"  => PutawayCall(c, v)
  /\ c.op = "pick"     => PickCall(c, v)
  /\ c.op = "transfer" => TransferCall(c, v)
  /\ c.op = "adjust"   => AdjustCall(c, v)
  /\ c.op = "qc"       => QcCall(c, v)
  /\ c.op = "status"   => StatusCall(c, v)
  /\ c.op = "location" => LocationCall(c, v)

SameOccupancy == Operations \cap {"transfer", "adjust"} = {} => OccupancyTracksStock

RowsOK == PickedMeansFull /\ QcWithinReceived /\ AllShelvedCompleted /\ SameOccupancy

SerialInv == RowsOK /\ \A h \in Handlers : Serial(call[h], Sees(h))

-----------------------------------------------------------------------------
(* Stock at a location is a sum over its items *)

StockOf(v, loc)  == MapThenSumSet(LAMBDA i : v[i].qty_on_hand,
                                  {i \in Items : i \in DOMAIN v /\ ItemAt[i] = loc})
Counts(v)        == [i \in Items |-> Quantity(v, i)]
Shelf(loc)       == {i \in Items : ItemAt[i] = loc}
StockIter(v, S, it) ==
  it = [T \in SUBSET S |-> IF T = {} THEN 0 ELSE v[OneOf(T)].qty_on_hand + it[Rest(T)]]

LEMMA StockIsOf ==
  /\ \A loc : StockAt(loc) = StockOf(db, loc)
  /\ \A loc : StockAt(loc)' = StockOf(db', loc)
  <1>1. \A loc : StockAt(loc) = StockOf(db, loc)
    BY DEF StockAt, StockOf, Has, MapThenSumSet, MapThenFoldSet
  <1>2. \A loc : StockAt(loc)' = StockOf(db', loc)
    BY DEF StockAt, StockOf, Has, MapThenSumSet, MapThenFoldSet
  <1> QED
    BY <1>1, <1>2

LEMMA StockIsTotal ==
  ASSUME NEW v, \A i \in Items : Quantity(v, i) \in Int, NEW loc
  PROVE  StockOf(v, loc) = Total(Counts(v), Shelf(loc))
  <1>1. PICK f : f = Counts(v)
    OBVIOUS
  <1>2. PICK S : S = {i \in Items : i \in DOMAIN v /\ ItemAt[i] = loc}
    OBVIOUS
  <1>3. IsFiniteSet(S) /\ IsFiniteSet(Shelf(loc)) /\ S \in SUBSET Shelf(loc)
    BY <1>2, ItemsAssumption, FS_Subset DEF Shelf
  <1>4. ASSUME NEW T \in SUBSET S, T # {} PROVE f[OneOf(T)] = v[OneOf(T)].qty_on_hand
    <2>1. OneOf(T) \in S
      BY <1>4, RestSmaller
    <2> QED
      BY <1>1, <1>2, <2>1 DEF Counts, Quantity
  <1>5. \A it : StockIter(v, S, it) <=> IterOf(f, S, it)
    BY <1>4 DEF StockIter, IterOf
  <1>6. StockOf(v, loc) = (CHOOSE it : StockIter(v, S, it))[S]
    BY <1>2 DEF StockOf, MapThenSumSet, MapThenFoldSet, OneOf, Rest, StockIter
  <1>7. (CHOOSE it : StockIter(v, S, it)) = (CHOOSE it : IterOf(f, S, it))
    BY <1>5
  <1>8. StockOf(v, loc) = Total(f, S)
    BY <1>6, <1>7, TotalIsIter
  <1>9. \A i \in Shelf(loc) : f[i] \in Int /\ (i \notin S => f[i] = 0)
    BY <1>1, <1>2 DEF Counts, Quantity, Shelf
  <1>10. Total(f, Shelf(loc)) = Total(f, S)
    BY <1>3, <1>9, TotalZeros
  <1> QED
    BY <1>1, <1>8, <1>10

LEMMA Kinds ==
  /\ NoRow \notin Rows
  /\ \A r \in Items : r \notin Locations \cup Lines \cup OutLines \cup Receipts \cup Orders
  /\ \A r \in Locations : r \notin Items \cup Lines \cup OutLines \cup Receipts \cup Orders
  /\ \A r \in Lines : r \notin Items \cup Locations \cup OutLines \cup Receipts \cup Orders
  /\ \A r \in OutLines : r \notin Items \cup Locations \cup Lines \cup Receipts \cup Orders
  /\ \A r \in Receipts : r \notin Items \cup Locations \cup Lines \cup OutLines \cup Orders
  /\ \A r \in Orders : r \notin Items \cup Locations \cup Lines \cup OutLines \cup Receipts
  BY TableAssumption DEF Rows

\* What a call knows depends on the committed rows only.
LEMMA SerialFrame ==
  ASSUME UNCHANGED db
  PROVE  /\ \A c, v : Serial(c, v)' <=> Serial(c, v)
         /\ RowsOK' <=> RowsOK
  <1>1. \A v, S : Unlike(v, S)' <=> Unlike(v, S)
    BY DEF Unlike
  <1>2. \A v, i, q : Shift(v, i, q)' <=> Shift(v, i, q)
    BY DEF Shift
  <1>3. \A c, v, n, t : SavedAt(c, v, n, t)' <=> SavedAt(c, v, n, t)
    BY DEF SavedAt
  <1>4. \A c, v : PutawayCall(c, v)' <=> PutawayCall(c, v)
    BY <1>1, <1>2, <1>3 DEF PutawayCall
  <1>5. \A c, v : PickCall(c, v)' <=> PickCall(c, v)
    BY <1>1, <1>2, <1>3 DEF PickCall
  <1>6. \A c, v : TransferCall(c, v)' <=> TransferCall(c, v)
    BY <1>1, <1>2 DEF TransferCall
  <1>7. \A c, v : AdjustCall(c, v)' <=> AdjustCall(c, v)
    BY <1>1, <1>2 DEF AdjustCall
  <1>8. \A c, v : QcCall(c, v)' <=> QcCall(c, v)
    BY <1>1, <1>3 DEF QcCall
  <1>9. \A c, v : StatusCall(c, v)' <=> StatusCall(c, v)
    BY <1>1, <1>3 DEF StatusCall
  <1>10. \A c, v : LocationCall(c, v)' <=> LocationCall(c, v)
    BY <1>1, <1>3 DEF LocationCall
  <1>11. \A c, v : Serial(c, v)' <=> Serial(c, v)
    BY <1>4, <1>5, <1>6, <1>7, <1>8, <1>9, <1>10 DEF Serial
  <1>12. RowsOK' <=> RowsOK
    BY StockIsOf DEF RowsOK, PickedMeansFull, QcWithinReceived, AllShelvedCompleted, SameOccupancy,
           OccupancyTracksStock, Has
  <1> QED
    BY <1>11, <1>12

\* The only call goes on with d; its transaction then sees w.
LEMMA Proceeds ==
  ASSUME OneCall, Inv, SerialInv, NEW h \in Handlers, NEW d, NEW w, UNCHANGED db,
         call' = [call EXCEPT ![h] = d], Sees(h)' = w, Serial(d, w)
  PROVE  SerialInv'
  <1>1. call'[h] = d
    BY DEF Inv
  <1>2. \A g \in Handlers : g = h
    BY DEF OneCall
  <1>3. \A g \in Handlers : Serial(call'[g], w)
    BY <1>1, <1>2
  <1>4. \A g \in Handlers : Sees(g)' = w
    BY <1>2
  <1>5. RowsOK' /\ \A c : Serial(c, w)' <=> Serial(c, w)
    BY SerialFrame DEF SerialInv
  <1> QED
    BY <1>3, <1>4, <1>5 DEF SerialInv

LEMMA IdleSerial == \A v : Serial(Idle, v)
  BY DEF Serial, Idle, DirtyIs

-----------------------------------------------------------------------------
(* A save that wrote what the call held *)

\* In the rows w that follow v, row t is as the call held it.
SavedIn(v, w, t, e) ==
  /\ DOMAIN w = DOMAIN v /\ t \in DOMAIN v
  /\ w[t] = e
  /\ \A r \in DOMAIN v \ {t} : w[r] = v[r]

\* d is c at its next stage.
Advances(c, d) ==
  /\ d.op = c.op /\ d.at = c.at + 1 /\ d.line = c.line /\ d.header = c.header
  /\ d.location = c.location /\ d.item = c.item /\ d.qty = c.qty
  /\ d.entity = c.entity /\ d.dirty = {}

LEMMA SaveOther ==
  ASSUME NEW v, NEW w, NEW t, NEW e, SavedIn(v, w, t, e), NEW c, NEW d, NEW n, NEW x, x # t,
         SavedAt(c, v, n, x), c.entity = d.entity, c.at > n <=> d.at > n
  PROVE  SavedAt(d, w, n, x)
  BY DEF SavedIn, SavedAt

LEMMA SaveThis ==
  ASSUME NEW v, NEW w, NEW t, NEW c, SavedIn(v, w, t, c.entity[t]), NEW d, NEW n \in Nat,
         t \in DOMAIN db, c.entity = d.entity, d.at = n + 1
  PROVE  SavedAt(d, w, n, t)
  <1>1. d.at > n
    OBVIOUS
  <1> QED
    BY <1>1 DEF SavedIn, SavedAt

LEMMA SaveUnlike ==
  ASSUME NEW v, NEW w, NEW t, NEW e, SavedIn(v, w, t, e), NEW S, Unlike(v, S), t \in S
  PROVE  Unlike(w, S)
  BY DEF SavedIn, Unlike

\* A save of another table leaves the stock.
LEMMA SaveNoItem ==
  ASSUME NEW v, NEW w, NEW t, NEW e, SavedIn(v, w, t, e), t \notin Items
  PROVE  /\ \A i \in Items : Quantity(w, i) = Quantity(v, i)
         /\ \A i, q : Shift(v, i, q) <=> Shift(w, i, q)
         /\ \A loc : ItemsIn(w, loc) = ItemsIn(v, loc)
  <1>1. \A i \in Items : Quantity(w, i) = Quantity(v, i)
    BY DEF SavedIn, Quantity
  <1>2. \A i, q : Shift(v, i, q) <=> Shift(w, i, q)
    BY <1>1 DEF Shift
  <1>3. \A loc : ItemsIn(w, loc) = ItemsIn(v, loc)
    BY DEF SavedIn, ItemsIn
  <1> QED
    BY <1>1, <1>2, <1>3

LEMMA SaveItem ==
  ASSUME NEW v, NEW w, NEW t \in Items, NEW e, SavedIn(v, w, t, e)
  PROVE  /\ Quantity(w, t) = e.qty_on_hand
         /\ \A i \in Items \ {t} : Quantity(w, i) = Quantity(v, i)
         /\ \A loc : ItemsIn(w, loc) = ItemsIn(v, loc)
  BY DEF SavedIn, Quantity, ItemsIn

Whole(v) == \A i \in Items : Quantity(v, i) \in Int

\* A save of an item that now counts q more.
LEMMA SaveShift ==
  ASSUME NEW v, NEW w, NEW t, NEW e, SavedIn(v, w, t, e), Whole(v), Whole(db),
         Shift(v, t, 0), NEW loc, t \in ItemsIn(v, loc), NEW q \in Int,
         e.qty_on_hand = v[t].qty_on_hand + q
  PROVE  Shift(w, t, q) /\ t \in ItemsIn(w, loc)
  <1>1. t \in Items /\ t \in DOMAIN v
    BY DEF ItemsIn
  <1>2. /\ Quantity(w, t) = e.qty_on_hand
        /\ \A i \in Items \ {t} : Quantity(w, i) = Quantity(v, i)
        /\ ItemsIn(w, loc) = ItemsIn(v, loc)
    BY <1>1, SaveItem
  <1>3. Quantity(v, t) = v[t].qty_on_hand
    BY <1>1 DEF Quantity
  <1>4. \A i \in Items : Quantity(v, i) = Quantity(db, i)
    BY DEF Shift, Whole
  <1>5. ASSUME NEW i \in Items PROVE Quantity(w, i) = Quantity(db, i) + (IF i = t THEN q ELSE 0)
    <2>1. CASE i = t
      BY <1>1, <1>2, <1>3, <1>4, <2>1
    <2>2. CASE i # t
      <3>1. Quantity(w, i) = Quantity(db, i) /\ Quantity(db, i) \in Int
        BY <1>2, <1>4, <2>2 DEF Whole
      <3> QED
        BY <2>2, <3>1
    <2> QED
      BY <2>1, <2>2
  <1> QED
    BY <1>2, <1>5 DEF Shift

LEMMA CleanDirty == ASSUME NEW d, d.dirty = {}, NEW v PROVE DirtyIs(d, v)
  BY DEF DirtyIs

\* The conjuncts about calls of another kind.
LEMMA OneKind ==
  ASSUME NEW c, NEW v, DirtyIs(c, v)
  PROVE  /\ c.op = "putaway"  /\ PutawayCall(c, v)  => Serial(c, v)
         /\ c.op = "pick"     /\ PickCall(c, v)     => Serial(c, v)
         /\ c.op = "transfer" /\ TransferCall(c, v) => Serial(c, v)
         /\ c.op = "adjust"   /\ AdjustCall(c, v)   => Serial(c, v)
         /\ c.op = "qc"       /\ QcCall(c, v)       => Serial(c, v)
         /\ c.op = "status"   /\ StatusCall(c, v)   => Serial(c, v)
         /\ c.op = "location" /\ LocationCall(c, v) => Serial(c, v)
  BY DEF Serial

LEMMA PutawaySaved ==
  ASSUME NEW c \in Calls, Holds(c), NEW v, PutawayCall(c, v), c.op = "putaway",
         NEW d, Advances(c, d), NEW w, NEW t, SavedIn(v, w, t, c.entity[t]),
         \/ c.at = 2 /\ t = c.line
         \/ c.at = 4 /\ t = c.item /\ t # NoRow
         \/ c.at = 5 /\ t = c.location
         \/ c.at = 7 /\ t = c.header,
         Whole(v), Whole(db)
  PROVE  PutawayCall(d, w)
  <1>1. /\ c.line \in Lines /\ c.header \in Receipts /\ c.location \in Locations
        /\ c.item \in Items \cup {NoRow}
        /\ c.at \in 1..8 /\ c.qty \in Int
    BY DEF Holds, Calls
  <1>2. /\ d.op = c.op /\ d.at = c.at + 1 /\ d.line = c.line /\ d.header = c.header
        /\ d.location = c.location /\ d.item = c.item /\ d.qty = c.qty
        /\ d.entity = c.entity
    BY DEF Advances
  <1>3. /\ c.line # c.header /\ c.line # c.location /\ c.header # c.location
        /\ c.line \notin Items /\ c.header \notin Items /\ c.location \notin Items
        /\ c.item # c.line /\ c.item # c.header /\ c.item # c.location
    BY <1>1, Kinds DEF Rows
  <1>4. /\ c.header = ReceiptOf[c.line] /\ c.line \in DOMAIN db
        /\ db[c.line].putaway_location = NoRow
        /\ c.qty = db[c.line].accepted_qty /\ c.qty > 0
        /\ c.entity[c.line] = IF c.at = 1 THEN db[c.line]
                              ELSE [db[c.line] EXCEPT !.putaway_location = c.location]
        /\ c.at > 1 => c.entity[c.location] = Fill(db[c.location], c.qty)
        /\ Shift(v, c.item, IF c.at > 4 THEN c.qty ELSE 0)
        /\ SavedAt(c, v, 2, c.line) /\ SavedAt(c, v, 5, c.location) /\ SavedAt(c, v, 7, c.header)
        /\ c.at = 4 => Receives(c, v)
        /\ c.at > 4 => Received(c, v)
        /\ c.at <= 6 => c.entity[c.header] = db[c.header]
        /\ c.at > 6 => c.entity[c.header].status =
             IF \A l \in Lines \cap DOMAIN v : ReceiptOf[l] = c.header => v[l].putaway_location # NoRow
             THEN "COMPLETED" ELSE "PUTAWAY"
        /\ Unlike(v, Items \cup {c.line, c.location, c.header})
    BY DEF PutawayCall
  <1>5. t \in Items \cup {c.line, c.location, c.header} /\ (c.at # 4 <=> t \notin Items)
    BY <1>1, <1>3
  <1>6. Unlike(w, Items \cup {d.line, d.location, d.header})
    BY <1>2, <1>4, <1>5, SaveUnlike
  <1>7. SavedAt(d, w, 2, d.line)
    <2>1. CASE c.at = 2
      <3>1. t = c.line
        BY <2>1
      <3> QED
        BY <1>2, <1>4, <2>1, <3>1, SaveThis
    <2>2. CASE c.at # 2
      <3>1. c.line # t /\ (c.at > 2 <=> d.at > 2)
        BY <1>1, <1>2, <1>3, <2>2
      <3> QED
        BY <1>2, <1>4, <3>1, SaveOther
    <2> QED
      BY <2>1, <2>2
  <1>8. SavedAt(d, w, 5, d.location)
    <2>1. CASE c.at = 5
      <3>1. t = c.location /\ t \in DOMAIN db
        BY <1>4, <2>1 DEF SavedAt
      <3> QED
        BY <1>2, <1>4, <2>1, <3>1, SaveThis
    <2>2. CASE c.at # 5
      <3>1. c.location # t /\ (c.at > 5 <=> d.at > 5)
        BY <1>1, <1>2, <1>3, <2>2
      <3> QED
        BY <1>2, <1>4, <3>1, SaveOther
    <2> QED
      BY <2>1, <2>2
  <1>9. SavedAt(d, w, 7, d.header)
    <2>1. CASE c.at = 7
      <3>1. t = c.header /\ t \in DOMAIN db
        BY <1>4, <2>1 DEF SavedAt
      <3> QED
        BY <1>2, <1>4, <2>1, <3>1, SaveThis
    <2>2. CASE c.at # 7
      <3>1. c.header # t /\ (c.at > 7 <=> d.at > 7)
        BY <1>1, <1>2, <1>3, <2>2
      <3> QED
        BY <1>2, <1>4, <3>1, SaveOther
    <2> QED
      BY <2>1, <2>2
  <1>10. Shift(w, d.item, IF d.at > 4 THEN d.qty ELSE 0) /\ (d.at > 4 => Received(d, w))
    <2>1. CASE c.at = 4
      <3>1. t = c.item /\ t \in Items /\ d.at > 4
        BY <1>1, <1>2, <2>1
      <3>2. /\ c.item \in ItemsIn(v, c.location)
            /\ c.entity[t].qty_on_hand = v[t].qty_on_hand + c.qty
        BY <1>4, <2>1, <3>1 DEF Receives
      <3>3. Shift(v, t, 0)
        BY <1>4, <2>1, <3>1
      <3>4. PICK e : e = c.entity[t]
        OBVIOUS
      <3>5. SavedIn(v, w, t, e) /\ e.qty_on_hand = v[t].qty_on_hand + c.qty
        BY <3>2, <3>4
      <3>6. Shift(w, t, c.qty) /\ t \in ItemsIn(w, c.location)
        BY <1>1, <3>1, <3>2, <3>3, <3>5, SaveShift
      <3>7. Shift(w, d.item, d.qty)
        BY <1>2, <3>1, <3>6
      <3>8. Received(d, w)
        BY <1>2, <3>1, <3>6 DEF Received
      <3> QED
        BY <3>1, <3>7, <3>8
    <2>2. CASE c.at # 4
      <3>1. c.at > 4 <=> d.at > 4
        BY <1>1, <1>2, <2>2
      <3>2. t \notin Items
        BY <1>5, <2>2
      <3>3. Shift(w, d.item, IF d.at > 4 THEN d.qty ELSE 0)
        BY <1>2, <1>4, <3>1, <3>2, SaveNoItem
      <3>4. d.at > 4 => Received(d, w)
        BY <1>2, <1>4, <3>1, <3>2, SaveNoItem DEF Received
      <3> QED
        BY <3>3, <3>4
    <2> QED
      BY <2>1, <2>2
  <1>11. d.at # 4
    BY <1>1, <1>2
  <1>12. d.at > 6 => d.entity[d.header].status =
           IF \A l \in Lines \cap DOMAIN w : ReceiptOf[l] = d.header => w[l].putaway_location # NoRow
           THEN "COMPLETED" ELSE "PUTAWAY"
    <2>1. SUFFICES ASSUME d.at > 6 PROVE
           d.entity[d.header].status =
           IF \A l \in Lines \cap DOMAIN w : ReceiptOf[l] = d.header => w[l].putaway_location # NoRow
           THEN "COMPLETED" ELSE "PUTAWAY"
      OBVIOUS
    <2>2. c.at = 7 /\ t \notin Lines
      BY <1>1, <1>2, <2>1, Kinds
    <2>3. DOMAIN w = DOMAIN v /\ \A l \in Lines \cap DOMAIN v : w[l] = v[l]
      BY <2>2 DEF SavedIn
    <2> QED
      BY <1>2, <1>4, <2>2, <2>3
  <1>13. /\ d.at <= 6 => d.entity[d.header] = db[d.header]
         /\ d.at > 1 => d.entity[d.location] = Fill(db[d.location], d.qty)
         /\ d.entity[d.line] = IF d.at = 1 THEN db[d.line]
                              ELSE [db[d.line] EXCEPT !.putaway_location = d.location]
    BY <1>1, <1>2, <1>4
  <1>14. /\ d.header = ReceiptOf[d.line] /\ d.line \in DOMAIN db
         /\ db[d.line].putaway_location = NoRow
         /\ d.qty = db[d.line].accepted_qty /\ d.qty > 0
    BY <1>2, <1>4
  <1> QED
    BY <1>6, <1>7, <1>8, <1>9, <1>10, <1>11, <1>12, <1>13, <1>14 DEF PutawayCall

LEMMA PickSaved ==
  ASSUME NEW c \in Calls, Holds(c), NEW v, PickCall(c, v), c.op = "pick",
         NEW d, Advances(c, d), NEW w, NEW t, SavedIn(v, w, t, c.entity[t]),
         \/ c.at = 2 /\ t = c.item
         \/ c.at = 4 /\ t = c.location
         \/ c.at = 5 /\ t = c.line
         \/ c.at = 7 /\ t = c.header,
         Whole(v), Whole(db)
  PROVE  PickCall(d, w)
  <1>1. /\ c.line \in OutLines /\ c.header \in Orders /\ c.location \in Locations
        /\ c.at \in 1..8 /\ c.qty \in Int
    BY DEF Holds, Calls
  <1>2. /\ d.op = c.op /\ d.at = c.at + 1 /\ d.line = c.line /\ d.header = c.header
        /\ d.location = c.location /\ d.item = c.item /\ d.qty = c.qty
        /\ d.entity = c.entity
    BY DEF Advances
  <1>4. /\ c.header = OrderOf[c.line] /\ c.line \in DOMAIN db
        /\ c.qty > 0 /\ c.qty <= db[c.line].requested_qty - db[c.line].picked_qty
        /\ c.entity[c.line] = IF c.at <= 3 THEN db[c.line] ELSE Picked(db[c.line], c.qty)
        /\ c.at > 1 => /\ c.item \in ItemsIn(db, c.location)
                       /\ db[c.item].qty_on_hand >= c.qty
        /\ c.at = 2 => c.entity[c.item].qty_on_hand = db[c.item].qty_on_hand - c.qty
        /\ c.at > 3 => c.entity[c.location] = Drain(db[c.location], c.qty)
        /\ Shift(v, c.item, IF c.at > 2 THEN 0 - c.qty ELSE 0)
        /\ SavedAt(c, v, 4, c.location) /\ SavedAt(c, v, 5, c.line) /\ SavedAt(c, v, 7, c.header)
        /\ c.at <= 6 => c.entity[c.header] = db[c.header]
        /\ c.at > 6 => c.entity[c.header].status =
             IF \A l \in OutLines \cap DOMAIN v : OrderOf[l] = c.header => v[l].pick_status = "PICKED"
             THEN "PICKED" ELSE "PICKING"
        /\ Unlike(v, Items \cup {c.line, c.location, c.header})
    BY DEF PickCall
  <1>0. c.item \in Items
    BY <1>1, <1>4 DEF ItemsIn
  <1>3. /\ c.line # c.header /\ c.line # c.location /\ c.header # c.location
        /\ c.line \notin Items /\ c.header \notin Items /\ c.location \notin Items
        /\ c.item # c.line /\ c.item # c.header /\ c.item # c.location
    BY <1>0, <1>1, Kinds DEF Rows
  <1>5. t \in Items \cup {c.line, c.location, c.header} /\ (c.at # 2 <=> t \notin Items)
    BY <1>0, <1>1, <1>3
  <1>6. Unlike(w, Items \cup {d.line, d.location, d.header})
    BY <1>2, <1>4, <1>5, SaveUnlike
  <1>7. SavedAt(d, w, 5, d.line)
    <2>1. CASE c.at = 5
      <3>1. t = c.line
        BY <2>1
      <3> QED
        BY <1>2, <1>4, <2>1, <3>1, SaveThis
    <2>2. CASE c.at # 5
      <3>1. c.line # t /\ (c.at > 5 <=> d.at > 5)
        BY <1>1, <1>2, <1>3, <2>2
      <3> QED
        BY <1>2, <1>4, <3>1, SaveOther
    <2> QED
      BY <2>1, <2>2
  <1>8. SavedAt(d, w, 4, d.location)
    <2>1. CASE c.at = 4
      <3>1. t = c.location /\ t \in DOMAIN db
        BY <1>4, <2>1 DEF SavedAt
      <3> QED
        BY <1>2, <1>4, <2>1, <3>1, SaveThis
    <2>2. CASE c.at # 4
      <3>1. c.location # t /\ (c.at > 4 <=> d.at > 4)
        BY <1>1, <1>2, <1>3, <2>2
      <3> QED
        BY <1>2, <1>4, <3>1, SaveOther
    <2> QED
      BY <2>1, <2>2
  <1>9. SavedAt(d, w, 7, d.header)
    <2>1. CASE c.at = 7
      <3>1. t = c.header /\ t \in DOMAIN db
        BY <1>4, <2>1 DEF SavedAt
      <3> QED
        BY <1>2, <1>4, <2>1, <3>1, SaveThis
    <2>2. CASE c.at # 7
      <3>1. c.header # t /\ (c.at > 7 <=> d.at > 7)
        BY <1>1, <1>2, <1>3, <2>2
      <3> QED
        BY <1>2, <1>4, <3>1, SaveOther
    <2> QED
      BY <2>1, <2>2
  <1>10. Shift(w, d.item, IF d.at > 2 THEN 0 - d.qty ELSE 0)
    <2>1. CASE c.at = 2
      <3>1. t = c.item /\ t \in Items /\ d.at > 2
        BY <1>0, <1>1, <1>2, <2>1
      <3>2. Shift(v, t, 0) /\ t \in ItemsIn(db, c.location)
        BY <1>4, <2>1, <3>1
      <3>3. t \in DOMAIN v
        BY DEF SavedIn
      <3>4. t \in ItemsIn(v, c.location)
        BY <3>2, <3>3 DEF ItemsIn
      <3>5. v[t].qty_on_hand = db[t].qty_on_hand /\ v[t].qty_on_hand \in Int
        <4>1. Quantity(v, t) = Quantity(db, t) + 0 /\ Quantity(v, t) \in Int /\ Quantity(db, t) \in Int
          BY <3>1, <3>2 DEF Shift, Whole
        <4>2. t \in DOMAIN db
          BY <3>2 DEF ItemsIn
        <4> QED
          BY <4>1, <4>2, <3>3 DEF Quantity
      <3>6. PICK e : e = c.entity[t]
        OBVIOUS
      <3>7. SavedIn(v, w, t, e) /\ e.qty_on_hand = v[t].qty_on_hand + (0 - c.qty)
        BY <1>1, <1>4, <2>1, <3>1, <3>5, <3>6
      <3>8. 0 - c.qty \in Int
        BY <1>1
      <3>9. Shift(w, t, 0 - c.qty)
        BY <3>1, <3>2, <3>4, <3>7, <3>8, SaveShift
      <3> QED
        BY <1>2, <3>1, <3>9
    <2>2. CASE c.at # 2
      <3>1. c.at > 2 <=> d.at > 2
        BY <1>1, <1>2, <2>2
      <3>2. t \notin Items
        BY <1>5, <2>2
      <3> QED
        BY <1>2, <1>4, <3>1, <3>2, SaveNoItem
    <2> QED
      BY <2>1, <2>2
  <1>12. d.at > 6 => d.entity[d.header].status =
           IF \A l \in OutLines \cap DOMAIN w : OrderOf[l] = d.header => w[l].pick_status = "PICKED"
           THEN "PICKED" ELSE "PICKING"
    <2>1. SUFFICES ASSUME d.at > 6 PROVE
           d.entity[d.header].status =
           IF \A l \in OutLines \cap DOMAIN w : OrderOf[l] = d.header => w[l].pick_status = "PICKED"
           THEN "PICKED" ELSE "PICKING"
      OBVIOUS
    <2>2. c.at = 7 /\ t \notin OutLines
      BY <1>1, <1>2, <2>1, Kinds
    <2>3. DOMAIN w = DOMAIN v /\ \A l \in OutLines \cap DOMAIN v : w[l] = v[l]
      BY <2>2 DEF SavedIn
    <2> QED
      BY <1>2, <1>4, <2>2, <2>3
  <1>13. /\ d.at <= 6 => d.entity[d.header] = db[d.header]
         /\ d.entity[d.line] = IF d.at <= 3 THEN db[d.line] ELSE Picked(db[d.line], d.qty)
         /\ d.at > 3 => d.entity[d.location] = Drain(db[d.location], d.qty)
         /\ d.at # 2
         /\ d.item \in ItemsIn(db, d.location) /\ db[d.item].qty_on_hand >= d.qty
    <2>1. c.at \in {2, 4, 5, 7}
      OBVIOUS
    <2>2. c.at <= 3 <=> d.at <= 3
      BY <1>2, <2>1
    <2> QED
      BY <1>1, <1>2, <1>4, <2>1, <2>2
  <1>14. /\ d.header = OrderOf[d.line] /\ d.line \in DOMAIN db
         /\ d.qty > 0 /\ d.qty <= db[d.line].requested_qty - db[d.line].picked_qty
    BY <1>2, <1>4
  <1> QED
    BY <1>6, <1>7, <1>8, <1>9, <1>10, <1>12, <1>13, <1>14 DEF PickCall

LEMMA TransferSaved ==
  ASSUME NEW c \in Calls, Holds(c), NEW v, TransferCall(c, v), c.op = "transfer",
         NEW d, Advances(c, d), NEW w, NEW t, SavedIn(v, w, t, c.entity[t]),
         c.at \in {1, 3}, t = c.item, t # NoRow,
         Whole(v), Whole(db)
  PROVE  TransferCall(d, w)
  <1>1. /\ c.location \in Locations /\ c.item \in Items /\ c.qty \in Int
        /\ c.entity \in Partial
    BY DEF Holds, Calls
  <1>2. /\ d.op = c.op /\ d.at = c.at + 1
        /\ d.location = c.location /\ d.item = c.item /\ d.qty = c.qty
        /\ d.entity = c.entity
    BY DEF Advances
  <1>3. Unlike(w, Items)
    BY <1>1, SaveUnlike DEF TransferCall
  <1>4. "transfer" \in Operations /\ d.qty > 0
    BY <1>2 DEF TransferCall
  <1>5. PICK i \in Items \cap DOMAIN db :
       /\ db[i].qty_on_hand >= c.qty
       /\ c.at = 1 => /\ c.item = i /\ Shift(v, i, 0)
                      /\ c.entity[i].qty_on_hand = db[i].qty_on_hand - c.qty
       /\ c.at \in {2, 3} => Shift(v, i, 0 - c.qty)
       /\ c.at = 3 => Receives(c, v)
    BY DEF TransferCall
  <1>6. PICK e : e = c.entity[t]
    OBVIOUS
  <1>7. SavedIn(v, w, t, e) /\ t \in Items /\ t \in DOMAIN v
    BY <1>1, <1>6 DEF SavedIn
  <1>8. CASE c.at = 1
    <2>1. Quantity(v, t) = Quantity(db, t) + 0 /\ Quantity(v, t) \in Int /\ Quantity(db, t) \in Int
      BY <1>5, <1>7, <1>8 DEF Shift, Whole
    <2>2. v[t].qty_on_hand = db[t].qty_on_hand /\ v[t].qty_on_hand \in Int
      BY <1>5, <1>7, <1>8, <2>1 DEF Quantity
    <2>3. e.qty_on_hand = v[t].qty_on_hand + (0 - c.qty) /\ 0 - c.qty \in Int
      BY <1>1, <1>5, <1>6, <1>8, <2>2
    <2>4. t \in ItemsIn(v, ItemAt[t])
      BY <1>7 DEF ItemsIn
    <2>5. Shift(v, t, 0)
      BY <1>5, <1>8
    <2>6. PICK loc : loc = ItemAt[t]
      OBVIOUS
    <2>7. Shift(w, t, 0 - c.qty)
      BY <1>7, <2>3, <2>4, <2>5, <2>6, SaveShift
    <2>8. d.at = 2 /\ Shift(w, i, 0 - d.qty) /\ db[i].qty_on_hand >= d.qty
      BY <1>2, <1>5, <1>8, <2>7
    <2> QED
      BY <1>3, <1>4, <1>5, <2>8 DEF TransferCall
  <1>9. CASE c.at = 3
    <2>1. /\ t \in ItemsIn(v, c.location)
          /\ e.qty_on_hand = v[t].qty_on_hand + c.qty
      BY <1>5, <1>6, <1>9 DEF Receives
    <2>2. \A j \in Items : Quantity(v, j) = Quantity(db, j) + (IF j = i THEN 0 - c.qty ELSE 0)
      BY <1>5, <1>9 DEF Shift
    <2>3. /\ Quantity(w, t) = e.qty_on_hand
          /\ \A j \in Items \ {t} : Quantity(w, j) = Quantity(v, j)
          /\ ItemsIn(w, c.location) = ItemsIn(v, c.location)
      BY <1>7, SaveItem
    <2>4. Quantity(v, t) = v[t].qty_on_hand
      BY <1>7 DEF Quantity
    <2>5. ASSUME NEW j \in Items
          PROVE  Quantity(w, j) = (Quantity(db, j) - (IF j = i THEN c.qty ELSE 0))
                                    + (IF j = t THEN c.qty ELSE 0)
      <3>1. Quantity(v, j) \in Int /\ Quantity(db, j) \in Int
        BY DEF Whole
      <3>2. Quantity(v, j) = Quantity(db, j) + (IF j = i THEN 0 - c.qty ELSE 0)
        BY <2>2
      <3>3. Quantity(w, j) = Quantity(v, j) + (IF j = t THEN c.qty ELSE 0)
        BY <2>1, <2>3, <2>4, <3>1
      <3> QED
        BY <1>1, <3>1, <3>2, <3>3
    <2>6. d.at = 4 /\ Received(d, w) /\ db[i].qty_on_hand >= d.qty
      BY <1>2, <1>5, <1>9, <2>1, <2>3 DEF Received
    <2>7. \A j \in Items : Quantity(w, j) = (Quantity(db, j) - (IF j = i THEN d.qty ELSE 0))
                                    + (IF j = d.item THEN d.qty ELSE 0)
      BY <1>2, <2>5
    <2> QED
      BY <1>3, <1>4, <1>5, <2>6, <2>7 DEF TransferCall
  <1> QED
    BY <1>8, <1>9

LEMMA AdjustSaved ==
  ASSUME NEW c \in Calls, Holds(c), NEW v, AdjustCall(c, v), c.op = "adjust",
         NEW d, Advances(c, d), NEW w, NEW t, SavedIn(v, w, t, c.entity[t]),
         c.at = 1, t = c.item, t # NoRow,
         Whole(v), Whole(db)
  PROVE  AdjustCall(d, w)
  <1>1. /\ c.location \in Locations /\ c.item \in Items /\ c.qty \in Int
    BY DEF Holds, Calls
  <1>2. /\ d.op = c.op /\ d.at = 2
        /\ d.location = c.location /\ d.item = c.item /\ d.qty = c.qty
        /\ d.entity = c.entity
    BY DEF Advances
  <1>3. Unlike(w, Items)
    BY <1>1, SaveUnlike DEF AdjustCall
  <1>4. /\ "adjust" \in Operations
        /\ t \in DOMAIN db /\ db[t].qty_on_hand + c.qty >= 0
        /\ t \in ItemsIn(v, c.location)
        /\ c.entity[t].qty_on_hand = v[t].qty_on_hand + c.qty
        /\ Shift(v, t, 0)
    BY DEF AdjustCall, Receives
  <1>5. PICK e : e = c.entity[t]
    OBVIOUS
  <1>6. SavedIn(v, w, t, e) /\ e.qty_on_hand = v[t].qty_on_hand + c.qty
    BY <1>4, <1>5
  <1>7. Shift(w, t, c.qty) /\ t \in ItemsIn(w, c.location)
    BY <1>1, <1>4, <1>6, SaveShift
  <1>8. w[t].qty_on_hand >= 0
    <2>1. Quantity(v, t) = Quantity(db, t) + 0 /\ Quantity(v, t) \in Int /\ Quantity(db, t) \in Int
      BY <1>1, <1>4 DEF Shift, Whole
    <2>2. v[t].qty_on_hand = Quantity(v, t)
      BY <1>4 DEF ItemsIn, Quantity
    <2>3. Quantity(db, t) = db[t].qty_on_hand
      BY <1>4 DEF Quantity
    <2>4. w[t] = e
      BY <1>6 DEF SavedIn
    <2> QED
      BY <1>1, <1>4, <1>6, <2>1, <2>2, <2>3, <2>4
  <1> QED
    BY <1>2, <1>3, <1>4, <1>7, <1>8 DEF AdjustCall, Received

LEMMA QcSaved ==
  ASSUME NEW c \in Calls, NEW v, QcCall(c, v), NEW d, Advances(c, d), NEW w,
         SavedIn(v, w, c.line, c.entity[c.line]), c.at = 1
  PROVE  QcCall(d, w)
  <1>1. d.line = c.line /\ d.entity = c.entity /\ d.at = 1 + 1
    BY DEF Advances
  <1>2. Unlike(w, {d.line})
    BY <1>1, SaveUnlike DEF QcCall
  <1>3. SavedAt(d, w, 1, d.line)
    <2>1. c.line \in DOMAIN db
      BY DEF QcCall, SavedAt
    <2> QED
      BY <1>1, <2>1, SaveThis
  <1> QED
    BY <1>1, <1>2, <1>3 DEF QcCall

LEMMA StatusSaved ==
  ASSUME NEW c \in Calls, NEW v, StatusCall(c, v), NEW d, Advances(c, d), NEW w,
         SavedIn(v, w, c.header, c.entity[c.header]), c.at = 1
  PROVE  StatusCall(d, w)
  <1>1. d.header = c.header /\ d.entity = c.entity /\ d.at = 1 + 1
    BY DEF Advances
  <1>2. Unlike(w, {d.header})
    BY <1>1, SaveUnlike DEF StatusCall
  <1>3. SavedAt(d, w, 1, d.header)
    <2>1. c.header \in DOMAIN db
      BY DEF StatusCall, SavedAt
    <2> QED
      BY <1>1, <2>1, SaveThis
  <1> QED
    BY <1>1, <1>2, <1>3 DEF StatusCall

LEMMA LocationSaved ==
  ASSUME NEW c \in Calls, NEW v, LocationCall(c, v), NEW d, Advances(c, d), NEW w,
         SavedIn(v, w, c.location, c.entity[c.location]), c.at = 1
  PROVE  LocationCall(d, w)
  <1>1. d.location = c.location /\ d.entity = c.entity /\ d.at = 1 + 1
    BY DEF Advances
  <1>2. Unlike(w, {d.location})
    BY <1>1, SaveUnlike DEF LocationCall
  <1>3. SavedAt(d, w, 1, d.location)
    <2>1. c.location \in DOMAIN db
      BY DEF LocationCall, SavedAt
    <2> QED
      BY <1>1, <2>1, SaveThis
  <1> QED
    BY <1>1, <1>2, <1>3 DEF LocationCall

LEMMA AfterSave ==
  ASSUME NEW c \in Calls, Holds(c), NEW v, Serial(c, v), c.op # "none", NEW s \in Saves,
         Program[c.op][c.at] = s,
         NEW d, Advances(c, d), NEW w, NEW t, t = Target(c, s), t # NoRow,
         SavedIn(v, w, t, c.entity[t]), Whole(v), Whole(db)
  PROVE  Serial(d, w)
  <1>0. DirtyIs(d, w) /\ d.op = c.op
    BY CleanDirty DEF Advances
  <1>1. CASE c.op = "putaway"
    <2>1. c.at \in 1..8 /\ PutawayCall(c, v)
      BY <1>1 DEF Holds, Serial
    <2>2. \/ s = "line" /\ c.at = 2
          \/ s = "item" /\ c.at = 4
          \/ s = "location" /\ c.at = 5
          \/ s = "header" /\ c.at = 7
      BY <1>1, <2>1, PutawayStage DEF Saves
    <2>3. PutawayCall(d, w)
      BY <1>1, <2>1, <2>2, PutawaySaved DEF Target
    <2> QED
      BY <1>0, <1>1, <2>3, OneKind
  <1>2. CASE c.op = "pick"
    <2>1. c.at \in 1..8 /\ PickCall(c, v)
      BY <1>2 DEF Holds, Serial
    <2>2. \/ s = "line" /\ c.at = 5
          \/ s = "item" /\ c.at = 2
          \/ s = "location" /\ c.at = 4
          \/ s = "header" /\ c.at = 7
      BY <1>2, <2>1, PickStage DEF Saves
    <2>3. PickCall(d, w)
      BY <1>2, <2>1, <2>2, PickSaved DEF Target
    <2> QED
      BY <1>0, <1>2, <2>3, OneKind
  <1>3. CASE c.op = "transfer"
    <2>1. c.at \in 1..4 /\ TransferCall(c, v)
      BY <1>3 DEF Holds, Serial
    <2>2. s = "item" /\ c.at \in {1, 3}
      BY <1>3, <2>1, TransferStage DEF Saves
    <2>3. TransferCall(d, w)
      BY <1>3, <2>1, <2>2, TransferSaved DEF Target
    <2> QED
      BY <1>0, <1>3, <2>3, OneKind
  <1>4. CASE c.op \in {"adjust", "qc", "status", "location"}
    <2>1. c.at \in 1..2
      BY <1>4 DEF Holds
    <2>2. /\ c.at = 1
          /\ \/ c.op = "adjust" /\ s = "item"
             \/ c.op = "qc" /\ s = "line"
             \/ c.op = "status" /\ s = "header"
             \/ c.op = "location" /\ s = "location"
      BY <1>4, <2>1, ShortStage DEF Saves
    <2>3. CASE c.op = "adjust"
      <3>1. AdjustCall(c, v) /\ t = c.item
        BY <2>2, <2>3 DEF Serial, Target
      <3>2. AdjustCall(d, w)
        BY <2>2, <2>3, <3>1, AdjustSaved
      <3> QED
        BY <1>0, <2>3, <3>2, OneKind
    <2>4. CASE c.op = "qc"
      <3>1. QcCall(c, v) /\ t = c.line
        BY <2>2, <2>4 DEF Serial, Target
      <3>2. QcCall(d, w)
        BY <2>2, <3>1, QcSaved
      <3> QED
        BY <1>0, <2>4, <3>2, OneKind
    <2>5. CASE c.op = "status"
      <3>1. StatusCall(c, v) /\ t = c.header
        BY <2>2, <2>5 DEF Serial, Target
      <3>2. StatusCall(d, w)
        BY <2>2, <3>1, StatusSaved
      <3> QED
        BY <1>0, <2>5, <3>2, OneKind
    <2>6. CASE c.op = "location"
      <3>1. LocationCall(c, v) /\ t = c.location
        BY <2>2, <2>6 DEF Serial, Target
      <3>2. LocationCall(d, w)
        BY <2>2, <3>1, LocationSaved
      <3> QED
        BY <1>0, <2>6, <3>2, OneKind
    <2> QED
      BY <2>2, <2>3, <2>4, <2>5, <2>6
  <1> QED
    BY <1>1, <1>2, <1>3, <1>4, Stages DEF Calls

\* What a transaction sees are whole numbers.
LEMMA SeenWhole ==
  ASSUME Inv
  PROVE  /\ Whole(db)
         /\ \A h \in Handlers : Whole(Sees(h))
  <1>1. ASSUME NEW i \in Items, i \in DOMAIN db PROVE db[i].qty_on_hand \in Int
    <2>1. db[i] \in InventoryItem
      BY <1>1, Tables DEF Inv, DbOK, Fits
    <2> QED
      BY <2>1 DEF InventoryItem
  <1>2. ASSUME NEW h \in Handlers, NEW i \in Items, i \in DOMAIN Sees(h)
        PROVE  Sees(h)[i].qty_on_hand \in Int
    <2>1. Sees(h)[i] \in InventoryItem
      BY <1>2, SeenOK, Tables DEF Fits
    <2> QED
      BY <2>1 DEF InventoryItem
  <1> QED
    BY <1>1, <1>2 DEF Whole, Quantity

\* Rows of one table that differ in no column are one row.
LEMMA SameRow ==
  ASSUME NEW r \in Rows, NEW e \in Table(r), NEW f \in Table(r)
  PROVE  /\ DOMAIN e = DOMAIN f
         /\ Differing(e, f) = {} => e = f
         /\ Merge(e, f, Differing(e, f)) = e
  <1>1. /\ DOMAIN e = DOMAIN f
        /\ e = [k \in DOMAIN e |-> e[k]] /\ f = [k \in DOMAIN f |-> f[k]]
    <2>1. CASE r \in Items
      <3>1. e \in InventoryItem /\ f \in InventoryItem
        BY <2>1, Tables
      <3> QED
        BY <3>1 DEF InventoryItem
    <2>2. CASE r \in Locations
      <3>1. e \in Location /\ f \in Location
        BY <2>2, Tables
      <3> QED
        BY <3>1 DEF Location
    <2>3. CASE r \in Lines
      <3>1. e \in InboundLine /\ f \in InboundLine
        BY <2>3, Tables
      <3> QED
        BY <3>1 DEF InboundLine
    <2>4. CASE r \in OutLines
      <3>1. e \in OutboundLine /\ f \in OutboundLine
        BY <2>4, Tables
      <3> QED
        BY <3>1 DEF OutboundLine
    <2>5. CASE r \in Receipts
      <3>1. e \in [status : InboundStatus] /\ f \in [status : InboundStatus]
        BY <2>5, Tables
      <3> QED
        BY <3>1
    <2>6. CASE r \in Orders
      <3>1. e \in [status : OutboundStatus] /\ f \in [status : OutboundStatus]
        BY <2>6, Tables
      <3> QED
        BY <3>1
    <2> QED
      BY <2>1, <2>2, <2>3, <2>4, <2>5, <2>6 DEF Rows
  <1>2. Differing(e, f) = {} => e = f
    BY <1>1 DEF Differing
  <1>3. Merge(e, f, Differing(e, f)) = e
    BY <1>1 DEF Differing, Merge
  <1> QED
    BY <1>1, <1>2, <1>3

\* What a call knows does not depend on what it is about to write.
LEMMA OnlyDirty ==
  ASSUME NEW c, NEW d, NEW v, Serial(c, v), DirtyIs(d, v),
         d.op = c.op, d.at = c.at, d.line = c.line, d.header = c.header,
         d.location = c.location, d.item = c.item, d.qty = c.qty, d.entity = c.entity
  PROVE  Serial(d, v)
  <1>1. \A n, t : SavedAt(c, v, n, t) <=> SavedAt(d, v, n, t)
    BY DEF SavedAt
  <1>2. Receives(c, v) <=> Receives(d, v)
    BY DEF Receives
  <1>3. Received(c, v) <=> Received(d, v)
    BY DEF Received
  <1>4. PutawayCall(c, v) <=> PutawayCall(d, v)
    BY <1>1, <1>2, <1>3 DEF PutawayCall
  <1>5. PickCall(c, v) <=> PickCall(d, v)
    BY <1>1, <1>2, <1>3 DEF PickCall
  <1>6. TransferCall(c, v) <=> TransferCall(d, v)
    BY <1>1, <1>2, <1>3 DEF TransferCall
  <1>7. AdjustCall(c, v) <=> AdjustCall(d, v)
    BY <1>1, <1>2, <1>3 DEF AdjustCall
  <1>8. QcCall(c, v) <=> QcCall(d, v)
    BY <1>1 DEF QcCall
  <1>9. StatusCall(c, v) <=> StatusCall(d, v)
    BY <1>1 DEF StatusCall
  <1>10. LocationCall(c, v) <=> LocationCall(d, v)
    BY <1>1 DEF LocationCall
  <1> QED
    BY <1>4, <1>5, <1>6, <1>7, <1>8, <1>9, <1>10 DEF Serial

\* A transaction that writes a row sees it.
LEMMA SeesOwn ==
  ASSUME NEW h \in Handlers, own \in [Handlers -> Partial], NEW t, NEW row,
         own' = [own EXCEPT ![h] = Over([x \in {t} |-> row], @)], UNCHANGED db
  PROVE  /\ DOMAIN Sees(h)' = DOMAIN Sees(h) \cup {t}
         /\ Sees(h)'[t] = row
         /\ \A r \in DOMAIN Sees(h) \ {t} : Sees(h)'[r] = Sees(h)[r]
  <1>1. PICK f : f = own[h]
    OBVIOUS
  <1>2. PICK g : g = Over([x \in {t} |-> row], f)
    OBVIOUS
  <1>3. own'[h] = g
    BY <1>1, <1>2
  <1>4. /\ DOMAIN g = DOMAIN f \cup {t} /\ g[t] = row
        /\ \A r \in DOMAIN f \ {t} : g[r] = f[r]
    BY <1>2 DEF Over
  <1>5. PICK b : b = db
    OBVIOUS
  <1>6. Sees(h)' = Over(g, b) /\ Sees(h) = Over(f, b)
    BY <1>1, <1>3, <1>5 DEF Sees
  <1>7. /\ DOMAIN Over(g, b) = DOMAIN Over(f, b) \cup {t}
        /\ Over(g, b)[t] = row
        /\ \A r \in DOMAIN Over(f, b) \ {t} : Over(g, b)[r] = Over(f, b)[r]
    BY <1>4 DEF Over
  <1> QED
    BY <1>6, <1>7

LEMMA SelectSerial ==
  ASSUME OneCall, Inv, SerialInv, NEW h \in Handlers, Select(h)
  PROVE  SerialInv'
  <1>1. PICK s \in Saves :
          LET c == call[h]
              t == Target(c, s)
              e == Differing(c.entity[t], Sees(h)[t])
          IN  /\ At(h, s) /\ c.dirty = {} /\ t # NoRow
              /\ IF e = {} THEN Continue(h, c)
                           ELSE call' = [call EXCEPT ![h].dirty = e]
              /\ UNCHANGED <<db, own, history>>
    BY DEF Select
  <1>2. PICK c : c = call[h]
    OBVIOUS
  <1>3. PICK v : v = Sees(h)
    OBVIOUS
  <1>4. PICK t : t = Target(c, s)
    OBVIOUS
  <1>5. PICK e : e = Differing(c.entity[t], v[t])
    OBVIOUS
  <1>6. /\ c \in Calls /\ Holds(c) /\ Loaded(h, c) /\ c.op # "none"
        /\ Program[c.op][c.at] = s /\ Serial(c, v)
    BY <1>1, <1>2, <1>3 DEF Inv, CallOK, At, SerialInv
  <1>7. t \in DOMAIN c.entity /\ t # NoRow
    BY <1>1, <1>2, <1>4, TargetHeld
  <1>8. t \in DOMAIN v /\ t \in Rows /\ v[t] \in Table(t) /\ c.entity[t] \in Table(t)
    <2>1. t \in DOMAIN Sees(h)
      BY <1>6, <1>7 DEF Loaded, Sees
    <2> QED
      BY <1>3, <1>6, <1>7, <2>1, SeenOK DEF Loaded, Fits
  <1>9. Sees(h)' = v /\ UNCHANGED db
    BY <1>1, <1>3 DEF Sees
  <1>10. CASE e = {}
    <2>1. PICK d : d = [c EXCEPT !.at = @ + 1]
      OBVIOUS
    <2>2. call' = [call EXCEPT ![h] = d]
      BY <1>1, <1>2, <1>3, <1>4, <1>5, <1>10, <2>1 DEF Continue
    <2>3. Advances(c, d)
      <3>1. c.dirty = {}
        BY <1>1, <1>2
      <3> QED
        BY <1>6, <2>1, <3>1, NextOK DEF Advances
    <2>4. SavedIn(v, v, t, c.entity[t])
      BY <1>5, <1>8, <1>10, SameRow DEF SavedIn
    <2>5. Serial(d, v)
      BY <1>3, <1>4, <1>6, <1>7, <2>3, <2>4, SeenWhole, AfterSave
    <2> QED
      BY <1>9, <2>2, <2>5, Proceeds
  <1>11. CASE e # {}
    <2>1. PICK d : d = [c EXCEPT !.dirty = e]
      OBVIOUS
    <2>2. call' = [call EXCEPT ![h] = d]
      BY <1>1, <1>2, <1>3, <1>4, <1>5, <1>11, <2>1
    <2>3. /\ d.op = c.op /\ d.at = c.at /\ d.qty = c.qty
          /\ d.line = c.line /\ d.header = c.header /\ d.location = c.location
          /\ d.item = c.item /\ d.entity = c.entity /\ d.dirty = e
      BY <1>6, <2>1 DEF Calls
    <2>4. DirtyIs(d, v)
      <3>1. Target(d, s) = t
        BY <1>4, <2>3 DEF Target
      <3>2. ASSUME NEW x \in Saves, Program[d.op][d.at] = x PROVE x = s
        BY <1>6, <2>3, <3>2
      <3> QED
        BY <1>5, <2>3, <3>1, <3>2 DEF DirtyIs
    <2>5. Serial(d, v)
      BY <1>6, <2>3, <2>4, OnlyDirty
    <2> QED
      BY <1>9, <2>2, <2>5, Proceeds
  <1> QED
    BY <1>10, <1>11

LEMMA UpdateSerial ==
  ASSUME OneCall, Inv, SerialInv, NEW h \in Handlers, Update(h)
  PROVE  SerialInv'
  <1>1. PICK s \in Saves :
          LET c == call[h]
              t == Target(c, s)
              row == Merge(c.entity[t], Sees(h)[t], c.dirty)
          IN  /\ At(h, s) /\ c.dirty # {} /\ t \notin Locked(h)
              /\ own' = [own EXCEPT ![h] = Over([x \in {t} |-> row], @)]
              /\ Continue(h, [c EXCEPT !.dirty = {}])
              /\ UNCHANGED <<db, history>>
    BY DEF Update
  <1>2. PICK c : c = call[h]
    OBVIOUS
  <1>3. PICK v : v = Sees(h)
    OBVIOUS
  <1>4. PICK t : t = Target(c, s)
    OBVIOUS
  <1>6. /\ c \in Calls /\ Holds(c) /\ Loaded(h, c) /\ c.op # "none"
        /\ Program[c.op][c.at] = s /\ Serial(c, v) /\ c.dirty # {} /\ DirtyOK(c)
    BY <1>1, <1>2, <1>3 DEF Inv, CallOK, At, SerialInv
  <1>7. t \in DOMAIN c.entity /\ t # NoRow
    <2>1. t # NoRow
      BY <1>4, <1>6 DEF DirtyOK
    <2> QED
      BY <1>1, <1>2, <1>4, <2>1, TargetHeld
  <1>8. t \in DOMAIN v /\ t \in Rows /\ v[t] \in Table(t) /\ c.entity[t] \in Table(t)
    <2>1. t \in DOMAIN Sees(h)
      BY <1>6, <1>7 DEF Loaded, Sees
    <2> QED
      BY <1>3, <1>6, <1>7, <2>1, SeenOK DEF Loaded, Fits
  <1>9. c.dirty = Differing(c.entity[t], v[t])
    BY <1>4, <1>6 DEF Serial, DirtyIs
  <1>10. Merge(c.entity[t], v[t], c.dirty) = c.entity[t]
    BY <1>8, <1>9, SameRow
  <1>11. PICK row : row = c.entity[t]
    OBVIOUS
  <1>12. own' = [own EXCEPT ![h] = Over([x \in {t} |-> row], @)] /\ UNCHANGED db
    BY <1>1, <1>2, <1>3, <1>4, <1>10, <1>11
  <1>13. PICK w : w = Sees(h)'
    OBVIOUS
  <1>14. SavedIn(v, w, t, row)
    <2>1. own \in [Handlers -> Partial]
      BY DEF Inv
    <2>2. /\ DOMAIN Sees(h)' = DOMAIN Sees(h) \cup {t}
          /\ Sees(h)'[t] = row
          /\ \A r \in DOMAIN Sees(h) \ {t} : Sees(h)'[r] = Sees(h)[r]
      BY <1>12, <2>1, SeesOwn
    <2> QED
      BY <1>3, <1>8, <1>13, <2>2 DEF SavedIn
  <1>15. PICK d : d = [[c EXCEPT !.dirty = {}] EXCEPT !.at = @ + 1]
    OBVIOUS
  <1>16. call' = [call EXCEPT ![h] = d]
    BY <1>1, <1>2, <1>15 DEF Continue
  <1>17. Advances(c, d)
    BY <1>6, <1>15 DEF Advances, Calls
  <1>18. Serial(d, w)
    BY <1>3, <1>4, <1>6, <1>7, <1>11, <1>14, <1>17, SeenWhole, AfterSave
  <1> QED
    BY <1>12, <1>13, <1>16, <1>18, Proceeds

-----------------------------------------------------------------------------
(* A save that inserts an item *)

\* In the rows w that follow v there is a new item i of n units.
AddedIn(v, w, i, n) ==
  /\ i \in Items /\ i \notin DOMAIN v /\ DOMAIN w = DOMAIN v \cup {i}
  /\ w[i].qty_on_hand = n
  /\ \A r \in DOMAIN v : w[r] = v[r]

LEMMA Added ==
  ASSUME NEW v, NEW w, NEW i, NEW n \in Int, AddedIn(v, w, i, n), Whole(v), Whole(db)
  PROVE  /\ i \in ItemsIn(w, ItemAt[i])
         /\ \A j \in Items : Quantity(w, j) = Quantity(v, j) + (IF j = i THEN n ELSE 0)
         /\ \A x : Shift(v, x, 0) => Shift(w, i, n)
         /\ \A S : Unlike(v, S) /\ i \in S => Unlike(w, S)
         /\ \A c, d, m, x : /\ SavedAt(c, v, m, x) /\ c.entity = d.entity
                            /\ c.at > m <=> d.at > m
                            => SavedAt(d, w, m, x)
  <1>1. i \in ItemsIn(w, ItemAt[i])
    BY DEF AddedIn, ItemsIn
  <1>2. ASSUME NEW j \in Items PROVE Quantity(w, j) = Quantity(v, j) + (IF j = i THEN n ELSE 0)
    <2>1. CASE j = i
      BY <2>1 DEF AddedIn, Quantity
    <2>2. CASE j # i
      <3>1. Quantity(w, j) = Quantity(v, j) /\ Quantity(v, j) \in Int
        BY <2>2 DEF AddedIn, Quantity, Whole
      <3> QED
        BY <2>2, <3>1
    <2> QED
      BY <2>1, <2>2
  <1>3. ASSUME NEW x, Shift(v, x, 0) PROVE Shift(w, i, n)
    <2>1. \A j \in Items : Quantity(v, j) = Quantity(db, j)
      BY <1>3 DEF Shift, Whole
    <2> QED
      BY <1>2, <2>1 DEF Shift
  <1>4. \A S : Unlike(v, S) /\ i \in S => Unlike(w, S)
    BY DEF Unlike, AddedIn
  <1>5. ASSUME NEW c, NEW d, NEW m, NEW x, SavedAt(c, v, m, x), c.entity = d.entity,
               c.at > m <=> d.at > m
        PROVE  SavedAt(d, w, m, x)
    BY <1>5 DEF SavedAt, AddedIn
  <1> QED
    BY <1>1, <1>2, <1>3, <1>4, <1>5

\* d is c at its next stage, naming the item it has inserted.
Names(c, d, i) ==
  /\ d.op = c.op /\ d.at = c.at + 1 /\ d.line = c.line /\ d.header = c.header
  /\ d.location = c.location /\ d.item = i /\ d.qty = c.qty
  /\ d.entity = c.entity /\ d.dirty = {}

LEMMA PutawayInserted ==
  ASSUME NEW c \in Calls, Holds(c), NEW v, PutawayCall(c, v), c.op = "putaway", c.at = 4,
         NEW i, NEW d, Names(c, d, i), NEW w, AddedIn(v, w, i, c.qty), ItemAt[i] = c.location,
         Whole(v), Whole(db)
  PROVE  PutawayCall(d, w)
  <1>1. /\ d.at = 5 /\ d.line = c.line /\ d.header = c.header /\ d.location = c.location
        /\ d.item = i /\ d.qty = c.qty /\ d.entity = c.entity /\ c.qty \in Int /\ i \in Items
    BY DEF Names, Calls, AddedIn
  <1>2. /\ c.header = ReceiptOf[c.line] /\ c.line \in DOMAIN db
        /\ db[c.line].putaway_location = NoRow
        /\ c.qty = db[c.line].accepted_qty /\ c.qty > 0
        /\ c.entity[c.line] = [db[c.line] EXCEPT !.putaway_location = c.location]
        /\ c.entity[c.location] = Fill(db[c.location], c.qty)
        /\ Shift(v, c.item, 0)
        /\ SavedAt(c, v, 2, c.line) /\ SavedAt(c, v, 5, c.location) /\ SavedAt(c, v, 7, c.header)
        /\ c.entity[c.header] = db[c.header]
        /\ Unlike(v, Items \cup {c.line, c.location, c.header})
    BY DEF PutawayCall
  <1>3. Shift(w, d.item, d.qty) /\ Unlike(w, Items \cup {d.line, d.location, d.header})
    BY <1>1, <1>2, Added
  <1>4. SavedAt(d, w, 2, d.line)
    BY <1>1, <1>2, Added
  <1>5. SavedAt(d, w, 5, d.location) /\ SavedAt(d, w, 7, d.header)
    BY <1>1, <1>2, Added
  <1>6. Received(d, w)
    BY <1>1, Added DEF Received
  <1> QED
    BY <1>1, <1>2, <1>3, <1>4, <1>5, <1>6 DEF PutawayCall

LEMMA TransferInserted ==
  ASSUME NEW c \in Calls, Holds(c), NEW v, TransferCall(c, v), c.op = "transfer", c.at = 3,
         NEW i, NEW d, Names(c, d, i), NEW w, AddedIn(v, w, i, c.qty), ItemAt[i] = c.location,
         Whole(v), Whole(db)
  PROVE  TransferCall(d, w)
  <1>1. /\ d.at = 4 /\ d.location = c.location
        /\ d.item = i /\ d.qty = c.qty /\ d.entity = c.entity /\ c.qty \in Int /\ i \in Items
    BY DEF Names, Calls, AddedIn
  <1>2. Unlike(w, Items) /\ "transfer" \in Operations /\ d.qty > 0
    BY <1>1, Added DEF TransferCall
  <1>3. PICK k \in Items \cap DOMAIN db :
          db[k].qty_on_hand >= c.qty /\ Shift(v, k, 0 - c.qty)
    BY DEF TransferCall
  <1>4. Received(d, w)
    BY <1>1, Added DEF Received
  <1>5. ASSUME NEW j \in Items
        PROVE  Quantity(w, j) = (Quantity(db, j) - (IF j = k THEN d.qty ELSE 0))
                                  + (IF j = d.item THEN d.qty ELSE 0)
    <2>1. Quantity(w, j) = Quantity(v, j) + (IF j = i THEN c.qty ELSE 0)
      BY <1>1, Added
    <2>2. Quantity(v, j) = Quantity(db, j) + (IF j = k THEN 0 - c.qty ELSE 0)
      BY <1>3 DEF Shift
    <2>3. Quantity(v, j) \in Int /\ Quantity(db, j) \in Int
      BY DEF Whole
    <2> QED
      BY <1>1, <2>1, <2>2, <2>3
  <1> QED
    BY <1>1, <1>2, <1>3, <1>4, <1>5 DEF TransferCall

LEMMA AdjustInserted ==
  ASSUME NEW c \in Calls, Holds(c), NEW v, AdjustCall(c, v), c.op = "adjust", c.at = 1,
         c.qty >= 0,
         NEW i, NEW d, Names(c, d, i), NEW w, AddedIn(v, w, i, c.qty), ItemAt[i] = c.location,
         Whole(v), Whole(db)
  PROVE  AdjustCall(d, w)
  <1>1. /\ d.at = 2 /\ d.location = c.location
        /\ d.item = i /\ d.qty = c.qty /\ c.qty \in Int /\ i \in Items
    BY DEF Names, Calls, AddedIn
  <1>2. Shift(v, c.item, 0) /\ Unlike(v, Items) /\ "adjust" \in Operations
    BY DEF AdjustCall
  <1>3. Shift(w, d.item, d.qty) /\ Unlike(w, Items)
    BY <1>1, <1>2, Added
  <1>4. Received(d, w) /\ w[d.item].qty_on_hand >= 0
    BY <1>1, Added DEF Received, AddedIn
  <1> QED
    BY <1>1, <1>2, <1>3, <1>4 DEF AdjustCall

LEMMA InsertSerial ==
  ASSUME OneCall, Inv, SerialInv, NEW h \in Handlers, Insert(h)
  PROVE  SerialInv'
  <1>1. PICK i \in Items :
          /\ At(h, "item") /\ call[h].item = NoRow
          /\ ItemAt[i] = call[h].location
          /\ i \notin DOMAIN Sees(h) \cup Locked(h)
          /\ own' = [own EXCEPT ![h] = Over([x \in {i} |-> [qty_on_hand |-> call[h].qty]], @)]
          /\ Continue(h, [call[h] EXCEPT !.item = i])
          /\ UNCHANGED <<db, history>>
    BY DEF Insert
  <1>2. PICK c : c = call[h]
    OBVIOUS
  <1>3. PICK v : v = Sees(h)
    OBVIOUS
  <1>4. PICK row : row = [qty_on_hand |-> c.qty]
    OBVIOUS
  <1>6. /\ c \in Calls /\ Holds(c) /\ c.op # "none" /\ c.qty \in Int /\ DirtyOK(c)
        /\ Program[c.op][c.at] = "item" /\ Serial(c, v)
    BY <1>1, <1>2, <1>3 DEF Inv, CallOK, At, SerialInv, Calls
  <1>7. c.dirty = {}
    <2>1. ASSUME NEW s \in Saves, Program[c.op][c.at] = s PROVE Target(c, s) = NoRow
      BY <1>1, <1>2, <1>6, <2>1 DEF Target
    <2> QED
      BY <1>6, <2>1 DEF DirtyOK
  <1>8. own' = [own EXCEPT ![h] = Over([x \in {i} |-> row], @)] /\ UNCHANGED db
    BY <1>1, <1>2, <1>4
  <1>9. PICK w : w = Sees(h)'
    OBVIOUS
  <1>10. AddedIn(v, w, i, c.qty)
    <2>1. own \in [Handlers -> Partial]
      BY DEF Inv
    <2>2. /\ DOMAIN Sees(h)' = DOMAIN Sees(h) \cup {i}
          /\ Sees(h)'[i] = row
          /\ \A r \in DOMAIN Sees(h) \ {i} : Sees(h)'[r] = Sees(h)[r]
      BY <1>8, <2>1, SeesOwn
    <2> QED
      BY <1>1, <1>3, <1>4, <1>9, <2>2 DEF AddedIn
  <1>11. PICK d : d = [[c EXCEPT !.item = i] EXCEPT !.at = @ + 1]
    OBVIOUS
  <1>12. call' = [call EXCEPT ![h] = d]
    BY <1>1, <1>2, <1>11 DEF Continue
  <1>13. Names(c, d, i)
    BY <1>6, <1>7, <1>11 DEF Names, Calls
  <1>14. \/ c.op = "putaway" /\ c.at = 4
         \/ c.op = "transfer" /\ c.at = 3
         \/ c.op = "adjust" /\ c.at = 1 /\ c.qty >= 0
    <2>1. c.item \notin DOMAIN c.entity
      BY <1>1, <1>2, <1>6, PartialRows, Kinds DEF Calls
    <2> QED
      BY <1>1, <1>2, <1>6, <2>1, StageAt DEF Holds
  <1>15. Whole(v) /\ Whole(db) /\ ItemAt[i] = c.location
    BY <1>1, <1>2, <1>3, SeenWhole
  <1>16. DirtyIs(d, w) /\ d.op = c.op
    BY <1>13, CleanDirty DEF Names
  <1>17. CASE c.op = "putaway"
    <2>1. PutawayCall(c, v)
      BY <1>6, <1>17 DEF Serial
    <2>2. PutawayCall(d, w)
      BY <1>6, <1>10, <1>13, <1>14, <1>15, <1>17, <2>1, PutawayInserted
    <2>3. Serial(d, w)
      BY <1>16, <1>17, <2>2, OneKind
    <2> QED
      BY <1>8, <1>9, <1>12, <2>3, Proceeds
  <1>18. CASE c.op = "transfer"
    <2>1. TransferCall(c, v)
      BY <1>6, <1>18 DEF Serial
    <2>2. TransferCall(d, w)
      BY <1>6, <1>10, <1>13, <1>14, <1>15, <1>18, <2>1, TransferInserted
    <2>3. Serial(d, w)
      BY <1>16, <1>18, <2>2, OneKind
    <2> QED
      BY <1>8, <1>9, <1>12, <2>3, Proceeds
  <1>19. CASE c.op = "adjust"
    <2>1. AdjustCall(c, v)
      BY <1>6, <1>19 DEF Serial
    <2>2. AdjustCall(d, w)
      BY <1>6, <1>10, <1>13, <1>14, <1>15, <1>19, <2>1, AdjustInserted
    <2>3. Serial(d, w)
      BY <1>16, <1>19, <2>2, OneKind
    <2> QED
      BY <1>8, <1>9, <1>12, <2>3, Proceeds
  <1> QED
    BY <1>14, <1>17, <1>18, <1>19

-----------------------------------------------------------------------------
(* Reads *)

Shaped(c) ==
  c = [op |-> c.op, at |-> c.at, line |-> c.line, header |-> c.header,
       location |-> c.location, item |-> c.item, qty |-> c.qty,
       entity |-> c.entity, dirty |-> c.dirty]

\* d is c but for its stage, its item and the entities it holds.
SameTask(c, d) ==
  /\ d.op = c.op /\ d.line = c.line /\ d.header = c.header
  /\ d.location = c.location /\ d.qty = c.qty /\ d.dirty = c.dirty

LEMMA CallShape == \A c \in Calls : Shaped(c)
  BY DEF Calls, Shaped

LEMMA WithShape ==
  ASSUME NEW c, Shaped(c), NEW r, NEW e, NEW d, d = With(c, r, e)
  PROVE  /\ Shaped(d) /\ SameTask(c, d) /\ d.at = c.at /\ d.item = c.item
         /\ d.entity[r] = e
         /\ \A x \in DOMAIN c.entity \ {r} : d.entity[x] = c.entity[x]
         /\ DOMAIN d.entity = DOMAIN c.entity \cup {r}
  <1>1. PICK f : f = Over([x \in {r} |-> e], c.entity)
    OBVIOUS
  <1>2. d = [op |-> c.op, at |-> c.at, line |-> c.line, header |-> c.header,
             location |-> c.location, item |-> c.item, qty |-> c.qty,
             entity |-> f, dirty |-> c.dirty]
    BY <1>1 DEF With, Shaped
  <1>3. /\ f[r] = e /\ DOMAIN f = DOMAIN c.entity \cup {r}
        /\ \A x \in DOMAIN c.entity \ {r} : f[x] = c.entity[x]
    BY <1>1 DEF Over
  <1> QED
    BY <1>2, <1>3 DEF Shaped, SameTask

LEMMA NextShape ==
  ASSUME NEW c, Shaped(c), NEW d, d = [c EXCEPT !.at = @ + 1]
  PROVE  Shaped(d) /\ SameTask(c, d) /\ d.at = c.at + 1 /\ d.item = c.item /\ d.entity = c.entity
  BY DEF Shaped, SameTask

LEMMA NameShape ==
  ASSUME NEW c, Shaped(c), NEW i, NEW d, d = [c EXCEPT !.item = i]
  PROVE  Shaped(d) /\ SameTask(c, d) /\ d.at = c.at /\ d.item = i /\ d.entity = c.entity
  BY DEF Shaped, SameTask

\* Only the stage and the entity of a row saved later may change.
LEMMA StillSaved ==
  ASSUME NEW c, NEW d, NEW v, NEW n, NEW t, SavedAt(c, v, n, t),
         ~(c.at > n), ~(d.at > n)
  PROVE  SavedAt(d, v, n, t)
  BY DEF SavedAt

\* Nothing is written at a stage that does not save.
LEMMA ReadStage ==
  ASSUME Inv, SerialInv, NEW h \in Handlers, NEW stage, At(h, stage), stage \notin Saves
  PROVE  /\ call[h] \in Calls /\ Holds(call[h]) /\ call[h].dirty = {}
         /\ Shaped(call[h]) /\ Serial(call[h], Sees(h)) /\ call[h].op # "none"
  BY NothingDirty, CallShape DEF Inv, CallOK, SerialInv, At

LEMMA CheckLocationSerial ==
  ASSUME OneCall, Inv, SerialInv, NEW h \in Handlers, CheckLocation(h)
  PROVE  SerialInv'
  <1>1. PICK c : c = call[h]
    OBVIOUS
  <1>2. PICK v : v = Sees(h)
    OBVIOUS
  <1>3. PICK e1 : e1 = [c.entity[c.line] EXCEPT !.putaway_location = c.location]
    OBVIOUS
  <1>4. PICK e2 : e2 = Fill(v[c.location], c.qty)
    OBVIOUS
  <1>5. PICK c1 : c1 = With(c, c.line, e1)
    OBVIOUS
  <1>6. PICK c2 : c2 = With(c1, c.location, e2)
    OBVIOUS
  <1>7. PICK d : d = [c2 EXCEPT !.at = @ + 1]
    OBVIOUS
  <1>8. At(h, "checkLocation") /\ call' = [call EXCEPT ![h] = d] /\ UNCHANGED <<db, own>>
    BY <1>1, <1>2, <1>3, <1>4, <1>5, <1>6, <1>7 DEF CheckLocation, Continue
  <1>9. /\ c \in Calls /\ Holds(c) /\ c.dirty = {} /\ Shaped(c) /\ Serial(c, v)
        /\ c.op = "putaway" /\ c.at = 1
    BY <1>1, <1>2, <1>8, ReadStage, StageAt DEF Saves
  <1>10. PutawayCall(c, v)
    BY <1>9 DEF Serial
  <1>11. /\ c.line \in Lines /\ c.header \in Receipts /\ c.location \in Locations
         /\ c.header \in DOMAIN c.entity
    BY <1>9 DEF Holds
  <1>12. c.line # c.location /\ c.header # c.line /\ c.header # c.location
    BY <1>11, Kinds
  <1>13. /\ SameTask(c, d) /\ d.at = 2 /\ d.item = c.item
         /\ d.entity[c.line] = e1 /\ d.entity[c.location] = e2
         /\ d.entity[c.header] = c.entity[c.header]
    <2>1. /\ Shaped(c1) /\ SameTask(c, c1) /\ c1.at = c.at /\ c1.item = c.item
          /\ c1.entity[c.line] = e1 /\ c1.entity[c.header] = c.entity[c.header]
          /\ c.line \in DOMAIN c1.entity /\ c.header \in DOMAIN c1.entity
      BY <1>5, <1>9, <1>11, <1>12, WithShape
    <2>2. /\ Shaped(c2) /\ SameTask(c1, c2) /\ c2.at = c1.at /\ c2.item = c1.item
          /\ c2.entity[c.location] = e2 /\ c2.entity[c.line] = e1
          /\ c2.entity[c.header] = c.entity[c.header]
      BY <1>6, <1>12, <2>1, WithShape
    <2>3. SameTask(c2, d) /\ d.at = c2.at + 1 /\ d.item = c2.item /\ d.entity = c2.entity
      BY <1>7, <2>2, NextShape
    <2> QED
      BY <1>9, <2>1, <2>2, <2>3 DEF SameTask
  <1>14. v[c.location] = db[c.location]
    BY <1>9, <1>10 DEF PutawayCall, SavedAt
  <1>15. e1 = [db[c.line] EXCEPT !.putaway_location = c.location]
    BY <1>3, <1>9, <1>10 DEF PutawayCall
  <1>16. /\ SavedAt(d, v, 2, d.line) /\ SavedAt(d, v, 5, d.location) /\ SavedAt(d, v, 7, d.header)
    BY <1>9, <1>10, <1>13, StillSaved DEF PutawayCall, SameTask
  <1>17. PutawayCall(d, v)
    BY <1>4, <1>9, <1>10, <1>13, <1>14, <1>15, <1>16 DEF PutawayCall, SameTask
  <1>18. Serial(d, v)
    <2>1. d.dirty = {} /\ d.op = "putaway"
      BY <1>9, <1>13 DEF SameTask
    <2> QED
      BY <1>17, <2>1, CleanDirty, OneKind
  <1>19. Sees(h)' = v
    BY <1>2, <1>8 DEF Sees
  <1> QED
    BY <1>8, <1>18, <1>19, Proceeds

LEMMA ItemsInIs ==
  ASSUME NEW h
  PROVE  \A loc : ItemsSeen(h, loc) = ItemsIn(Sees(h), loc)
  BY DEF ItemsSeen, ItemsIn

LEMMA FindReceiverSerial ==
  ASSUME OneCall, Inv, SerialInv, NEW h \in Handlers, FindReceiver(h)
  PROVE  SerialInv'
  <1>1. PICK c : c = call[h]
    OBVIOUS
  <1>2. PICK v : v = Sees(h)
    OBVIOUS
  <1>3. /\ At(h, "findItem") /\ c.op \in {"putaway", "transfer"} /\ UNCHANGED <<db, own>>
        /\ \E i \in FindItem(h, c.location) :
             Continue(h, IF i = NoRow THEN [c EXCEPT !.item = NoRow]
                         ELSE With([c EXCEPT !.item = i], i,
                                   [v[i] EXCEPT !.qty_on_hand = @ + c.qty]))
    BY <1>1, <1>2 DEF FindReceiver
  <1>4. PICK i \in FindItem(h, c.location) :
             Continue(h, IF i = NoRow THEN [c EXCEPT !.item = NoRow]
                         ELSE With([c EXCEPT !.item = i], i,
                                   [v[i] EXCEPT !.qty_on_hand = @ + c.qty]))
    BY <1>3
  <1>5. \/ i = NoRow /\ ItemsIn(v, c.location) = {}
        \/ i # NoRow /\ i \in ItemsIn(v, c.location)
    <2>1. ItemsSeen(h, c.location) = ItemsIn(v, c.location)
      BY <1>2, ItemsInIs
    <2>2. \A j \in ItemsIn(v, c.location) : j # NoRow
      BY Kinds DEF ItemsIn, Rows
    <2> QED
      BY <2>1, <2>2 DEF FindItem
  <1>6. /\ c \in Calls /\ Holds(c) /\ c.dirty = {} /\ Shaped(c) /\ Serial(c, v)
        /\ \/ c.op = "putaway" /\ c.at = 3
           \/ c.op = "transfer" /\ c.at = 2
    BY <1>1, <1>2, <1>3, ReadStage, StageAt DEF Saves
  <1>7. PICK e : e = [v[i] EXCEPT !.qty_on_hand = @ + c.qty]
    OBVIOUS
  <1>8. PICK c1 : c1 = [c EXCEPT !.item = i]
    OBVIOUS
  <1>9. Shaped(c1) /\ SameTask(c, c1) /\ c1.at = c.at /\ c1.item = i /\ c1.entity = c.entity
    BY <1>6, <1>8, NameShape
  <1>10. PICK c2 : c2 = IF i = NoRow THEN c1 ELSE With(c1, i, e)
    OBVIOUS
  <1>11. PICK d : d = [c2 EXCEPT !.at = @ + 1]
    OBVIOUS
  <1>12. call' = [call EXCEPT ![h] = d]
    BY <1>4, <1>7, <1>8, <1>10, <1>11 DEF Continue
  <1>13. /\ SameTask(c, d) /\ d.at = c.at + 1 /\ d.item = i
         /\ i # NoRow => d.entity[i] = e
         /\ \A x \in DOMAIN c.entity \ {i} : d.entity[x] = c.entity[x]
    <2>1. /\ Shaped(c2) /\ SameTask(c1, c2) /\ c2.at = c1.at /\ c2.item = c1.item
          /\ i # NoRow => c2.entity[i] = e
          /\ \A x \in DOMAIN c.entity \ {i} : c2.entity[x] = c.entity[x]
      <3>1. CASE i = NoRow
        BY <1>9, <1>10, <3>1 DEF SameTask
      <3>2. CASE i # NoRow
        <4>1. c2 = With(c1, i, e)
          BY <1>10, <3>2
        <4> QED
          BY <1>9, <4>1, WithShape
      <3> QED
        BY <3>1, <3>2
    <2>2. SameTask(c2, d) /\ d.at = c2.at + 1 /\ d.item = c2.item /\ d.entity = c2.entity
      BY <1>11, <2>1, NextShape
    <2> QED
      BY <1>9, <2>1, <2>2 DEF SameTask
  <1>14. Receives(d, v)
    <2>1. CASE i = NoRow
      BY <1>5, <1>13, <2>1 DEF Receives, SameTask
    <2>2. CASE i # NoRow
      <3>1. i \in ItemsIn(v, c.location) /\ i \in Items /\ i \in DOMAIN v
        BY <1>5, <2>2 DEF ItemsIn
      <3>2. v[i] \in InventoryItem
        BY <1>2, <3>1, SeenOK, Tables DEF Fits
      <3>3. e.qty_on_hand = v[i].qty_on_hand + c.qty
        BY <1>7, <3>2 DEF InventoryItem
      <3> QED
        BY <1>13, <2>2, <3>1, <3>3 DEF Receives, SameTask
    <2> QED
      BY <2>1, <2>2
  <1>15. d.dirty = {} /\ d.op = c.op
    BY <1>6, <1>13 DEF SameTask
  <1>16. Sees(h)' = v
    BY <1>2, <1>3 DEF Sees
  <1>17. CASE c.op = "putaway"
    <2>1. PutawayCall(c, v) /\ c.at = 3 /\ d.at = 4
      BY <1>6, <1>13, <1>17 DEF Serial
    <2>2. /\ c.line \in Lines /\ c.header \in Receipts /\ c.location \in Locations
          /\ c.line \in DOMAIN c.entity /\ c.header \in DOMAIN c.entity
          /\ c.location \in DOMAIN c.entity
      BY <1>17, <2>1, <1>6 DEF Holds
    <2>3. i # c.line /\ i # c.header /\ i # c.location
      BY <1>5, <2>2, Kinds DEF ItemsIn, Rows
    <2>4. /\ d.entity[c.line] = c.entity[c.line] /\ d.entity[c.header] = c.entity[c.header]
          /\ d.entity[c.location] = c.entity[c.location]
      BY <1>13, <2>2, <2>3
    <2>5. SavedAt(d, v, 5, d.location) /\ SavedAt(d, v, 7, d.header)
      BY <1>13, <2>1, StillSaved DEF PutawayCall, SameTask
    <2>6. SavedAt(d, v, 2, d.line)
      BY <1>13, <2>1, <2>4 DEF PutawayCall, SameTask, SavedAt
    <2>7. Shift(v, d.item, 0)
      <3>1. Shift(v, c.item, 0)
        BY <2>1 DEF PutawayCall
      <3> QED
        BY <3>1 DEF Shift
    <2>8. PutawayCall(d, v)
      BY <1>13, <1>14, <2>1, <2>4, <2>5, <2>6, <2>7 DEF PutawayCall, SameTask
    <2>9. Serial(d, v)
      BY <1>15, <1>17, <2>8, CleanDirty, OneKind
    <2> QED
      BY <1>3, <1>12, <1>16, <2>9, Proceeds
  <1>18. CASE c.op = "transfer"
    <2>1. TransferCall(c, v) /\ c.at = 2 /\ d.at = 3
      BY <1>6, <1>13, <1>18 DEF Serial
    <2>2. TransferCall(d, v)
      BY <1>13, <1>14, <2>1 DEF TransferCall, SameTask
    <2>3. Serial(d, v)
      BY <1>15, <1>18, <2>2, CleanDirty, OneKind
    <2> QED
      BY <1>3, <1>12, <1>16, <2>3, Proceeds
  <1> QED
    BY <1>3, <1>17, <1>18

LEMMA FindStockSerial ==
  ASSUME OneCall, Inv, SerialInv, NEW h \in Handlers, FindStock(h)
  PROVE  SerialInv'
  <1>1. PICK c : c = call[h]
    OBVIOUS
  <1>2. PICK v : v = Sees(h)
    OBVIOUS
  <1>3. /\ At(h, "findItem") /\ c.op = "pick" /\ UNCHANGED <<db, own>>
        /\ \E i \in ItemsSeen(h, c.location) :
             /\ v[i].qty_on_hand >= c.qty
             /\ Continue(h, With([c EXCEPT !.item = i], i,
                                 [v[i] EXCEPT !.qty_on_hand = @ - c.qty]))
    BY <1>1, <1>2 DEF FindStock
  <1>4. PICK i \in ItemsIn(v, c.location) :
             /\ v[i].qty_on_hand >= c.qty
             /\ Continue(h, With([c EXCEPT !.item = i], i,
                                 [v[i] EXCEPT !.qty_on_hand = @ - c.qty]))
    BY <1>2, <1>3, ItemsInIs
  <1>6. /\ c \in Calls /\ Holds(c) /\ c.dirty = {} /\ Shaped(c) /\ Serial(c, v) /\ c.at = 1
    BY <1>1, <1>2, <1>3, ReadStage, StageAt DEF Saves
  <1>7. PICK e : e = [v[i] EXCEPT !.qty_on_hand = @ - c.qty]
    OBVIOUS
  <1>8. PICK c1 : c1 = [c EXCEPT !.item = i]
    OBVIOUS
  <1>9. Shaped(c1) /\ SameTask(c, c1) /\ c1.at = c.at /\ c1.item = i /\ c1.entity = c.entity
    BY <1>6, <1>8, NameShape
  <1>10. PICK c2 : c2 = With(c1, i, e)
    OBVIOUS
  <1>11. PICK d : d = [c2 EXCEPT !.at = @ + 1]
    OBVIOUS
  <1>12. call' = [call EXCEPT ![h] = d]
    BY <1>4, <1>7, <1>8, <1>10, <1>11 DEF Continue
  <1>13. /\ SameTask(c, d) /\ d.at = 2 /\ d.item = i /\ d.entity[i] = e
         /\ \A x \in DOMAIN c.entity \ {i} : d.entity[x] = c.entity[x]
    <2>1. /\ Shaped(c2) /\ SameTask(c1, c2) /\ c2.at = c1.at /\ c2.item = c1.item
          /\ c2.entity[i] = e
          /\ \A x \in DOMAIN c.entity \ {i} : c2.entity[x] = c.entity[x]
      BY <1>9, <1>10, WithShape
    <2>2. SameTask(c2, d) /\ d.at = c2.at + 1 /\ d.item = c2.item /\ d.entity = c2.entity
      BY <1>11, <2>1, NextShape
    <2> QED
      BY <1>6, <1>9, <2>1, <2>2 DEF SameTask
  <1>14. PickCall(c, v) /\ c.qty \in Int /\ c.qty > 0
    BY <1>3, <1>6 DEF Serial, PickCall, Calls
  <1>15. i \in Items /\ i \in DOMAIN v /\ ItemAt[i] = c.location
    BY DEF ItemsIn
  <1>16. v[i] \in InventoryItem
    BY <1>2, <1>15, SeenOK, Tables DEF Fits
  <1>17. Quantity(v, i) = Quantity(db, i) + 0 /\ Quantity(db, i) \in Int
    BY <1>6, <1>14, <1>15, SeenWhole DEF PickCall, Shift, Whole
  <1>18. /\ i \in DOMAIN db /\ db[i].qty_on_hand = v[i].qty_on_hand
    <2>1. Quantity(v, i) = v[i].qty_on_hand /\ v[i].qty_on_hand >= c.qty
      BY <1>4, <1>15 DEF Quantity
    <2>2. Quantity(db, i) >= c.qty
      BY <1>17, <2>1
    <2>3. i \in DOMAIN db
      BY <1>14, <2>2 DEF Quantity
    <2> QED
      BY <1>17, <2>1, <2>3 DEF Quantity
  <1>19. /\ i \in ItemsIn(db, c.location) /\ db[i].qty_on_hand >= c.qty
         /\ e.qty_on_hand = db[i].qty_on_hand - c.qty
    BY <1>4, <1>7, <1>15, <1>16, <1>18 DEF ItemsIn, InventoryItem
  <1>20. /\ c.line \in OutLines /\ c.header \in Orders
         /\ c.line \in DOMAIN c.entity /\ c.header \in DOMAIN c.entity
    BY <1>3, <1>6 DEF Holds
  <1>21. /\ d.entity[c.line] = c.entity[c.line] /\ d.entity[c.header] = c.entity[c.header]
    BY <1>13, <1>15, <1>20, Kinds
  <1>22. SavedAt(d, v, 4, d.location) /\ SavedAt(d, v, 5, d.line) /\ SavedAt(d, v, 7, d.header)
    BY <1>6, <1>13, <1>14, StillSaved DEF PickCall, SameTask
  <1>23. Shift(v, d.item, 0)
    <2>1. Shift(v, c.item, 0)
      BY <1>6, <1>14 DEF PickCall
    <2> QED
      BY <2>1 DEF Shift
  <1>24. PickCall(d, v)
    BY <1>6, <1>13, <1>14, <1>19, <1>21, <1>22, <1>23 DEF PickCall, SameTask
  <1>25. Serial(d, v)
    <2>1. d.dirty = {} /\ d.op = "pick"
      BY <1>3, <1>6, <1>13 DEF SameTask
    <2> QED
      BY <1>24, <2>1, CleanDirty, OneKind
  <1>26. Sees(h)' = v
    BY <1>2, <1>3 DEF Sees
  <1> QED
    BY <1>3, <1>12, <1>25, <1>26, Proceeds

LEMMA ReadLocationSerial ==
  ASSUME OneCall, Inv, SerialInv, NEW h \in Handlers, ReadLocation(h)
  PROVE  SerialInv'
  <1>1. PICK c : c = call[h]
    OBVIOUS
  <1>2. PICK v : v = Sees(h)
    OBVIOUS
  <1>3. PICK e1 : e1 = Drain(v[c.location], c.qty)
    OBVIOUS
  <1>4. PICK e2 : e2 = Picked(c.entity[c.line], c.qty)
    OBVIOUS
  <1>5. PICK c1 : c1 = With(c, c.location, e1)
    OBVIOUS
  <1>6. PICK c2 : c2 = With(c1, c.line, e2)
    OBVIOUS
  <1>7. PICK d : d = [c2 EXCEPT !.at = @ + 1]
    OBVIOUS
  <1>8. At(h, "readLocation") /\ call' = [call EXCEPT ![h] = d] /\ UNCHANGED <<db, own>>
    BY <1>1, <1>2, <1>3, <1>4, <1>5, <1>6, <1>7 DEF ReadLocation, Continue
  <1>9. /\ c \in Calls /\ Holds(c) /\ c.dirty = {} /\ Shaped(c) /\ Serial(c, v)
        /\ c.op = "pick" /\ c.at = 3
    BY <1>1, <1>2, <1>8, ReadStage, StageAt DEF Saves
  <1>10. PickCall(c, v)
    BY <1>9 DEF Serial
  <1>11. /\ c.line \in OutLines /\ c.header \in Orders /\ c.location \in Locations
         /\ c.header \in DOMAIN c.entity
    BY <1>9 DEF Holds
  <1>12. c.line # c.location /\ c.header # c.line /\ c.header # c.location
    BY <1>11, Kinds
  <1>13. /\ SameTask(c, d) /\ d.at = 4 /\ d.item = c.item
         /\ d.entity[c.location] = e1 /\ d.entity[c.line] = e2
         /\ d.entity[c.header] = c.entity[c.header]
    <2>1. /\ Shaped(c1) /\ SameTask(c, c1) /\ c1.at = c.at /\ c1.item = c.item
          /\ c1.entity[c.location] = e1 /\ c1.entity[c.header] = c.entity[c.header]
          /\ c.location \in DOMAIN c1.entity /\ c.header \in DOMAIN c1.entity
      BY <1>5, <1>9, <1>11, <1>12, WithShape
    <2>2. /\ Shaped(c2) /\ SameTask(c1, c2) /\ c2.at = c1.at /\ c2.item = c1.item
          /\ c2.entity[c.line] = e2 /\ c2.entity[c.location] = e1
          /\ c2.entity[c.header] = c.entity[c.header]
      BY <1>6, <1>12, <2>1, WithShape
    <2>3. SameTask(c2, d) /\ d.at = c2.at + 1 /\ d.item = c2.item /\ d.entity = c2.entity
      BY <1>7, <2>2, NextShape
    <2> QED
      BY <1>9, <2>1, <2>2, <2>3 DEF SameTask
  <1>14. v[c.location] = db[c.location] /\ c.entity[c.line] = db[c.line]
    BY <1>9, <1>10 DEF PickCall, SavedAt
  <1>15. e1 = Drain(db[c.location], c.qty) /\ e2 = Picked(db[c.line], c.qty)
    BY <1>3, <1>4, <1>14
  <1>16. /\ SavedAt(d, v, 4, d.location) /\ SavedAt(d, v, 5, d.line) /\ SavedAt(d, v, 7, d.header)
    BY <1>9, <1>10, <1>13, StillSaved DEF PickCall, SameTask
  <1>17. PickCall(d, v)
    BY <1>9, <1>10, <1>13, <1>15, <1>16 DEF PickCall, SameTask
  <1>18. Serial(d, v)
    <2>1. d.dirty = {} /\ d.op = "pick"
      BY <1>9, <1>13 DEF SameTask
    <2> QED
      BY <1>17, <2>1, CleanDirty, OneKind
  <1>19. Sees(h)' = v
    BY <1>2, <1>8 DEF Sees
  <1> QED
    BY <1>8, <1>18, <1>19, Proceeds

\* d is c once it has the status a scan gives.
Concludes(c, d, status) ==
  /\ SameTask(c, d) /\ d.item = c.item /\ d.entity[c.header].status = status
  /\ \A x \in DOMAIN c.entity \ {c.header} : d.entity[x] = c.entity[x]
  /\ \/ d.at = 7
     \/ d.at = 8 /\ d.entity = c.entity

\* The scan of all lines leaves the status it found, or holds a new one.
LEMMA Concluded ==
  ASSUME NEW h \in Handlers, At(h, "scan"), NEW c \in Calls, c = call[h], c.dirty = {}, c.at = 6,
         NEW done, NEW status, Conclude(h, done, status),
         c.entity[c.header] \in Table(c.header), c.header \in Receipts \cup Orders,
         c.header \in DOMAIN c.entity
  PROVE  \E d : call' = [call EXCEPT ![h] = d] /\ Concludes(c, d, status)
  <1>1. Shaped(c)
    BY CallShape
  <1>2. CASE ~ done /\ c.entity[c.header].status = status
    <2>1. PICK d1 : d1 = [c EXCEPT !.at = @ + 1]
      OBVIOUS
    <2>2. PICK d : d = [d1 EXCEPT !.at = @ + 1]
      OBVIOUS
    <2>3. call' = [call EXCEPT ![h] = d]
      BY <1>2, <2>1, <2>2 DEF Conclude, Continue
    <2>4. /\ Shaped(d1) /\ SameTask(c, d1) /\ d1.at = 7 /\ d1.item = c.item
          /\ d1.entity = c.entity
      BY <1>1, <2>1, NextShape
    <2>5. /\ SameTask(d1, d) /\ d.at = 8 /\ d.item = d1.item /\ d.entity = d1.entity
      BY <2>2, <2>4, NextShape
    <2>6. SameTask(c, d) /\ d.at = 8 /\ d.item = c.item /\ d.entity = c.entity
      BY <2>4, <2>5 DEF SameTask
    <2>7. d.entity[c.header].status = status
      BY <1>2, <2>6
    <2>8. \A x \in DOMAIN c.entity \ {c.header} : d.entity[x] = c.entity[x]
      BY <2>6
    <2>9. Concludes(c, d, status)
      BY <2>6, <2>7, <2>8 DEF Concludes
    <2> QED
      BY <2>3, <2>9
  <1>3. CASE ~(~ done /\ c.entity[c.header].status = status)
    <2>1. PICK e : e = [c.entity[c.header] EXCEPT !.status = status]
      OBVIOUS
    <2>2. PICK d1 : d1 = With(c, c.header, e)
      OBVIOUS
    <2>3. PICK d : d = [d1 EXCEPT !.at = @ + 1]
      OBVIOUS
    <2>4. call' = [call EXCEPT ![h] = d]
      BY <1>3, <2>1, <2>2, <2>3 DEF Conclude, Continue
    <2>5. /\ Shaped(d1) /\ SameTask(c, d1) /\ d1.at = 6 /\ d1.item = c.item
          /\ d1.entity[c.header] = e
          /\ \A x \in DOMAIN c.entity \ {c.header} : d1.entity[x] = c.entity[x]
      BY <1>1, <2>2, WithShape
    <2>6. /\ SameTask(d1, d) /\ d.at = 7 /\ d.item = d1.item /\ d.entity = d1.entity
      BY <2>3, <2>5, NextShape
    <2>7. e.status = status
      <3>1. c.entity[c.header] \in [status : InboundStatus] \cup [status : OutboundStatus]
        BY Tables
      <3> QED
        BY <2>1, <3>1
    <2>8. Concludes(c, d, status)
      BY <2>5, <2>6, <2>7 DEF SameTask, Concludes
    <2> QED
      BY <2>4, <2>8
  <1> QED
    BY <1>2, <1>3

LEMMA SavedSame ==
  ASSUME NEW c, NEW d, NEW v, NEW n, NEW t, SavedAt(c, v, n, t),
         c.entity[t] = d.entity[t], c.at > n <=> d.at > n
  PROVE  SavedAt(d, v, n, t)
  BY DEF SavedAt

LEMMA ScanInboundSerial ==
  ASSUME OneCall, Inv, SerialInv, NEW h \in Handlers, ScanInbound(h)
  PROVE  SerialInv'
  <1>1. PICK c : c = call[h]
    OBVIOUS
  <1>2. PICK v : v = Sees(h)
    OBVIOUS
  <1>3. PICK done : done = (\A l \in Lines \cap DOMAIN v :
                       ReceiptOf[l] = c.header => v[l].putaway_location # NoRow)
    OBVIOUS
  <1>4. PICK status : status = IF done THEN "COMPLETED" ELSE "PUTAWAY"
    OBVIOUS
  <1>5. done <=> \A l \in LinesOf(h, c.header) : v[l].putaway_location # NoRow
    BY <1>2, <1>3 DEF LinesOf
  <1>6. PICK all : all = (\A l \in LinesOf(h, c.header) : v[l].putaway_location # NoRow)
    OBVIOUS
  <1>7. /\ At(h, "scan") /\ c.op = "putaway" /\ UNCHANGED <<db, own>>
        /\ Conclude(h, all, IF all THEN "COMPLETED" ELSE "PUTAWAY")
    BY <1>1, <1>2, <1>6 DEF ScanInbound
  <1>8. /\ c \in Calls /\ Holds(c) /\ c.dirty = {} /\ Shaped(c) /\ Serial(c, v) /\ c.at = 6
    BY <1>1, <1>2, <1>7, ReadStage, StageAt DEF Saves
  <1>9. Conclude(h, all, status)
    <2>1. (IF all THEN "COMPLETED" ELSE "PUTAWAY") = status
      BY <1>4, <1>5, <1>6
    <2> QED
      BY <1>7, <2>1
  <1>10. PutawayCall(c, v)
    BY <1>7, <1>8 DEF Serial
  <1>11. /\ c.line \in Lines /\ c.header \in Receipts /\ c.location \in Locations
         /\ c.header \in DOMAIN c.entity /\ c.line \in DOMAIN c.entity
         /\ c.location \in DOMAIN c.entity
    BY <1>7, <1>8 DEF Holds
  <1>12. c.line # c.location /\ c.header # c.line /\ c.header # c.location
    BY <1>11, Kinds
  <1>13. c.entity[c.header] \in Table(c.header)
    <2>1. Loaded(h, c)
      BY <1>1 DEF Inv, CallOK
    <2> QED
      BY <1>11, <2>1 DEF Loaded, Fits
  <1>23. \E d : call' = [call EXCEPT ![h] = d] /\ Concludes(c, d, status)
    <2>1. At(h, "scan") /\ c.header \in Receipts \cup Orders
      BY <1>7, <1>11
    <2> QED
      BY <1>1, <1>8, <1>9, <1>11, <1>13, <2>1, Concluded
  <1>24. PICK d : call' = [call EXCEPT ![h] = d] /\ Concludes(c, d, status)
    BY <1>23
  <1>14. /\ call' = [call EXCEPT ![h] = d]
         /\ SameTask(c, d) /\ d.item = c.item /\ d.entity[c.header].status = status
         /\ \A x \in DOMAIN c.entity \ {c.header} : d.entity[x] = c.entity[x]
         /\ \/ d.at = 7
            \/ d.at = 8 /\ d.entity = c.entity
    BY <1>24 DEF Concludes
  <1>15. d.entity[c.line] = c.entity[c.line] /\ d.entity[c.location] = c.entity[c.location]
    BY <1>11, <1>12, <1>14
  <1>16. SavedAt(d, v, 2, d.line) /\ SavedAt(d, v, 5, d.location)
    <2>1. /\ SavedAt(c, v, 2, c.line) /\ SavedAt(c, v, 5, c.location)
          /\ c.at > 2 <=> d.at > 2
          /\ c.at > 5 <=> d.at > 5
      BY <1>8, <1>10, <1>14 DEF PutawayCall
    <2>2. SavedAt(d, v, 2, c.line) /\ SavedAt(d, v, 5, c.location)
      BY <1>15, <2>1, SavedSame
    <2> QED
      BY <1>14, <2>2 DEF SameTask
  <1>17. SavedAt(d, v, 7, d.header)
    <2>1. SavedAt(c, v, 7, c.header) /\ c.entity[c.header] = db[c.header] /\ d.header = c.header
      BY <1>8, <1>10, <1>14 DEF PutawayCall, SameTask
    <2> QED
      BY <1>8, <1>14, <2>1 DEF SavedAt
  <1>18. d.entity[d.header].status =
           IF \A l \in Lines \cap DOMAIN v : ReceiptOf[l] = d.header => v[l].putaway_location # NoRow
           THEN "COMPLETED" ELSE "PUTAWAY"
    BY <1>3, <1>4, <1>14 DEF SameTask
  <1>19. Shift(v, d.item, d.qty) /\ Received(d, v)
    BY <1>8, <1>10, <1>14 DEF PutawayCall, SameTask, Received
  <1>20. PutawayCall(d, v)
    BY <1>8, <1>10, <1>14, <1>15, <1>16, <1>17, <1>18, <1>19 DEF PutawayCall, SameTask
  <1>21. Serial(d, v)
    <2>1. d.dirty = {} /\ d.op = "putaway"
      BY <1>7, <1>8, <1>14 DEF SameTask
    <2> QED
      BY <1>20, <2>1, CleanDirty, OneKind
  <1>22. Sees(h)' = v
    BY <1>2, <1>7 DEF Sees
  <1> QED
    BY <1>7, <1>14, <1>21, <1>22, Proceeds

LEMMA ScanOutboundSerial ==
  ASSUME OneCall, Inv, SerialInv, NEW h \in Handlers, ScanOutbound(h)
  PROVE  SerialInv'
  <1>1. PICK c : c = call[h]
    OBVIOUS
  <1>2. PICK v : v = Sees(h)
    OBVIOUS
  <1>3. PICK done : done = (\A l \in OutLines \cap DOMAIN v :
                       OrderOf[l] = c.header => v[l].pick_status = "PICKED")
    OBVIOUS
  <1>4. PICK status : status = IF done THEN "PICKED" ELSE "PICKING"
    OBVIOUS
  <1>5. done <=> \A l \in OutLinesOf(h, c.header) : v[l].pick_status = "PICKED"
    BY <1>2, <1>3 DEF OutLinesOf
  <1>6. PICK all : all = (\A l \in OutLinesOf(h, c.header) : v[l].pick_status = "PICKED")
    OBVIOUS
  <1>7. /\ At(h, "scan") /\ c.op = "pick" /\ UNCHANGED <<db, own>>
        /\ Conclude(h, all, IF all THEN "PICKED" ELSE "PICKING")
    BY <1>1, <1>2, <1>6 DEF ScanOutbound
  <1>8. /\ c \in Calls /\ Holds(c) /\ c.dirty = {} /\ Shaped(c) /\ Serial(c, v) /\ c.at = 6
    BY <1>1, <1>2, <1>7, ReadStage, StageAt DEF Saves
  <1>9. Conclude(h, all, status)
    <2>1. (IF all THEN "PICKED" ELSE "PICKING") = status
      BY <1>4, <1>5, <1>6
    <2> QED
      BY <1>7, <2>1
  <1>10. PickCall(c, v)
    BY <1>7, <1>8 DEF Serial
  <1>11. /\ c.line \in OutLines /\ c.header \in Orders /\ c.location \in Locations
         /\ c.header \in DOMAIN c.entity /\ c.line \in DOMAIN c.entity
         /\ c.location \in DOMAIN c.entity
    BY <1>7, <1>8 DEF Holds
  <1>12. c.line # c.location /\ c.header # c.line /\ c.header # c.location
    BY <1>11, Kinds
  <1>13. c.entity[c.header] \in Table(c.header)
    <2>1. Loaded(h, c)
      BY <1>1 DEF Inv, CallOK
    <2> QED
      BY <1>11, <2>1 DEF Loaded, Fits
  <1>23. \E d : call' = [call EXCEPT ![h] = d] /\ Concludes(c, d, status)
    <2>1. At(h, "scan") /\ c.header \in Receipts \cup Orders
      BY <1>7, <1>11
    <2> QED
      BY <1>1, <1>8, <1>9, <1>11, <1>13, <2>1, Concluded
  <1>24. PICK d : call' = [call EXCEPT ![h] = d] /\ Concludes(c, d, status)
    BY <1>23
  <1>14. /\ call' = [call EXCEPT ![h] = d]
         /\ SameTask(c, d) /\ d.item = c.item /\ d.entity[c.header].status = status
         /\ \A x \in DOMAIN c.entity \ {c.header} : d.entity[x] = c.entity[x]
         /\ \/ d.at = 7
            \/ d.at = 8 /\ d.entity = c.entity
    BY <1>24 DEF Concludes
  <1>15. d.entity[c.line] = c.entity[c.line] /\ d.entity[c.location] = c.entity[c.location]
    BY <1>11, <1>12, <1>14
  <1>16. SavedAt(d, v, 4, d.location) /\ SavedAt(d, v, 5, d.line)
    <2>1. /\ SavedAt(c, v, 4, c.location) /\ SavedAt(c, v, 5, c.line)
          /\ c.at > 4 <=> d.at > 4
          /\ c.at > 5 <=> d.at > 5
      BY <1>8, <1>10, <1>14 DEF PickCall
    <2>2. SavedAt(d, v, 4, c.location) /\ SavedAt(d, v, 5, c.line)
      BY <1>15, <2>1, SavedSame
    <2> QED
      BY <1>14, <2>2 DEF SameTask
  <1>17. SavedAt(d, v, 7, d.header)
    <2>1. SavedAt(c, v, 7, c.header) /\ c.entity[c.header] = db[c.header] /\ d.header = c.header
      BY <1>8, <1>10, <1>14 DEF PickCall, SameTask
    <2> QED
      BY <1>8, <1>14, <2>1 DEF SavedAt
  <1>18. d.entity[d.header].status =
           IF \A l \in OutLines \cap DOMAIN v : OrderOf[l] = d.header => v[l].pick_status = "PICKED"
           THEN "PICKED" ELSE "PICKING"
    BY <1>3, <1>4, <1>14 DEF SameTask
  <1>19. Shift(v, d.item, 0 - d.qty)
    BY <1>8, <1>10, <1>14 DEF PickCall, SameTask
  <1>20. PickCall(d, v)
    BY <1>8, <1>10, <1>14, <1>15, <1>16, <1>17, <1>18, <1>19 DEF PickCall, SameTask
  <1>21. Serial(d, v)
    <2>1. d.dirty = {} /\ d.op = "pick"
      BY <1>7, <1>8, <1>14 DEF SameTask
    <2> QED
      BY <1>20, <2>1, CleanDirty, OneKind
  <1>22. Sees(h)' = v
    BY <1>2, <1>7 DEF Sees
  <1> QED
    BY <1>7, <1>14, <1>21, <1>22, Proceeds

-----------------------------------------------------------------------------
(* Calls that begin *)

\* A transaction that has written nothing sees the committed rows.
LEMMA IdleSees ==
  ASSUME Inv, NEW h \in Handlers, call[h].op = "none"
  PROVE  Sees(h) = db
  <1>1. own[h] = <<>>
    BY DEF Inv, CallOK
  <1>2. PICK e : e = <<>>
    OBVIOUS
  <1>3. DOMAIN e = {}
    BY <1>2, NoRows
  <1>4. db = [r \in DOMAIN db |-> db[r]]
    BY DEF Inv, Partial
  <1>5. Over(e, db) = db
    BY <1>3, <1>4 DEF Over
  <1> QED
    BY <1>1, <1>2, <1>5 DEF Sees

LEMMA FreshView ==
  ASSUME Inv
  PROVE  /\ \A S : Unlike(db, S)
         /\ \A i : Shift(db, i, 0)
         /\ \A c, n, t : t \in DOMAIN db /\ ~(c.at > n) => SavedAt(c, db, n, t)
  <1>1. \A i : Shift(db, i, 0)
    BY SeenWhole DEF Shift, Whole
  <1> QED
    BY <1>1 DEF Unlike, SavedAt

\* The call d that h begins.
LEMMA Begins ==
  ASSUME OneCall, Inv, SerialInv, NEW h \in Handlers, NEW d,
         call[h].op = "none", call' = [call EXCEPT ![h] = d], UNCHANGED <<db, own>>,
         Serial(d, db)
  PROVE  SerialInv'
  <1>1. PICK v : v = db
    OBVIOUS
  <1>2. Sees(h)' = v /\ Serial(d, v)
    BY <1>1, IdleSees DEF Sees
  <1> QED
    BY <1>2, Proceeds

LEMMA PutawaySerial ==
  ASSUME OneCall, Inv, SerialInv, NEW h \in Handlers, NEW ln \in Lines, NEW loc \in Locations,
         Putaway(h, ln, loc)
  PROVE  SerialInv'
  <1>1. PICK rc : rc = ReceiptOf[ln]
    OBVIOUS
  <1>2. PICK f : f = [r \in {ln, rc} |-> db[r]]
    OBVIOUS
  <1>3. PICK d : d = [Idle EXCEPT !.op = "putaway", !.at = 1, !.line = ln, !.header = rc,
                        !.location = loc, !.qty = db[ln].accepted_qty, !.entity = f]
    OBVIOUS
  <1>4. /\ call[h].op = "none" /\ ln \in DOMAIN db /\ db[ln].putaway_location = NoRow
        /\ db[ln].accepted_qty > 0
        /\ call' = [call EXCEPT ![h] = d] /\ UNCHANGED <<db, own>>
    BY <1>1, <1>2, <1>3 DEF Putaway, Start
  <1>5. /\ d.op = "putaway" /\ d.at = 1 /\ d.line = ln /\ d.header = rc /\ d.location = loc
        /\ d.qty = db[ln].accepted_qty /\ d.entity = f /\ d.dirty = {} /\ d.item = NoRow
    BY <1>3 DEF Idle
  <1>6. rc \in DOMAIN db /\ loc \in DOMAIN db
    BY <1>1, <1>4 DEF Inv, DbOK
  <1>7. d.entity[ln] = db[ln] /\ d.entity[rc] = db[rc]
    BY <1>2, <1>5
  <1>8. PutawayCall(d, db)
    <2>1. Shift(db, d.item, 0) /\ Unlike(db, Items \cup {d.line, d.location, d.header})
      BY FreshView
    <2>2. SavedAt(d, db, 2, ln) /\ SavedAt(d, db, 5, loc) /\ SavedAt(d, db, 7, rc)
      BY <1>4, <1>5, <1>6, FreshView
    <2> QED
      BY <1>1, <1>4, <1>5, <1>7, <2>1, <2>2 DEF PutawayCall
  <1>9. Serial(d, db)
    BY <1>5, <1>8, CleanDirty, OneKind
  <1> QED
    BY <1>4, <1>9, Begins

LEMMA PickSerial ==
  ASSUME OneCall, Inv, SerialInv, NEW h \in Handlers, NEW ol \in OutLines, NEW loc \in Locations,
         NEW q \in Quantities, Pick(h, ol, loc, q)
  PROVE  SerialInv'
  <1>1. PICK o : o = OrderOf[ol]
    OBVIOUS
  <1>2. PICK f : f = [r \in {ol, o} |-> db[r]]
    OBVIOUS
  <1>3. PICK d : d = [Idle EXCEPT !.op = "pick", !.at = 1, !.line = ol, !.header = o,
                        !.location = loc, !.qty = q, !.entity = f]
    OBVIOUS
  <1>4. /\ call[h].op = "none" /\ ol \in DOMAIN db
        /\ q <= db[ol].requested_qty - db[ol].picked_qty
        /\ call' = [call EXCEPT ![h] = d] /\ UNCHANGED <<db, own>>
    BY <1>1, <1>2, <1>3 DEF Pick, Start
  <1>5. /\ d.op = "pick" /\ d.at = 1 /\ d.line = ol /\ d.header = o /\ d.location = loc
        /\ d.qty = q /\ d.entity = f /\ d.dirty = {} /\ d.item = NoRow
    BY <1>3 DEF Idle
  <1>6. o \in DOMAIN db /\ loc \in DOMAIN db
    BY <1>1, <1>4 DEF Inv, DbOK
  <1>7. d.entity[ol] = db[ol] /\ d.entity[o] = db[o]
    BY <1>2, <1>5
  <1>8. PickCall(d, db)
    <2>1. Shift(db, d.item, 0) /\ Unlike(db, Items \cup {d.line, d.location, d.header})
      BY FreshView
    <2>2. SavedAt(d, db, 4, loc) /\ SavedAt(d, db, 5, ol) /\ SavedAt(d, db, 7, o)
      BY <1>4, <1>5, <1>6, FreshView
    <2>3. q > 0
      BY BoundAssumption
    <2> QED
      BY <1>1, <1>4, <1>5, <1>7, <2>1, <2>2, <2>3 DEF PickCall
  <1>9. Serial(d, db)
    BY <1>5, <1>8, CleanDirty, OneKind
  <1> QED
    BY <1>4, <1>9, Begins

LEMMA TransferSerial ==
  ASSUME OneCall, Inv, SerialInv, NEW h \in Handlers, NEW from \in Locations, NEW to \in Locations,
         NEW q \in Quantities, Transfer(h, from, to, q)
  PROVE  SerialInv'
  <1>1. PICK i \in ItemsSeen(h, from) :
          /\ db[i].qty_on_hand >= q
          /\ call' = [call EXCEPT ![h] =
               [Idle EXCEPT !.op = "transfer", !.at = 1, !.location = to, !.item = i,
                            !.qty = q,
                            !.entity = [r \in {i} |-> [db[i] EXCEPT !.qty_on_hand = @ - q]]]]
    BY DEF Transfer
  <1>2. PICK f : f = [r \in {i} |-> [db[i] EXCEPT !.qty_on_hand = @ - q]]
    OBVIOUS
  <1>3. PICK d : d = [Idle EXCEPT !.op = "transfer", !.at = 1, !.location = to, !.item = i,
                            !.qty = q, !.entity = f]
    OBVIOUS
  <1>4. /\ call[h].op = "none" /\ "transfer" \in Operations
        /\ call' = [call EXCEPT ![h] = d] /\ UNCHANGED <<db, own>>
    BY <1>1, <1>2, <1>3 DEF Transfer, Start
  <1>5. /\ d.op = "transfer" /\ d.at = 1 /\ d.location = to
        /\ d.qty = q /\ d.entity = f /\ d.dirty = {} /\ d.item = i
    BY <1>3 DEF Idle
  <1>6. i \in Items /\ i \in DOMAIN db
    BY <1>4, IdleSees DEF ItemsSeen
  <1>7. d.entity[i].qty_on_hand = db[i].qty_on_hand - q
    <2>1. db[i] \in InventoryItem
      BY <1>6, Tables DEF Inv, DbOK, Fits
    <2>2. f[i].qty_on_hand = db[i].qty_on_hand - q
      BY <1>2, <2>1 DEF InventoryItem
    <2> QED
      BY <1>5, <2>2
  <1>8. TransferCall(d, db)
    <2>1. Shift(db, i, 0) /\ Unlike(db, Items)
      BY FreshView
    <2>2. q > 0
      BY BoundAssumption
    <2> QED
      BY <1>1, <1>4, <1>5, <1>6, <1>7, <2>1, <2>2 DEF TransferCall
  <1>9. Serial(d, db)
    BY <1>5, <1>8, CleanDirty, OneKind
  <1> QED
    BY <1>4, <1>9, Begins

LEMMA AdjustSerial ==
  ASSUME OneCall, Inv, SerialInv, NEW h \in Handlers, NEW loc \in Locations,
         NEW q \in Quantities \cup {0 - n : n \in Quantities}, Adjust(h, loc, q)
  PROVE  SerialInv'
  <1>1. PICK i \in FindItem(h, loc) :
          /\ i = NoRow => q >= 0
          /\ i # NoRow => db[i].qty_on_hand + q >= 0
          /\ call' = [call EXCEPT ![h] =
               [Idle EXCEPT !.op = "adjust", !.at = 1, !.location = loc, !.item = i,
                            !.qty = q,
                            !.entity = IF i = NoRow THEN <<>> ELSE [r \in {i} |->
                               [db[i] EXCEPT !.qty_on_hand = @ + q]]]]
    BY DEF Adjust
  <1>2. PICK f : f = IF i = NoRow THEN <<>> ELSE [r \in {i} |-> [db[i] EXCEPT !.qty_on_hand = @ + q]]
    OBVIOUS
  <1>3. PICK d : d = [Idle EXCEPT !.op = "adjust", !.at = 1, !.location = loc, !.item = i,
                            !.qty = q, !.entity = f]
    OBVIOUS
  <1>4. /\ call[h].op = "none" /\ "adjust" \in Operations
        /\ call' = [call EXCEPT ![h] = d] /\ UNCHANGED <<db, own>>
    BY <1>1, <1>2, <1>3 DEF Adjust, Start
  <1>5. /\ d.op = "adjust" /\ d.at = 1 /\ d.location = loc
        /\ d.qty = q /\ d.entity = f /\ d.dirty = {} /\ d.item = i
    BY <1>3 DEF Idle
  <1>6. \/ i = NoRow /\ ItemsIn(db, loc) = {}
        \/ i # NoRow /\ i \in ItemsIn(db, loc)
    <2>1. ItemsSeen(h, loc) = ItemsIn(db, loc)
      BY <1>4, IdleSees, ItemsInIs
    <2>2. \A j \in ItemsIn(db, loc) : j # NoRow
      BY Kinds DEF ItemsIn, Rows
    <2> QED
      BY <2>1, <2>2 DEF FindItem
  <1>7. Receives(d, db) /\ (i # NoRow => i \in DOMAIN db)
    <2>1. CASE i = NoRow
      BY <1>5, <1>6, <2>1 DEF Receives
    <2>2. CASE i # NoRow
      <3>1. i \in Items /\ i \in DOMAIN db
        BY <1>6, <2>2 DEF ItemsIn
      <3>2. db[i] \in InventoryItem
        BY <3>1, Tables DEF Inv, DbOK, Fits
      <3>3. f[i].qty_on_hand = db[i].qty_on_hand + q
        BY <1>2, <2>2, <3>2 DEF InventoryItem
      <3> QED
        BY <1>5, <1>6, <2>2, <3>1, <3>3 DEF Receives
    <2> QED
      BY <2>1, <2>2
  <1>8. AdjustCall(d, db)
    <2>1. Shift(db, d.item, 0) /\ Unlike(db, Items)
      BY FreshView
    <2> QED
      BY <1>1, <1>4, <1>5, <1>7, <2>1 DEF AdjustCall
  <1>9. Serial(d, db)
    BY <1>5, <1>8, CleanDirty, OneKind
  <1> QED
    BY <1>4, <1>9, Begins

LEMMA QcSerial ==
  ASSUME OneCall, Inv, SerialInv, NEW h \in Handlers, NEW ln \in Lines, NEW s \in QcStatus,
         NEW a \in Nat, NEW r \in Nat, UpdateQcResult(h, ln, s, a, r)
  PROVE  SerialInv'
  <1>1. PICK e : e = [db[ln] EXCEPT !.qc_status = s, !.accepted_qty = a, !.rejected_qty = r]
    OBVIOUS
  <1>2. PICK f : f = [x \in {ln} |-> e]
    OBVIOUS
  <1>3. PICK d : d = [Idle EXCEPT !.op = "qc", !.at = 1, !.line = ln, !.entity = f]
    OBVIOUS
  <1>4. /\ call[h].op = "none" /\ ln \in DOMAIN db /\ a + r <= db[ln].received_qty
        /\ call' = [call EXCEPT ![h] = d] /\ UNCHANGED <<db, own>>
    BY <1>1, <1>2, <1>3 DEF UpdateQcResult, Start
  <1>5. /\ d.op = "qc" /\ d.at = 1 /\ d.line = ln /\ d.entity = f /\ d.dirty = {}
        /\ d.entity[ln] = e
    BY <1>2, <1>3 DEF Idle
  <1>6. db[ln] \in InboundLine
    BY <1>4, Tables DEF Inv, DbOK, Fits
  <1>7. /\ e.qc_status = s /\ e.accepted_qty = a /\ e.rejected_qty = r
        /\ e.received_qty = db[ln].received_qty
    BY <1>1, <1>6 DEF InboundLine
  <1>8. QcCall(d, db)
    <2>1. Unlike(db, {ln}) /\ SavedAt(d, db, 1, ln)
      BY <1>4, <1>5, FreshView
    <2> QED
      BY <1>1, <1>4, <1>5, <1>7, <2>1 DEF QcCall
  <1>9. Serial(d, db)
    BY <1>5, <1>8, CleanDirty, OneKind
  <1> QED
    BY <1>4, <1>9, Begins

LEMMA StatusSerial ==
  ASSUME OneCall, Inv, SerialInv, NEW h \in Handlers, NEW x \in Receipts \cup Orders, NEW s,
         NEW final, UpdateStatus(h, x, final, s), call[h].op = "none",
         x \in Receipts => "COMPLETED" \in final
  PROVE  SerialInv'
  <1>1. PICK f : f = [r \in {x} |-> [status |-> s]]
    OBVIOUS
  <1>2. PICK d : d = [Idle EXCEPT !.op = "status", !.at = 1, !.header = x, !.entity = f]
    OBVIOUS
  <1>3. /\ x \in DOMAIN db /\ db[x].status \notin final
        /\ call' = [call EXCEPT ![h] = d] /\ UNCHANGED <<db, own>>
    BY <1>1, <1>2 DEF UpdateStatus
  <1>4. d.op = "status" /\ d.at = 1 /\ d.header = x /\ d.dirty = {}
    BY <1>2 DEF Idle
  <1>5. StatusCall(d, db)
    <2>1. Unlike(db, {x}) /\ SavedAt(d, db, 1, x)
      BY <1>3, <1>4, FreshView
    <2> QED
      BY <1>3, <1>4, <2>1 DEF StatusCall
  <1>6. Serial(d, db)
    BY <1>4, <1>5, CleanDirty, OneKind
  <1> QED
    BY <1>3, <1>6, Begins

LEMMA LocationSerial ==
  ASSUME OneCall, Inv, SerialInv, NEW h \in Handlers, NEW loc \in Locations, NEW s, NEW m,
         UpdateLocation(h, loc, s, m)
  PROVE  SerialInv'
  <1>1. PICK e : e = [db[loc] EXCEPT !.status = s, !.max_capacity = m]
    OBVIOUS
  <1>2. PICK f : f = [x \in {loc} |-> e]
    OBVIOUS
  <1>3. PICK d : d = [Idle EXCEPT !.op = "location", !.at = 1, !.location = loc, !.entity = f]
    OBVIOUS
  <1>4. /\ call[h].op = "none"
        /\ call' = [call EXCEPT ![h] = d] /\ UNCHANGED <<db, own>>
    BY <1>1, <1>2, <1>3 DEF UpdateLocation, Start
  <1>5. /\ d.op = "location" /\ d.at = 1 /\ d.location = loc /\ d.dirty = {} /\ d.entity[loc] = e
    BY <1>2, <1>3 DEF Idle
  <1>6. loc \in DOMAIN db /\ db[loc] \in Location
    BY Tables DEF Inv, DbOK, Fits
  <1>7. e.current_qty = db[loc].current_qty
    BY <1>1, <1>6 DEF Location
  <1>8. LocationCall(d, db)
    <2>1. Unlike(db, {loc}) /\ SavedAt(d, db, 1, loc)
      BY <1>5, <1>6, FreshView
    <2> QED
      BY <1>5, <1>7, <2>1 DEF LocationCall
  <1>9. Serial(d, db)
    BY <1>5, <1>8, CleanDirty, OneKind
  <1> QED
    BY <1>4, <1>9, Begins

LEMMA BeginSerial ==
  ASSUME OneCall, Inv, SerialInv, NEW h \in Handlers, Begin(h)
  PROVE  SerialInv'
  <1>1. ASSUME NEW ln \in Lines, NEW loc \in Locations, Putaway(h, ln, loc) PROVE SerialInv'
    BY <1>1, PutawaySerial
  <1>2. ASSUME NEW ol \in OutLines, NEW loc \in Locations, NEW q \in Quantities, Pick(h, ol, loc, q)
        PROVE SerialInv'
    BY <1>2, PickSerial
  <1>3. ASSUME NEW from \in Locations, NEW to \in Locations, NEW q \in Quantities,
               Transfer(h, from, to, q)
        PROVE SerialInv'
    BY <1>3, TransferSerial
  <1>4. ASSUME NEW loc \in Locations, NEW q \in Quantities \cup {0 - n : n \in Quantities},
               Adjust(h, loc, q)
        PROVE SerialInv'
    BY <1>4, AdjustSerial
  <1>5. ASSUME NEW ln \in Lines, NEW s \in QcStatus \cap Targets, NEW a \in LineQtys \cup {0},
               NEW r \in LineQtys \cup {0}, UpdateQcResult(h, ln, s, a, r)
        PROVE SerialInv'
    <2>1. a \in Nat /\ r \in Nat
      BY BoundAssumption
    <2> QED
      BY <1>5, <2>1, QcSerial
  <1>6. ASSUME NEW rc \in Receipts, NEW s, UpdateInboundStatus(h, rc, s) PROVE SerialInv'
    BY <1>6, StatusSerial DEF UpdateInboundStatus, Start
  <1>7. ASSUME NEW o \in Orders, NEW s, UpdateOutboundStatus(h, o, s) PROVE SerialInv'
    <2>1. o \notin Receipts
      BY Kinds
    <2> QED
      BY <1>7, <2>1, StatusSerial DEF UpdateOutboundStatus, Start
  <1>8. ASSUME NEW loc \in Locations, NEW s, NEW m, UpdateLocation(h, loc, s, m) PROVE SerialInv'
    BY <1>8, LocationSerial
  <1> QED
    BY <1>1, <1>2, <1>3, <1>4, <1>5, <1>6, <1>7, <1>8 DEF Begin

LEMMA RollbackSerial ==
  ASSUME OneCall, Inv, SerialInv, NEW h \in Handlers, Rollback(h)
  PROVE  SerialInv'
  <1>1. /\ call' = [call EXCEPT ![h] = Idle] /\ UNCHANGED db
    BY DEF Rollback
  <1>2. PICK w : w = Sees(h)'
    OBVIOUS
  <1>3. Serial(Idle, w)
    BY IdleSerial
  <1> QED
    BY <1>1, <1>2, <1>3, Proceeds

-----------------------------------------------------------------------------
(* What a transaction has changed when it commits *)

Final(c) == /\ c.op \in {"putaway", "pick"} => c.at = 8
            /\ c.op = "transfer" => c.at = 4
            /\ c.op \in {"adjust", "qc", "status", "location"} => c.at = 2

\* One item of a location counts q more, so the location does.
LEMMA CountsMove ==
  ASSUME NEW f, NEW g, \A j \in Items : f[j] \in Int, NEW i, NEW q \in Int,
         \A j \in Items : g[j] = f[j] + (IF j = i THEN q ELSE 0), NEW loc
  PROVE  /\ Total(f, Shelf(loc)) \in Int /\ Total(g, Shelf(loc)) \in Int
         /\ Total(g, Shelf(loc)) = Total(f, Shelf(loc)) + (IF i \in Shelf(loc) THEN q ELSE 0)
  <1>1. PICK S : S = Shelf(loc)
    OBVIOUS
  <1>2. IsFiniteSet(S) /\ S \subseteq Items
    BY <1>1, ItemsAssumption, FS_Subset DEF Shelf
  <1>3. \A j \in S : /\ f[j] \in Int /\ g[j] \in Int
                     /\ g[j] = f[j] + (IF j = i THEN q ELSE 0)
    BY <1>2
  <1>4. Total(f, S) \in Int /\ Total(g, S) \in Int
    BY <1>2, <1>3, TotalType
  <1>5. CASE i \in S
    <2>1. \A j \in S \ {i} : g[j] = f[j]
      BY <1>3
    <2>2. Total(g, S) = Total(f, S) - f[i] + g[i]
      BY <1>2, <1>3, <1>5, <2>1, TotalChange
    <2> QED
      BY <1>1, <1>3, <1>4, <1>5, <2>2
  <1>6. CASE i \notin S
    <2>1. \A j \in S : f[j] = g[j]
      BY <1>3, <1>6
    <2>2. Total(f, S) = Total(g, S)
      BY <1>2, <2>1, TotalSame
    <2> QED
      BY <1>1, <1>4, <1>6, <2>2
  <1> QED
    BY <1>5, <1>6

\* A movement changes the stock where its item stands, by its quantity.
LEMMA StockMoves ==
  ASSUME NEW v, Whole(v), Whole(db), NEW i, NEW q \in Int, Shift(v, i, q), NEW loc
  PROVE  /\ StockOf(db, loc) \in Int /\ StockOf(v, loc) \in Int
         /\ StockOf(v, loc) = StockOf(db, loc) + (IF i \in Shelf(loc) THEN q ELSE 0)
  <1>1. PICK f : f = Counts(db)
    OBVIOUS
  <1>2. PICK g : g = Counts(v)
    OBVIOUS
  <1>3. \A j \in Items : f[j] \in Int /\ g[j] = f[j] + (IF j = i THEN q ELSE 0)
    BY <1>1, <1>2 DEF Whole, Counts, Shift
  <1>4. StockOf(db, loc) = Total(f, Shelf(loc)) /\ StockOf(v, loc) = Total(g, Shelf(loc))
    BY <1>1, <1>2, StockIsTotal DEF Whole
  <1> QED
    BY <1>3, <1>4, CountsMove

LEMMA StockSame ==
  ASSUME NEW v, Whole(db), NEW S, Unlike(v, S), S \cap Items = {}
  PROVE  \A loc : StockOf(v, loc) = StockOf(db, loc)
  <1>1. \A i \in Items : Quantity(v, i) = Quantity(db, i)
    BY DEF Unlike, Quantity, Rows
  <1>2. Whole(v)
    BY <1>1 DEF Whole
  <1>3. Counts(v) = Counts(db)
    BY <1>1 DEF Counts
  <1> QED
    BY <1>2, <1>3, StockIsTotal DEF Whole

\* No item is counted below zero, so a location holds at least what one of its
\* items counts.
LEMMA StockCovers ==
  ASSUME NEW v, Whole(v), \A i \in Items : i \in DOMAIN v => v[i].qty_on_hand >= 0, NEW loc
  PROVE  /\ StockOf(v, loc) \in Nat
         /\ \A i \in ItemsIn(v, loc) : v[i].qty_on_hand <= StockOf(v, loc)
  <1>1. PICK f : f = Counts(v)
    OBVIOUS
  <1>2. PICK S : S = Shelf(loc)
    OBVIOUS
  <1>3. IsFiniteSet(S) /\ S \subseteq Items
    BY <1>2, ItemsAssumption, FS_Subset DEF Shelf
  <1>4. \A i \in Items : Quantity(v, i) \in Int /\ Quantity(v, i) >= 0
    BY DEF Quantity, Whole
  <1>5. \A i \in S : f[i] \in Nat
    BY <1>1, <1>3, <1>4 DEF Counts
  <1>6. StockOf(v, loc) = Total(f, S)
    BY <1>1, <1>2, <1>4, StockIsTotal
  <1>7. Total(f, S) \in Nat
    BY <1>3, <1>5, TotalNat
  <1>8. ASSUME NEW i \in ItemsIn(v, loc) PROVE v[i].qty_on_hand <= Total(f, S)
    <2>1. i \in S /\ f[i] = v[i].qty_on_hand
      BY <1>1, <1>2 DEF ItemsIn, Shelf, Counts, Quantity
    <2>2. Total(f, S) = f[i] + Total(f, S \ {i}) /\ Total(f, S \ {i}) \in Nat
      BY <1>3, <1>5, <2>1, TotalLess
    <2> QED
      BY <1>5, <2>1, <2>2
  <1> QED
    BY <1>6, <1>7, <1>8

LEMMA NoneBelow ==
  ASSUME Inv
  PROVE  /\ \A i \in Items : i \in DOMAIN db => db[i].qty_on_hand >= 0
         /\ \A h \in Handlers : \A i \in Items :
              i \in DOMAIN Sees(h) => Sees(h)[i].qty_on_hand >= 0
  BY SeenOK DEF Inv, DbOK, Fits

\* Unlike of rows of some tables.
LEMMA NoneOf ==
  ASSUME NEW v, NEW S, Unlike(v, S), NEW R, R \subseteq Rows, R \cap S = {}
  PROVE  \A r \in R : (r \in DOMAIN v <=> r \in DOMAIN db) /\ (r \in DOMAIN db => v[r] = db[r])
  BY DEF Unlike

LinesKept(v)     == \A l \in Lines : /\ l \in DOMAIN v <=> l \in DOMAIN db
                                     /\ l \in DOMAIN db => v[l] = db[l]
OutLinesKept(v)  == \A l \in OutLines : /\ l \in DOMAIN v <=> l \in DOMAIN db
                                        /\ l \in DOMAIN db => v[l] = db[l]
ReceiptsKept(v)  == \A x \in Receipts : /\ x \in DOMAIN v <=> x \in DOMAIN db
                                        /\ x \in DOMAIN db => v[x] = db[x]
OrdersKept(v)    == \A o \in Orders : /\ o \in DOMAIN v <=> o \in DOMAIN db
                                      /\ o \in DOMAIN db => v[o] = db[o]
LocationsKept(v) == \A l \in Locations : l \in DOMAIN v /\ v[l] = db[l]

\* Everything but the row x stays as it is committed.
KeptBut(v, R, x) == \A r \in R \ {x} : /\ r \in DOMAIN v <=> r \in DOMAIN db
                                       /\ r \in DOMAIN db => v[r] = db[r]

LEMMA NoneBut ==
  ASSUME NEW v, NEW S, Unlike(v, S), NEW R, R \subseteq Rows, NEW x, R \cap S \subseteq {x}
  PROVE  KeptBut(v, R, x)
  BY DEF Unlike, KeptBut

PutawayDone(c, v) ==
  /\ db[c.line].putaway_location = NoRow
  /\ c.line \in DOMAIN db /\ c.line \in DOMAIN v /\ c.line \in Lines
  /\ v[c.line] = [db[c.line] EXCEPT !.putaway_location = c.location]
  /\ KeptBut(v, Lines, c.line)
  /\ c.location \in Locations /\ c.location \in DOMAIN v
  /\ v[c.location] = Fill(db[c.location], c.qty)
  /\ KeptBut(v, Locations, c.location)
  /\ OutLinesKept(v) /\ OrdersKept(v)
  /\ c.header = ReceiptOf[c.line] /\ KeptBut(v, Receipts, c.header)
  /\ v[c.header].status =
       IF \A l \in Lines \cap DOMAIN v : ReceiptOf[l] = c.header => v[l].putaway_location # NoRow
       THEN "COMPLETED" ELSE "PUTAWAY"
  /\ c.item \in Items /\ ItemAt[c.item] = c.location /\ Shift(v, c.item, c.qty)
  /\ c.qty = db[c.line].accepted_qty /\ c.qty > 0

PickDone(c, v) ==
  /\ c.line \in DOMAIN db /\ c.line \in DOMAIN v /\ c.line \in OutLines
  /\ v[c.line] = Picked(db[c.line], c.qty)
  /\ KeptBut(v, OutLines, c.line)
  /\ c.location \in Locations /\ c.location \in DOMAIN v
  /\ v[c.location] = Drain(db[c.location], c.qty)
  /\ KeptBut(v, Locations, c.location)
  /\ LinesKept(v) /\ ReceiptsKept(v)
  /\ c.header = OrderOf[c.line] /\ KeptBut(v, Orders, c.header)
  /\ v[c.header].status =
       IF \A l \in OutLines \cap DOMAIN v : OrderOf[l] = c.header => v[l].pick_status = "PICKED"
       THEN "PICKED" ELSE "PICKING"
  /\ c.item \in ItemsIn(db, c.location) /\ Shift(v, c.item, 0 - c.qty)
  /\ db[c.item].qty_on_hand >= c.qty /\ c.qty > 0
  /\ c.qty <= db[c.line].requested_qty - db[c.line].picked_qty

LEMMA PutawayEnds ==
  ASSUME Inv, NEW c \in Calls, Holds(c), c.op = "putaway", c.at = 8, NEW v, PutawayCall(c, v)
  PROVE  PutawayDone(c, v)
  <1>1. c.line \in Lines /\ c.header \in Receipts /\ c.location \in Locations
    BY DEF Holds
  <1>2. PICK S : S = Items \cup {c.line, c.location, c.header}
    OBVIOUS
  <1>3. Unlike(v, S)
    BY <1>2 DEF PutawayCall
  <1>4. KeptBut(v, Lines, c.line)
    <2>1. Lines \subseteq Rows /\ Lines \cap S \subseteq {c.line}
      BY <1>1, <1>2, Kinds DEF Rows
    <2> QED
      BY <1>3, <2>1, NoneBut
  <1>5. KeptBut(v, Locations, c.location)
    <2>1. Locations \subseteq Rows /\ Locations \cap S \subseteq {c.location}
      BY <1>1, <1>2, Kinds DEF Rows
    <2> QED
      BY <1>3, <2>1, NoneBut
  <1>6. KeptBut(v, Receipts, c.header)
    <2>1. Receipts \subseteq Rows /\ Receipts \cap S \subseteq {c.header}
      BY <1>1, <1>2, Kinds DEF Rows
    <2> QED
      BY <1>3, <2>1, NoneBut
  <1>7. OutLinesKept(v)
    BY <1>1, <1>2, <1>3, Kinds, NoneOf DEF OutLinesKept, Rows
  <1>8. OrdersKept(v)
    BY <1>1, <1>2, <1>3, Kinds, NoneOf DEF OrdersKept, Rows
  <1>9. /\ v[c.line] = [db[c.line] EXCEPT !.putaway_location = c.location]
        /\ c.line \in DOMAIN db /\ c.line \in DOMAIN v
        /\ c.location \in DOMAIN v /\ v[c.location] = Fill(db[c.location], c.qty)
    BY DEF PutawayCall, SavedAt
  <1>10. /\ c.header = ReceiptOf[c.line]
         /\ v[c.header] = c.entity[c.header]
         /\ c.entity[c.header].status =
              IF \A l \in Lines \cap DOMAIN v : ReceiptOf[l] = c.header => v[l].putaway_location # NoRow
              THEN "COMPLETED" ELSE "PUTAWAY"
    BY DEF PutawayCall, SavedAt
  <1>11. /\ c.item \in Items /\ ItemAt[c.item] = c.location /\ Shift(v, c.item, c.qty)
         /\ c.qty = db[c.line].accepted_qty /\ c.qty > 0 /\ db[c.line].putaway_location = NoRow
    BY DEF PutawayCall, Received, ItemsIn
  <1> QED
    BY <1>1, <1>4, <1>5, <1>6, <1>7, <1>8, <1>9, <1>10, <1>11 DEF PutawayDone

LEMMA PickEnds ==
  ASSUME Inv, NEW c \in Calls, Holds(c), c.op = "pick", c.at = 8, NEW v, PickCall(c, v)
  PROVE  PickDone(c, v)
  <1>1. c.line \in OutLines /\ c.header \in Orders /\ c.location \in Locations
    BY DEF Holds
  <1>2. PICK S : S = Items \cup {c.line, c.location, c.header}
    OBVIOUS
  <1>3. Unlike(v, S)
    BY <1>2 DEF PickCall
  <1>4. KeptBut(v, OutLines, c.line)
    <2>1. OutLines \subseteq Rows /\ OutLines \cap S \subseteq {c.line}
      BY <1>1, <1>2, Kinds DEF Rows
    <2> QED
      BY <1>3, <2>1, NoneBut
  <1>5. KeptBut(v, Locations, c.location)
    <2>1. Locations \subseteq Rows /\ Locations \cap S \subseteq {c.location}
      BY <1>1, <1>2, Kinds DEF Rows
    <2> QED
      BY <1>3, <2>1, NoneBut
  <1>6. KeptBut(v, Orders, c.header)
    <2>1. Orders \subseteq Rows /\ Orders \cap S \subseteq {c.header}
      BY <1>1, <1>2, Kinds DEF Rows
    <2> QED
      BY <1>3, <2>1, NoneBut
  <1>7. LinesKept(v)
    BY <1>1, <1>2, <1>3, Kinds, NoneOf DEF LinesKept, Rows
  <1>8. ReceiptsKept(v)
    BY <1>1, <1>2, <1>3, Kinds, NoneOf DEF ReceiptsKept, Rows
  <1>9. /\ v[c.line] = Picked(db[c.line], c.qty)
        /\ c.line \in DOMAIN db /\ c.line \in DOMAIN v
        /\ c.location \in DOMAIN v /\ v[c.location] = Drain(db[c.location], c.qty)
    BY DEF PickCall, SavedAt
  <1>10. /\ c.header = OrderOf[c.line]
         /\ v[c.header] = c.entity[c.header]
         /\ c.entity[c.header].status =
              IF \A l \in OutLines \cap DOMAIN v : OrderOf[l] = c.header => v[l].pick_status = "PICKED"
              THEN "PICKED" ELSE "PICKING"
    BY DEF PickCall, SavedAt
  <1>11. /\ c.item \in ItemsIn(db, c.location) /\ Shift(v, c.item, 0 - c.qty)
         /\ db[c.item].qty_on_hand >= c.qty /\ c.qty > 0
         /\ c.qty <= db[c.line].requested_qty - db[c.line].picked_qty
    BY DEF PickCall
  <1> QED
    BY <1>1, <1>4, <1>5, <1>6, <1>7, <1>8, <1>9, <1>10, <1>11 DEF PickDone

-----------------------------------------------------------------------------
(* The properties after a commit *)

LEMMA PickedKept ==
  ASSUME PickedMeansFull, NEW v, db' = v, OutLinesKept(v)
  PROVE  PickedMeansFull'
  BY DEF PickedMeansFull, OutLinesKept, Has

LEMMA QcKept ==
  ASSUME QcWithinReceived, NEW v, db' = v, LinesKept(v)
  PROVE  QcWithinReceived'
  BY DEF QcWithinReceived, LinesKept, Has

LEMMA ShelvedKept ==
  ASSUME AllShelvedCompleted, NEW v, db' = v, LinesKept(v), ReceiptsKept(v)
  PROVE  AllShelvedCompleted'
  BY DEF AllShelvedCompleted, LinesKept, ReceiptsKept, Has

LEMMA OccupancyKept ==
  ASSUME SameOccupancy, NEW v, db' = v, LocationsKept(v),
         \A loc : StockOf(v, loc) = StockOf(db, loc)
  PROVE  SameOccupancy'
  BY StockIsOf DEF SameOccupancy, OccupancyTracksStock, LocationsKept

LEMMA PutawayRows ==
  ASSUME Inv, RowsOK, NEW c \in Calls, NEW v, PutawayDone(c, v), Whole(v), db' = v
  PROVE  RowsOK'
  <1>1. db[c.line] \in InboundLine /\ c.qty \in Int
    BY Tables DEF Inv, DbOK, Fits, PutawayDone, Calls
  <1>2. /\ v[c.line].accepted_qty = db[c.line].accepted_qty
        /\ v[c.line].rejected_qty = db[c.line].rejected_qty
        /\ v[c.line].received_qty = db[c.line].received_qty
        /\ v[c.line].putaway_location = c.location
    BY <1>1 DEF PutawayDone, InboundLine
  <1>3. PickedMeansFull'
    BY PickedKept DEF PutawayDone, RowsOK
  <1>4. QcWithinReceived'
    <2>1. ASSUME NEW l \in Lines, l \in DOMAIN v
          PROVE  v[l].accepted_qty + v[l].rejected_qty <= v[l].received_qty
      <3>1. CASE l = c.line
        BY <1>2, <3>1 DEF PutawayDone, RowsOK, QcWithinReceived, Has
      <3>2. CASE l # c.line
        BY <2>1, <3>2 DEF PutawayDone, KeptBut, RowsOK, QcWithinReceived, Has
      <3> QED
        BY <3>1, <3>2
    <2> QED
      BY <2>1 DEF QcWithinReceived, Has
  <1>5. AllShelvedCompleted'
    <2>1. SUFFICES ASSUME NEW rc \in Receipts, rc \in DOMAIN v,
                          \A l \in Lines : l \in DOMAIN v /\ ReceiptOf[l] = rc
                                             => v[l].putaway_location # NoRow
                   PROVE  v[rc].status = "COMPLETED"
      BY DEF AllShelvedCompleted, Has
    <2>2. CASE rc = c.header
      BY <2>1, <2>2 DEF PutawayDone
    <2>3. CASE rc # c.header
      <3>1. rc \in DOMAIN db /\ v[rc] = db[rc]
        BY <2>1, <2>3 DEF PutawayDone, KeptBut
      <3>2. \A l \in Lines : l \in DOMAIN db /\ ReceiptOf[l] = rc
                               => db[l].putaway_location # NoRow
        BY <2>1, <2>3 DEF PutawayDone, KeptBut
      <3> QED
        BY <3>1, <3>2 DEF RowsOK, AllShelvedCompleted, Has
    <2> QED
      BY <2>2, <2>3
  <1>6. SameOccupancy'
    <2>1. SUFFICES ASSUME OccupancyTracksStock, NEW l \in Locations
                   PROVE  v[l].current_qty = StockOf(v, l)
      BY StockIsOf DEF SameOccupancy, OccupancyTracksStock, RowsOK
    <2>2. db[l].current_qty = StockOf(db, l)
      BY <2>1, StockIsOf DEF OccupancyTracksStock
    <2>3. StockOf(v, l) = StockOf(db, l) + (IF c.item \in Shelf(l) THEN c.qty ELSE 0)
          /\ StockOf(db, l) \in Int
      BY <1>1, StockMoves, SeenWhole DEF PutawayDone
    <2>4. CASE l = c.location
      <3>1. c.item \in Shelf(l)
        BY <2>4 DEF PutawayDone, Shelf
      <3>2. db[l] \in Location
        BY Tables DEF Inv, DbOK, Fits
      <3>3. Fill(db[l], c.qty).current_qty = db[l].current_qty + c.qty
        BY <3>2 DEF Fill, Location
      <3> QED
        BY <2>2, <2>3, <2>4, <3>1, <3>3 DEF PutawayDone
    <2>5. CASE l # c.location
      <3>1. c.item \notin Shelf(l) /\ v[l] = db[l]
        BY <2>5 DEF PutawayDone, Shelf, KeptBut, Inv, DbOK
      <3> QED
        BY <2>2, <2>3, <3>1
    <2> QED
      BY <2>4, <2>5
  <1> QED
    BY <1>3, <1>4, <1>5, <1>6 DEF RowsOK

LEMMA PickRows ==
  ASSUME Inv, RowsOK, NEW c \in Calls, NEW v, PickDone(c, v), Whole(v), db' = v
  PROVE  RowsOK'
  <1>1. db[c.line] \in OutboundLine /\ c.qty \in Int
    BY Tables DEF Inv, DbOK, Fits, PickDone, Calls
  <1>2. PickedMeansFull'
    <2>1. ASSUME NEW l \in OutLines, l \in DOMAIN v
          PROVE  v[l].pick_status = "PICKED" <=> v[l].picked_qty >= v[l].requested_qty
      <3>1. CASE l = c.line
        BY <1>1, <3>1 DEF PickDone, Picked, OutboundLine
      <3>2. CASE l # c.line
        BY <2>1, <3>2 DEF PickDone, KeptBut, RowsOK, PickedMeansFull, Has
      <3> QED
        BY <3>1, <3>2
    <2> QED
      BY <2>1 DEF PickedMeansFull, Has
  <1>3. QcWithinReceived'
    BY QcKept DEF PickDone, RowsOK
  <1>4. AllShelvedCompleted'
    BY ShelvedKept DEF PickDone, RowsOK
  <1>5. SameOccupancy'
    <2>1. SUFFICES ASSUME OccupancyTracksStock, NEW l \in Locations
                   PROVE  v[l].current_qty = StockOf(v, l)
      BY StockIsOf DEF SameOccupancy, OccupancyTracksStock, RowsOK
    <2>2. db[l].current_qty = StockOf(db, l)
      BY <2>1, StockIsOf DEF OccupancyTracksStock
    <2>3. StockOf(v, l) = StockOf(db, l) + (IF c.item \in Shelf(l) THEN 0 - c.qty ELSE 0)
          /\ StockOf(db, l) \in Int
      BY <1>1, StockMoves, SeenWhole DEF PickDone
    <2>4. CASE l = c.location
      <3>1. c.item \in Shelf(l)
        BY <2>4 DEF PickDone, Shelf, ItemsIn
      <3>2. db[l] \in Location
        BY Tables DEF Inv, DbOK, Fits
      <3>3. Drain(db[l], c.qty).current_qty =
              (IF db[l].current_qty > c.qty THEN db[l].current_qty - c.qty ELSE 0)
        BY <3>2 DEF Drain, Location
      <3>4. db[c.item].qty_on_hand <= StockOf(db, l) /\ db[c.item].qty_on_hand >= c.qty
        BY <2>4, StockCovers, NoneBelow, SeenWhole DEF PickDone
      <3>5. db[c.item].qty_on_hand \in Int
        BY SeenWhole DEF PickDone, ItemsIn, Whole, Quantity
      <3>6. c.qty <= StockOf(db, l)
        BY <1>1, <2>3, <3>4, <3>5
      <3> QED
        BY <1>1, <2>2, <2>3, <2>4, <3>1, <3>3, <3>6 DEF PickDone
    <2>5. CASE l # c.location
      <3>1. c.item \notin Shelf(l) /\ v[l] = db[l]
        BY <2>5 DEF PickDone, Shelf, ItemsIn, KeptBut, Inv, DbOK
      <3> QED
        BY <2>2, <2>3, <3>1
    <2> QED
      BY <2>4, <2>5
  <1> QED
    BY <1>2, <1>3, <1>4, <1>5 DEF RowsOK

LEMMA QcRows ==
  ASSUME Inv, RowsOK, NEW c \in Calls, NEW v, QcCall(c, v), c.at = 2, c.line \in Lines, db' = v
  PROVE  RowsOK'
  <1>1. Unlike(v, {c.line}) /\ c.line \in Rows
    BY DEF QcCall, Rows
  <1>2. OutLinesKept(v) /\ ReceiptsKept(v)
    BY <1>1, Kinds, NoneOf DEF OutLinesKept, ReceiptsKept, Rows
  <1>3. KeptBut(v, Lines, c.line)
    BY <1>1, NoneBut DEF Rows
  <1>4. LocationsKept(v)
    <2>1. \A l \in Locations : l \in Rows \ {c.line} /\ l \in DOMAIN db
      BY Kinds DEF Inv, DbOK, Rows
    <2> QED
      BY <1>1, <2>1 DEF Unlike, LocationsKept
  <1>5. \A loc : StockOf(v, loc) = StockOf(db, loc)
    <2>1. {c.line} \cap Items = {}
      BY Kinds
    <2> QED
      BY <1>1, <2>1, StockSame, SeenWhole
  <1>6. PICK e : e = c.entity[c.line]
    OBVIOUS
  <1>7. /\ v[c.line] = e /\ c.line \in DOMAIN db
        /\ e = [db[c.line] EXCEPT !.qc_status = e.qc_status, !.accepted_qty = e.accepted_qty,
                                  !.rejected_qty = e.rejected_qty]
        /\ e.accepted_qty + e.rejected_qty <= e.received_qty
    BY <1>6 DEF QcCall, SavedAt
  <1>8. db[c.line] \in InboundLine
    BY <1>7, Tables DEF Inv, DbOK, Fits
  <1>9. e.putaway_location = db[c.line].putaway_location
    BY <1>7, <1>8 DEF InboundLine
  <1>10. QcWithinReceived'
    <2>1. ASSUME NEW l \in Lines, l \in DOMAIN v
          PROVE  v[l].accepted_qty + v[l].rejected_qty <= v[l].received_qty
      <3>1. CASE l = c.line
        BY <1>7, <3>1
      <3>2. CASE l # c.line
        BY <1>3, <2>1, <3>2 DEF KeptBut, RowsOK, QcWithinReceived, Has
      <3> QED
        BY <3>1, <3>2
    <2> QED
      BY <2>1 DEF QcWithinReceived, Has
  <1>11. AllShelvedCompleted'
    <2>1. SUFFICES ASSUME NEW rc \in Receipts, rc \in DOMAIN v,
                          \A l \in Lines : l \in DOMAIN v /\ ReceiptOf[l] = rc
                                             => v[l].putaway_location # NoRow
                   PROVE  v[rc].status = "COMPLETED"
      BY DEF AllShelvedCompleted, Has
    <2>2. rc \in DOMAIN db /\ v[rc] = db[rc]
      BY <1>2, <2>1 DEF ReceiptsKept
    <2>3. ASSUME NEW l \in Lines, l \in DOMAIN db, ReceiptOf[l] = rc
          PROVE  db[l].putaway_location # NoRow
      <3>1. CASE l = c.line
        <4>1. c.line \in DOMAIN v
          BY DEF QcCall, SavedAt
        <4> QED
          BY <1>7, <1>9, <2>1, <2>3, <3>1, <4>1
      <3>2. CASE l # c.line
        BY <1>3, <2>1, <2>3, <3>2 DEF KeptBut
      <3> QED
        BY <3>1, <3>2
    <2> QED
      BY <2>2, <2>3 DEF RowsOK, AllShelvedCompleted, Has
  <1> QED
    BY <1>2, <1>4, <1>5, <1>10, <1>11, PickedKept, OccupancyKept DEF RowsOK

LEMMA StatusRows ==
  ASSUME Inv, RowsOK, NEW c \in Calls, NEW v, StatusCall(c, v), db' = v
  PROVE  RowsOK'
  <1>1. Unlike(v, {c.header}) /\ c.header \in Receipts \cup Orders /\ c.header \in DOMAIN db
    BY DEF StatusCall, SavedAt
  <1>2. OutLinesKept(v) /\ LinesKept(v)
    <2>1. \A l \in OutLines \cup Lines : l \in Rows \ {c.header}
      BY <1>1, Kinds DEF Rows
    <2> QED
      BY <1>1, <2>1 DEF Unlike, OutLinesKept, LinesKept
  <1>3. KeptBut(v, Receipts, c.header)
    BY <1>1, NoneBut DEF Rows
  <1>4. LocationsKept(v)
    <2>1. \A l \in Locations : l \in Rows \ {c.header} /\ l \in DOMAIN db
      BY <1>1, Kinds DEF Inv, DbOK, Rows
    <2> QED
      BY <1>1, <2>1 DEF Unlike, LocationsKept
  <1>5. \A loc : StockOf(v, loc) = StockOf(db, loc)
    <2>1. {c.header} \cap Items = {}
      BY <1>1, Kinds
    <2> QED
      BY <1>1, <2>1, StockSame, SeenWhole
  <1>6. AllShelvedCompleted'
    <2>1. SUFFICES ASSUME NEW rc \in Receipts, rc \in DOMAIN v,
                          \A l \in Lines : l \in DOMAIN v /\ ReceiptOf[l] = rc
                                             => v[l].putaway_location # NoRow
                   PROVE  v[rc].status = "COMPLETED"
      BY DEF AllShelvedCompleted, Has
    <2>2. \A l \in Lines : l \in DOMAIN db /\ ReceiptOf[l] = rc
                             => db[l].putaway_location # NoRow
      BY <1>2, <2>1 DEF LinesKept
    <2>3. rc \in DOMAIN db
      BY <1>1, <1>3, <2>1 DEF KeptBut
    <2>4. db[rc].status = "COMPLETED"
      BY <2>2, <2>3 DEF RowsOK, AllShelvedCompleted, Has
    <2>5. rc # c.header
      BY <2>4 DEF StatusCall
    <2> QED
      BY <1>3, <2>3, <2>4, <2>5 DEF KeptBut
  <1> QED
    BY <1>2, <1>4, <1>5, <1>6, PickedKept, QcKept, OccupancyKept DEF RowsOK

LEMMA LocationRows ==
  ASSUME Inv, RowsOK, NEW c \in Calls, NEW v, LocationCall(c, v), c.at = 2,
         c.location \in Locations, db' = v
  PROVE  RowsOK'
  <1>1. /\ Unlike(v, {c.location}) /\ v[c.location].current_qty = db[c.location].current_qty
        /\ c.location \in DOMAIN v
    BY DEF LocationCall, SavedAt
  <1>2. OutLinesKept(v) /\ LinesKept(v) /\ ReceiptsKept(v)
    <2>1. \A l \in OutLines \cup Lines \cup Receipts : l \in Rows \ {c.location}
      BY Kinds DEF Rows
    <2> QED
      BY <1>1, <2>1 DEF Unlike, OutLinesKept, LinesKept, ReceiptsKept
  <1>3. \A l \in Locations : v[l].current_qty = db[l].current_qty
    <2>1. \A l \in Locations : l \in Rows /\ l \in DOMAIN db
      BY DEF Rows, Inv, DbOK
    <2> QED
      BY <1>1, <2>1 DEF Unlike
  <1>4. \A loc : StockOf(v, loc) = StockOf(db, loc)
    <2>1. {c.location} \cap Items = {}
      BY Kinds
    <2> QED
      BY <1>1, <2>1, StockSame, SeenWhole
  <1>5. SameOccupancy'
    BY <1>3, <1>4, StockIsOf DEF SameOccupancy, OccupancyTracksStock, RowsOK
  <1> QED
    BY <1>2, <1>5, PickedKept, QcKept, ShelvedKept DEF RowsOK

\* Movements of items only.
LEMMA ItemRows ==
  ASSUME Inv, RowsOK, NEW v, Unlike(v, Items), db' = v,
         Operations \cap {"transfer", "adjust"} # {}
  PROVE  RowsOK'
  <1>1. OutLinesKept(v) /\ LinesKept(v) /\ ReceiptsKept(v)
    <2>1. \A l \in OutLines \cup Lines \cup Receipts : l \in Rows \ Items
      BY Kinds DEF Rows
    <2> QED
      BY <2>1 DEF Unlike, OutLinesKept, LinesKept, ReceiptsKept
  <1> QED
    BY <1>1, PickedKept, QcKept, ShelvedKept DEF RowsOK, SameOccupancy

LEMMA IdleSerialNext == \A v : Serial(Idle, v)'
  BY DEF Serial, Idle, DirtyIs

\* What the committing call knows of its own rows becomes the committed rows.
LEMMA AtCommit ==
  ASSUME Inv, SerialInv, NEW h \in Handlers, Commit(h)
  PROVE  /\ call[h] \in Calls /\ Holds(call[h]) /\ Final(call[h])
         /\ Serial(call[h], Sees(h)) /\ call[h].op \in DOMAIN Program
         /\ db' = Sees(h) /\ call' = [call EXCEPT ![h] = Idle]
  <1>1. PICK c : c = call[h]
    OBVIOUS
  <1>2. c \in Calls /\ Holds(c) /\ At(h, "commit") /\ c.op # "none"
    BY <1>1 DEF Inv, CallOK, Commit, At
  <1>3. Final(c)
    <2>1. ASSUME c.op \in {"adjust", "qc", "status", "location"} PROVE c.at = 2
      <3>1. c.at \in 1..2
        BY <1>2, <2>1 DEF Holds
      <3> QED
        BY <1>1, <1>2, <2>1, <3>1, ShortStage DEF At
    <2> QED
      BY <1>1, <1>2, <2>1, StageAt DEF Final
  <1>4. c.op \in DOMAIN Program
    BY <1>2 DEF Calls
  <1> QED
    BY <1>1, <1>2, <1>3, <1>4 DEF Commit, SerialInv, Sees

LEMMA CommitSerial ==
  ASSUME OneCall, Inv, SerialInv, NEW h \in Handlers, Commit(h)
  PROVE  SerialInv'
  <1>1. PICK c : c = call[h]
    OBVIOUS
  <1>2. PICK v : v = Sees(h)
    OBVIOUS
  <1>3. /\ c \in Calls /\ Holds(c) /\ Final(c) /\ Serial(c, v) /\ c.op \in DOMAIN Program
        /\ db' = v /\ call' = [call EXCEPT ![h] = Idle]
    BY <1>1, <1>2, AtCommit
  <1>4. Whole(v) /\ RowsOK
    BY <1>2, SeenWhole DEF SerialInv
  <1>5. RowsOK'
    <2>1. CASE c.op = "putaway"
      <3>1. PutawayDone(c, v)
        BY <1>3, <2>1, PutawayEnds DEF Final, Serial
      <3> QED
        BY <1>3, <1>4, <3>1, PutawayRows
    <2>2. CASE c.op = "pick"
      <3>1. PickDone(c, v)
        BY <1>3, <2>2, PickEnds DEF Final, Serial
      <3> QED
        BY <1>3, <1>4, <3>1, PickRows
    <2>3. CASE c.op = "transfer"
      <3>1. Unlike(v, Items) /\ Operations \cap {"transfer", "adjust"} # {}
        BY <1>3, <2>3 DEF Serial, TransferCall
      <3> QED
        BY <1>3, <1>4, <3>1, ItemRows
    <2>4. CASE c.op = "adjust"
      <3>1. Unlike(v, Items) /\ Operations \cap {"transfer", "adjust"} # {}
        BY <1>3, <2>4 DEF Serial, AdjustCall
      <3> QED
        BY <1>3, <1>4, <3>1, ItemRows
    <2>5. CASE c.op = "qc"
      <3>1. QcCall(c, v) /\ c.at = 2 /\ c.line \in Lines
        BY <1>3, <2>5 DEF Serial, Final, Holds
      <3> QED
        BY <1>3, <1>4, <3>1, QcRows
    <2>6. CASE c.op = "status"
      <3>1. StatusCall(c, v)
        BY <1>3, <2>6 DEF Serial
      <3> QED
        BY <1>3, <1>4, <3>1, StatusRows
    <2>7. CASE c.op = "location"
      <3>1. LocationCall(c, v) /\ c.at = 2 /\ c.location \in Locations
        <4>1. c.location \in DOMAIN c.entity
          BY <1>3, <2>7 DEF Holds
        <4>2. c.entity \in Partial
          BY <1>3 DEF Calls
        <4>3. c.location # NoRow
          BY <4>1, <4>2, PartialRows, Kinds
        <4> QED
          BY <1>3, <2>7, <4>3 DEF Serial, Final, Calls
      <3> QED
        BY <1>3, <1>4, <3>1, LocationRows
    <2> QED
      BY <1>3, <2>1, <2>2, <2>3, <2>4, <2>5, <2>6, <2>7, Stages
  <1>6. \A g \in Handlers : call'[g] = Idle
    BY <1>3 DEF OneCall, Inv
  <1>7. ASSUME NEW g \in Handlers PROVE Serial(call[g], Sees(g))'
    <2>1. PICK w : w = Sees(g)'
      OBVIOUS
    <2>2. Serial(Idle, w)'
      BY IdleSerialNext
    <2> QED
      BY <1>6, <2>1, <2>2
  <1> QED
    BY <1>5, <1>7 DEF SerialInv

-----------------------------------------------------------------------------
(* Rows created while a call runs *)

\* Documents whose lines wait to be inspected or picked.
Fresh(new) ==
  /\ DOMAIN new \subseteq Rows \ (Items \cup Locations)
  /\ DOMAIN new \cap DOMAIN db = {}
  /\ \A l \in OutLines \cap DOMAIN new :
       /\ OrderOf[l] \in DOMAIN new /\ new[l].pick_status # "PICKED"
       /\ new[l].picked_qty = 0 /\ new[l].requested_qty \in Nat \ {0}
  /\ \A l \in Lines \cap DOMAIN new :
       /\ ReceiptOf[l] \in DOMAIN new /\ new[l].putaway_location = NoRow
       /\ new[l].accepted_qty = 0
       /\ new[l].accepted_qty + new[l].rejected_qty <= new[l].received_qty
  /\ \A rc \in Receipts \cap DOMAIN new :
       \E l \in Lines \cap DOMAIN new : ReceiptOf[l] = rc

Creates(new) == db' = Over(new, db) /\ UNCHANGED <<own, call, history>> /\ Fresh(new)

LEMMA CreatesReceipt ==
  ASSUME Inv, NEW rc \in Receipts, CreateReceipt(rc)
  PROVE  \E new : Creates(new)
  <1>1. PICK ls \in SUBSET {l \in Lines : ReceiptOf[l] = rc} :
        /\ ls # {}
        /\ \E received \in [ls -> LineQtys] :
             db' = Over([r \in ls \cup {rc} |->
                        IF r = rc THEN [status |-> "PENDING"]
                        ELSE [received_qty |-> received[r], accepted_qty |-> 0,
                              rejected_qty |-> 0, qc_status |-> "PENDING",
                              putaway_location |-> NoRow]], db)
    BY DEF CreateReceipt
  <1>2. PICK received \in [ls -> LineQtys] :
          db' = Over([r \in ls \cup {rc} |->
                        IF r = rc THEN [status |-> "PENDING"]
                        ELSE [received_qty |-> received[r], accepted_qty |-> 0,
                              rejected_qty |-> 0, qc_status |-> "PENDING",
                              putaway_location |-> NoRow]], db)
    BY <1>1
  <1>3. PICK new : new = [r \in ls \cup {rc} |->
                       IF r = rc THEN [status |-> "PENDING"]
                       ELSE [received_qty |-> received[r], accepted_qty |-> 0,
                             rejected_qty |-> 0, qc_status |-> "PENDING",
                             putaway_location |-> NoRow]]
    OBVIOUS
  <1>4. rc \notin DOMAIN db /\ UNCHANGED <<own, call, history>> /\ db' = Over(new, db)
    BY <1>2, <1>3 DEF CreateReceipt
  <1>5. DOMAIN new = ls \cup {rc}
    BY <1>3
  <1>6. \A l \in ls : l \in Lines /\ ReceiptOf[l] = rc /\ l # rc
    BY Kinds
  <1>7. ASSUME NEW l \in ls
        PROVE  /\ new[l].putaway_location = NoRow /\ new[l].accepted_qty = 0
               /\ new[l].accepted_qty + new[l].rejected_qty <= new[l].received_qty
    <2>1. received[l] \in Nat
      BY BoundAssumption
    <2>2. new[l] = [received_qty |-> received[l], accepted_qty |-> 0,
                    rejected_qty |-> 0, qc_status |-> "PENDING",
                    putaway_location |-> NoRow]
      BY <1>3, <1>6
    <2> QED
      BY <2>1, <2>2
  <1>8. DOMAIN new \subseteq Rows \ (Items \cup Locations)
    BY <1>5, <1>6, Kinds DEF Rows
  <1>9. DOMAIN new \cap DOMAIN db = {}
    BY <1>4, <1>5, <1>6 DEF Inv, DbOK
  <1>10. OutLines \cap DOMAIN new = {} /\ Lines \cap DOMAIN new = ls /\ Receipts \cap DOMAIN new = {rc}
    BY <1>5, <1>6, Kinds
  <1>11. Fresh(new)
    BY <1>1, <1>5, <1>6, <1>7, <1>8, <1>9, <1>10 DEF Fresh
  <1> QED
    BY <1>4, <1>11 DEF Creates

LEMMA CreatesOrder ==
  ASSUME Inv, NEW o \in Orders, CreateOrder(o)
  PROVE  \E new : Creates(new)
  <1>1. PICK ls \in SUBSET {l \in OutLines : OrderOf[l] = o} :
        \E requested \in [ls -> LineQtys \ {0}] :
             db' = Over([r \in ls \cup {o} |->
                        IF r = o THEN [status |-> "PENDING"]
                        ELSE [requested_qty |-> requested[r], picked_qty |-> 0,
                              pick_status |-> "PENDING"]], db)
    BY DEF CreateOrder
  <1>2. PICK requested \in [ls -> LineQtys \ {0}] :
             db' = Over([r \in ls \cup {o} |->
                        IF r = o THEN [status |-> "PENDING"]
                        ELSE [requested_qty |-> requested[r], picked_qty |-> 0,
                              pick_status |-> "PENDING"]], db)
    BY <1>1
  <1>3. PICK new : new = [r \in ls \cup {o} |->
                       IF r = o THEN [status |-> "PENDING"]
                       ELSE [requested_qty |-> requested[r], picked_qty |-> 0,
                             pick_status |-> "PENDING"]]
    OBVIOUS
  <1>4. o \notin DOMAIN db /\ UNCHANGED <<own, call, history>> /\ db' = Over(new, db)
    BY <1>2, <1>3 DEF CreateOrder
  <1>5. DOMAIN new = ls \cup {o}
    BY <1>3
  <1>6. \A l \in ls : l \in OutLines /\ OrderOf[l] = o /\ l # o
    BY Kinds
  <1>7. ASSUME NEW l \in ls
        PROVE  /\ new[l].pick_status # "PICKED"
               /\ new[l].picked_qty = 0 /\ new[l].requested_qty \in Nat \ {0}
    <2>1. requested[l] \in Nat \ {0}
      BY BoundAssumption
    <2>2. new[l] = [requested_qty |-> requested[l], picked_qty |-> 0, pick_status |-> "PENDING"]
      BY <1>3, <1>6
    <2> QED
      BY <2>1, <2>2
  <1>8. DOMAIN new \subseteq Rows \ (Items \cup Locations)
    BY <1>5, <1>6, Kinds DEF Rows
  <1>9. DOMAIN new \cap DOMAIN db = {}
    BY <1>4, <1>5, <1>6 DEF Inv, DbOK
  <1>10. OutLines \cap DOMAIN new = ls /\ Lines \cap DOMAIN new = {} /\ Receipts \cap DOMAIN new = {}
    BY <1>5, <1>6, Kinds
  <1>11. Fresh(new)
    BY <1>5, <1>6, <1>7, <1>8, <1>9, <1>10 DEF Fresh
  <1> QED
    BY <1>4, <1>11 DEF Creates

\* The rows w and the committed rows have grown by new.
Grown(v, w, new) ==
  /\ DOMAIN w = DOMAIN v \cup DOMAIN new /\ DOMAIN v \cap DOMAIN new = {}
  /\ \A r \in DOMAIN v : w[r] = v[r]
  /\ \A r \in DOMAIN new : w[r] = new[r]

LEMMA CreatesGrows ==
  ASSUME Inv, NEW new, Creates(new)
  PROVE  /\ Grown(db, db', new)
         /\ \A h \in Handlers : Grown(Sees(h), Sees(h)', new)
  <1>1. /\ DOMAIN db' = DOMAIN new \cup DOMAIN db /\ DOMAIN new \cap DOMAIN db = {}
        /\ \A r \in DOMAIN new : db'[r] = new[r]
        /\ \A r \in DOMAIN db : db'[r] = db[r]
    BY DEF Creates, Fresh, Over
  <1>2. ASSUME NEW h \in Handlers PROVE Grown(Sees(h), Sees(h)', new)
    <2>1. DOMAIN own[h] \cap DOMAIN new = {}
      <3>1. DOMAIN own[h] \subseteq DOMAIN db \cup Items
        BY DEF Inv, CallOK, Written
      <3> QED
        BY <1>1, <3>1 DEF Creates, Fresh
    <2>2. PICK f : f = own[h]
      OBVIOUS
    <2>3. /\ DOMAIN Sees(h) = DOMAIN f \cup DOMAIN db
          /\ \A r \in DOMAIN f : Sees(h)[r] = f[r]
          /\ \A r \in DOMAIN db \ DOMAIN f : Sees(h)[r] = db[r]
      BY <2>2, OverValue DEF Sees
    <2>4. /\ DOMAIN Sees(h)' = DOMAIN f \cup DOMAIN db'
          /\ \A r \in DOMAIN f : Sees(h)'[r] = f[r]
          /\ \A r \in DOMAIN db' \ DOMAIN f : Sees(h)'[r] = db'[r]
      <3>1. Sees(h)' = Over(f, db')
        BY <2>2 DEF Sees, Creates
      <3> QED
        BY <3>1 DEF Over
    <2> QED
      BY <1>1, <2>1, <2>2, <2>3, <2>4 DEF Grown
  <1> QED
    BY <1>1, <1>2 DEF Grown

\* What the calls know about the rows they use stays true when rows are added.
LEMMA GrownFrame ==
  ASSUME NEW new, Creates(new), Grown(db, db', new), NEW v, NEW w, Grown(v, w, new)
  PROVE  /\ \A S : Unlike(v, S) => Unlike(w, S)'
         /\ \A i \in Items : Quantity(w, i) = Quantity(v, i)
         /\ \A i \in Items : Quantity(db', i) = Quantity(db, i)
         /\ \A i, q : Shift(v, i, q) => Shift(w, i, q)'
         /\ \A c, n, t : SavedAt(c, v, n, t) => SavedAt(c, w, n, t)'
         /\ \A loc : ItemsIn(w, loc) = ItemsIn(v, loc)
         /\ \A loc : ItemsIn(db', loc) = ItemsIn(db, loc)
         /\ \A c : Receives(c, v) => Receives(c, w)
         /\ \A c : Received(c, v) => Received(c, w)
  <1>1. DOMAIN new \cap Items = {}
    BY DEF Creates, Fresh
  <1>2. ASSUME NEW S, Unlike(v, S) PROVE Unlike(w, S)'
    <2>1. ASSUME NEW r \in Rows \ S
          PROVE (r \in DOMAIN w <=> r \in DOMAIN db') /\ (r \in DOMAIN db' => w[r] = db'[r])
      BY <1>2 DEF Grown, Unlike
    <2> QED
      BY <2>1 DEF Unlike, Rows
  <1>3. \A i \in Items : Quantity(w, i) = Quantity(v, i) /\ Quantity(db', i) = Quantity(db, i)
    BY <1>1 DEF Grown, Quantity
  <1>4. ASSUME NEW i, NEW q, Shift(v, i, q) PROVE Shift(w, i, q)'
    <2>1. \A j \in Items : Quantity(w, j) = Quantity(db', j) + (IF j = i THEN q ELSE 0)
      BY <1>3, <1>4 DEF Shift
    <2> QED
      BY <2>1 DEF Shift
  <1>5. ASSUME NEW c, NEW n, NEW t, SavedAt(c, v, n, t) PROVE SavedAt(c, w, n, t)'
    <2>1. t \in DOMAIN db' /\ t \in DOMAIN w /\ w[t] = IF c.at > n THEN c.entity[t] ELSE db'[t]
      BY <1>5 DEF SavedAt, Grown
    <2> QED
      BY <2>1 DEF SavedAt
  <1>6. \A loc : ItemsIn(w, loc) = ItemsIn(v, loc)
    BY <1>1 DEF ItemsIn, Grown
  <1>7. \A loc : ItemsIn(db', loc) = ItemsIn(db, loc)
    BY <1>1 DEF ItemsIn, Grown
  <1>8. ASSUME NEW c PROVE Receives(c, v) => Receives(c, w)
    <2>1. c.item \in ItemsIn(v, c.location) => w[c.item] = v[c.item]
      BY DEF ItemsIn, Grown
    <2> QED
      BY <1>6, <2>1 DEF Receives
  <1>9. \A c : Received(c, v) => Received(c, w)
    BY <1>6 DEF Received
  <1> QED
    BY <1>2, <1>3, <1>4, <1>5, <1>6, <1>7, <1>8, <1>9

LEMMA GrownPutaway ==
  ASSUME NEW new, Creates(new), Grown(db, db', new), NEW v, NEW w, Grown(v, w, new),
         NEW c, PutawayCall(c, v)
  PROVE  PutawayCall(c, w)'
  <1>1. /\ c.line \in DOMAIN db' /\ db'[c.line] = db[c.line]
        /\ c.location \in DOMAIN db' /\ db'[c.location] = db[c.location]
        /\ c.header \in DOMAIN db' /\ db'[c.header] = db[c.header]
        /\ c.header \notin DOMAIN new
    BY DEF PutawayCall, SavedAt, Grown
  <1>2. /\ c.at = 4 => Receives(c, w)
        /\ c.at > 4 => Received(c, w)
        /\ Shift(w, c.item, IF c.at > 4 THEN c.qty ELSE 0)'
        /\ SavedAt(c, w, 2, c.line)' /\ SavedAt(c, w, 5, c.location)'
        /\ SavedAt(c, w, 7, c.header)'
        /\ Unlike(w, Items \cup {c.line, c.location, c.header})'
    BY GrownFrame DEF PutawayCall
  <1>3. (\A l \in Lines \cap DOMAIN w : ReceiptOf[l] = c.header => w[l].putaway_location # NoRow)
        <=> (\A l \in Lines \cap DOMAIN v : ReceiptOf[l] = c.header => v[l].putaway_location # NoRow)
    <2>1. \A l \in Lines \cap DOMAIN new : ReceiptOf[l] # c.header
      BY <1>1 DEF Creates, Fresh
    <2> QED
      BY <2>1 DEF Grown
  <1>4. c.at > 6 => c.entity[c.header].status =
       IF \A l \in Lines \cap DOMAIN w : ReceiptOf[l] = c.header => w[l].putaway_location # NoRow
       THEN "COMPLETED" ELSE "PUTAWAY"
    BY <1>3 DEF PutawayCall
  <1> QED
    BY <1>1, <1>2, <1>4 DEF PutawayCall, Receives, Received, ItemsIn, Fill

LEMMA GrownPick ==
  ASSUME NEW new, Creates(new), Grown(db, db', new), NEW v, NEW w, Grown(v, w, new),
         NEW c, PickCall(c, v)
  PROVE  PickCall(c, w)'
  <1>1. /\ c.line \in DOMAIN db' /\ db'[c.line] = db[c.line]
        /\ c.location \in DOMAIN db' /\ db'[c.location] = db[c.location]
        /\ c.header \in DOMAIN db' /\ db'[c.header] = db[c.header]
        /\ c.header \notin DOMAIN new
        /\ c.at > 1 => db'[c.item] = db[c.item]
    BY DEF PickCall, SavedAt, Grown, ItemsIn
  <1>2. /\ Shift(w, c.item, IF c.at > 2 THEN 0 - c.qty ELSE 0)'
        /\ SavedAt(c, w, 4, c.location)' /\ SavedAt(c, w, 5, c.line)'
        /\ SavedAt(c, w, 7, c.header)'
        /\ Unlike(w, Items \cup {c.line, c.location, c.header})'
        /\ ItemsIn(db', c.location) = ItemsIn(db, c.location)
    BY GrownFrame DEF PickCall
  <1>3. (\A l \in OutLines \cap DOMAIN w : OrderOf[l] = c.header => w[l].pick_status = "PICKED")
        <=> (\A l \in OutLines \cap DOMAIN v : OrderOf[l] = c.header => v[l].pick_status = "PICKED")
    <2>1. \A l \in OutLines \cap DOMAIN new : OrderOf[l] # c.header
      BY <1>1 DEF Creates, Fresh
    <2> QED
      BY <2>1 DEF Grown
  <1>4. c.at > 6 => c.entity[c.header].status =
       IF \A l \in OutLines \cap DOMAIN w : OrderOf[l] = c.header => w[l].pick_status = "PICKED"
       THEN "PICKED" ELSE "PICKING"
    BY <1>3 DEF PickCall
  <1> QED
    BY <1>1, <1>2, <1>4 DEF PickCall, Picked, Drain, ItemsIn

LEMMA GrownTransfer ==
  ASSUME NEW new, Creates(new), Grown(db, db', new), NEW v, NEW w, Grown(v, w, new),
         NEW c, TransferCall(c, v)
  PROVE  TransferCall(c, w)'
  <1>1. PICK i \in Items \cap DOMAIN db :
          /\ db[i].qty_on_hand >= c.qty
          /\ c.at = 1 => /\ c.item = i /\ Shift(v, i, 0)
                         /\ c.entity[i].qty_on_hand = db[i].qty_on_hand - c.qty
          /\ c.at \in {2, 3} => Shift(v, i, 0 - c.qty)
          /\ c.at = 3 => Receives(c, v)
          /\ c.at = 4 => /\ Received(c, v)
                         /\ \A j \in Items :
                              Quantity(v, j) = (Quantity(db, j) - (IF j = i THEN c.qty ELSE 0))
                                                + (IF j = c.item THEN c.qty ELSE 0)
    BY DEF TransferCall
  <1>2. i \in DOMAIN db' /\ db'[i] = db[i]
    BY DEF Grown
  <1>3. /\ c.at = 1 => Shift(w, i, 0)'
        /\ c.at \in {2, 3} => Shift(w, i, 0 - c.qty)'
        /\ c.at = 3 => Receives(c, w)
        /\ c.at = 4 => /\ Received(c, w)
                       /\ \A j \in Items :
                            Quantity(w, j) = (Quantity(db', j) - (IF j = i THEN c.qty ELSE 0))
                                                + (IF j = c.item THEN c.qty ELSE 0)
        /\ Unlike(w, Items)'
    BY <1>1, GrownFrame DEF TransferCall
  <1> QED
    BY <1>1, <1>2, <1>3 DEF TransferCall, Receives, Received, ItemsIn

LEMMA GrownAdjust ==
  ASSUME NEW new, Creates(new), Grown(db, db', new), NEW v, NEW w, Grown(v, w, new),
         NEW c, AdjustCall(c, v)
  PROVE  AdjustCall(c, w)'
  <1>1. /\ c.at = 1 => Receives(c, w)
        /\ c.at = 2 => Received(c, w) /\ w[c.item].qty_on_hand >= 0
        /\ Shift(w, c.item, IF c.at = 2 THEN c.qty ELSE 0)'
        /\ Unlike(w, Items)'
    <2>1. c.at = 2 => Received(c, w) /\ w[c.item].qty_on_hand >= 0
      BY GrownFrame DEF AdjustCall, Received, ItemsIn, Grown
    <2> QED
      BY <2>1, GrownFrame DEF AdjustCall
  <1>2. c.at = 1 /\ c.item # NoRow =>
          c.item \in DOMAIN db' /\ db'[c.item].qty_on_hand + c.qty >= 0
    BY DEF AdjustCall, Grown
  <1> QED
    BY <1>1, <1>2 DEF AdjustCall, Receives, Received, ItemsIn

LEMMA GrownSmall ==
  ASSUME NEW new, Creates(new), Grown(db, db', new), NEW v, NEW w, Grown(v, w, new), NEW c
  PROVE  /\ QcCall(c, v) => QcCall(c, w)'
         /\ StatusCall(c, v) => StatusCall(c, w)'
         /\ LocationCall(c, v) => LocationCall(c, w)'
  <1>1. \A n, t : SavedAt(c, v, n, t) => SavedAt(c, w, n, t)' /\ db'[t] = db[t]
    <2>1. \A n, t : SavedAt(c, v, n, t) => db'[t] = db[t]
      BY DEF SavedAt, Grown
    <2> QED
      BY <2>1, GrownFrame
  <1>2. \A S : Unlike(v, S) => Unlike(w, S)'
    BY GrownFrame
  <1>3. QcCall(c, v) => QcCall(c, w)'
    BY <1>1, <1>2 DEF QcCall
  <1>4. StatusCall(c, v) => StatusCall(c, w)'
    BY <1>1, <1>2 DEF StatusCall
  <1>5. LocationCall(c, v) => LocationCall(c, w)'
    BY <1>1, <1>2 DEF LocationCall
  <1> QED
    BY <1>3, <1>4, <1>5

LEMMA GrownDirty ==
  ASSUME Inv, NEW h \in Handlers, NEW c, c = call[h], NEW v, v = Sees(h), DirtyIs(c, v),
         NEW new, NEW w, Grown(v, w, new)
  PROVE  DirtyIs(c, w)
  <1>1. SUFFICES ASSUME c.dirty # {}, NEW s \in Saves, Program[c.op][c.at] = s
                 PROVE  c.dirty = Differing(c.entity[Target(c, s)], w[Target(c, s)])
    BY DEF DirtyIs
  <1>2. c.op # "none" /\ Target(c, s) # NoRow
    BY <1>1 DEF Inv, CallOK, DirtyOK
  <1>3. Target(c, s) \in DOMAIN c.entity
    BY <1>1, <1>2, TargetHeld DEF At
  <1>4. Target(c, s) \in DOMAIN v
    BY <1>3 DEF Inv, CallOK, Loaded, Sees
  <1>5. w[Target(c, s)] = v[Target(c, s)]
    BY <1>4 DEF Grown
  <1> QED
    BY <1>1, <1>5 DEF DirtyIs

LEMMA CreatesRows ==
  ASSUME Inv, RowsOK, NEW new, Creates(new)
  PROVE  RowsOK'
  <1>1. Grown(db, db', new)
    BY CreatesGrows
  <1>2. PickedMeansFull'
    <2>1. ASSUME NEW l \in OutLines, l \in DOMAIN db'
          PROVE  db'[l].pick_status = "PICKED" <=> db'[l].picked_qty >= db'[l].requested_qty
      BY <1>1, <2>1 DEF Grown, Creates, Fresh, RowsOK, PickedMeansFull, Has
    <2> QED
      BY <2>1 DEF PickedMeansFull, Has
  <1>3. QcWithinReceived'
    <2>1. ASSUME NEW l \in Lines, l \in DOMAIN db'
          PROVE  db'[l].accepted_qty + db'[l].rejected_qty <= db'[l].received_qty
      BY <1>1, <2>1 DEF Grown, Creates, Fresh, RowsOK, QcWithinReceived, Has
    <2> QED
      BY <2>1 DEF QcWithinReceived, Has
  <1>4. AllShelvedCompleted'
    <2>1. SUFFICES ASSUME NEW rc \in Receipts, rc \in DOMAIN db',
                          \A l \in Lines : l \in DOMAIN db' /\ ReceiptOf[l] = rc
                                             => db'[l].putaway_location # NoRow
                   PROVE  db'[rc].status = "COMPLETED"
      BY DEF AllShelvedCompleted, Has
    <2>2. rc \notin DOMAIN new
      BY <1>1, <2>1 DEF Grown, Creates, Fresh
    <2>3. rc \in DOMAIN db /\ db'[rc] = db[rc]
      BY <1>1, <2>1, <2>2 DEF Grown
    <2>4. \A l \in Lines : l \in DOMAIN db /\ ReceiptOf[l] = rc => db[l].putaway_location # NoRow
      BY <1>1, <2>1 DEF Grown
    <2> QED
      BY <2>3, <2>4 DEF RowsOK, AllShelvedCompleted, Has
  <1>5. \A loc : StockOf(db', loc) = StockOf(db, loc)
    <2>1. \A i \in Items : Quantity(db', i) = Quantity(db, i)
      BY <1>1, GrownFrame
    <2>2. Counts(db') = Counts(db)
      BY <2>1 DEF Counts
    <2>3. PICK v : v = db'
      OBVIOUS
    <2>4. Whole(db) /\ Whole(v)
      BY <2>1, <2>3, SeenWhole DEF Whole
    <2>5. \A loc : StockOf(v, loc) = Total(Counts(v), Shelf(loc))
      BY <2>4, StockIsTotal DEF Whole
    <2>6. \A loc : StockOf(db, loc) = Total(Counts(db), Shelf(loc))
      BY <2>4, StockIsTotal DEF Whole
    <2> QED
      BY <2>2, <2>3, <2>5, <2>6
  <1>6. SameOccupancy'
    <2>1. \A l \in Locations : db'[l] = db[l]
      BY <1>1 DEF Grown, Inv, DbOK
    <2> QED
      BY <1>5, <2>1, StockIsOf DEF RowsOK, SameOccupancy, OccupancyTracksStock
  <1> QED
    BY <1>2, <1>3, <1>4, <1>6 DEF RowsOK

LEMMA CreatesSerial ==
  ASSUME Inv, SerialInv, NEW new, Creates(new)
  PROVE  SerialInv'
  <1>1. Grown(db, db', new)
    BY CreatesGrows
  <1>2. RowsOK'
    BY CreatesRows DEF SerialInv
  <1>3. ASSUME NEW h \in Handlers PROVE Serial(call[h], Sees(h))'
    <2>1. PICK c : c = call[h]
      OBVIOUS
    <2>2. PICK v : v = Sees(h)
      OBVIOUS
    <2>3. PICK w : w = Sees(h)'
      OBVIOUS
    <2>4. Grown(v, w, new) /\ Serial(c, v) /\ call'[h] = c
      BY <2>1, <2>2, <2>3, CreatesGrows DEF SerialInv, Creates
    <2>5. DirtyIs(c, w)
      BY <2>1, <2>2, <2>4, GrownDirty DEF Serial
    <2>6. Serial(c, w)'
      BY <1>1, <2>4, <2>5, GrownPutaway, GrownPick, GrownTransfer, GrownAdjust, GrownSmall
         DEF Serial, DirtyIs
    <2> QED
      BY <2>3, <2>4, <2>6
  <1> QED
    BY <1>2, <1>3 DEF SerialInv

LEMMA InitStock ==
  ASSUME \A i \in Items : i \notin DOMAIN db
  PROVE  \A l \in Locations : StockOf(db, l) = 0
  <1>1. SUFFICES ASSUME NEW l \in Locations PROVE StockOf(db, l) = 0
    OBVIOUS
  <1>2. \A i \in Items : Quantity(db, i) = 0
    BY DEF Quantity
  <1>3. PICK f : f = Counts(db)
    OBVIOUS
  <1>4. StockOf(db, l) = Total(f, Shelf(l))
    BY <1>2, <1>3, StockIsTotal
  <1>5. IsFiniteSet(Shelf(l)) /\ \A i \in Shelf(l) : f[i] = 0
    BY <1>2, <1>3, ItemsAssumption, FS_Subset DEF Shelf, Counts
  <1>6. Total(f, Shelf(l)) = Total(f, {})
    BY <1>5, TotalZeros
  <1> QED
    BY <1>4, <1>6, TotalEmpty

LEMMA InitSerial == Init => SerialInv
  <1> SUFFICES ASSUME Init PROVE SerialInv
    OBVIOUS
  <1>1. PICK capacity \in [Locations -> Capacities] :
          db = [l \in Locations |-> [status |-> "ACTIVE", current_qty |-> 0,
                                     max_capacity |-> capacity[l]]]
    BY DEF Init
  <1>2. DOMAIN db = Locations /\ \A l \in Locations : db[l].current_qty = 0
    BY <1>1
  <1>3. \A l \in Items \cup Lines \cup OutLines \cup Receipts : l \notin DOMAIN db
    BY <1>2, Kinds
  <1>4. \A l \in Locations : StockOf(db, l) = 0
    BY <1>3, InitStock
  <1>5. RowsOK
    BY <1>2, <1>3, <1>4, StockIsOf
       DEF RowsOK, PickedMeansFull, QcWithinReceived, AllShelvedCompleted, SameOccupancy,
           OccupancyTracksStock, Has
  <1>6. \A h \in Handlers : call[h] = Idle
    BY DEF Init
  <1> QED
    BY <1>5, <1>6, IdleSerial DEF SerialInv

LEMMA StepSerial ==
  ASSUME OneCall, Inv, SerialInv, NEW h \in Handlers, Step(h)
  PROVE  SerialInv'
  BY CheckLocationSerial, FindReceiverSerial, ScanInboundSerial, FindStockSerial,
     ReadLocationSerial, ScanOutboundSerial, SelectSerial, UpdateSerial, InsertSerial,
     CommitSerial, RollbackSerial DEF Step

LEMMA NextSerial ==
  ASSUME OneCall
  PROVE  Inv /\ SerialInv /\ [Next]_vars => SerialInv'
  <1> SUFFICES ASSUME Inv, SerialInv, [Next]_vars PROVE SerialInv'
    OBVIOUS
  <1>1. ASSUME NEW rc \in Receipts, CreateReceipt(rc) PROVE SerialInv'
    <2>1. PICK new : Creates(new)
      BY <1>1, CreatesReceipt
    <2> QED
      BY <2>1, CreatesSerial
  <1>2. ASSUME NEW o \in Orders, CreateOrder(o) PROVE SerialInv'
    <2>1. PICK new : Creates(new)
      BY <1>2, CreatesOrder
    <2> QED
      BY <2>1, CreatesSerial
  <1>3. ASSUME NEW h \in Handlers, Begin(h) PROVE SerialInv'
    BY <1>3, BeginSerial
  <1>4. ASSUME NEW h \in Handlers, Step(h) PROVE SerialInv'
    BY <1>4, StepSerial
  <1>5. CASE UNCHANGED vars
    <2>1. UNCHANGED <<db, own, call>>
      BY <1>5 DEF vars
    <2>2. \A h \in Handlers : call'[h] = call[h] /\ Sees(h)' = Sees(h)
      BY <2>1 DEF Sees
    <2> QED
      BY <2>1, <2>2, SerialFrame DEF SerialInv
  <1> QED
    BY <1>1, <1>2, <1>3, <1>4, <1>5 DEF Next

\* The step that picks the last line of an order concludes it.
LEMMA OrdersFollow ==
  ASSUME Inv, SerialInv, [Next]_vars, NEW o \in Orders, Has(o), ~ AllPicked(o), AllPicked(o)'
  PROVE  db'[o].status = "PICKED"
  <1>1. PICK l \in OutLines : l \in DOMAIN db /\ OrderOf[l] = o /\ db[l].pick_status # "PICKED"
    BY DEF AllPicked, Has
  <1>2. \A k \in OutLines : k \in DOMAIN db' /\ OrderOf[k] = o => db'[k].pick_status = "PICKED"
    BY DEF AllPicked, Has
  <1>3. SUFFICES ASSUME ~(l \in DOMAIN db' /\ db'[l] = db[l]) PROVE db'[o].status = "PICKED"
    BY <1>1, <1>2
  <1>4. db' # db
    BY <1>1, <1>3
  <1>5. ASSUME NEW new, Creates(new) PROVE FALSE
    <2>1. Grown(db, db', new)
      BY <1>5, CreatesGrows
    <2> QED
      BY <1>1, <1>3, <2>1 DEF Grown
  <1>6. ASSUME NEW h \in Handlers, Begin(h) PROVE FALSE
    BY <1>4, <1>6 DEF Begin, Putaway, Pick, Transfer, Adjust, UpdateQcResult, UpdateInboundStatus,
                      UpdateOutboundStatus, UpdateStatus, UpdateLocation
  <1>7. ASSUME NEW h \in Handlers, Step(h), ~ Commit(h) PROVE FALSE
    BY <1>4, <1>7 DEF Step, CheckLocation, FindReceiver, ScanInbound, FindStock, ReadLocation,
                      ScanOutbound, Select, Update, Insert, Rollback
  <1>8. PICK h \in Handlers : Commit(h)
    <2>1. Next
      BY <1>4 DEF vars
    <2> QED
      BY <1>5, <1>6, <1>7, <2>1, CreatesReceipt, CreatesOrder DEF Next
  <1>9. PICK c : c = call[h]
    OBVIOUS
  <1>10. PICK v : v = Sees(h)
    OBVIOUS
  <1>11. /\ c \in Calls /\ Holds(c) /\ Final(c) /\ Serial(c, v) /\ c.op \in DOMAIN Program
         /\ db' = v
    BY <1>8, <1>9, <1>10, AtCommit
  <1>12. ASSUME OutLinesKept(v) PROVE FALSE
    BY <1>1, <1>3, <1>11, <1>12 DEF OutLinesKept
  <1>13. ASSUME NEW S, Unlike(v, S), S \cap OutLines = {} PROVE FALSE
    <2>1. OutLinesKept(v)
      BY <1>13 DEF Unlike, OutLinesKept, Rows
    <2> QED
      BY <1>12, <2>1
  <1>14. CASE c.op = "pick"
    <2>1. PickDone(c, v)
      BY <1>11, <1>14, PickEnds DEF Final, Serial
    <2>2. l = c.line /\ c.header = o
      BY <1>1, <1>3, <1>11, <2>1 DEF PickDone, KeptBut
    <2> QED
      BY <1>2, <1>11, <2>1, <2>2 DEF PickDone
  <1>15. CASE c.op = "putaway"
    <2>1. PutawayDone(c, v)
      BY <1>11, <1>15, PutawayEnds DEF Final, Serial
    <2> QED
      BY <1>12, <2>1 DEF PutawayDone
  <1>16. CASE c.op = "transfer"
    BY <1>11, <1>13, <1>16, Kinds DEF Serial, TransferCall
  <1>17. CASE c.op = "adjust"
    BY <1>11, <1>13, <1>17, Kinds DEF Serial, AdjustCall
  <1>18. CASE c.op = "qc"
    <2>1. c.line \in Lines /\ Unlike(v, {c.line})
      BY <1>11, <1>18 DEF Serial, QcCall, Holds
    <2> QED
      BY <1>13, <2>1, Kinds
  <1>19. CASE c.op = "status"
    <2>1. c.header \in Receipts \cup Orders /\ Unlike(v, {c.header})
      BY <1>11, <1>19 DEF Serial, StatusCall
    <2> QED
      BY <1>13, <2>1, Kinds
  <1>20. CASE c.op = "location"
    <2>1. Unlike(v, {c.location}) /\ c.location \in Locations \cup {NoRow}
      BY <1>11, <1>20 DEF Serial, LocationCall, Calls
    <2>2. {c.location} \cap OutLines = {}
      BY <2>1, Kinds DEF Rows
    <2> QED
      BY <1>13, <2>1, <2>2
  <1> QED
    BY <1>11, <1>14, <1>15, <1>16, <1>17, <1>18, <1>19, <1>20, Stages

-----------------------------------------------------------------------------
(* The theorems about one call at a time *)

LEMMA Invariants ==
  ASSUME OneCall
  PROVE  Spec => [](Inv /\ SerialInv)
  <1>1. Init => Inv /\ SerialInv
    BY InitInv, InitSerial
  <1>2. (Inv /\ SerialInv) /\ [Next]_vars => (Inv /\ SerialInv)'
    BY NextInv, NextSerial
  <1> QED
    BY <1>1, <1>2, PTL DEF Spec

\* One call at a time, a receipt whose lines are all on shelves is COMPLETED
\* (InboundService.putaway, step 6).
THEOREM ShelvedIsCompleted ==
  ASSUME OneCall
  PROVE  Spec => []AllShelvedCompleted
  <1>1. SerialInv => AllShelvedCompleted
    BY DEF SerialInv, RowsOK
  <1> QED
    BY <1>1, Invariants, PTL

\* One call at a time, and without the transfers and adjustments that do not
\* write it, current_qty of a location is the stock on it (location.entity.ts).
THEOREM OccupancyIsStock ==
  ASSUME OneCall, Operations \cap {"transfer", "adjust"} = {}
  PROVE  Spec => []OccupancyTracksStock
  <1>1. SerialInv => OccupancyTracksStock
    BY DEF SerialInv, RowsOK, SameOccupancy
  <1> QED
    BY <1>1, Invariants, PTL

\* One call at a time, the picking that completes the last line of an order
\* leaves the order PICKED (pickItem, step 7).
THEOREM LastLineConcludes ==
  ASSUME OneCall
  PROVE  Spec => OrderFollowsLines
  <1>1. Inv /\ SerialInv /\ [Next]_vars =>
          [\A o \in Orders : Has(o) /\ ~ AllPicked(o) /\ AllPicked(o)' => db'[o].status = "PICKED"]_vars
    BY OrdersFollow
  <1> QED
    BY <1>1, Invariants, PTL DEF Spec, OrderFollowsLines

-----------------------------------------------------------------------------
(* The ledger that the rows show *)

Stocks(v)    == [l \in Locations |-> StockOf(v, l)]
Accepteds(v) == [l \in Lines |-> IF l \in DOMAIN v THEN v[l].accepted_qty ELSE 0]
Shelves(v)   == [l \in Lines |-> IF l \in DOMAIN v THEN v[l].putaway_location ELSE NoRow]
Askeds(v)    == [l \in OutLines |-> IF l \in DOMAIN v THEN v[l].requested_qty ELSE 0]
Pickeds(v)   == [l \in OutLines |-> IF l \in DOMAIN v THEN v[l].picked_qty ELSE 0]

InboundSame(v)  == Accepteds(v) = Accepteds(db) /\ Shelves(v) = Shelves(db)
OutboundSame(v) == Askeds(v) = Askeds(db) /\ Pickeds(v) = Pickeds(db)
StockSameIn(v)  == Stocks(v) = Stocks(db)

LEMMA Mapping ==
  /\ [l \in Locations |-> StockAt(l)] = Stocks(db)
  /\ [l \in Locations |-> StockAt(l)]' = Stocks(db')
  /\ [l \in Lines |-> IF Has(l) THEN db[l].accepted_qty ELSE 0] = Accepteds(db)
  /\ [l \in Lines |-> IF Has(l) THEN db[l].accepted_qty ELSE 0]' = Accepteds(db')
  /\ [l \in Lines |-> IF Has(l) THEN db[l].putaway_location ELSE NoRow] = Shelves(db)
  /\ [l \in Lines |-> IF Has(l) THEN db[l].putaway_location ELSE NoRow]' = Shelves(db')
  /\ [l \in OutLines |-> IF Has(l) THEN db[l].requested_qty ELSE 0] = Askeds(db)
  /\ [l \in OutLines |-> IF Has(l) THEN db[l].requested_qty ELSE 0]' = Askeds(db')
  /\ [l \in OutLines |-> IF Has(l) THEN db[l].picked_qty ELSE 0] = Pickeds(db)
  /\ [l \in OutLines |-> IF Has(l) THEN db[l].picked_qty ELSE 0]' = Pickeds(db')
  BY StockIsOf DEF Has, Stocks, Accepteds, Shelves, Askeds, Pickeds

LEMMA NoMove ==
  ASSUME NEW v, db' = v, InboundSame(v), OutboundSame(v), StockSameIn(v), adjusted' = adjusted
  PROVE  UNCHANGED Ledger!vars
  BY Mapping DEF InboundSame, OutboundSame, StockSameIn, Ledger!vars

LEMMA AskMove ==
  ASSUME NEW v, db' = v, InboundSame(v), StockSameIn(v), adjusted' = adjusted,
         Pickeds(v) = Pickeds(db), Askeds(v) \in [OutLines -> Nat],
         \A l \in OutLines : Askeds(db)[l] # 0 => Askeds(v)[l] = Askeds(db)[l]
  PROVE  Ledger!Next
  BY Mapping DEF InboundSame, StockSameIn, Ledger!Next, Ledger!Ask

LEMMA InspectMove ==
  ASSUME NEW v, db' = v, OutboundSame(v), StockSameIn(v), adjusted' = adjusted,
         Shelves(v) = Shelves(db), NEW line \in Lines, Accepteds(v)[line] \in Nat,
         Accepteds(v) = [Accepteds(db) EXCEPT ![line] = Accepteds(v)[line]]
  PROVE  Ledger!Next
  BY Mapping DEF OutboundSame, StockSameIn, Ledger!Next, Ledger!Inspect

LEMMA ShelveMove ==
  ASSUME NEW v, db' = v, OutboundSame(v), adjusted' = adjusted,
         Accepteds(v) = Accepteds(db), NEW line \in Lines, NEW loc \in Locations,
         Shelves(db)[line] = NoRow, Accepteds(db)[line] > 0,
         Shelves(v) = [Shelves(db) EXCEPT ![line] = loc],
         Stocks(v) = [Stocks(db) EXCEPT ![loc] = @ + Accepteds(db)[line]]
  PROVE  Ledger!Next
  BY Mapping DEF OutboundSame, Ledger!Next, Ledger!Shelve

LEMMA TakeMove ==
  ASSUME NEW v, db' = v, InboundSame(v), adjusted' = adjusted,
         Askeds(v) = Askeds(db), NEW line \in OutLines, NEW loc \in Locations, NEW qty \in Int,
         0 < qty, Stocks(db)[loc] \in Nat, qty <= Stocks(db)[loc],
         Pickeds(db)[line] + qty <= Askeds(db)[line],
         Pickeds(v) = [Pickeds(db) EXCEPT ![line] = @ + qty],
         Stocks(v) = [Stocks(db) EXCEPT ![loc] = @ - qty]
  PROVE  Ledger!Next
  <1>1. qty \in 1..Stocks(db)[loc]
    OBVIOUS
  <1> QED
    BY <1>1, Mapping DEF InboundSame, Ledger!Next, Ledger!Take

LEMMA CarryMove ==
  ASSUME NEW v, db' = v, InboundSame(v), OutboundSame(v), adjusted' = adjusted,
         NEW from \in Locations, NEW to \in Locations, NEW qty \in Int,
         0 < qty, Stocks(db)[from] \in Nat, qty <= Stocks(db)[from],
         Stocks(v) = [[Stocks(db) EXCEPT ![from] = @ - qty] EXCEPT ![to] = @ + qty]
  PROVE  Ledger!Next
  <1>1. qty \in 1..Stocks(db)[from]
    OBVIOUS
  <1> QED
    BY <1>1, Mapping DEF InboundSame, OutboundSame, Ledger!Next, Ledger!Carry

LEMMA CorrectMove ==
  ASSUME NEW v, db' = v, InboundSame(v), OutboundSame(v), adjusted \in [Locations -> Int],
         NEW loc \in Locations, NEW qty \in Int, Stocks(db)[loc] + qty >= 0,
         adjusted' = [adjusted EXCEPT ![loc] = @ + qty],
         Stocks(v) = [Stocks(db) EXCEPT ![loc] = @ + qty]
  PROVE  Ledger!Next
  <1>1. adjusted'[loc] - adjusted[loc] = qty
    OBVIOUS
  <1>2. Ledger!Correct(loc, qty)
    BY Mapping DEF InboundSame, OutboundSame, Ledger!Correct
  <1> QED
    BY <1>1, <1>2 DEF Ledger!Next

LEMMA LedgerInit == Init => Ledger!Init
  <1> SUFFICES ASSUME Init PROVE Ledger!Init
    OBVIOUS
  <1>1. PICK capacity \in [Locations -> Capacities] :
          db = [l \in Locations |-> [status |-> "ACTIVE", current_qty |-> 0,
                                     max_capacity |-> capacity[l]]]
    BY DEF Init
  <1>2. DOMAIN db = Locations /\ \A l \in Locations : db[l].current_qty = 0
    BY <1>1
  <1>3. \A l \in Items \cup Lines \cup OutLines : l \notin DOMAIN db
    BY <1>2, Kinds
  <1>4. \A l \in Locations : StockOf(db, l) = 0
    BY <1>3, InitStock
  <1>5. Stocks(db) = [l \in Locations |-> 0]
    BY <1>4 DEF Stocks
  <1>6. Accepteds(db) = [l \in Lines |-> 0] /\ Shelves(db) = [l \in Lines |-> NoRow]
    BY <1>3 DEF Accepteds, Shelves
  <1>7. Askeds(db) = [l \in OutLines |-> 0] /\ Pickeds(db) = [l \in OutLines |-> 0]
    BY <1>3 DEF Askeds, Pickeds
  <1>8. adjusted = [l \in Locations |-> 0]
    BY DEF Init
  <1> QED
    BY <1>5, <1>6, <1>7, <1>8, Mapping DEF Ledger!Init

-----------------------------------------------------------------------------
(* Which ledger move each commit is *)

LEMMA OutboundKept ==
  ASSUME NEW v, OutLinesKept(v)
  PROVE  OutboundSame(v)
  <1>1. Askeds(v) = Askeds(db)
    BY DEF Askeds, OutLinesKept
  <1>2. Pickeds(v) = Pickeds(db)
    BY DEF Pickeds, OutLinesKept
  <1> QED
    BY <1>1, <1>2 DEF OutboundSame

LEMMA InboundKept ==
  ASSUME NEW v, LinesKept(v)
  PROVE  InboundSame(v)
  <1>1. Accepteds(v) = Accepteds(db)
    BY DEF Accepteds, LinesKept
  <1>2. Shelves(v) = Shelves(db)
    BY DEF Shelves, LinesKept
  <1> QED
    BY <1>1, <1>2 DEF InboundSame

LEMMA StockKept ==
  ASSUME NEW v, \A loc : StockOf(v, loc) = StockOf(db, loc)
  PROVE  StockSameIn(v)
  BY DEF StockSameIn, Stocks

\* One item's movement is the location's.
LEMMA StockChanges ==
  ASSUME NEW v, Whole(v), Whole(db), NEW i \in Items, NEW q \in Int, Shift(v, i, q),
         ItemAt[i] \in Locations
  PROVE  Stocks(v) = [Stocks(db) EXCEPT ![ItemAt[i]] = @ + q]
  <1>1. ASSUME NEW l \in Locations
        PROVE  StockOf(v, l) = [Stocks(db) EXCEPT ![ItemAt[i]] = @ + q][l]
    <2>1. StockOf(v, l) = StockOf(db, l) + (IF i \in Shelf(l) THEN q ELSE 0)
          /\ StockOf(db, l) \in Int
      BY StockMoves
    <2>2. i \in Shelf(l) <=> ItemAt[i] = l
      BY DEF Shelf
    <2> QED
      BY <2>1, <2>2 DEF Stocks
  <1> QED
    BY <1>1 DEF Stocks

LEMMA PutawayMoves ==
  ASSUME Inv, NEW c \in Calls, NEW v, PutawayDone(c, v), Whole(v), db' = v,
         adjusted' = adjusted
  PROVE  Ledger!Next
  <1>1. PICK l : l = c.line
    OBVIOUS
  <1>2. /\ l \in Lines /\ l \in DOMAIN db /\ l \in DOMAIN v /\ db[l].putaway_location = NoRow
        /\ v[l] = [db[l] EXCEPT !.putaway_location = c.location]
        /\ c.qty = db[l].accepted_qty /\ c.qty > 0 /\ c.qty \in Int
    BY <1>1 DEF PutawayDone, Calls
  <1>3. db[l] \in InboundLine
    BY <1>2, Tables DEF Inv, DbOK, Fits
  <1>4. v[l].accepted_qty = db[l].accepted_qty /\ v[l].putaway_location = c.location
    BY <1>2, <1>3 DEF InboundLine
  <1>5. \A k \in Lines \ {l} : (k \in DOMAIN v <=> k \in DOMAIN db) /\ (k \in DOMAIN db => v[k] = db[k])
    BY <1>1 DEF PutawayDone, KeptBut
  <1>6. Accepteds(v) = Accepteds(db)
    BY <1>2, <1>4, <1>5 DEF Accepteds
  <1>7. Shelves(v) = [Shelves(db) EXCEPT ![l] = c.location]
    BY <1>2, <1>4, <1>5 DEF Shelves
  <1>8. c.item \in Items /\ ItemAt[c.item] = c.location /\ c.location \in Locations
    BY DEF PutawayDone
  <1>9. Stocks(v) = [Stocks(db) EXCEPT ![c.location] = @ + c.qty]
    BY <1>2, <1>8, StockChanges, SeenWhole DEF PutawayDone
  <1>10. Accepteds(db)[l] = c.qty /\ Shelves(db)[l] = NoRow
    BY <1>2 DEF Accepteds, Shelves
  <1>11. OutboundSame(v)
    BY OutboundKept DEF PutawayDone
  <1> QED
    BY <1>2, <1>6, <1>7, <1>8, <1>9, <1>10, <1>11, ShelveMove

LEMMA PickMoves ==
  ASSUME Inv, NEW c \in Calls, NEW v, PickDone(c, v), Whole(v), db' = v,
         adjusted' = adjusted
  PROVE  Ledger!Next
  <1>1. PICK l : l = c.line
    OBVIOUS
  <1>2. /\ l \in OutLines /\ l \in DOMAIN db /\ l \in DOMAIN v
        /\ v[l] = Picked(db[l], c.qty) /\ c.qty \in Int
        /\ c.qty <= db[l].requested_qty - db[l].picked_qty /\ c.qty > 0
    BY <1>1 DEF PickDone, Calls
  <1>3. db[l] \in OutboundLine
    BY <1>2, Tables DEF Inv, DbOK, Fits
  <1>4. v[l].picked_qty = db[l].picked_qty + c.qty /\ v[l].requested_qty = db[l].requested_qty
    BY <1>2, <1>3 DEF OutboundLine, Picked
  <1>5. \A k \in OutLines \ {l} : (k \in DOMAIN v <=> k \in DOMAIN db) /\ (k \in DOMAIN db => v[k] = db[k])
    BY <1>1 DEF PickDone, KeptBut
  <1>6. Askeds(v) = Askeds(db)
    BY <1>2, <1>4, <1>5 DEF Askeds
  <1>7. Pickeds(v) = [Pickeds(db) EXCEPT ![l] = @ + c.qty]
    BY <1>2, <1>4, <1>5 DEF Pickeds
  <1>8. c.item \in Items /\ ItemAt[c.item] = c.location /\ c.location \in Locations
        /\ c.item \in ItemsIn(db, c.location) /\ c.item \in DOMAIN db
    BY DEF PickDone, ItemsIn
  <1>9. Stocks(v) = [Stocks(db) EXCEPT ![c.location] = @ - c.qty]
    <2>1. Stocks(v) = [Stocks(db) EXCEPT ![c.location] = @ + (0 - c.qty)]
      <3>1. 0 - c.qty \in Int
        BY <1>2
      <3> QED
        BY <1>8, <3>1, StockChanges, SeenWhole DEF PickDone
    <2>2. StockOf(db, c.location) \in Nat
      BY StockCovers, NoneBelow, SeenWhole
    <2>3. Stocks(db)[c.location] \in Nat
      BY <1>8, <2>2 DEF Stocks
    <2>4. Stocks(db)[c.location] + (0 - c.qty) = Stocks(db)[c.location] - c.qty
      BY <1>2, <2>3
    <2> QED
      BY <2>1, <2>4
  <1>10. Stocks(db)[c.location] \in Nat /\ c.qty <= Stocks(db)[c.location]
    <2>1. StockOf(db, c.location) \in Nat /\ db[c.item].qty_on_hand <= StockOf(db, c.location)
      BY <1>8, StockCovers, NoneBelow, SeenWhole
    <2>2. db[c.item].qty_on_hand \in Int /\ db[c.item].qty_on_hand >= c.qty
      BY <1>8, SeenWhole DEF Whole, Quantity, PickDone
    <2>3. c.qty <= StockOf(db, c.location)
      BY <1>2, <2>1, <2>2
    <2> QED
      BY <1>8, <2>1, <2>3 DEF Stocks
  <1>11. Pickeds(db)[l] + c.qty <= Askeds(db)[l]
    <2>1. db[l].picked_qty \in Int /\ db[l].requested_qty \in Int
      BY <1>3 DEF OutboundLine
    <2> QED
      BY <1>2, <2>1 DEF Pickeds, Askeds
  <1>12. InboundSame(v)
    BY InboundKept DEF PickDone
  <1> QED
    BY <1>2, <1>6, <1>7, <1>8, <1>9, <1>10, <1>11, <1>12, TakeMove

LEMMA ItemsOnly ==
  ASSUME NEW v, Unlike(v, Items)
  PROVE  InboundSame(v) /\ OutboundSame(v)
  <1>1. OutLinesKept(v) /\ LinesKept(v)
    <2>1. \A l \in OutLines \cup Lines : l \in Rows \ Items
      BY Kinds DEF Rows
    <2> QED
      BY <2>1 DEF Unlike, OutLinesKept, LinesKept
  <1> QED
    BY <1>1, OutboundKept, InboundKept

LEMMA TransferMoves ==
  ASSUME Inv, NEW c \in Calls, NEW v, TransferCall(c, v), c.at = 4, c.location \in Locations,
         Whole(v), db' = v, adjusted' = adjusted
  PROVE  Ledger!Next
  <1>1. PICK i \in Items \cap DOMAIN db :
          /\ db[i].qty_on_hand >= c.qty
          /\ Received(c, v)
          /\ \A j \in Items :
               Quantity(v, j) = (Quantity(db, j) - (IF j = i THEN c.qty ELSE 0))
                                 + (IF j = c.item THEN c.qty ELSE 0)
    BY DEF TransferCall
  <1>2. PICK from : from = ItemAt[i]
    OBVIOUS
  <1>3. PICK to : to = c.location
    OBVIOUS
  <1>4. from \in Locations /\ to \in Locations /\ c.qty \in Int /\ c.qty > 0
    BY <1>2, <1>3, TableAssumption DEF TransferCall, Calls
  <1>5. c.item \in Items /\ ItemAt[c.item] = to
    BY <1>1, <1>3 DEF Received, ItemsIn
  <1>6. PICK f : f = Counts(db)
    OBVIOUS
  <1>7. PICK m : m = [j \in Items |-> f[j] + (IF j = i THEN 0 - c.qty ELSE 0)]
    OBVIOUS
  <1>8. PICK g : g = Counts(v)
    OBVIOUS
  <1>9. ASSUME NEW j \in Items
        PROVE  /\ f[j] \in Int /\ m[j] \in Int
               /\ m[j] = f[j] + (IF j = i THEN 0 - c.qty ELSE 0)
               /\ g[j] = m[j] + (IF j = c.item THEN c.qty ELSE 0)
    <2>1. f[j] = Quantity(db, j) /\ g[j] = Quantity(v, j) /\ f[j] \in Int
      BY <1>6, <1>8, SeenWhole DEF Counts, Whole
    <2>2. m[j] = f[j] + (IF j = i THEN 0 - c.qty ELSE 0)
      BY <1>7
    <2>3. g[j] = (f[j] - (IF j = i THEN c.qty ELSE 0)) + (IF j = c.item THEN c.qty ELSE 0)
      BY <1>1, <2>1
    <2> QED
      BY <1>4, <2>1, <2>2, <2>3
  <1>10. ASSUME NEW l \in Locations
         PROVE  /\ StockOf(db, l) \in Int
                /\ StockOf(v, l) = (StockOf(db, l) + (IF from = l THEN 0 - c.qty ELSE 0))
                                    + (IF to = l THEN c.qty ELSE 0)
    <2>1. StockOf(db, l) = Total(f, Shelf(l)) /\ StockOf(v, l) = Total(g, Shelf(l))
      BY <1>6, <1>8, StockIsTotal, SeenWhole DEF Whole
    <2>2. PICK q \in Int : q = 0 - c.qty
      BY <1>4
    <2>3. /\ Total(f, Shelf(l)) \in Int /\ Total(m, Shelf(l)) \in Int
          /\ Total(m, Shelf(l)) = Total(f, Shelf(l)) + (IF i \in Shelf(l) THEN q ELSE 0)
      <3>1. \A j \in Items : f[j] \in Int /\ m[j] = f[j] + (IF j = i THEN q ELSE 0)
        BY <1>9, <2>2
      <3> QED
        BY <3>1, CountsMove
    <2>4. Total(g, Shelf(l)) = Total(m, Shelf(l)) + (IF c.item \in Shelf(l) THEN c.qty ELSE 0)
      BY <1>4, <1>9, CountsMove
    <2>5. (i \in Shelf(l) <=> from = l) /\ (c.item \in Shelf(l) <=> to = l)
      BY <1>1, <1>2, <1>5 DEF Shelf
    <2> QED
      BY <2>1, <2>2, <2>3, <2>4, <2>5
  <1>11. Stocks(v) = [[Stocks(db) EXCEPT ![from] = @ - c.qty] EXCEPT ![to] = @ + c.qty]
    <2>1. ASSUME NEW l \in Locations
          PROVE  StockOf(v, l) =
                   [[Stocks(db) EXCEPT ![from] = @ - c.qty] EXCEPT ![to] = @ + c.qty][l]
      BY <1>4, <1>10 DEF Stocks
    <2> QED
      BY <2>1 DEF Stocks
  <1>12. Stocks(db)[from] \in Nat /\ c.qty <= Stocks(db)[from]
    <2>1. i \in ItemsIn(db, from)
      BY <1>2 DEF ItemsIn
    <2>2. StockOf(db, from) \in Nat /\ db[i].qty_on_hand <= StockOf(db, from)
      BY <2>1, StockCovers, NoneBelow, SeenWhole
    <2>3. db[i].qty_on_hand \in Int
      BY SeenWhole DEF Whole, Quantity
    <2>4. c.qty <= StockOf(db, from)
      BY <1>1, <1>4, <2>2, <2>3
    <2> QED
      BY <1>4, <2>2, <2>4 DEF Stocks
  <1>13. InboundSame(v) /\ OutboundSame(v)
    BY ItemsOnly DEF TransferCall
  <1> QED
    BY <1>4, <1>11, <1>12, <1>13, CarryMove

LEMMA AdjustMoves ==
  ASSUME Inv, NEW c \in Calls, NEW v, AdjustCall(c, v), c.at = 2, c.location \in Locations,
         Whole(v), \A i \in Items : i \in DOMAIN v => v[i].qty_on_hand >= 0,
         db' = v, adjusted' = [adjusted EXCEPT ![c.location] = @ + c.qty]
  PROVE  Ledger!Next
  <1>1. /\ c.item \in Items /\ ItemAt[c.item] = c.location /\ Shift(v, c.item, c.qty)
        /\ c.qty \in Int
    BY DEF AdjustCall, Received, ItemsIn, Calls
  <1>2. Stocks(v) = [Stocks(db) EXCEPT ![c.location] = @ + c.qty]
    BY <1>1, StockChanges, SeenWhole
  <1>3. Stocks(db)[c.location] + c.qty >= 0
    <2>1. Stocks(v)[c.location] = StockOf(v, c.location)
      BY DEF Stocks
    <2>2. Stocks(v)[c.location] = Stocks(db)[c.location] + c.qty
      BY <1>2 DEF Stocks
    <2>3. StockOf(v, c.location) \in Nat
      BY StockCovers
    <2> QED
      BY <2>1, <2>2, <2>3
  <1>4. InboundSame(v) /\ OutboundSame(v)
    BY ItemsOnly DEF AdjustCall
  <1>5. adjusted \in [Locations -> Int]
    BY DEF Inv, HistoryOK
  <1> QED
    BY <1>1, <1>2, <1>3, <1>4, <1>5, CorrectMove

LEMMA QcMoves ==
  ASSUME Inv, NEW c \in Calls, NEW v, QcCall(c, v), c.at = 2, c.line \in Lines,
         \A l \in Lines : l \in DOMAIN v => v[l] \in InboundLine,
         db' = v, adjusted' = adjusted
  PROVE  Ledger!Next
  <1>1. PICK l : l = c.line
    OBVIOUS
  <1>2. l \in Lines /\ l \in DOMAIN db /\ l \in DOMAIN v /\ Unlike(v, {l})
    BY <1>1 DEF QcCall, SavedAt
  <1>3. PICK e : e = c.entity[l]
    OBVIOUS
  <1>4. v[l] = e /\ e = [db[l] EXCEPT !.qc_status = e.qc_status, !.accepted_qty = e.accepted_qty,
                          !.rejected_qty = e.rejected_qty]
    BY <1>1, <1>3 DEF QcCall, SavedAt
  <1>5. db[l] \in InboundLine
    BY <1>2, Tables DEF Inv, DbOK, Fits
  <1>6. v[l].putaway_location = db[l].putaway_location /\ v[l].accepted_qty \in Nat
    BY <1>2, <1>4, <1>5 DEF InboundLine
  <1>7. \A k \in Lines \ {l} : (k \in DOMAIN v <=> k \in DOMAIN db) /\ (k \in DOMAIN db => v[k] = db[k])
    BY <1>2 DEF Unlike, Rows
  <1>8. Shelves(v) = Shelves(db)
    BY <1>2, <1>6, <1>7 DEF Shelves
  <1>9. Accepteds(v) = [Accepteds(db) EXCEPT ![l] = Accepteds(v)[l]]
    BY <1>2, <1>7 DEF Accepteds
  <1>10. Accepteds(v)[l] \in Nat
    BY <1>2, <1>6 DEF Accepteds
  <1>11. OutLinesKept(v)
    <2>1. \A k \in OutLines : k \in Rows \ {l}
      BY <1>2, Kinds DEF Rows
    <2> QED
      BY <1>2, <2>1 DEF Unlike, OutLinesKept
  <1>12. StockSameIn(v)
    <2>1. {l} \cap Items = {}
      BY <1>2, Kinds
    <2> QED
      BY <1>2, <2>1, StockSame, StockKept, SeenWhole
  <1> QED
    BY <1>2, <1>8, <1>9, <1>10, <1>11, <1>12, OutboundKept, InspectMove

\* A status, and the status and capacity of a location, move nothing.
LEMMA OtherMoves ==
  ASSUME Inv, NEW v, NEW r, Unlike(v, {r}), r \notin Items \cup Lines \cup OutLines,
         db' = v, adjusted' = adjusted
  PROVE  UNCHANGED Ledger!vars
  <1>1. OutLinesKept(v) /\ LinesKept(v)
    <2>1. \A l \in OutLines \cup Lines : l \in Rows \ {r}
      BY DEF Rows
    <2> QED
      BY <2>1 DEF Unlike, OutLinesKept, LinesKept
  <1>2. StockSameIn(v)
    BY StockSame, StockKept, SeenWhole
  <1> QED
    BY <1>1, <1>2, OutboundKept, InboundKept, NoMove

LEMMA CreatesMoves ==
  ASSUME Inv, NEW new, Creates(new)
  PROVE  Ledger!Next
  <1>1. PICK v : v = db'
    OBVIOUS
  <1>2. Grown(db, v, new)
    BY <1>1, CreatesGrows
  <1>3. \A i \in Items : Quantity(v, i) = Quantity(db, i)
    BY <1>2 DEF Grown, Quantity, Creates, Fresh
  <1>4. \A loc : StockOf(v, loc) = StockOf(db, loc)
    <2>1. Counts(v) = Counts(db)
      BY <1>3 DEF Counts
    <2>2. Whole(db) /\ Whole(v)
      BY <1>3, SeenWhole DEF Whole
    <2> QED
      BY <2>1, <2>2, StockIsTotal DEF Whole
  <1>5. InboundSame(v)
    <2>1. \A l \in Lines : l \in DOMAIN v /\ l \notin DOMAIN db =>
            v[l].accepted_qty = 0 /\ v[l].putaway_location = NoRow
      BY <1>2 DEF Grown, Creates, Fresh
    <2>2. \A l \in Lines : l \in DOMAIN db => l \in DOMAIN v /\ v[l] = db[l]
      BY <1>2 DEF Grown
    <2>3. Accepteds(v) = Accepteds(db)
      BY <2>1, <2>2 DEF Accepteds
    <2>4. Shelves(v) = Shelves(db)
      BY <2>1, <2>2 DEF Shelves
    <2> QED
      BY <2>3, <2>4 DEF InboundSame
  <1>6. \A l \in OutLines : l \in DOMAIN v /\ l \notin DOMAIN db =>
          v[l].picked_qty = 0 /\ v[l].requested_qty \in Nat
    BY <1>2 DEF Grown, Creates, Fresh
  <1>7. \A l \in OutLines : l \in DOMAIN db => l \in DOMAIN v /\ v[l] = db[l]
    BY <1>2 DEF Grown
  <1>8. Pickeds(v) = Pickeds(db)
    BY <1>6, <1>7 DEF Pickeds
  <1>9. \A l \in OutLines : Askeds(db)[l] # 0 => Askeds(v)[l] = Askeds(db)[l]
    BY <1>7 DEF Askeds
  <1>10. Askeds(v) \in [OutLines -> Nat]
    <2>1. ASSUME NEW l \in OutLines, l \in DOMAIN db PROVE db[l].requested_qty \in Nat
      <3>1. db[l] \in OutboundLine
        BY <2>1, Tables DEF Inv, DbOK, Fits
      <3> QED
        BY <3>1 DEF OutboundLine
    <2> QED
      BY <1>6, <1>7, <2>1 DEF Askeds
  <1>11. adjusted' = adjusted
    BY DEF Creates, history
  <1> QED
    BY <1>1, <1>4, <1>5, <1>8, <1>9, <1>10, <1>11, StockKept, AskMove

LEMMA CommitMoves ==
  ASSUME Inv, SerialInv, NEW h \in Handlers, Commit(h)
  PROVE  [Ledger!Next]_(Ledger!vars)
  <1>1. PICK c : c = call[h]
    OBVIOUS
  <1>2. PICK v : v = Sees(h)
    OBVIOUS
  <1>3. /\ c \in Calls /\ Holds(c) /\ Final(c) /\ Serial(c, v) /\ c.op \in DOMAIN Program
        /\ db' = v
    BY <1>1, <1>2, AtCommit
  <1>4. /\ Whole(v) /\ \A i \in Items : i \in DOMAIN v => v[i].qty_on_hand >= 0
        /\ \A l \in Lines : l \in DOMAIN v => v[l] \in InboundLine
    BY <1>2, SeenWhole, NoneBelow, SeenOK, Tables DEF Fits
  <1>5. adjusted' = IF c.op = "adjust" THEN [adjusted EXCEPT ![c.location] = @ + c.qty]
                                       ELSE adjusted
    BY <1>1 DEF Commit
  <1>6. CASE c.op = "putaway"
    <2>1. PutawayDone(c, v)
      BY <1>3, <1>6, PutawayEnds DEF Final, Serial
    <2> QED
      BY <1>3, <1>4, <1>5, <1>6, <2>1, PutawayMoves
  <1>7. CASE c.op = "pick"
    <2>1. PickDone(c, v)
      BY <1>3, <1>7, PickEnds DEF Final, Serial
    <2> QED
      BY <1>3, <1>4, <1>5, <1>7, <2>1, PickMoves
  <1>8. CASE c.op = "transfer"
    <2>1. TransferCall(c, v) /\ c.at = 4 /\ c.location \in Locations
      BY <1>3, <1>8 DEF Serial, Final, Holds
    <2> QED
      BY <1>3, <1>4, <1>5, <1>8, <2>1, TransferMoves
  <1>9. CASE c.op = "adjust"
    <2>1. AdjustCall(c, v) /\ c.at = 2 /\ c.location \in Locations
      BY <1>3, <1>9 DEF Serial, Final, Holds
    <2> QED
      BY <1>3, <1>4, <1>5, <1>9, <2>1, AdjustMoves
  <1>10. CASE c.op = "qc"
    <2>1. QcCall(c, v) /\ c.at = 2 /\ c.line \in Lines
      BY <1>3, <1>10 DEF Serial, Final, Holds
    <2> QED
      BY <1>3, <1>4, <1>5, <1>10, <2>1, QcMoves
  <1>11. CASE c.op = "status"
    <2>1. c.header \in Receipts \cup Orders /\ Unlike(v, {c.header})
      BY <1>3, <1>11 DEF Serial, StatusCall
    <2>2. c.header \notin Items \cup Lines \cup OutLines
      BY <2>1, Kinds
    <2> QED
      BY <1>3, <1>5, <1>11, <2>1, <2>2, OtherMoves
  <1>12. CASE c.op = "location"
    <2>1. c.location \in Locations \cup {NoRow} /\ Unlike(v, {c.location})
      BY <1>3, <1>12 DEF Serial, LocationCall, Calls
    <2>2. c.location \notin Items \cup Lines \cup OutLines
      BY <2>1, Kinds DEF Rows
    <2> QED
      BY <1>3, <1>5, <1>12, <2>1, <2>2, OtherMoves
  <1> QED
    BY <1>3, <1>6, <1>7, <1>8, <1>9, <1>10, <1>11, <1>12, Stages

LEMMA LedgerStep ==
  Inv /\ SerialInv /\ [Next]_vars => [Ledger!Next]_(Ledger!vars)
  <1> SUFFICES ASSUME Inv, SerialInv, [Next]_vars PROVE [Ledger!Next]_(Ledger!vars)
    OBVIOUS
  <1>1. ASSUME NEW rc \in Receipts, CreateReceipt(rc) PROVE Ledger!Next
    <2>1. PICK new : Creates(new)
      BY <1>1, CreatesReceipt
    <2> QED
      BY <2>1, CreatesMoves
  <1>2. ASSUME NEW o \in Orders, CreateOrder(o) PROVE Ledger!Next
    <2>1. PICK new : Creates(new)
      BY <1>2, CreatesOrder
    <2> QED
      BY <2>1, CreatesMoves
  <1>3. ASSUME UNCHANGED <<db, adjusted>> PROVE UNCHANGED Ledger!vars
    <2>1. PICK v : v = db
      OBVIOUS
    <2> QED
      BY <1>3, <2>1, NoMove DEF InboundSame, OutboundSame, StockSameIn
  <1>4. ASSUME NEW h \in Handlers, Begin(h) PROVE UNCHANGED <<db, adjusted>>
    BY <1>4 DEF Begin, Putaway, Pick, Transfer, Adjust, UpdateQcResult, UpdateInboundStatus,
                UpdateOutboundStatus, UpdateStatus, UpdateLocation, history
  <1>5. ASSUME NEW h \in Handlers, Step(h), ~ Commit(h) PROVE UNCHANGED <<db, adjusted>>
    BY <1>5 DEF Step, CheckLocation, FindReceiver, ScanInbound, FindStock, ReadLocation,
                ScanOutbound, Select, Update, Insert, Rollback, history
  <1>6. ASSUME NEW h \in Handlers, Step(h) PROVE [Ledger!Next]_(Ledger!vars)
    BY <1>3, <1>5, <1>6, CommitMoves
  <1>7. CASE UNCHANGED vars
    BY <1>3, <1>7 DEF vars
  <1> QED
    BY <1>1, <1>2, <1>3, <1>4, <1>6, <1>7 DEF Next

\* One call at a time, each committed transaction is one movement of the ledger
\* and nothing else moves stock (BR-01 of docs/features/wms-core/BA_SPEC.md).
THEOREM WarehouseKeepsLedger ==
  ASSUME OneCall
  PROVE  Spec => MovesAreLedgerMoves
  <1>1. Init => Ledger!Init
    BY LedgerInit
  <1>2. Inv /\ SerialInv /\ [Next]_vars => [Ledger!Next]_(Ledger!vars)
    BY LedgerStep
  <1> QED
    BY <1>1, <1>2, Invariants, PTL DEF Spec, MovesAreLedgerMoves, Ledger!Spec
=============================================================================

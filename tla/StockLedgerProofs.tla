--------------------------- MODULE StockLedgerProofs ---------------------------
(***************************************************************************)
(* What the abstract stock ledger guarantees, for any locations and lines. *)
(* Warehouse is checked by TLC to implement the ledger when calls come one *)
(* at a time, so these facts carry over to it.                             *)
(***************************************************************************)
EXTENDS StockLedger, TLAPS

LedgerInv == TypeOK /\ NothingOverdrawn

LEMMA LedgerInit == Init => LedgerInv
  BY DEF Init, LedgerInv, TypeOK, NothingOverdrawn

\* Every movement of the ledger keeps its types and its bounds.
LEMMA LedgerStep == LedgerInv /\ [Next]_vars => LedgerInv'
<1> SUFFICES ASSUME LedgerInv, [Next]_vars PROVE LedgerInv'
  OBVIOUS
<1> USE DEF LedgerInv, TypeOK, NothingOverdrawn
<1>1. CASE Ask
  BY <1>1 DEF Ask
<1>2. ASSUME NEW line \in Lines, Inspect(line) PROVE LedgerInv'
  BY <1>2 DEF Inspect
<1>3. ASSUME NEW line \in Lines, NEW loc \in Locations, Shelve(line, loc)
      PROVE LedgerInv'
  BY <1>3 DEF Shelve
<1>4. ASSUME NEW line \in OutLines, NEW loc \in Locations,
             NEW qty \in 1..stock[loc], Take(line, loc, qty)
      PROVE LedgerInv'
  BY <1>4 DEF Take
<1>5. ASSUME NEW from \in Locations, NEW to \in Locations,
             NEW qty \in 1..stock[from], Carry(from, to, qty)
      PROVE LedgerInv'
  <2> DEFINE less == [stock EXCEPT ![from] = @ - qty]
  <2>1. less \in [Locations -> Nat]
    <3>1. stock[from] \in Nat /\ qty \in Nat /\ qty <= stock[from]
      BY <1>5
    <3>2. stock[from] - qty \in Nat
      BY <3>1
    <3> QED
      BY <3>2
  <2>2. stock' = [less EXCEPT ![to] = @ + qty]
    BY <1>5 DEF Carry
  <2>3. stock' \in [Locations -> Nat]
    <3> HIDE DEF less
    <3>1. less[to] \in Nat /\ qty \in Nat
      BY <2>1, <1>5
    <3> QED
      BY <2>1, <2>2, <3>1
  <2> QED
    BY <1>5, <2>3 DEF Carry
<1>6. ASSUME NEW loc \in Locations, NEW qty \in Int, Correct(loc, qty)
      PROVE LedgerInv'
  BY <1>6 DEF Correct
<1>7. CASE UNCHANGED vars
  BY <1>7 DEF vars
<1> QED
  BY <1>1, <1>2, <1>3, <1>4, <1>5, <1>6, <1>7 DEF Next, Correct

\* The ledger never overdraws a location nor an outbound line.
THEOREM LedgerSound == Spec => []NothingOverdrawn
  BY LedgerInit, LedgerStep, PTL DEF Spec, LedgerInv

\* A line is shelved once: no movement changes the shelf of a shelved line.
THEOREM ShelvedOnce == Spec => ShelvedForGood
<1>1. ASSUME LedgerInv, [Next]_vars
      PROVE [\A line \in Lines : shelf[line] # NoRow
                                 => shelf'[line] = shelf[line]]_vars
  <2> USE DEF LedgerInv, TypeOK
  <2>1. ASSUME NEW line \in Lines, NEW loc \in Locations, Shelve(line, loc),
               NEW other \in Lines, shelf[other] # NoRow
        PROVE shelf'[other] = shelf[other]
    BY <2>1 DEF Shelve
  <2> QED
    BY <1>1, <2>1 DEF Next, Ask, Inspect, Take, Carry, Correct, vars
<1> QED
  BY <1>1, LedgerInit, LedgerStep, PTL DEF Spec, ShelvedForGood
=============================================================================

----------------------------- MODULE HandlerFacts -----------------------------
(***************************************************************************)
(* Facts that the proofs about several services rest on: how the record of *)
(* a handler changes and when handlers run alone (Server).                 *)
(***************************************************************************)
EXTENDS Server, FiniteSetTheorems, TLAPS

-----------------------------------------------------------------------------
(* Handlers, in every service *)

Running(h) == ~At(h, "idle")
Alone      == \A g \in Handlers : \A h \in Handlers : Running(g) /\ Running(h) => g = h

\* What the server keeps whatever its handlers do.
HandlersOK == DOMAIN call = Handlers /\ overlaps \in Nat /\ (Calm => Alone)

\* Handler h goes on with c, or begins it, or dies.
Moves(h, c) ==
  /\ call' = [call EXCEPT ![h] = c]
  /\ \/ Running(h) /\ UNCHANGED overlaps
     \/ Disturb

LEMMA BeginMoves  == \A h, c : Begin(h, c) => Moves(h, c)
  BY DEF Begin, Moves
LEMMA BecomeMoves == \A h, c : Running(h) /\ Become(h, c) => Moves(h, c)
  BY DEF Become, Moves
LEMMA CrashMoves  == \A h : Crash(h) => Moves(h, Idle)
  BY DEF Crash, Moves

\* Calls that disturb one another are counted (Server!Disturb); one that is not
\* disturbed runs alone.
LEMMA Moved ==
  ASSUME HandlersOK, NEW h \in Handlers, NEW c, Moves(h, c)
  PROVE  /\ HandlersOK'
         /\ call'[h] = c /\ \A g \in Handlers \ {h} : call'[g] = call[g]
         /\ Calm' => Calm /\ \A g \in Handlers \ {h} : call[g].pc = "idle"
  <1>1. call'[h] = c /\ \A g \in Handlers \ {h} : call'[g] = call[g]
    BY DEF HandlersOK, Moves
  <1>2. overlaps' \in Nat /\ (Calm' => Calm)
    BY DEF HandlersOK, Moves, Disturb, Calm
  <1>3. Calm' => \A g \in Handlers \ {h} : call[g].pc = "idle"
    <2>1. CASE Running(h) /\ UNCHANGED overlaps
      BY <2>1, <1>2 DEF HandlersOK, Alone, Running, At
    <2>2. CASE Disturb
      BY <2>2 DEF Disturb, Quiet, At, Calm, HandlersOK
    <2> QED
      BY <2>1, <2>2 DEF Moves
  <1>4. Calm' => Alone'
    BY <1>1, <1>3 DEF Alone, Running, At
  <1> QED
    BY <1>1, <1>2, <1>3, <1>4 DEF HandlersOK, Moves

-----------------------------------------------------------------------------
(* The handlers at work, against the overlaps that were counted *)

Busy == {h \in Handlers : Running(h)}

\* Every busy handler but one has been counted as an overlap.
BusyCounted ==
  /\ DOMAIN call = Handlers /\ overlaps \in Nat
  /\ IsFiniteSet(Busy) /\ Cardinality(Busy) <= overlaps + 1

\* The overlaps that those at work do not account for.
PastOverlaps == IF Busy = {} THEN overlaps ELSE overlaps + 1 - Cardinality(Busy)

LEMMA BusyMoved ==
  ASSUME BusyCounted, NEW h \in Handlers, NEW c, Moves(h, c)
  PROVE  /\ BusyCounted'
         /\ call'[h] = c /\ \A g \in Handlers \ {h} : call'[g] = call[g]
         /\ overlaps <= overlaps'
         /\ PastOverlaps \in Nat /\ PastOverlaps' \in Nat /\ PastOverlaps <= PastOverlaps'
         /\ Running(h) /\ c.pc = "idle" /\ (\E g \in Handlers \ {h} : Running(g)) =>
              PastOverlaps + 1 <= PastOverlaps'
         /\ ~Running(h) /\ (\E g \in Handlers : Running(g)) => overlaps' = overlaps + 1
  <1>1. /\ DOMAIN call' = Handlers /\ call'[h] = c
        /\ \A g \in Handlers \ {h} : call'[g] = call[g]
    BY DEF Moves, BusyCounted
  <1>2. PICK n, m : n = Cardinality(Busy) /\ m = Cardinality(Busy')
    OBVIOUS
  <1>3. IsFiniteSet(Busy) /\ n \in Nat /\ overlaps \in Nat /\ n <= overlaps + 1
    BY <1>2, FS_CardinalityType DEF BusyCounted
  <1>4. Busy' = IF c.pc = "idle" THEN Busy \ {h} ELSE Busy \cup {h}
    <2>1. \A g : g \in Busy' <=> g \in (IF c.pc = "idle" THEN Busy \ {h} ELSE Busy \cup {h})
      BY <1>1 DEF Busy, Running, At
    <2> QED
      BY <2>1
  <1>5. /\ IsFiniteSet(Busy \cup {h}) /\ IsFiniteSet(Busy \ {h})
        /\ Cardinality(Busy \cup {h}) = IF h \in Busy THEN n ELSE n + 1
        /\ Cardinality(Busy \ {h}) = IF h \in Busy THEN n - 1 ELSE n
    BY <1>2, <1>3, FS_AddElement, FS_RemoveElement
  <1>6. /\ IsFiniteSet(Busy')
        /\ m = IF c.pc = "idle" THEN (IF h \in Busy THEN n - 1 ELSE n)
                                ELSE (IF h \in Busy THEN n ELSE n + 1)
    BY <1>2, <1>4, <1>5
  <1>7. m \in Nat
    BY <1>2, <1>6, FS_CardinalityType
  <1>8. (Busy = {} <=> n = 0) /\ (Busy' = {} <=> m = 0)
    BY <1>2, <1>3, <1>6, FS_EmptySet
  <1>9. /\ h \in Busy <=> Running(h)
        /\ Busy = {} <=> \A g \in Handlers : ~Running(g)
        /\ Quiet <=> Busy = {}
    BY DEF Busy, Quiet, Running
  <1>10. (\E g \in Handlers \ {h} : Running(g)) => Busy' # {}
    BY <1>4 DEF Busy
  <1>11. /\ PastOverlaps = IF n = 0 THEN overlaps ELSE overlaps + 1 - n
         /\ PastOverlaps' = IF m = 0 THEN overlaps' ELSE overlaps' + 1 - m
    BY <1>2, <1>8 DEF PastOverlaps
  <1>12. PICK s, s2, o, o2 : s = PastOverlaps /\ s2 = PastOverlaps' /\ o = overlaps /\ o2 = overlaps'
    OBVIOUS
  <1>13. /\ o2 \in Nat /\ o <= o2 /\ m <= o2 + 1
         /\ s \in Nat /\ s2 \in Nat /\ s <= s2
         /\ h \in Busy /\ c.pc = "idle" /\ m # 0 => s + 1 <= s2
         /\ h \notin Busy /\ n # 0 => o2 = o + 1
    <2>1. \/ h \in Busy /\ n # 0 /\ o2 = o
          \/ n = 0 /\ h \notin Busy /\ o2 = o
          \/ n # 0 /\ o2 = o + 1
      BY <1>8, <1>9, <1>12 DEF Moves, Disturb
    <2> HIDE DEF PastOverlaps, Busy
    <2> QED
      BY <1>3, <1>6, <1>7, <1>8, <1>11, <1>12, <2>1
  <1>14. BusyCounted'
    BY <1>1, <1>2, <1>6, <1>12, <1>13 DEF BusyCounted
  <1> QED
    BY <1>1, <1>8, <1>9, <1>10, <1>12, <1>13, <1>14

\* Nothing runs at first.
LEMMA NoneBusy == ServerInit => HandlersOK /\ BusyCounted /\ PastOverlaps = 0
  <1>1. SUFFICES ASSUME ServerInit PROVE HandlersOK /\ BusyCounted /\ PastOverlaps = 0
    OBVIOUS
  <1>2. Busy = {} /\ DOMAIN call = Handlers /\ overlaps = 0
    BY <1>1 DEF Busy, Running, At, ServerInit, Idle
  <1> QED
    BY <1>2, FS_EmptySet DEF HandlersOK, Alone, Busy, BusyCounted, PastOverlaps

\* save() alone leaves the row as the entity is.
LEMMA SavedAsIs ==
  ASSUME NEW e, NEW row, DOMAIN e = DOMAIN row, e = [c \in DOMAIN e |-> e[c]],
         NEW dirty, Dirty(e, row) \subseteq dirty
  PROVE  Merge(row, e, dirty) = e
  BY DEF Merge, Dirty
=============================================================================

-------------------------------- MODULE Server --------------------------------
(***************************************************************************)
(* What the services of the server have in common: the handlers of HTTP     *)
(* requests and jobs, which run at the same time and are interrupted at     *)
(* every await, and TypeORM's save(entity), which selects the row, compares *)
(* every loaded column with it, and then updates the columns that differ    *)
(* with the values of the entity, however old these are.                    *)
(*                                                                          *)
(* A handler's record in `call` holds its local variables and, as pc, the   *)
(* await it stands at.  `overlaps` counts the calls that did not run alone  *)
(* and to their end, up to MaxOverlaps: with 0 calls run one at a time.     *)
(***************************************************************************)
EXTENDS Integers, Sequences, FiniteSets

CONSTANTS
  Handlers,       \* requests and jobs the server can run at the same time
  MaxOverlaps,    \* bound: calls that start while another runs, and crashes
  CrashesAllowed  \* whether a handler may die at an await

ASSUME ServerAssumption == MaxOverlaps \in Nat /\ CrashesAllowed \in BOOLEAN

VARIABLES call, overlaps

serverVars == <<call, overlaps>>

Idle == [pc |-> "idle"]

At(h, pc) == call[h].pc = pc
Quiet     == \A h \in Handlers : At(h, "idle")
Calm      == overlaps = 0   \* history: every call ran alone and to its end

\* What happens now, not as a step of a running call, disturbs those running.
Disturb == \/ Quiet /\ UNCHANGED overlaps
           \/ ~Quiet /\ overlaps < MaxOverlaps /\ overlaps' = overlaps + 1

Begin(h, c)  == At(h, "idle") /\ call' = [call EXCEPT ![h] = c] /\ Disturb
Become(h, c) == call' = [call EXCEPT ![h] = c] /\ UNCHANGED overlaps
Goto(h, pc)  == Become(h, [call[h] EXCEPT !.pc = pc])
Return(h)    == Become(h, Idle)

\* The process exits or loses its database connection at an await.
Crash(h) ==
  /\ CrashesAllowed /\ ~At(h, "idle")
  /\ call' = [call EXCEPT ![h] = Idle]
  /\ Disturb

ServerInit == call = [h \in Handlers |-> Idle] /\ overlaps = 0

\* save(), its SELECT: the columns of entity e that differ from the row
Dirty(e, row) == {c \in DOMAIN row : e[c] # row[c]}

\* save(), its UPDATE: those columns of the row get the values of e
Merge(row, e, dirty) == [c \in DOMAIN row |-> IF c \in dirty THEN e[c] ELSE row[c]]
=============================================================================

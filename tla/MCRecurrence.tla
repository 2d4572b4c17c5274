----------------------------- MODULE MCRecurrence -----------------------------
(* An instance of Recurrence for TLC: one template whose rule has an occurrence *)
(* on every day, a server that stays up.                                        *)
EXTENDS Recurrence

EveryDay == [t \in Templates |-> Days]
=============================================================================

------------------------------ MODULE MCApproval ------------------------------
(* Instances of ApprovalWorkflow for TLC: configurations and thresholds. *)
EXTENDS ApprovalWorkflow, TLC

CONSTANTS ann, bob, root   \* two approvers and a super administrator

MCUsers == {ann, bob, root}
MCSuperAdmins == {root}

Row(i, k, u, d, n, m) == [id |-> i, order |-> k, approver |-> u, delegate |-> d,
                          required |-> n, mandatory |-> m]

Ann1   == Row(1, 1, ann, NoUser, 1, TRUE)
Both1a == Row(2, 1, ann, NoUser, 2, TRUE)
Both1b == Row(3, 1, bob, NoUser, 2, TRUE)
Bob2   == Row(4, 2, bob, ann, 1, TRUE)
Opt2   == Row(5, 2, bob, NoUser, 1, FALSE)
Ann3   == Row(6, 3, ann, NoUser, 1, TRUE)
Opt3   == Row(8, 3, bob, NoUser, 1, FALSE)
Opt4   == Row(7, 4, bob, NoUser, 1, FALSE)

\* one step per order, some of them optional, the last one too; edited, the
\* configuration gets the same steps again
ChainRows == {Ann1, Opt2, Ann3, Opt4}
ChainConfigs == {{}, ChainRows}
\* the first order asks both approvers, then the second order
BothRows == {Both1a, Both1b, Bob2}
BothConfigs == {BothRows}
\* a chain edited into another while requests are pending
EditRows == {Ann1, Bob2, Opt3}
EditConfigs == {{}, {Ann1, Bob2}, {Ann1, Opt3}}

Rule(max, none, step) == [max_amount |-> max, skip_all |-> none, max_step |-> step]
NoRules == <<>>
\* up to 1: no approval; up to 2: orders 1 and 2; above: all
Tiers == <<Rule(1, TRUE, 9), Rule(2, FALSE, 2), Rule(NoLimit, FALSE, 9)>>
\* handlers are interchangeable (safety only)
HandlerSymmetry == Permutations(Handlers)
=============================================================================

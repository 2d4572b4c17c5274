------------------------------ MODULE MCWarehouse ------------------------------
(***************************************************************************)
(* Small instances of Warehouse: two shelves, a receipt and an order.      *)
(***************************************************************************)
EXTENDS Warehouse, TLC

CONSTANTS a, b, a1, a2, b1, b2, rcpt1, l1, l2, ord1, p1, p2

OneShelf == {a}
TwoShelves == {a, b}
MCItemAt == [i \in Items |-> IF i \in {a1, a2} THEN a ELSE b]
MCReceiptOf == [l \in Lines |-> rcpt1]
MCOrderOf == [l \in OutLines |-> ord1]

HandlerSymmetry == Permutations(Handlers)
=============================================================================

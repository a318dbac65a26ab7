----------------------------- MODULE MCRowLocks -----------------------------
(* Model checking of RowLocks: three transactions on two orders, the first   *)
(* with two reviews, each with a refund and a message.                       *)
EXTENDS RowLocks, TLC

CONSTANTS v1, v2, f1, f2, o1, o2, m1, m2

MCOrderOf == v1 :> o1 @@ v2 :> o1 @@ f1 :> o1 @@ f2 :> o2
MCRefundOf == m1 :> f1 @@ m2 :> f2
MCPlace == [r \in Row |-> IF r \in {v1, f1, o1, m1} THEN 0 ELSE 1]

Symmetry == Permutations(Tx)
=============================================================================

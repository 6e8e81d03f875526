------------------------------ MODULE Positions ------------------------------
(***************************************************************************)
(* Order and selection of rows (DataProto.select_idxs of verl): the n-th   *)
(* smallest number of a set, and the rows of a batch at the positions of a *)
(* set, in the order of the batch.                                         *)
(***************************************************************************)
EXTENDS Integers, FiniteSets

Nth(S, n) == CHOOSE i \in S : Cardinality({j \in S : j <= i}) = n

At(rows, S) == [n \in 1 .. Cardinality(S) |-> rows[Nth(S, n)]]

=============================================================================

---------------------------- MODULE MCDirectory ----------------------------
(***************************************************************************)
(* Instances of Directory for TLC.                                         *)
(***************************************************************************)
EXTENDS Directory, TLC

Interchangeable == Permutations(Row)

\* A .cfg has no negative numbers.
Sizes == {-1, 0, 1, 2}

=============================================================================

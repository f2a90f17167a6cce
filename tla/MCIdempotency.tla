--------------------------- MODULE MCIdempotency ---------------------------
(***************************************************************************)
(* Instances of Idempotency for TLC.                                       *)
(***************************************************************************)
EXTENDS Idempotency, TLC

Interchangeable == Permutations(Key) \cup Permutations(Request)

=============================================================================

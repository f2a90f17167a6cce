-------------------------- MODULE MCRefreshTokens --------------------------
(***************************************************************************)
(* Instances of RefreshTokens for TLC.  The accounts and the goroutines    *)
(* are interchangeable, so the runs that check no liveness use symmetry.   *)
(***************************************************************************)
EXTENDS RefreshTokens, TLC

Interchangeable == Permutations(User) \cup Permutations(Request)

=============================================================================

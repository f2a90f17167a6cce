----------------------------- MODULE TokenStore -----------------------------
(***************************************************************************)
(* What the refresh-token table promises to the rest of the system,        *)
(* whatever requests, failures and clocks do: a token is unknown, then     *)
(* active, then revoked, never anything else, and a token that was issued  *)
(* in exchange for another one only appears once that other one is         *)
(* revoked.  RefreshTokens implements this specification.                  *)
(***************************************************************************)

CONSTANTS Token,  \* every refresh token that can be signed
          None    \* "issued by a login, in exchange for no token"

VARIABLES row,    \* the state of each token's row in refresh_tokens
          parent  \* the token each stored token was exchanged for

storeVars == <<row, parent>>

StoreInit ==
  /\ row = [t \in Token |-> "absent"]
  /\ parent = [t \in Token |-> None]

\* A login opens a session.
Open(t) ==
  /\ row[t] = "absent"
  /\ row' = [row EXCEPT ![t] = "active"]
  /\ UNCHANGED parent

\* A rotation exchanges the revoked token old for the new token t.
Exchange(old, t) ==
  /\ row[old] = "revoked"
  /\ row[t] = "absent"
  /\ row' = [row EXCEPT ![t] = "active"]
  /\ parent' = [parent EXCEPT ![t] = old]

\* Logout, rotation and reuse detection end the sessions in S.
Revoke(S) ==
  /\ \A t \in S : row[t] = "active"
  /\ row' = [t \in Token |-> IF t \in S THEN "revoked" ELSE row[t]]
  /\ UNCHANGED parent

StoreNext ==
  \/ \E t \in Token : Open(t)
  \/ \E old, t \in Token : Exchange(old, t)
  \/ \E S \in SUBSET Token : Revoke(S)

StoreSpec == StoreInit /\ [][StoreNext]_storeVars

=============================================================================

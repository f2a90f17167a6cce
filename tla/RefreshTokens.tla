--------------------------- MODULE RefreshTokens ---------------------------
(***************************************************************************)
(* Login, refresh and logout over the refresh_tokens table                 *)
(* (api/auth/jwt_controller.go, api/auth/refresh_token_repository.go).     *)
(*                                                                         *)
(* Every request is a goroutine whose database calls are separate,         *)
(* autocommitted statements: no transaction middleware is mounted on these *)
(* routes.  One action is one statement (or one purely local computation), *)
(* so the model has every interleaving the program has.                    *)
(*                                                                         *)
(* A refresh token is a signed JWT over {ID: user, ExpiresAt: second}      *)
(* alone, so the user and the second of issue determine the whole string,  *)
(* and with it the SHA-256 digest under which its row is stored: the       *)
(* unique token_hash makes the table a function from tokens to rows.       *)
(*                                                                         *)
(* X_Y is a faulty form of the operator X that no specification uses: it   *)
(* serves to confirm that a property notices the fault.                    *)
(***************************************************************************)
EXTENDS Integers, FiniteSets

CONSTANTS
  User,       \* accounts that can log in
  Request,    \* goroutines serving a request
  None,       \* no user, no token
  Lifetime,   \* JWT_REFRESH_TOKEN_EXPIRES_AT, in ticks of the clock
  MaxNow,     \* bound: the last second of the model's clock
  MaxFaults   \* bound: failed statements, lost responses and crashes

ASSUME LifetimeAssumption == Lifetime \in Nat \ {0}
ASSUME BoundsAssumption == MaxNow \in Nat /\ MaxFaults \in Nat
ASSUME NoneAssumption == None \notin User

\* HS256 over the claims is deterministic, and the claims are the account and
\* the second of expiry: who is issued a token and when determine the string.
\* HS256 over the claims is deterministic, and the claims are the account and
\* the second of expiry: who is issued a token and when determine the string.
Token == [user : User, iat : 0..MaxNow]

ASSUME NoneIsNoToken == None \notin Token

VARIABLES
  now,       \* wall clock, in whole seconds
  row,       \* row[t]: the row of refresh_tokens whose token_hash is t's
  parent,    \* history: the token each stored token was exchanged for
  held,      \* tokens that reached a client, which may present them forever
  answers,   \* history: how many 200s of login or refresh carried a token
  req,       \* req[r]: where request r is, and its local variables
  sessions,  \* history: the user's active tokens when request r arrived
  faults     \* failures so far

vars == <<now, row, parent, held, answers, req, sessions, faults>>

Label == {"idle", "refreshFind", "refreshRevoke", "revokeAll", "sign",
          "store", "logoutFind", "logoutRevoke", "reply"}

\* "ok" is 200, "unauthorized" and "reused" are 401 (the latter after the
\* reuse branch of the refresh handler), "error" is 500.
Outcome == {"none", "ok", "unauthorized", "reused", "error"}

Idle == [pc |-> "idle", user |-> None, token |-> None, fresh |-> None,
         outcome |-> "none"]

TypeOK ==
  /\ now \in 0..MaxNow
  /\ row \in [Token -> {"absent", "active", "revoked"}]
  /\ parent \in [Token -> Token \cup {None}]
  /\ held \in SUBSET Token
  /\ answers \in [Token -> Nat]
  /\ req \in [Request -> [pc : Label, user : User \cup {None},
                          token : Token \cup {None}, fresh : Token \cup {None},
                          outcome : Outcome]]
  /\ sessions \in [Request -> SUBSET Token]
  /\ faults \in 0..MaxFaults

Init ==
  /\ now = 0
  /\ row = [t \in Token |-> "absent"]
  /\ parent = [t \in Token |-> None]
  /\ held = {}
  /\ answers = [t \in Token |-> 0]
  /\ req = [r \in Request |-> Idle]
  /\ sessions = [r \in Request |-> {}]
  /\ faults = 0

-----------------------------------------------------------------------------
(* Helpers of the handlers *)

At(r, label) == req[r].pc = label

Goto(r, label) == req' = [req EXCEPT ![r].pc = label]

Answer(r, outcome) ==
  req' = [req EXCEPT ![r].pc = "reply", ![r].outcome = outcome]

Fault == faults < MaxFaults /\ faults' = faults + 1

Ok == UNCHANGED faults

Sessions(u) == {t \in Token : t.user = u /\ row[t] = "active"}

\* NumericDate truncates exp to the second, the DATETIME column expires_at
\* rounds it to that second or the next one, and FindActive compares with
\* the fraction of the current second: inside those seconds the comparison
\* can go either way.
Expiry(t) == t.iat + Lifetime

\* ParseAndVerifyToken accepts the token.
Verifies(t) == now < Expiry(t)

\* FindActive returns the row ...
FindsActive_IgnoreRevoked(t) == row[t] # "absent" /\ now <= Expiry(t) + 1
FindsActive(t) == row[t] = "active" /\ now <= Expiry(t) + 1
\* ... or ErrRefreshTokenNotFound / ErrRefreshTokenRevoked.
FindsNone(t) == row[t] # "active" \/ now >= Expiry(t)

Revoked(S) == [t \in Token |-> IF t \in S THEN "revoked" ELSE row[t]]

\* The update statement of Revoke and RevokeAllForUser.  With an error the
\* caller does not know whether it was applied.
RevokeRows(S) == row' = Revoked(S)
RevokeRowsOrNot(S) == row' \in {row, Revoked(S)}

-----------------------------------------------------------------------------
(* Requests arrive.  The handlers' first steps touch no shared state.      *)

Arrive(r, label, u, t, outcome) ==
  /\ At(r, "idle")
  /\ req' = [req EXCEPT ![r] = [pc |-> label, user |-> u, token |-> t,
                                fresh |-> None, outcome |-> outcome]]
  /\ sessions' = [sessions EXCEPT ![r] = Sessions(u)]
  /\ UNCHANGED <<now, row, parent, held, answers, faults>>

Login_LookupErrorIgnored(r, u) == Arrive(r, "sign", None, None, "none")

\* A request refused before any database work.
Refuse(r) == Arrive(r, "reply", None, None, "unauthorized")

\* LoginUserWithJWT up to issueAccessAndRefresh: any failure of the lookup
\* and a wrong password are the same 401.
Login(r, u) ==
  \/ Arrive(r, "sign", u, None, "none")
  \/ Refuse(r)

\* RefreshJwtToken up to FindActive: the JWT is parsed and its expiry checked.
Refresh(r, t) ==
  \/ Verifies(t) /\ Arrive(r, "refreshFind", t.user, t, "none")
  \/ ~Verifies(t) /\ Refuse(r)

\* Logout never parses the JWT.
Logout(r, t) == Arrive(r, "logoutFind", t.user, t, "none")

\* A refresh or a logout without a usable token in the header.
NoToken(r) ==
  \/ Refuse(r)
  \/ Arrive(r, "reply", None, None, "ok")

-----------------------------------------------------------------------------
(* The database statements of RefreshJwtToken *)

RefreshFind_ErrorIsReuse(r) ==
  /\ At(r, "refreshFind")
  /\ \/ FindsActive(req[r].token) /\ Ok /\ Goto(r, "refreshRevoke")
     \/ FindsNone(req[r].token) /\ Ok /\ Goto(r, "revokeAll")
     \/ Fault /\ Goto(r, "revokeAll")
  /\ UNCHANGED <<now, row, parent, held, answers, sessions>>

RefreshFind(r) ==
  /\ At(r, "refreshFind")
  /\ \/ FindsActive(req[r].token) /\ Ok /\ Goto(r, "refreshRevoke")
     \/ FindsNone(req[r].token) /\ Ok /\ Goto(r, "revokeAll")
     \/ Fault /\ Answer(r, "error")
  /\ UNCHANGED <<now, row, parent, held, answers, sessions>>

RefreshRevoke_Late(r) ==
  /\ At(r, "refreshRevoke")
  /\ Ok /\ Goto(r, "sign")
  /\ UNCHANGED <<now, row, parent, held, answers, sessions>>

\* The rotation's first half.  Revoke updates by id without looking at
\* revoked_at, so it succeeds on a row another request revoked meanwhile.
RefreshRevoke(r) ==
  /\ At(r, "refreshRevoke")
  /\ \/ RevokeRows({req[r].token}) /\ Ok /\ Goto(r, "sign")
     \/ RevokeRowsOrNot({req[r].token}) /\ Fault /\ Answer(r, "error")
  /\ UNCHANGED <<now, parent, held, answers, sessions>>

RevokeAll_OnlyPresented(r) ==
  /\ At(r, "revokeAll")
  /\ RevokeRows({req[r].token}) /\ Ok
  /\ Answer(r, "reused")
  /\ UNCHANGED <<now, parent, held, answers, sessions>>

RevokeAll_EveryUser(r) ==
  /\ At(r, "revokeAll")
  /\ RevokeRows({t \in Token : row[t] = "active"}) /\ Ok
  /\ Answer(r, "reused")
  /\ UNCHANGED <<now, parent, held, answers, sessions>>

\* The reuse branch; RevokeAllForUser's error is dropped.
RevokeAll(r) ==
  /\ At(r, "revokeAll")
  /\ \/ RevokeRows(Sessions(req[r].user)) /\ Ok
     \/ RevokeRowsOrNot(Sessions(req[r].user)) /\ Fault
  /\ Answer(r, "reused")
  /\ UNCHANGED <<now, parent, held, answers, sessions>>

-----------------------------------------------------------------------------
(* issueAccessAndRefresh, shared by login and refresh *)

\* The clock is read and the token signed ...
Sign(r) ==
  /\ At(r, "sign")
  /\ req' = [req EXCEPT ![r].pc = "store",
                        ![r].fresh = [user |-> req[r].user, iat |-> now]]
  /\ UNCHANGED <<now, row, parent, held, answers, sessions, faults>>

Insert_Upsert(r) ==
  LET t == req[r].fresh IN
  /\ row' = [row EXCEPT ![t] = "active"]
  /\ parent' = [parent EXCEPT ![t] = req[r].token]

Insert(r) ==
  LET t == req[r].fresh IN
  /\ row[t] = "absent"
  /\ row' = [row EXCEPT ![t] = "active"]
  /\ parent' = [parent EXCEPT ![t] = req[r].token]

\* The 200 that carries the fresh token.
Issue(r) ==
  /\ Answer(r, "ok")
  /\ answers' = [answers EXCEPT ![req[r].fresh] = @ + 1]

\* A statement that fails may have been applied.
StoreFails(r) ==
  /\ Fault
  /\ Insert(r) \/ UNCHANGED <<row, parent>>

Duplicate(r) == row[req[r].fresh] # "absent" /\ Ok /\ UNCHANGED <<row, parent>>

Store_ErrorIgnored(r) ==
  /\ At(r, "store")
  /\ (Insert(r) /\ Ok) \/ StoreFails(r) \/ Duplicate(r)
  /\ Issue(r)
  /\ UNCHANGED <<now, held, sessions>>

\* ... and the row inserted, which the unique token_hash refuses when the
\* same user was issued a token in the same second.
Store(r) ==
  /\ At(r, "store")
  /\ \/ Insert(r) /\ Ok /\ Issue(r)
     \/ (StoreFails(r) \/ Duplicate(r)) /\ Answer(r, "error") /\ UNCHANGED answers
  /\ UNCHANGED <<now, held, sessions>>

-----------------------------------------------------------------------------
(* The database statements of Logout, which answers 200 whatever happens *)

LogoutFind(r) ==
  /\ At(r, "logoutFind")
  /\ \/ FindsActive(req[r].token) /\ Ok /\ Goto(r, "logoutRevoke")
     \/ FindsNone(req[r].token) /\ Ok /\ Answer(r, "ok")
     \/ Fault /\ Answer(r, "ok")
  /\ UNCHANGED <<now, row, parent, held, answers, sessions>>

LogoutRevoke(r) ==
  /\ At(r, "logoutRevoke")
  /\ \/ RevokeRows({req[r].token}) /\ Ok
     \/ RevokeRowsOrNot({req[r].token}) /\ Fault
  /\ Answer(r, "ok")
  /\ UNCHANGED <<now, parent, held, answers, sessions>>

-----------------------------------------------------------------------------
(* Responses, the clock and crashes *)

Finish(r) ==
  /\ req' = [req EXCEPT ![r] = Idle]
  /\ sessions' = [sessions EXCEPT ![r] = {}]

\* A 200 of login or refresh carries the new token to the client.
Reply(r) ==
  /\ At(r, "reply")
  /\ held' = IF req[r].outcome = "ok" /\ req[r].fresh # None
             THEN held \cup {req[r].fresh} ELSE held
  /\ Finish(r)
  /\ UNCHANGED <<now, row, parent, answers, faults>>

\* The connection breaks before the response arrives.
LoseReply(r) ==
  /\ At(r, "reply") /\ Fault
  /\ Finish(r)
  /\ UNCHANGED <<now, row, parent, held, answers>>

Tick ==
  /\ now < MaxNow
  /\ now' = now + 1
  /\ UNCHANGED <<row, parent, held, answers, req, sessions, faults>>

\* The process dies and is started again: requests in flight are lost, the
\* table is not.
Crash ==
  /\ Fault
  /\ req' = [r \in Request |-> Idle]
  /\ sessions' = [r \in Request |-> {}]
  /\ UNCHANGED <<now, row, parent, held, answers>>

Serve(r) ==
  \/ RefreshFind(r) \/ RefreshRevoke(r) \/ RevokeAll(r)
  \/ Sign(r) \/ Store(r)
  \/ LogoutFind(r) \/ LogoutRevoke(r)
  \/ Reply(r)

Next ==
  \/ \E r \in Request :
       \/ \E u \in User : Login(r, u)
       \/ \E t \in held : Refresh(r, t) \/ Logout(r, t)
       \/ NoToken(r)
       \/ Serve(r)
       \/ LoseReply(r)
  \/ Tick
  \/ Crash

Spec == Init /\ [][Next]_vars

-----------------------------------------------------------------------------
(* Properties *)

\* The answer to a request that presented a token or signed one.
Answered(r, outcome) == At(r, "reply") /\ req[r].outcome = outcome

\* A 200 is backed by the table: the token it carries, or that a client
\* already got, has a row, exchanged for the token that very request
\* presented.
AnswersAreBacked ==
  /\ \A t \in held : row[t] # "absent"
  /\ \A r \in Request :
       Answered(r, "ok") /\ req[r].fresh # None =>
         /\ row[req[r].fresh] # "absent"
         /\ parent[req[r].fresh] = req[r].token

\* No two requests are ever answered with the same token, also when the
\* earlier answer was lost or its session has ended: logins and refreshes of
\* one account within a second sign one string, and all but one must fail.
NoTokenIssuedTwice == \A t \in Token : answers[t] <= 1

\* RefreshJwtToken rejects reuse: a token that was already revoked when the
\* request arrived never yields a new pair, whatever runs concurrently.
DeadTokensIssueNothing ==
  \A r \in Request :
    Answered(r, "ok") /\ req[r].fresh # None /\ req[r].token # None =>
      req[r].token \in sessions[r]

\* A 401 from the reuse branch means that every session the user had when
\* the request arrived has ended (unless the database failed, whose error
\* the handler drops).
ReuseEndsSessions ==
  \A r \in Request :
    Answered(r, "reused") /\ faults = 0 =>
      \A t \in sessions[r] : row[t] = "revoked"

\* A 200 to a request that presented a token, a rotation or a logout, means
\* the presented token is dead: revoked, or too old to be accepted.
AnswerEndsPresentedToken ==
  \A r \in Request :
    Answered(r, "ok") /\ req[r].token # None
      /\ (req[r].fresh # None \/ faults = 0) =>
        row[req[r].token] = "revoked" \/ ~Verifies(req[r].token)

\* A session ends for a cause: its own token was presented to a refresh or a
\* logout, or a dead token of the same account was, revoked or too old.  No
\* failed look-up, no live token and no other account raises the alarm.
SessionsEndForCause ==
  [][\A t \in Token :
       row[t] = "active" /\ row'[t] = "revoked" =>
         \E r \in Request :
           /\ req[r].token \in Token /\ req[r].user = t.user
           /\ \/ req[r].token = t
              \/ row[req[r].token] = "revoked"
              \/ ~Verifies(req[r].token)]_vars

\* Token lifecycle and rotation order, as TokenStore states them: nothing
\* leaves "revoked", and an exchanged token appears after its parent's end.
TS == INSTANCE TokenStore
ImplementsTokenStore == TS!StoreSpec

-----------------------------------------------------------------------------
(* What the documentation says and the code does not do *)

\* jwt_controller.go:120-122, README.md:144: the supplied token is revoked
\* and a fresh pair is issued, re-use is rejected.  So a token is exchanged
\* at most once.
TokensAreSingleUse ==
  \A a, b \in Token :
    parent[a] # None /\ parent[a] = parent[b] => a = b

\* README.md:144-145: reuse of a revoked refresh token revokes all sessions
\* for the user.  So no session the user had when the reused token arrived
\* lives on, under its own token or under the one it is exchanged for.
ReuseEndsEverySession ==
  \A r \in Request :
    Answered(r, "reused") =>
      \A t \in Token : row[t] = "active" =>
        t \notin sessions[r] /\ parent[t] \notin sessions[r]

=============================================================================

------------------------ MODULE RefreshTokensProofs ------------------------
(***************************************************************************)
(* Theorems about RefreshTokens, for any number of accounts, requests,     *)
(* seconds and failures.                                                   *)
(***************************************************************************)
EXTENDS RefreshTokens, TLAPS

\* Where a request works on a presented token, and where it issues one.
Presenting == {"refreshFind", "refreshRevoke", "revokeAll", "logoutFind",
               "logoutRevoke"}
Issuing == {"sign", "store"}

\* The local variables a handler has at each of its statements.
LocalsOK ==
  \A r \in Request :
    /\ req[r].pc \in Presenting => req[r].token \in Token
                                     /\ req[r].user = req[r].token.user
    /\ req[r].pc \in Issuing => req[r].user \in User
    /\ req[r].pc = "store" => req[r].fresh \in Token

\* A row that a handler found is still there when it is updated, and a
\* presented token is revoked before the new one is signed.
RowsOK ==
  /\ \A r \in Request :
       /\ req[r].pc \in {"refreshRevoke", "logoutRevoke"} =>
            row[req[r].token] # "absent"
       /\ req[r].pc \in Issuing /\ req[r].token # None =>
            row[req[r].token] = "revoked"
  /\ \A t \in Token : row[t] = "absent" => parent[t] = None
  /\ \A t \in Token : IF row[t] = "absent" THEN answers[t] = 0 ELSE answers[t] <= 1

IInv == TypeOK /\ LocalsOK /\ RowsOK

\* What any statement may do to the table.
Lawful ==
  \A t \in Token : /\ row[t] = "revoked" => row'[t] = "revoked"
                   /\ row[t] # "absent" => row'[t] # "absent"
                   /\ parent'[t] # parent[t] =>
                        row[t] = "absent" /\ row'[t] # "absent"
                   /\ answers'[t] # answers[t] =>
                        /\ row[t] = "absent" /\ row'[t] # "absent"
                        /\ answers'[t] = answers[t] + 1

-----------------------------------------------------------------------------
(* The update statements *)

\* Revoking rows, or failing to, is lawful and keeps the table a table.
LEMMA RevokedTable ==
  ASSUME TypeOK, NEW S, row' \in {row, Revoked(S)}, UNCHANGED <<parent, answers>>
  PROVE  /\ row' \in [Token -> {"absent", "active", "revoked"}]
         /\ parent' \in [Token -> Token \cup {None}]
         /\ answers' \in [Token -> Nat]
         /\ Lawful
BY DEF TypeOK, Revoked, Lawful

LEMMA SameTable ==
  ASSUME TypeOK, UNCHANGED <<row, parent, answers>>
  PROVE  /\ row' \in [Token -> {"absent", "active", "revoked"}]
         /\ parent' \in [Token -> Token \cup {None}]
         /\ answers' \in [Token -> Nat]
         /\ Lawful
BY DEF TypeOK, Lawful

\* The type of a request's record after the two ways a handler moves on.
LEMMA MovedRequest ==
  ASSUME TypeOK, NEW r \in Request,
         NEW label \in Label, NEW outcome \in Outcome
  PROVE  /\ Goto(r, label) =>
              /\ req' \in [Request -> [pc : Label, user : User \cup {None},
                            token : Token \cup {None},
                            fresh : Token \cup {None}, outcome : Outcome]]
              /\ req'[r].pc = label
              /\ req'[r].user = req[r].user /\ req'[r].token = req[r].token
              /\ req'[r].fresh = req[r].fresh
              /\ \A q \in Request \ {r} : req'[q] = req[q]
         /\ Answer(r, outcome) =>
              /\ req' \in [Request -> [pc : Label, user : User \cup {None},
                            token : Token \cup {None},
                            fresh : Token \cup {None}, outcome : Outcome]]
              /\ req'[r].pc = "reply"
              /\ req'[r].token = req[r].token
              /\ req'[r].fresh = req[r].fresh
              /\ req'[r].outcome = outcome
              /\ \A q \in Request \ {r} : req'[q] = req[q]
BY DEF TypeOK, Goto, Answer, Label

-----------------------------------------------------------------------------
(* The inductive invariant *)

LEMMA InitIInv == Init => IInv
<1> SUFFICES ASSUME Init PROVE IInv
  OBVIOUS
<1> USE DEF Init
<1>1. TypeOK
  BY BoundsAssumption DEF TypeOK, Idle, Label, Outcome
<1>2. LocalsOK
  BY DEF LocalsOK, Idle, Presenting, Issuing
<1>3. RowsOK
  BY DEF RowsOK, Idle, Issuing
<1> QED BY <1>1, <1>2, <1>3 DEF IInv

\* A request arrives: the handler's local variables are set, nothing else.
LEMMA ArriveStep ==
  ASSUME IInv, NEW r \in Request, NEW label \in Label \ {"refreshRevoke", "logoutRevoke", "store"},
         NEW u \in User \cup {None}, NEW t \in Token \cup {None},
         NEW outcome \in Outcome,
         Arrive(r, label, u, t, outcome),
         label \in Presenting => t \in Token /\ u = t.user,
         label = "sign" => u \in User /\ t = None
  PROVE  IInv'
<1> USE DEF IInv, Arrive
<1>1. TypeOK'
  BY DEF TypeOK, Sessions
<1>2. /\ req'[r] = [pc |-> label, user |-> u, token |-> t,
                     fresh |-> None, outcome |-> outcome]
      /\ \A q \in Request \ {r} : req'[q] = req[q]
      /\ row' = row /\ parent' = parent /\ answers' = answers
  BY DEF TypeOK
<1>3. LocalsOK'
  BY <1>2 DEF LocalsOK, Issuing
<1>4. RowsOK'
  BY <1>2 DEF RowsOK, Issuing
<1> QED BY <1>1, <1>3, <1>4

\* What every statement leaves to show: the types, and that request r is
\* ready for its next statement while the rows of the others stay put.
LEMMA StatementStep ==
  ASSUME IInv, NEW r \in Request, TypeOK',
         \A q \in Request \ {r} : req'[q] = req[q],
         Lawful,
         req'[r].pc \in Presenting =>
           req'[r].token \in Token /\ req'[r].user = req'[r].token.user,
         req'[r].pc \in Issuing => req'[r].user \in User,
         req'[r].pc = "store" => req'[r].fresh \in Token,
         req'[r].pc \in {"refreshRevoke", "logoutRevoke"} =>
           row'[req'[r].token] # "absent",
         req'[r].pc \in Issuing /\ req'[r].token # None =>
           row'[req'[r].token] = "revoked"
  PROVE  IInv'
<1> USE DEF IInv, Lawful
<1>1. LocalsOK'
  BY DEF LocalsOK
<1>2. ASSUME NEW q \in Request
      PROVE  /\ (req'[q].pc \in {"refreshRevoke", "logoutRevoke"} =>
                   row'[req'[q].token] # "absent")
             /\ (req'[q].pc \in Issuing /\ req'[q].token # None =>
                   row'[req'[q].token] = "revoked")
  <2>1. CASE q = r
    BY <2>1
  <2>2. CASE q # r
    <3>1. req'[q] = req[q]
      BY <2>2
    <3>2. req[q].token \in Token \cup {None}
      BY DEF TypeOK
    <3>3. req[q].pc \in {"refreshRevoke", "logoutRevoke"} => req[q].token \in Token
      BY DEF LocalsOK, Presenting
    <3> QED BY <3>1, <3>2, <3>3 DEF RowsOK
  <2> QED BY <2>1, <2>2
<1>3. \A t \in Token : row'[t] = "absent" => parent'[t] = None
  <2> SUFFICES ASSUME NEW t \in Token, row'[t] = "absent"
               PROVE  parent'[t] = None
    OBVIOUS
  <2>1. row[t] = "absent"
    OBVIOUS
  <2> QED BY <2>1 DEF RowsOK
<1>4. ASSUME NEW t \in Token
      PROVE  IF row'[t] = "absent" THEN answers'[t] = 0 ELSE answers'[t] <= 1
  <2>1. IF row[t] = "absent" THEN answers[t] = 0 ELSE answers[t] <= 1
    BY DEF RowsOK
  <2>2. CASE answers'[t] = answers[t]
    BY <2>1, <2>2
  <2>3. CASE answers'[t] # answers[t]
    BY <2>1, <2>3
  <2> QED BY <2>2, <2>3
<1> QED BY <1>1, <1>2, <1>3, <1>4 DEF RowsOK

\* A handler answers: whatever its last statement did to the table within
\* the lifecycle, nothing depends on this request's locals any more.
LEMMA AnswerStep ==
  ASSUME IInv, NEW r \in Request, NEW outcome \in Outcome,
         Answer(r, outcome), Ok \/ Fault,
         now' = now, held' = held, sessions' = sessions,
         row' \in [Token -> {"absent", "active", "revoked"}],
         parent' \in [Token -> Token \cup {None}], answers' \in [Token -> Nat],
         Lawful
  PROVE  IInv'
<1> USE DEF IInv
<1>1. faults' \in 0..MaxFaults
  BY BoundsAssumption DEF Ok, Fault, TypeOK
<1>2. /\ req' \in [Request -> [pc : Label, user : User \cup {None},
                               token : Token \cup {None},
                               fresh : Token \cup {None}, outcome : Outcome]]
      /\ req'[r].pc = "reply"
      /\ \A q \in Request \ {r} : req'[q] = req[q]
  BY MovedRequest DEF Label
<1>3. TypeOK'
  BY <1>1, <1>2 DEF TypeOK
<1> QED BY <1>2, <1>3, StatementStep DEF Presenting, Issuing

-----------------------------------------------------------------------------
(* One lemma per statement of the handlers *)

LEMMA RefreshFindStep ==
  ASSUME IInv, NEW r \in Request, RefreshFind(r)
  PROVE  IInv'
<1> USE DEF IInv
<1>1. req[r].token \in Token /\ req[r].user = req[r].token.user
  BY DEF RefreshFind, At, LocalsOK, Presenting
<1>2. Lawful /\ UNCHANGED <<row, parent, answers>>
  BY SameTable DEF RefreshFind
<1>3. CASE FindsActive(req[r].token) /\ Ok /\ Goto(r, "refreshRevoke")
  <2>1. row[req[r].token] = "active"
    BY <1>3 DEF FindsActive
  <2>2. TypeOK'
    BY <1>3, MovedRequest DEF TypeOK, RefreshFind, Ok, Label, Outcome
  <2> QED BY <1>1, <1>2, <1>3, <2>1, <2>2, MovedRequest, StatementStep
          DEF Label, Outcome, Presenting, Issuing
<1>4. CASE FindsNone(req[r].token) /\ Ok /\ Goto(r, "revokeAll")
  <2>1. TypeOK'
    BY <1>4, MovedRequest DEF TypeOK, RefreshFind, Ok, Label, Outcome
  <2> QED BY <1>1, <1>2, <1>4, <2>1, MovedRequest, StatementStep
          DEF Label, Outcome, Presenting, Issuing
<1>5. CASE Fault /\ Answer(r, "error")
  BY <1>2, <1>5, AnswerStep, SameTable DEF RefreshFind, Outcome
<1> QED BY <1>3, <1>4, <1>5 DEF RefreshFind

LEMMA RefreshRevokeStep ==
  ASSUME IInv, NEW r \in Request, RefreshRevoke(r)
  PROVE  IInv'
<1> USE DEF IInv
<1>1. req[r].token \in Token /\ req[r].user = req[r].token.user
  BY DEF RefreshRevoke, At, LocalsOK, Presenting
<1>2. row' \in {row, Revoked({req[r].token})} /\ UNCHANGED <<parent, answers>>
  BY DEF RefreshRevoke, RevokeRows, RevokeRowsOrNot
<1>3. CASE RevokeRows({req[r].token}) /\ Ok /\ Goto(r, "sign")
  <2>1. row'[req[r].token] = "revoked"
    BY <1>1, <1>3 DEF RevokeRows, Revoked
  <2>2. req[r].user \in User
    BY <1>1 DEF Token
  <2>3. TypeOK'
    <3>1. /\ row' \in [Token -> {"absent", "active", "revoked"}]
          /\ parent' \in [Token -> Token \cup {None}]
          /\ answers' \in [Token -> Nat]
      BY <1>2, RevokedTable
    <3>2. req' \in [Request -> [pc : Label, user : User \cup {None},
                               token : Token \cup {None},
                               fresh : Token \cup {None}, outcome : Outcome]]
      BY <1>3, MovedRequest DEF Label, Outcome
    <3> QED BY <1>3, <3>1, <3>2 DEF TypeOK, RefreshRevoke, Ok
  <2>4. /\ req'[r].pc = "sign" /\ req'[r].user = req[r].user
        /\ req'[r].token = req[r].token
        /\ \A q \in Request \ {r} : req'[q] = req[q]
    BY <1>3, MovedRequest DEF Label, Outcome
  <2>5. Lawful
    BY <1>2, RevokedTable
  <2> QED BY <2>1, <2>2, <2>3, <2>4, <2>5, StatementStep
          DEF Presenting, Issuing
<1>4. CASE RevokeRowsOrNot({req[r].token}) /\ Fault /\ Answer(r, "error")
  BY <1>2, <1>4, AnswerStep, RevokedTable DEF RefreshRevoke, Outcome
<1> QED BY <1>3, <1>4 DEF RefreshRevoke

LEMMA RevokeAllStep ==
  ASSUME IInv, NEW r \in Request, RevokeAll(r)
  PROVE  IInv'
<1>1. row' \in {row, Revoked(Sessions(req[r].user))} /\ UNCHANGED <<parent, answers>>
  BY DEF RevokeAll, RevokeRows, RevokeRowsOrNot
<1>2. Ok \/ Fault
  BY DEF RevokeAll
<1> QED BY <1>1, <1>2, RevokedTable, AnswerStep DEF IInv, RevokeAll, Outcome

LEMMA SignStep ==
  ASSUME IInv, NEW r \in Request, Sign(r)
  PROVE  IInv'
<1> USE DEF IInv
<1>1. req[r].user \in User
  BY DEF Sign, At, LocalsOK, Issuing
<1>2. [user |-> req[r].user, iat |-> now] \in Token
  BY <1>1 DEF Token, TypeOK
<1>3. /\ req'[r].pc = "store" /\ req'[r].user = req[r].user
      /\ req'[r].token = req[r].token /\ req'[r].fresh \in Token
      /\ \A q \in Request \ {r} : req'[q] = req[q]
  BY <1>2 DEF Sign, TypeOK
<1>4. TypeOK'
  <2>1. req' \in [Request -> [pc : Label, user : User \cup {None},
                             token : Token \cup {None},
                             fresh : Token \cup {None}, outcome : Outcome]]
    <3> DEFINE t == [user |-> req[r].user, iat |-> now]
    <3>1. req' = [req EXCEPT ![r] = [req[r] EXCEPT !.pc = "store", !.fresh = t]]
      BY DEF Sign
    <3>2. "store" \in Label /\ t \in Token
      BY <1>2 DEF Label
    <3> HIDE DEF t
    <3> QED BY <3>1, <3>2 DEF TypeOK
  <2> QED BY <2>1 DEF Sign, TypeOK
<1>5. req[r].token # None => row[req[r].token] = "revoked"
  BY DEF Sign, At, RowsOK, Issuing
<1>6. Lawful /\ row' = row
  BY SameTable DEF Sign
<1> QED BY <1>1, <1>3, <1>4, <1>5, <1>6, StatementStep
        DEF Presenting, Issuing

\* The insert and the answer it leads to are lawful, and so is its failure.
LEMMA StoreLawful ==
  ASSUME IInv, NEW r \in Request, Store(r)
  PROVE  /\ row' \in [Token -> {"absent", "active", "revoked"}]
         /\ parent' \in [Token -> Token \cup {None}]
         /\ answers' \in [Token -> Nat]
         /\ Lawful
<1> USE DEF IInv
<1>1. req[r].fresh \in Token /\ req[r].token \in Token \cup {None}
  BY DEF Store, At, LocalsOK, TypeOK
<1>2. CASE Insert(r) /\ Issue(r)
  BY <1>1, <1>2 DEF Insert, Issue, TypeOK, Lawful
<1>3. CASE Insert(r) /\ UNCHANGED answers
  BY <1>1, <1>3 DEF Insert, TypeOK, Lawful
<1>4. CASE UNCHANGED <<row, parent, answers>>
  BY <1>4, SameTable
<1> QED BY <1>2, <1>3, <1>4 DEF Store, StoreFails, Duplicate

LEMMA StoreStep ==
  ASSUME IInv, NEW r \in Request, Store(r)
  PROVE  IInv'
<1>1. (Answer(r, "ok") \/ Answer(r, "error")) /\ (Ok \/ Fault)
  BY DEF Store, Issue, StoreFails, Duplicate
<1> QED BY <1>1, StoreLawful, AnswerStep DEF Store, Outcome

LEMMA LogoutFindStep ==
  ASSUME IInv, NEW r \in Request, LogoutFind(r)
  PROVE  IInv'
<1> USE DEF IInv
<1>1. req[r].token \in Token /\ req[r].user = req[r].token.user
  BY DEF LogoutFind, At, LocalsOK, Presenting
<1>2. Lawful /\ UNCHANGED <<row, parent, answers>>
  BY SameTable DEF LogoutFind
<1>3. CASE FindsActive(req[r].token) /\ Ok /\ Goto(r, "logoutRevoke")
  <2>1. row[req[r].token] = "active"
    BY <1>3 DEF FindsActive
  <2>2. TypeOK'
    BY <1>3, MovedRequest DEF TypeOK, LogoutFind, Ok, Label, Outcome
  <2> QED BY <1>1, <1>2, <1>3, <2>1, <2>2, MovedRequest, StatementStep
          DEF Label, Outcome, Presenting, Issuing
<1>4. CASE Answer(r, "ok") /\ (Ok \/ Fault)
  BY <1>2, <1>4, AnswerStep, SameTable DEF LogoutFind, Outcome
<1> QED BY <1>3, <1>4 DEF LogoutFind

LEMMA LogoutRevokeStep ==
  ASSUME IInv, NEW r \in Request, LogoutRevoke(r)
  PROVE  IInv'
<1>1. row' \in {row, Revoked({req[r].token})} /\ UNCHANGED <<parent, answers>>
  BY DEF LogoutRevoke, RevokeRows, RevokeRowsOrNot
<1>2. Ok \/ Fault
  BY DEF LogoutRevoke
<1> QED BY <1>1, <1>2, RevokedTable, AnswerStep DEF IInv, LogoutRevoke, Outcome

\* A response is delivered or lost: the goroutine is free again.
LEMMA FinishStep ==
  ASSUME IInv, NEW r \in Request, Reply(r) \/ LoseReply(r)
  PROVE  IInv'
<1> USE DEF IInv
<1>1. held' \in SUBSET Token
  BY DEF Reply, LoseReply, TypeOK
<1>2. faults' \in 0..MaxFaults
  BY BoundsAssumption DEF Reply, LoseReply, Fault, TypeOK
<1>3. /\ req'[r] = Idle /\ \A q \in Request \ {r} : req'[q] = req[q]
      /\ UNCHANGED <<now, row, parent, answers>>
  BY DEF Reply, LoseReply, Finish, TypeOK
<1>4. Idle \in [pc : Label, user : User \cup {None},
               token : Token \cup {None}, fresh : Token \cup {None},
               outcome : Outcome]
  BY DEF Idle, Label, Outcome
<1>5. TypeOK'
  BY <1>1, <1>2, <1>3, <1>4 DEF Reply, LoseReply, Finish, TypeOK
<1>6. Lawful
  BY <1>3, SameTable
<1> QED BY <1>3, <1>5, <1>6, StatementStep DEF Idle, Presenting, Issuing

LEMMA CrashStep == ASSUME IInv, Crash PROVE IInv'
<1> USE DEF IInv
<1>1. TypeOK'
  BY BoundsAssumption DEF Crash, Fault, TypeOK, Idle, Label, Outcome
<1>2. \A r \in Request : req'[r].pc = "idle"
  BY DEF Crash, Idle
<1>3. LocalsOK'
  BY <1>2 DEF LocalsOK, Presenting, Issuing
<1>4. RowsOK'
  BY <1>2 DEF RowsOK, Issuing, Crash
<1> QED BY <1>1, <1>3, <1>4

-----------------------------------------------------------------------------
(* Safety *)

\* Each step of the program preserves the inductive invariant.
LEMMA NextIInv == IInv /\ [Next]_vars => IInv'
<1> SUFFICES ASSUME IInv, [Next]_vars PROVE IInv'
  OBVIOUS
<1>1. ASSUME NEW r \in Request, NEW u \in User, Login(r, u) PROVE IInv'
  BY <1>1, ArriveStep DEF Login, Refuse, Label, Outcome, Presenting
<1>2. ASSUME NEW r \in Request, NEW t \in held, Refresh(r, t) PROVE IInv'
  <2>1. t \in Token /\ t.user \in User
    BY DEF IInv, TypeOK, Token
  <2> QED BY <1>2, <2>1, ArriveStep
          DEF Refresh, Refuse, Label, Outcome, Presenting
<1>3. ASSUME NEW r \in Request, NEW t \in held, Logout(r, t) PROVE IInv'
  <2>1. t \in Token /\ t.user \in User
    BY DEF IInv, TypeOK, Token
  <2> QED BY <1>3, <2>1, ArriveStep DEF Logout, Label, Outcome, Presenting
<1>4. ASSUME NEW r \in Request, NoToken(r) PROVE IInv'
  BY <1>4, ArriveStep DEF NoToken, Refuse, Label, Outcome, Presenting
<1>5. ASSUME NEW r \in Request, Serve(r) \/ LoseReply(r) PROVE IInv'
  BY <1>5, RefreshFindStep, RefreshRevokeStep, RevokeAllStep, SignStep,
     StoreStep, LogoutFindStep, LogoutRevokeStep, FinishStep DEF Serve
<1>6. CASE Tick
  BY <1>6, BoundsAssumption DEF Tick, IInv, TypeOK, LocalsOK, RowsOK
<1>7. CASE Crash
  BY <1>7, CrashStep
<1>8. CASE UNCHANGED vars
  BY <1>8 DEF vars, IInv, TypeOK, LocalsOK, RowsOK
<1> QED BY <1>1, <1>2, <1>3, <1>4, <1>5, <1>6, <1>7, <1>8 DEF Next

LEMMA Invariance == Spec => []IInv
BY InitIInv, NextIInv, PTL DEF Spec

\* The types of the table, the clients and the handlers' local variables.
THEOREM TypeCorrect == Spec => []TypeOK
BY Invariance, PTL DEF IInv

\* An insert finds no row, and rows never go: a token is issued at most once,
\* whatever became of the answer that carried it.
THEOREM IssuedOnce == Spec => []NoTokenIssuedTwice
<1>1. IInv => NoTokenIssuedTwice
  BY DEF IInv, TypeOK, RowsOK, NoTokenIssuedTwice
<1> QED BY <1>1, Invariance, PTL

-----------------------------------------------------------------------------
(* RefreshTokens implements TokenStore *)

\* An update that revokes rows which exist is the abstract Revoke of those
\* that were active; on none it is a stutter.
LEMMA RevocationImplements ==
  ASSUME TypeOK, NEW S \in SUBSET Token,
         \A t \in S : row[t] # "absent",
         row' \in {row, Revoked(S)}, parent' = parent
  PROVE  [TS!StoreNext]_(TS!storeVars)
<1>1. CASE row' = row
  BY <1>1 DEF TS!storeVars
<1>2. CASE row' = Revoked(S)
  <2> DEFINE L == {t \in S : row[t] = "active"}
  <2>1. \A t \in S : row[t] \in {"active", "revoked"}
    BY DEF TypeOK
  <2>2. row' = [t \in Token |-> IF t \in L THEN "revoked" ELSE row[t]]
    BY <1>2, <2>1 DEF Revoked
  <2>3. TS!Revoke(L)
    BY <2>2 DEF TS!Revoke
  <2>4. L \in SUBSET Token
    OBVIOUS
  <2> QED BY <2>3, <2>4 DEF TS!StoreNext
<1> QED BY <1>1, <1>2

\* Each step of the program is a step of the abstract table or a stutter.
LEMMA NextImplements == IInv /\ [Next]_vars => [TS!StoreNext]_(TS!storeVars)
<1> SUFFICES ASSUME IInv, [Next]_vars PROVE [TS!StoreNext]_(TS!storeVars)
  OBVIOUS
<1> USE DEF IInv
<1>1. ASSUME UNCHANGED <<row, parent>> PROVE [TS!StoreNext]_(TS!storeVars)
  BY <1>1 DEF TS!storeVars
<1>2. ASSUME NEW r \in Request, RefreshRevoke(r) \/ LogoutRevoke(r)
      PROVE  [TS!StoreNext]_(TS!storeVars)
  <2>1. row' \in {row, Revoked({req[r].token})} /\ parent' = parent
    BY <1>2 DEF RefreshRevoke, LogoutRevoke, RevokeRows, RevokeRowsOrNot
  <2>2. req[r].token \in Token /\ row[req[r].token] # "absent"
    BY <1>2 DEF RefreshRevoke, LogoutRevoke, At, LocalsOK, RowsOK, Presenting
  <2> QED BY <2>1, <2>2, RevocationImplements
<1>3. ASSUME NEW r \in Request, RevokeAll(r)
      PROVE  [TS!StoreNext]_(TS!storeVars)
  <2>1. row' \in {row, Revoked(Sessions(req[r].user))} /\ parent' = parent
    BY <1>3 DEF RevokeAll, RevokeRows, RevokeRowsOrNot
  <2>2. /\ Sessions(req[r].user) \in SUBSET Token
        /\ \A t \in Sessions(req[r].user) : row[t] # "absent"
    BY DEF Sessions
  <2> QED BY <2>1, <2>2, RevocationImplements
<1>4. ASSUME NEW r \in Request, Store(r)
      PROVE  [TS!StoreNext]_(TS!storeVars)
  <2> DEFINE t == req[r].fresh
  <2>1. t \in Token
    BY <1>4 DEF Store, At, LocalsOK
  <2>2. CASE Insert(r) /\ req[r].token = None
    <3>1. row[t] = "absent" /\ parent[t] = None
      BY <2>1, <2>2 DEF Insert, RowsOK
    <3>2. parent' = parent
      BY <2>1, <2>2, <3>1 DEF Insert, TypeOK
    <3>3. TS!Open(t)
      BY <2>2, <3>1, <3>2 DEF Insert, TS!Open
    <3> QED BY <2>1, <3>3 DEF TS!StoreNext
  <2>3. CASE Insert(r) /\ req[r].token # None
    <3>1. req[r].token \in Token
      BY <2>3 DEF TypeOK
    <3>2. row[req[r].token] = "revoked"
      BY <1>4, <2>3 DEF Store, At, RowsOK, Issuing
    <3>3. TS!Exchange(req[r].token, t)
      BY <2>3, <3>2 DEF Insert, TS!Exchange
    <3> QED BY <2>1, <3>1, <3>3 DEF TS!StoreNext
  <2>4. CASE UNCHANGED <<row, parent>>
    BY <2>4, <1>1
  <2> QED BY <1>4, <2>2, <2>3, <2>4 DEF Store, StoreFails, Duplicate
<1>5. ASSUME NEW r \in Request,
             RefreshFind(r) \/ Sign(r) \/ LogoutFind(r) \/ Reply(r) \/ LoseReply(r)
      PROVE  [TS!StoreNext]_(TS!storeVars)
  BY <1>5, <1>1 DEF RefreshFind, Sign, LogoutFind, Reply, LoseReply
<1>6. ASSUME NEW r \in Request,
             (\E u \in User : Login(r, u)) \/ NoToken(r)
               \/ (\E t \in held : Refresh(r, t) \/ Logout(r, t))
      PROVE  [TS!StoreNext]_(TS!storeVars)
  <2>1. UNCHANGED <<row, parent>>
    BY <1>6 DEF Login, NoToken, Refresh, Logout, Refuse, Arrive
  <2> QED BY <2>1, <1>1
<1>7. CASE Tick \/ Crash \/ UNCHANGED vars
  BY <1>7, <1>1 DEF Tick, Crash, vars
<1> QED BY <1>2, <1>3, <1>4, <1>5, <1>6, <1>7 DEF Next, Serve

\* Whatever requests, failures and the clock do, a token is unknown, then
\* active, then revoked, and a rotated token follows its parent's end.
THEOREM TokenStoreImplemented == Spec => ImplementsTokenStore
<1>1. Init => TS!StoreInit
  BY DEF Init, TS!StoreInit
<1>2. IInv /\ [Next]_vars => [TS!StoreNext]_(TS!storeVars)
  BY NextImplements
<1> QED BY <1>1, <1>2, Invariance, PTL
        DEF Spec, ImplementsTokenStore, TS!StoreSpec

=============================================================================

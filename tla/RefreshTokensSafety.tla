------------------------ MODULE RefreshTokensSafety ------------------------
(***************************************************************************)
(* The safety properties of RefreshTokens, for any number of accounts,     *)
(* requests, seconds and failures.  They compare a request's answer with   *)
(* the table as it was when the request arrived, so the invariant follows  *)
(* what every handler has learned about those rows, statement by           *)
(* statement, while the other requests go on.                              *)
(***************************************************************************)
EXTENDS RefreshTokensProofs

\* What a request knows of the table before it answers ...
WorkOK(r) ==
  /\ req[r].pc \notin {"store", "reply"} => req[r].fresh = None
  /\ req[r].pc \in Presenting =>
       /\ row[req[r].token] # "absent"
       /\ \A t \in sessions[r] : t.user = req[r].user /\ row[t] # "absent"
  /\ req[r].pc = "refreshFind" /\ req[r].token \notin sessions[r] =>
       row[req[r].token] = "revoked"
  /\ req[r].pc = "refreshRevoke" => req[r].token \in sessions[r]
  /\ req[r].pc = "revokeAll" =>
       row[req[r].token] = "revoked" \/ ~Verifies(req[r].token)
  /\ req[r].pc \in Issuing /\ req[r].token # None => req[r].token \in sessions[r]

\* ... and what its answer means.
IssueOK(r) ==
  Answered(r, "ok") /\ req[r].fresh # None =>
    /\ row[req[r].fresh] # "absent"
    /\ parent[req[r].fresh] = req[r].token
    /\ req[r].token # None => req[r].token \in sessions[r]

ReuseOK(r) ==
  Answered(r, "reused") /\ faults = 0 => \A t \in sessions[r] : row[t] = "revoked"

EndOK(r) ==
  Answered(r, "ok") /\ req[r].token # None /\ (req[r].fresh # None \/ faults = 0) =>
    row[req[r].token] = "revoked" \/ ~Verifies(req[r].token)

Accounted(r) == WorkOK(r) /\ IssueOK(r) /\ ReuseOK(r) /\ EndOK(r)

HistoryOK ==
  /\ \A t \in held : row[t] # "absent"
  /\ \A r \in Request : Accounted(r)

Inv == IInv /\ HistoryOK

\* Neither the clock nor the count of failures runs backwards.
Onward == now' >= now /\ (faults' = 0 => faults = 0)

-----------------------------------------------------------------------------
(* What other requests do does not disturb a request's account *)

LEMMA OthersAccounted ==
  ASSUME IInv, IInv', NEW r \in Request, Accounted(r), Lawful, Onward,
         req'[r] = req[r], sessions'[r] = sessions[r]
  PROVE  Accounted(r)'
<1> USE DEF IInv
<1>1. /\ sessions[r] \subseteq Token
      /\ req[r].token \in Token \cup {None}
      /\ req[r].fresh \in Token \cup {None}
      /\ req[r].pc \in Presenting => req[r].token \in Token
  BY DEF TypeOK, LocalsOK
<1>0. \A t \in Token : ~Verifies(t) => ~Verifies(t)'
  BY LifetimeAssumption DEF Verifies, Expiry, Onward, TypeOK, Token
<1>2. WorkOK(r)'
  BY <1>0, <1>1 DEF Accounted, WorkOK, Lawful, Presenting
<1>3. IssueOK(r)'
  BY <1>1 DEF Accounted, IssueOK, Lawful, Answered, At
<1>4. ReuseOK(r)'
  BY <1>1 DEF Accounted, ReuseOK, Lawful, Answered, At, Onward
<1>5. EndOK(r)'
  BY <1>0, <1>1 DEF Accounted, EndOK, Lawful, Answered, At, Onward
<1> QED BY <1>2, <1>3, <1>4, <1>5 DEF Accounted

\* A statement of request r leaves the rest of the account to show.
LEMMA RequestStep ==
  ASSUME Inv, IInv', NEW r \in Request, Lawful, Onward,
         \A q \in Request \ {r} : req'[q] = req[q] /\ sessions'[q] = sessions[q],
         \A t \in held' : row'[t] # "absent",
         Accounted(r)'
  PROVE  HistoryOK'
<1>1. ASSUME NEW q \in Request, q # r PROVE Accounted(q)'
  <2>1. Accounted(q)
    BY DEF Inv, HistoryOK
  <2>2. req'[q] = req[q] /\ sessions'[q] = sessions[q]
    BY <1>1
  <2> QED BY <2>1, <2>2, OthersAccounted DEF Inv
<1> QED BY <1>1 DEF HistoryOK

\* When the clients learn nothing new, the tokens they hold stay known.
LEMMA SameHeld ==
  ASSUME Inv, Lawful, held' = held
  PROVE  \A t \in held' : row'[t] # "absent"
BY DEF Inv, IInv, HistoryOK, TypeOK, Lawful

\* No step brings a revoked row back, forgets one, or rewrites its origin.
LEMMA NextLawful == IInv /\ [Next]_vars => Lawful /\ Onward
<1> SUFFICES ASSUME IInv, [Next]_vars PROVE Lawful /\ Onward
  OBVIOUS
<1> USE DEF IInv
<1>1. now' \in {now, now + 1} /\ faults' \in {faults, faults + 1}
  BY DEF Next, vars, Login, Refresh, Logout, NoToken, Refuse, Arrive, Serve,
         RefreshFind, RefreshRevoke, RevokeAll, Sign, Store, LogoutFind,
         StoreFails, Duplicate, LogoutRevoke, Reply, LoseReply, Tick, Crash, Ok, Fault
<1>2. Onward
  BY <1>1 DEF Onward, TypeOK
<1>3. ASSUME UNCHANGED <<row, parent, answers>> PROVE Lawful
  BY <1>3, SameTable
<1>4. ASSUME NEW r \in Request, Store(r) PROVE Lawful
  BY <1>4, StoreLawful
<1>5. ASSUME NEW r \in Request, RefreshRevoke(r) \/ LogoutRevoke(r) PROVE Lawful
  <2>1. row' \in {row, Revoked({req[r].token})} /\ UNCHANGED <<parent, answers>>
    BY <1>5 DEF RefreshRevoke, LogoutRevoke, RevokeRows, RevokeRowsOrNot
  <2> QED BY <2>1, RevokedTable
<1>6. ASSUME NEW r \in Request, RevokeAll(r) PROVE Lawful
  <2>1. row' \in {row, Revoked(Sessions(req[r].user))} /\ UNCHANGED <<parent, answers>>
    BY <1>6 DEF RevokeAll, RevokeRows, RevokeRowsOrNot
  <2> QED BY <2>1, RevokedTable
<1>7. \/ UNCHANGED <<row, parent, answers>>
      \/ \E r \in Request : \/ Store(r) \/ RefreshRevoke(r)
                            \/ LogoutRevoke(r) \/ RevokeAll(r)
  BY DEF Next, vars, Login, Refresh, Logout, NoToken, Refuse, Arrive, Serve,
         RefreshFind, Sign, LogoutFind, Reply, LoseReply, Tick, Crash
<1>8. Lawful
  BY <1>3, <1>4, <1>5, <1>6, <1>7
<1> QED BY <1>2, <1>8

-----------------------------------------------------------------------------
(* One lemma per statement of the handlers *)

\* A request arrives with a token some client holds, or with none.
LEMMA ArriveHistory ==
  ASSUME Inv, IInv', Lawful, Onward, NEW r \in Request,
         NEW label \in {"refreshFind", "logoutFind", "sign", "reply"},
         NEW u, NEW t, NEW outcome \in Outcome \ {"reused"},
         Arrive(r, label, u, t, outcome),
         label \in Presenting => t \in held /\ u = t.user,
         label \notin Presenting => t = None
  PROVE  HistoryOK'
<1> USE DEF Inv, IInv
<1>1. /\ req'[r] = [pc |-> label, user |-> u, token |-> t,
                     fresh |-> None, outcome |-> outcome]
      /\ sessions'[r] = Sessions(u)
      /\ \A q \in Request \ {r} : req'[q] = req[q] /\ sessions'[q] = sessions[q]
      /\ row' = row /\ held' = held
  BY DEF Arrive, TypeOK
<1>2. WorkOK(r)'
  <2>1. label \in Presenting => t \in Token /\ row[t] # "absent"
    BY DEF HistoryOK, TypeOK
  <2>2. label \in Presenting /\ t \notin Sessions(u) => row[t] = "revoked"
    BY <2>1 DEF Sessions, TypeOK
  <2>3. \A s \in Sessions(u) : s.user = u /\ row[s] # "absent"
    BY DEF Sessions
  <2> QED BY <1>1, <2>1, <2>2, <2>3 DEF WorkOK, Presenting, Issuing
<1>3. IssueOK(r)' /\ ReuseOK(r)' /\ EndOK(r)'
  BY <1>1 DEF IssueOK, ReuseOK, EndOK, Answered, At, Presenting
<1> QED BY <1>1, <1>2, <1>3, SameHeld, RequestStep DEF Accounted

\* A request that does not answer 200 or "reused" owes nothing.
LEMMA ErrorHistory ==
  ASSUME Inv, IInv', Lawful, Onward, NEW r \in Request,
         Answer(r, "error"), held' = held, sessions' = sessions
  PROVE  HistoryOK'
<1>1. /\ req'[r].pc = "reply" /\ req'[r].outcome = "error"
      /\ \A q \in Request \ {r} : req'[q] = req[q] /\ sessions'[q] = sessions[q]
  BY DEF Inv, IInv, TypeOK, Answer
<1>2. Accounted(r)'
  BY <1>1 DEF Accounted, WorkOK, IssueOK, ReuseOK, EndOK, Answered, At,
              Presenting, Issuing
<1> QED BY <1>1, <1>2, SameHeld, RequestStep

LEMMA RefreshFindHistory ==
  ASSUME Inv, IInv', Lawful, Onward, NEW r \in Request, RefreshFind(r)
  PROVE  HistoryOK'
<1> USE DEF Inv, IInv
<1>1. /\ WorkOK(r) /\ req[r].pc = "refreshFind" /\ row' = row
      /\ held' = held /\ sessions' = sessions /\ now' = now
  BY DEF HistoryOK, Accounted, RefreshFind, At
<1>2. ASSUME NEW label \in {"refreshRevoke", "revokeAll"}, Goto(r, label),
             label = "refreshRevoke" => row[req[r].token] = "active",
             label = "revokeAll" => FindsNone(req[r].token)
      PROVE  HistoryOK'
  <2>1. /\ req'[r].pc = label /\ req'[r].token = req[r].token
        /\ req'[r].user = req[r].user /\ req'[r].fresh = req[r].fresh
        /\ \A q \in Request \ {r} : req'[q] = req[q] /\ sessions'[q] = sessions[q]
    BY <1>1, <1>2, MovedRequest DEF Label, Outcome
  <2>2. WorkOK(r)'
    <3>1. label = "revokeAll" =>
            row[req[r].token] = "revoked" \/ now >= Expiry(req[r].token)
      BY <1>1, <1>2 DEF FindsNone, WorkOK, Presenting, LocalsOK, TypeOK
    <3>2. now \in Int /\ Expiry(req[r].token) \in Int
      BY <1>1, LifetimeAssumption DEF LocalsOK, Presenting, Expiry, TypeOK, Token
    <3>3. label = "revokeAll" =>
            row'[req[r].token] = "revoked" \/ ~Verifies(req[r].token)'
      BY <1>1, <2>1, <3>1, <3>2 DEF Verifies, Expiry
    <3> QED BY <1>1, <1>2, <2>1, <3>3 DEF WorkOK, Presenting, Issuing
  <2>3. IssueOK(r)' /\ ReuseOK(r)' /\ EndOK(r)'
    BY <1>2, <2>1 DEF IssueOK, ReuseOK, EndOK, Answered, At
  <2> QED BY <1>1, <2>1, <2>2, <2>3, SameHeld, RequestStep DEF Accounted
<1>3. CASE FindsActive(req[r].token) /\ Goto(r, "refreshRevoke")
  BY <1>2, <1>3 DEF FindsActive
<1>4. CASE FindsNone(req[r].token) /\ Goto(r, "revokeAll")
  BY <1>2, <1>4
<1>5. CASE Answer(r, "error")
  BY <1>1, <1>5, ErrorHistory
<1> QED BY <1>3, <1>4, <1>5 DEF RefreshFind

LEMMA RefreshRevokeHistory ==
  ASSUME Inv, IInv', Lawful, Onward, NEW r \in Request, RefreshRevoke(r)
  PROVE  HistoryOK'
<1> USE DEF Inv, IInv
<1>1. /\ WorkOK(r) /\ req[r].pc = "refreshRevoke"
      /\ held' = held /\ sessions' = sessions
  BY DEF HistoryOK, Accounted, RefreshRevoke, At
<1>2. CASE Goto(r, "sign")
  <2>1. /\ req'[r].pc = "sign" /\ req'[r].token = req[r].token
        /\ req'[r].fresh = req[r].fresh
        /\ \A q \in Request \ {r} : req'[q] = req[q] /\ sessions'[q] = sessions[q]
    BY <1>1, <1>2, MovedRequest DEF Label, Outcome
  <2>2. Accounted(r)'
    BY <1>1, <2>1 DEF Accounted, WorkOK, IssueOK, ReuseOK, EndOK, Answered, At,
                      Presenting, Issuing
  <2> QED BY <1>1, <2>1, <2>2, SameHeld, RequestStep
<1>3. CASE Answer(r, "error")
  BY <1>1, <1>3, ErrorHistory
<1> QED BY <1>2, <1>3 DEF RefreshRevoke

\* The reuse branch: the statement reaches every session of the account,
\* or a failure was counted.
LEMMA RevokeAllHistory ==
  ASSUME Inv, IInv', Lawful, Onward, NEW r \in Request, RevokeAll(r)
  PROVE  HistoryOK'
<1> USE DEF Inv, IInv
<1>1. /\ WorkOK(r) /\ req[r].pc = "revokeAll" /\ Answer(r, "reused")
      /\ held' = held /\ sessions' = sessions
  BY DEF HistoryOK, Accounted, RevokeAll, At
<1>2. /\ req'[r].pc = "reply" /\ req'[r].outcome = "reused"
      /\ \A q \in Request \ {r} : req'[q] = req[q] /\ sessions'[q] = sessions[q]
  BY <1>1, MovedRequest DEF Label, Outcome
<1>3. \A t \in sessions[r] : /\ t \in Token /\ t.user = req[r].user
                             /\ row[t] \in {"active", "revoked"}
  BY <1>1 DEF WorkOK, Presenting, TypeOK
<1>4. faults' = 0 => \A t \in sessions[r] : row'[t] = "revoked"
  <2>1. Fault => faults' # 0
    BY DEF Fault, TypeOK
  <2>2. RevokeRows(Sessions(req[r].user)) =>
          \A t \in sessions[r] : row'[t] = "revoked"
    BY <1>3 DEF RevokeRows, Revoked, Sessions
  <2> QED BY <2>1, <2>2 DEF RevokeAll
<1>5. ReuseOK(r)'
  BY <1>1, <1>4 DEF ReuseOK
<1>6. WorkOK(r)' /\ IssueOK(r)' /\ EndOK(r)'
  BY <1>2 DEF WorkOK, IssueOK, EndOK, Answered, At, Presenting, Issuing
<1> QED BY <1>1, <1>2, <1>5, <1>6, SameHeld, RequestStep DEF Accounted

LEMMA SignHistory ==
  ASSUME Inv, IInv', Lawful, Onward, NEW r \in Request, Sign(r)
  PROVE  HistoryOK'
<1> USE DEF Inv, IInv
<1>1. /\ WorkOK(r) /\ req[r].pc = "sign"
      /\ held' = held /\ sessions' = sessions
  BY DEF HistoryOK, Accounted, Sign, At
<1>2. /\ req'[r].pc = "store" /\ req'[r].token = req[r].token
      /\ \A q \in Request \ {r} : req'[q] = req[q] /\ sessions'[q] = sessions[q]
  BY <1>1 DEF Sign, TypeOK
<1>3. Accounted(r)'
  BY <1>1, <1>2 DEF Accounted, WorkOK, IssueOK, ReuseOK, EndOK, Answered, At,
                    Presenting, Issuing
<1> QED BY <1>1, <1>2, <1>3, SameHeld, RequestStep

LEMMA StoreHistory ==
  ASSUME Inv, IInv', Lawful, Onward, NEW r \in Request, Store(r)
  PROVE  HistoryOK'
<1> USE DEF Inv, IInv
<1>1. /\ WorkOK(r) /\ req[r].pc = "store"
      /\ held' = held /\ sessions' = sessions
  BY DEF HistoryOK, Accounted, Store, At
<1>2. CASE Insert(r) /\ Issue(r)
  <2>1. /\ req'[r].pc = "reply" /\ req'[r].outcome = "ok"
        /\ req'[r].token = req[r].token /\ req'[r].fresh = req[r].fresh
        /\ \A q \in Request \ {r} : req'[q] = req[q] /\ sessions'[q] = sessions[q]
    BY <1>1, <1>2, MovedRequest DEF Issue, Label, Outcome
  <2>2. /\ req[r].fresh \in Token
        /\ req[r].token # None => req[r].token \in Token
    BY <1>1 DEF LocalsOK, TypeOK
  <2>3. IssueOK(r)'
    <3>1. row'[req[r].fresh] # "absent" /\ parent'[req[r].fresh] = req[r].token
      BY <1>2, <2>2 DEF Insert, TypeOK
    <3>2. req[r].token # None => req[r].token \in sessions[r]
      BY <1>1 DEF WorkOK, Issuing
    <3> QED BY <1>1, <2>1, <3>1, <3>2 DEF IssueOK
  <2>4. EndOK(r)'
    <3>1. req[r].token # None => row[req[r].token] = "revoked"
      BY <1>1 DEF RowsOK, Issuing
    <3>2. req[r].token # None => row'[req[r].token] = "revoked"
      BY <2>2, <3>1 DEF Lawful
    <3> QED BY <2>1, <3>2 DEF EndOK
  <2>5. WorkOK(r)' /\ ReuseOK(r)'
    BY <2>1 DEF WorkOK, ReuseOK, Answered, At, Presenting, Issuing
  <2> QED BY <1>1, <2>1, <2>3, <2>4, <2>5, SameHeld, RequestStep DEF Accounted
<1>3. CASE Answer(r, "error")
  BY <1>1, <1>3, ErrorHistory
<1> QED BY <1>2, <1>3 DEF Store

\* Logout answers 200 in any case; it was true if nothing failed.
LEMMA LogoutHistory ==
  ASSUME Inv, IInv', Lawful, Onward, NEW r \in Request,
         Answer(r, "ok"), req[r].pc \in {"logoutFind", "logoutRevoke"},
         held' = held, sessions' = sessions,
         \/ row'[req[r].token] = "revoked"
         \/ now' = now /\ now >= Expiry(req[r].token)
         \/ faults' # 0
  PROVE  HistoryOK'
<1> USE DEF Inv, IInv
<1>1. /\ req'[r].pc = "reply" /\ req'[r].outcome = "ok"
      /\ req'[r].token = req[r].token /\ req'[r].fresh = req[r].fresh
      /\ \A q \in Request \ {r} : req'[q] = req[q] /\ sessions'[q] = sessions[q]
  BY MovedRequest DEF Label, Outcome
<1>2. req[r].fresh = None /\ req[r].token \in Token
  BY DEF HistoryOK, Accounted, WorkOK, LocalsOK, Presenting
<1>3. now' = now /\ now >= Expiry(req[r].token) => ~Verifies(req[r].token)'
  <2>1. now \in Int /\ Expiry(req[r].token) \in Int
    BY <1>2, LifetimeAssumption DEF Expiry, TypeOK, Token
  <2> QED BY <1>1, <2>1 DEF Verifies, Expiry
<1>4. EndOK(r)'
  BY <1>1, <1>2, <1>3 DEF EndOK, Answered, At
<1>5. WorkOK(r)' /\ IssueOK(r)' /\ ReuseOK(r)'
  BY <1>1, <1>2 DEF WorkOK, IssueOK, ReuseOK, Answered, At, Presenting, Issuing
<1> QED BY <1>1, <1>4, <1>5, SameHeld, RequestStep DEF Accounted

LEMMA LogoutFindHistory ==
  ASSUME Inv, IInv', Lawful, Onward, NEW r \in Request, LogoutFind(r)
  PROVE  HistoryOK'
<1> USE DEF Inv, IInv
<1>1. /\ WorkOK(r) /\ req[r].pc = "logoutFind" /\ row' = row /\ now' = now
      /\ held' = held /\ sessions' = sessions
  BY DEF HistoryOK, Accounted, LogoutFind, At
<1>2. CASE FindsActive(req[r].token) /\ Goto(r, "logoutRevoke")
  <2>1. /\ req'[r].pc = "logoutRevoke" /\ req'[r].token = req[r].token
        /\ req'[r].user = req[r].user /\ req'[r].fresh = req[r].fresh
        /\ \A q \in Request \ {r} : req'[q] = req[q] /\ sessions'[q] = sessions[q]
    BY <1>1, <1>2, MovedRequest DEF Label, Outcome
  <2>2. Accounted(r)'
    BY <1>1, <2>1 DEF Accounted, WorkOK, IssueOK, ReuseOK, EndOK, Answered, At,
                      Presenting, Issuing
  <2> QED BY <1>1, <2>1, <2>2, SameHeld, RequestStep
<1>3. CASE FindsNone(req[r].token) /\ Answer(r, "ok")
  <2>1. /\ row[req[r].token] # "absent"
        /\ req[r].token \in Token
    BY <1>1 DEF WorkOK, Presenting, LocalsOK
  <2>2. row[req[r].token] = "revoked" \/ now >= Expiry(req[r].token)
    BY <1>3, <2>1 DEF FindsNone, TypeOK
  <2> QED BY <1>1, <1>3, <2>2, LogoutHistory
<1>4. CASE Fault /\ Answer(r, "ok")
  <2>1. faults' # 0
    BY <1>4 DEF Fault, TypeOK
  <2> QED BY <1>1, <1>4, <2>1, LogoutHistory
<1> QED BY <1>2, <1>3, <1>4 DEF LogoutFind

LEMMA LogoutRevokeHistory ==
  ASSUME Inv, IInv', Lawful, Onward, NEW r \in Request, LogoutRevoke(r)
  PROVE  HistoryOK'
<1> USE DEF Inv, IInv
<1>1. /\ req[r].pc = "logoutRevoke" /\ req[r].token \in Token
      /\ held' = held /\ sessions' = sessions /\ Answer(r, "ok")
  BY DEF LogoutRevoke, At, LocalsOK, Presenting
<1>2. RevokeRows({req[r].token}) => row'[req[r].token] = "revoked"
  BY <1>1 DEF RevokeRows, Revoked
<1>3. Fault => faults' # 0
  BY DEF Fault, TypeOK
<1> QED BY <1>1, <1>2, <1>3, LogoutHistory DEF LogoutRevoke

\* A 200 hands its token to the client; the goroutine is free again.
LEMMA FinishHistory ==
  ASSUME Inv, IInv', Lawful, Onward, NEW r \in Request, Reply(r) \/ LoseReply(r)
  PROVE  HistoryOK'
<1> USE DEF Inv, IInv
<1>1. /\ req'[r] = Idle /\ row' = row
      /\ \A q \in Request \ {r} : req'[q] = req[q] /\ sessions'[q] = sessions[q]
  BY DEF Reply, LoseReply, Finish, TypeOK
<1>2. Accounted(r)'
  BY <1>1 DEF Accounted, WorkOK, IssueOK, ReuseOK, EndOK, Answered, At,
              Presenting, Issuing, Idle
<1>3. \A t \in held' : row[t] # "absent"
  <2>1. \A t \in held : row[t] # "absent"
    BY DEF HistoryOK
  <2>2. IssueOK(r)
    BY DEF HistoryOK, Accounted
  <2>3. CASE held' = held
    BY <2>1, <2>3
  <2>4. CASE /\ At(r, "reply") /\ req[r].outcome = "ok" /\ req[r].fresh # None
             /\ held' = held \cup {req[r].fresh}
    BY <2>1, <2>2, <2>4 DEF IssueOK, Answered
  <2> QED BY <2>3, <2>4 DEF Reply, LoseReply
<1> QED BY <1>1, <1>2, <1>3, RequestStep

-----------------------------------------------------------------------------
(* The invariant, and what it is for *)

LEMMA InitInv == Init => Inv
<1> SUFFICES ASSUME Init PROVE Inv
  OBVIOUS
<1>1. HistoryOK
  BY DEF Init, Idle, HistoryOK, Accounted, WorkOK, IssueOK, ReuseOK, EndOK,
         Answered, At, Presenting, Issuing
<1> QED BY <1>1, InitIInv DEF Inv

LEMMA NextInv == Inv /\ [Next]_vars => Inv'
<1> SUFFICES ASSUME Inv, [Next]_vars PROVE Inv'
  OBVIOUS
<1>1. IInv'
  BY NextIInv DEF Inv
<1>2. Lawful /\ Onward
  BY NextLawful DEF Inv
<1>3. ASSUME NEW r \in Request, NEW u \in User, Login(r, u) PROVE HistoryOK'
  BY <1>1, <1>2, <1>3, ArriveHistory DEF Login, Refuse, Outcome, Presenting
<1>4. ASSUME NEW r \in Request, NEW t \in held, Refresh(r, t) PROVE HistoryOK'
  BY <1>1, <1>2, <1>4, ArriveHistory DEF Refresh, Refuse, Outcome, Presenting
<1>5. ASSUME NEW r \in Request, NEW t \in held, Logout(r, t) PROVE HistoryOK'
  BY <1>1, <1>2, <1>5, ArriveHistory DEF Logout, Outcome, Presenting
<1>6. ASSUME NEW r \in Request, NoToken(r) PROVE HistoryOK'
  BY <1>1, <1>2, <1>6, ArriveHistory DEF NoToken, Refuse, Outcome, Presenting
<1>7. ASSUME NEW r \in Request, Serve(r) \/ LoseReply(r) PROVE HistoryOK'
  BY <1>1, <1>2, <1>7, RefreshFindHistory, RefreshRevokeHistory,
     RevokeAllHistory, SignHistory, StoreHistory, LogoutFindHistory,
     LogoutRevokeHistory, FinishHistory DEF Serve
<1>8. CASE Tick \/ UNCHANGED vars
  <2>1. UNCHANGED <<row, held, req, sessions>>
    BY <1>8 DEF Tick, vars
  <2>2. \A r \in Request : Accounted(r)'
    BY <1>1, <1>2, <2>1, OthersAccounted DEF Inv, HistoryOK
  <2>3. \A t \in held' : row'[t] # "absent"
    BY <1>2, <2>1, SameHeld
  <2> QED BY <1>1, <2>2, <2>3 DEF HistoryOK, Inv
<1>9. CASE Crash
  <2>1. \A r \in Request : Accounted(r)'
    BY <1>9 DEF Crash, Idle, Accounted, WorkOK, IssueOK, ReuseOK, EndOK,
                Answered, At, Presenting, Issuing
  <2>2. \A t \in held' : row'[t] # "absent"
    BY <1>2, <1>9, SameHeld DEF Crash
  <2> QED BY <1>1, <2>1, <2>2 DEF HistoryOK, Inv
<1> QED BY <1>1, <1>3, <1>4, <1>5, <1>6, <1>7, <1>8, <1>9 DEF Next, Inv

LEMMA SafetyInvariance == Spec => []Inv
BY InitInv, NextInv, PTL DEF Spec

\* Every 200 is backed by a row of the table, exchanged for the token of
\* the request it answers.
THEOREM EveryAnswerBacked == Spec => []AnswersAreBacked
<1>1. Inv => AnswersAreBacked
  BY DEF Inv, HistoryOK, Accounted, IssueOK, AnswersAreBacked
<1> QED BY <1>1, SafetyInvariance, PTL

\* A token that was revoked when its request arrived yields nothing.
THEOREM ReusedTokensRejected == Spec => []DeadTokensIssueNothing
<1>1. Inv => DeadTokensIssueNothing
  BY DEF Inv, HistoryOK, Accounted, IssueOK, DeadTokensIssueNothing
<1> QED BY <1>1, SafetyInvariance, PTL

\* Reuse detection ends the sessions that existed when the request arrived.
THEOREM ReuseRevokesSessions == Spec => []ReuseEndsSessions
<1>1. Inv => ReuseEndsSessions
  BY DEF Inv, HistoryOK, Accounted, ReuseOK, ReuseEndsSessions
<1> QED BY <1>1, SafetyInvariance, PTL

\* A rotation or a logout answered 200 has ended the presented token.
THEOREM AnsweredTokensAreDead == Spec => []AnswerEndsPresentedToken
<1>1. Inv => AnswerEndsPresentedToken
  BY DEF Inv, HistoryOK, Accounted, EndOK, AnswerEndsPresentedToken
<1> QED BY <1>1, SafetyInvariance, PTL

-----------------------------------------------------------------------------
(* Sessions end for a cause *)

\* Whoever revokes a row presented it, or a dead token of the row's owner.
LEMMA RevokerPresented ==
  ASSUME Inv, NEW r \in Request, req[r].pc \in Presenting,
         NEW t \in Token, row[t] = "active", row'[t] = "revoked",
         NEW S, row' \in {row, Revoked(S)},
         \A s \in S \cap Token : s.user = req[r].user,
         S = {req[r].token} \/ req[r].pc = "revokeAll"
  PROVE  /\ req[r].token \in Token /\ req[r].user = t.user
         /\ \/ req[r].token = t
            \/ row[req[r].token] = "revoked"
            \/ ~Verifies(req[r].token)
<1>1. req[r].token \in Token
  BY DEF Inv, IInv, LocalsOK
<1>2. t \in S
  BY DEF Revoked
<1>3. WorkOK(r)
  BY DEF Inv, HistoryOK, Accounted
<1> QED BY <1>1, <1>2, <1>3 DEF WorkOK

\* No session ends but by its own token or a dead one of its account.
THEOREM SessionsEnd == Spec => SessionsEndForCause
<1> DEFINE Cause(r, t) ==
             /\ req[r].token \in Token /\ req[r].user = t.user
             /\ \/ req[r].token = t
                \/ row[req[r].token] = "revoked"
                \/ ~Verifies(req[r].token)
           Caused == \A t \in Token :
             row[t] = "active" /\ row'[t] = "revoked" =>
               \E r \in Request : Cause(r, t)
<1>1. Inv /\ [Next]_vars => [Caused]_vars
  <2> SUFFICES ASSUME Inv, Next, NEW t \in Token,
                      row[t] = "active", row'[t] = "revoked"
               PROVE  \E r \in Request : Cause(r, t)
    OBVIOUS
  <2>1. ASSUME NEW r \in Request, RefreshRevoke(r) \/ LogoutRevoke(r)
        PROVE  Cause(r, t)
    <3>1. row' \in {row, Revoked({req[r].token})} /\ req[r].pc \in Presenting
      BY <2>1 DEF RefreshRevoke, LogoutRevoke, RevokeRows, RevokeRowsOrNot, At,
                  Presenting
    <3>2. req[r].user = req[r].token.user
      BY <3>1 DEF Inv, IInv, LocalsOK
    <3> QED BY <3>1, <3>2, RevokerPresented
  <2>2. ASSUME NEW r \in Request, RevokeAll(r)
        PROVE  Cause(r, t)
    <3>1. /\ row' \in {row, Revoked(Sessions(req[r].user))}
          /\ req[r].pc = "revokeAll" /\ req[r].pc \in Presenting
      BY <2>2 DEF RevokeAll, RevokeRows, RevokeRowsOrNot, At, Presenting
    <3>2. \A s \in Sessions(req[r].user) : s.user = req[r].user
      BY DEF Sessions
    <3> QED BY <3>1, <3>2, RevokerPresented
  <2>3. ASSUME NEW r \in Request, Store(r) PROVE FALSE
    <3>1. row' = row \/ row' = [row EXCEPT ![req[r].fresh] = "active"]
      BY <2>3 DEF Store, StoreFails, Duplicate, Insert
    <3> QED BY <3>1 DEF Inv, IInv, TypeOK
  <2>4. ASSUME row' = row PROVE FALSE
    BY <2>4
  <2>5. \/ row' = row
        \/ \E r \in Request : \/ Store(r) \/ RefreshRevoke(r)
                              \/ LogoutRevoke(r) \/ RevokeAll(r)
    BY DEF Next, Login, Refresh, Logout, NoToken, Refuse, Arrive, Serve,
           RefreshFind, Sign, LogoutFind, Reply, LoseReply, Tick, Crash
  <2> QED BY <2>1, <2>2, <2>3, <2>4, <2>5
<1> QED BY <1>1, SafetyInvariance, PTL DEF Spec, SessionsEndForCause

=============================================================================

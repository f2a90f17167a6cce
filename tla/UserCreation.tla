---------------------------- MODULE UserCreation ----------------------------
(***************************************************************************)
(* POST /users: the transaction middleware around Controller.CreateUser,   *)
(* Service.CreateUser and the user repository                              *)
(* (internal/middlewares/transaction.go, api/admin/user/).                 *)
(*                                                                         *)
(* Every request holds one pooled connection from Begin to Commit or       *)
(* Rollback; its reads are InnoDB's consistent reads of a snapshot taken   *)
(* by the first of them, its insert is checked against the current rows    *)
(* by the unique keys on email and phone and waits for a conflicting row   *)
(* of a transaction that is still open.                                    *)
(*                                                                         *)
(* X_Y is a faulty form of the operator X that no specification uses: it   *)
(* serves to confirm that a property notices the fault.                    *)
(***************************************************************************)
EXTENDS Integers, FiniteSets

CONSTANTS
  Request,   \* requests, each served by a goroutine of its own
  Email, Phone,
  None,      \* no row, no answer
  PoolSize,  \* SetMaxOpenConns
  MaxFaults  \* bound: failed statements, panics and crashes

ASSUME PoolAssumption == PoolSize \in Nat \ {0}
ASSUME FaultsAssumption == MaxFaults \in Nat
ASSUME RequestAssumption == IsFiniteSet(Request)

\* A row of users, as far as the unique keys and its origin go.
User == [email : Email, phone : Phone, by : Request]

ASSUME NoneAssumption == None \notin User

VARIABLES
  users,    \* the committed rows of the table
  req,      \* req[r]: where request r is, and its local variables
  inUse,    \* connections taken from the pool
  faults    \* failures so far

vars == <<users, req, inUse, faults>>

Label == {"new", "begin", "bind", "email", "phone", "insert", "end", "done"}

\* The status the handler wrote.  "hollow" is the 200 without a body that
\* gin sends when no handler wrote anything, "lost" a broken connection.
Answer == {"none", "ok", "invalid", "conflict", "error", "hollow", "lost"}

\* row is the row to create, pending the uncommitted insert, view the
\* snapshot; open says whether Begin succeeded and the connection is held.
New == [pc |-> "new", row |-> None, view |-> {}, pending |-> None,
        open |-> FALSE, answer |-> "none"]

TypeOK ==
  /\ users \in SUBSET User
  /\ req \in [Request -> [pc : Label, row : User \cup {None},
                          view : SUBSET User, pending : User \cup {None},
                          open : BOOLEAN, answer : Answer]]
  /\ inUse \in 0..PoolSize
  /\ faults \in 0..MaxFaults

Init ==
  /\ users = {}
  /\ req = [r \in Request |-> New]
  /\ inUse = 0
  /\ faults = 0

-----------------------------------------------------------------------------
At(r, label) == req[r].pc = label
Goto(r, label) == req' = [req EXCEPT ![r].pc = label]

\* The handler answers and the middleware runs on after c.Next().
Write(r, answer) ==
  req' = [req EXCEPT ![r].pc = "end", ![r].answer = answer]

Fault == faults < MaxFaults /\ faults' = faults + 1
Ok == UNCHANGED faults

Conflict(a, b) == a.email = b.email \/ a.phone = b.phone

\* Rows the transaction of r sees: its snapshot.
View_Dirty(r) == users \cup ({req[q].pending : q \in Request} \ {None})
View(r) == req[r].view

\* A statement of r needs the connection its transaction holds.
Connected_OwnConnection(r) == inUse < PoolSize
Connected(r) == req[r].open

Arrive(r) ==
  /\ At(r, "new")
  /\ \E e \in Email, p \in Phone :
       req' = [req EXCEPT ![r].pc = "begin",
                          ![r].row = [email |-> e, phone |-> p, by |-> r]]
  /\ UNCHANGED <<users, inUse, faults>>

\* DBTransactionHandle up to c.Next(): Begin waits for a connection.  When
\* it fails, the handler runs all the same, on a handle that carries the error.
Begin(r) ==
  /\ At(r, "begin")
  /\ \/ /\ inUse < PoolSize /\ inUse' = inUse + 1 /\ Ok
        /\ req' = [req EXCEPT ![r].pc = "bind", ![r].open = TRUE]
     \/ Fault /\ Goto(r, "bind") /\ UNCHANGED inUse
  /\ UNCHANGED users

\* Binding, validation and the comparison of the two passwords.
Bind(r) ==
  /\ At(r, "bind")
  /\ Write(r, "invalid") \/ Goto(r, "email")
  /\ UNCHANGED <<users, inUse, faults>>

\* A statement on the transaction's handle fails: on its own, or because
\* Begin had failed.  Every such error is a 500.
StatementFails(r) ==
  /\ \/ Connected(r) /\ Fault
     \/ ~req[r].open /\ Ok
  /\ Write(r, "error")
  /\ UNCHANGED <<users, inUse>>

FindEmail(r) ==
  /\ At(r, "email")
  /\ \/ /\ Connected(r) /\ Ok
        /\ LET found == \E u \in users : u.email = req[r].row.email IN
           req' = [req EXCEPT ![r].view = users,
                              ![r].pc = IF found THEN "end" ELSE "phone",
                              ![r].answer = IF found THEN "conflict" ELSE "none"]
        /\ UNCHANGED <<users, inUse>>
     \/ StatementFails(r)

FindPhone(r) ==
  /\ At(r, "phone")
  /\ \/ /\ Connected(r) /\ Ok
        /\ IF \E u \in View(r) : u.phone = req[r].row.phone
           THEN Write(r, "conflict") ELSE Goto(r, "insert")
        /\ UNCHANGED <<users, inUse>>
     \/ StatementFails(r)

\* The unique keys: the insert waits for a conflicting row of an open
\* transaction, and is refused when the table has a conflicting row.
Waits(r) ==
  \E q \in Request \ {r} :
    req[q].pending # None /\ Conflict(req[q].pending, req[r].row)
Refused_EmailOnly(r) == \E u \in users : u.email = req[r].row.email
Refused(r) == \E u \in users : Conflict(u, req[r].row)

Insert(r) ==
  /\ At(r, "insert")
  /\ \/ /\ Connected(r) /\ ~Waits(r) /\ ~Refused(r) /\ Ok
        /\ req' = [req EXCEPT ![r].pc = "end", ![r].answer = "ok",
                              ![r].pending = req[r].row]
        /\ UNCHANGED <<users, inUse>>
     \/ /\ Connected(r) /\ Refused(r) /\ Ok
        /\ Write(r, "error")
        /\ UNCHANGED <<users, inUse>>
     \/ StatementFails(r)

\* The transaction ends and its connection goes back to the pool.
Release_Always(r) == inUse' = inUse - 1
Release(r) == inUse' = IF req[r].open THEN inUse - 1 ELSE inUse

Finish(r, answer) ==
  req' = [req EXCEPT ![r] = [New EXCEPT !.pc = "done", !.answer = answer,
                                        !.row = req[r].row]]

\* c.Writer.Status() decides.
Commits_CreatedOnly(r) == FALSE
Commits(r) == req[r].answer = "ok"

Pending(r) == {req[r].pending} \ {None}

End_RollbackForgotten(r) ==
  /\ At(r, "end")
  /\ IF Commits(r)
     THEN users' = users \cup Pending(r) /\ Release(r)
     ELSE UNCHANGED <<users, inUse>>
  /\ Finish(r, req[r].answer) /\ Ok

\* DBTransactionHandle after c.Next(): commit on 200 or 201, roll back on
\* anything else.  A failed commit, after which the row may be there or not,
\* is only logged: the 200 has been written.
End(r) ==
  /\ At(r, "end")
  /\ \/ Commits(r) /\ Ok /\ users' = users \cup Pending(r)
     \/ Commits(r) /\ Fault /\ users' \in {users, users \cup Pending(r)}
     \/ ~Commits(r) /\ Ok /\ UNCHANGED users
  /\ Release(r)
  /\ Finish(r, req[r].answer)

\* A panic in the handler: the deferred function rolls back and returns, so
\* nothing has been written and the recovery middleware never sees it.
Panic(r) ==
  /\ req[r].pc \in {"bind", "email", "phone", "insert"} /\ Fault
  /\ Release(r)
  /\ Finish(r, "hollow")
  /\ UNCHANGED users

\* The process dies: MySQL rolls back what was open.
Crash ==
  /\ Fault
  /\ inUse' = 0
  /\ req' = [r \in Request |->
       IF req[r].pc \in {"new", "done"} THEN req[r]
       ELSE [New EXCEPT !.pc = "done", !.answer = "lost", !.row = req[r].row]]
  /\ UNCHANGED users

Serve(r) ==
  Begin(r) \/ Bind(r) \/ FindEmail(r) \/ FindPhone(r) \/ Insert(r) \/ End(r)

AllDone == (\A r \in Request : At(r, "done")) /\ UNCHANGED vars

Next ==
  \/ \E r \in Request : Arrive(r) \/ Serve(r) \/ Panic(r)
  \/ Crash
  \/ AllDone

Spec == Init /\ [][Next]_vars

\* Goroutines are scheduled fairly and every statement returns.
FairSpec == Spec /\ \A r \in Request : WF_vars(Serve(r))

-----------------------------------------------------------------------------
(* Properties *)

Answered(r, answer) == At(r, "done") /\ req[r].answer = answer

RowsOf(r) == {u \in users : u.by = r}

\* No two accounts share an email address or a phone number, whatever the
\* interleaving of the checks and inserts of concurrent requests.
UniqueUsers == \A a, b \in users : Conflict(a, b) => a = b

\* Without failures the answer tells the truth: the row is in the table if
\* and only if the answer was 200.
AnswerTellsOutcome ==
  \A r \in Request :
    At(r, "done") /\ faults = 0 => (Answered(r, "ok") <=> RowsOf(r) # {})

\* A 409 names a committed account of another request: a request is never
\* refused because of a row that was rolled back afterwards.
ConflictIsReal ==
  \A r \in Request :
    Answered(r, "conflict") =>
      \E u \in users : u.by # r /\ Conflict(u, req[r].row)

\* A connection is out of the pool exactly while a transaction is open: no
\* path through the middleware leaks one.
NoConnectionLeak == inUse = Cardinality({r \in Request : req[r].open})

\* Every request is answered: nobody waits for a connection, or for the
\* row lock of another request, for ever.
EveryRequestEnds == \A r \in Request : ~At(r, "new") ~> At(r, "done")

\* The promise of the table to everybody who reads it: accounts are only added,
\* one by one, and none that conflicts with one that is there; no end of a
\* transaction, failure or crash takes an account away.
A == INSTANCE Accounts WITH Row <- User
ImplementsAccounts == A!Spec

=============================================================================

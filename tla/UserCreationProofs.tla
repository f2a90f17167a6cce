------------------------- MODULE UserCreationProofs -------------------------
(***************************************************************************)
(* Theorems about UserCreation, for any number of requests, addresses,     *)
(* numbers, connections and failures.                                      *)
(***************************************************************************)
EXTENDS UserCreation, FiniteSetTheorems, TLAPS

ReqType == [Request -> [pc : Label, row : User \cup {None},
                        view : SUBSET User, pending : User \cup {None},
                        open : BOOLEAN, answer : Answer]]

\* A row is inserted for the request that carries it, in an open transaction
\* that ends next; before that the request has no row at all.
PendingOK ==
  \A r \in Request :
    /\ req[r].pc # "new" => req[r].row \in User /\ req[r].row.by = r
    /\ req[r].pending # None =>
         /\ req[r].pc = "end" /\ req[r].answer = "ok"
         /\ req[r].pending = req[r].row
    /\ req[r].pc # "done" => RowsOf(r) = {}
    /\ req[r].pc \in {"new", "begin", "done"} => ~req[r].open

\* Inserted rows conflict with no row of the table and not with each other.
NoConflict ==
  \A r \in Request : req[r].pending # None =>
    /\ \A u \in users : ~Conflict(u, req[r].pending)
    /\ \A q \in Request \ {r} :
         req[q].pending # None => ~Conflict(req[q].pending, req[r].pending)

\* A snapshot is a part of the table, and nothing is answered before the end.
ViewOK ==
  \A r \in Request :
    /\ req[r].view \subseteq users
    /\ req[r].pc \notin {"end", "done"} => req[r].answer = "none"
    /\ req[r].pc = "end" => req[r].answer # "none"

\* ConflictIsReal, also before the transaction has ended.
RefusalsOK ==
  \A r \in Request :
    req[r].answer = "conflict" =>
      \E u \in users : u.by # r /\ Conflict(u, req[r].row)

\* Without failures an answer is 200 exactly when the row was inserted, and
\* the request keeps its connection from Begin on.
OutcomeOK ==
  faults = 0 =>
    \A r \in Request :
      /\ req[r].pc = "end" => (req[r].answer = "ok" <=> req[r].pending # None)
      /\ req[r].pc = "done" => (req[r].answer = "ok" <=> RowsOf(r) # {})

Core == PendingOK /\ NoConflict /\ ViewOK /\ RefusalsOK /\ OutcomeOK /\ UniqueUsers

IInv == TypeOK /\ NoConnectionLeak /\ Core

\* What a step does to the requests other than r.
Others(r) == \A q \in Request \ {r} : req'[q] = req[q]

-----------------------------------------------------------------------------
(* The pool *)

Holders == {r \in Request : req[r].open}

LEMMA HoldersFinite == IsFiniteSet(Holders) /\ Cardinality(Holders) \in Nat
BY RequestAssumption, FS_Subset, FS_CardinalityType DEF Holders

LEMMA LeakOfHolders ==
  /\ NoConnectionLeak <=> inUse = Cardinality(Holders)
  /\ NoConnectionLeak' <=> inUse' = Cardinality(Holders')
BY DEF NoConnectionLeak, Holders

\* Nobody takes or returns a connection.
LEMMA PoolSame ==
  ASSUME TypeOK, NoConnectionLeak, inUse' = inUse,
         \A q \in Request : req'[q].open = req[q].open
  PROVE  NoConnectionLeak' /\ inUse' \in 0..PoolSize
<1>1. Holders' = Holders
  BY DEF Holders
<1> QED BY <1>1, LeakOfHolders DEF TypeOK

\* r takes one.
LEMMA PoolTake ==
  ASSUME TypeOK, NoConnectionLeak, NEW r \in Request, ~req[r].open,
         inUse < PoolSize, inUse' = inUse + 1, Others(r), req'[r].open
  PROVE  NoConnectionLeak' /\ inUse' \in 0..PoolSize
<1>1. Holders' = Holders \cup {r} /\ r \notin Holders
  BY DEF Holders, Others
<1>2. Cardinality(Holders \cup {r}) = Cardinality(Holders) + 1
  BY <1>1, HoldersFinite, FS_AddElement
<1> QED
  BY <1>1, <1>2, LeakOfHolders, PoolAssumption DEF TypeOK

\* r returns the one it holds, if it holds one.
LEMMA PoolRelease ==
  ASSUME TypeOK, NoConnectionLeak, NEW r \in Request,
         Release(r), Others(r), ~req'[r].open
  PROVE  NoConnectionLeak' /\ inUse' \in 0..PoolSize
<1>1. Holders' = Holders \ {r}
  BY DEF Holders, Others
<1>2. CASE req[r].open
  <2>1. r \in Holders
    BY <1>2 DEF Holders
  <2>2. Cardinality(Holders \ {r}) = Cardinality(Holders) - 1
    BY <2>1, HoldersFinite, FS_RemoveElement
  <2>3. Cardinality(Holders') \in Nat
    BY <1>1, HoldersFinite, FS_RemoveElement, FS_CardinalityType
  <2> QED
    BY <1>1, <1>2, <2>2, <2>3, LeakOfHolders, HoldersFinite, PoolAssumption
       DEF Release, TypeOK
<1>3. CASE ~req[r].open
  <2>1. Holders' = Holders
    BY <1>1, <1>3 DEF Holders
  <2> QED BY <1>3, <2>1, LeakOfHolders DEF Release, TypeOK
<1> QED BY <1>2, <1>3

LEMMA FaultBounds ==
  ASSUME TypeOK, Fault \/ Ok
  PROVE  /\ faults' \in 0..MaxFaults
         /\ Fault => faults' # 0
         /\ Ok => faults' = faults
BY FaultsAssumption DEF TypeOK, Fault, Ok

-----------------------------------------------------------------------------
(* Steps inside a handler *)

\* r moves on without inserting: the table stays and so does the row to create.
MovesOn(r) ==
  /\ req' \in ReqType /\ Others(r)
  /\ req'[r].pending = None /\ req'[r].row = req[r].row
  /\ req'[r].pc \in {"bind", "email", "phone", "insert", "end", "done"}
  /\ req'[r].view \in {users, req[r].view, {}}
  /\ req'[r].pc \notin {"end", "done"} => req'[r].answer = "none"
  /\ req'[r].pc = "end" => req'[r].answer \in {"invalid", "conflict", "error"}
  /\ req'[r].pc = "done" => ~req'[r].open

LEMMA MovesOnCore ==
  ASSUME IInv, NEW r \in Request, MovesOn(r), users' = users,
         req[r].pc \notin {"new", "end", "done"},
         faults' \in {faults, faults + 1},
         req'[r].pc = "done" => faults' = faults + 1,
         req'[r].answer = "conflict" =>
           \E u \in users : u.by # r /\ Conflict(u, req[r].row)
  PROVE  Core'
<1> USE DEF IInv, Core, MovesOn, Others
<1>1. PendingOK'
  BY DEF PendingOK, RowsOf
<1>2. NoConflict'
  BY DEF NoConflict
<1>3. ViewOK'
  BY DEF ViewOK, TypeOK
<1>4. RefusalsOK'
  BY DEF RefusalsOK
<1>5. OutcomeOK'
  <2> SUFFICES ASSUME faults' = 0 PROVE OutcomeOK'
    BY DEF OutcomeOK
  <2>1. faults = 0 /\ req'[r].pc # "done"
    BY DEF TypeOK
  <2> QED
    BY <2>1 DEF OutcomeOK, RowsOf
<1>6. UniqueUsers'
  BY DEF UniqueUsers
<1> QED BY <1>1, <1>2, <1>3, <1>4, <1>5, <1>6

LEMMA Moved ==
  ASSUME IInv, NEW r \in Request, req[r].pc \notin {"new", "end", "done"}
  PROVE  /\ \A label \in {"bind", "email", "phone", "insert"} :
              Goto(r, label) => MovesOn(r) /\ req'[r].answer = "none"
                                /\ req'[r].open = req[r].open
         /\ \A answer \in {"invalid", "conflict", "error"} :
              Write(r, answer) => MovesOn(r) /\ req'[r].answer = answer
                                  /\ req'[r].open = req[r].open
<1> USE DEF IInv, Core, MovesOn, Others
<1>1. req \in ReqType /\ req[r].pending = None /\ req[r].answer = "none"
  BY DEF TypeOK, ReqType, PendingOK, ViewOK
<1>2. ASSUME NEW label \in {"bind", "email", "phone", "insert"}, Goto(r, label)
      PROVE  MovesOn(r) /\ req'[r].answer = "none" /\ req'[r].open = req[r].open
  BY <1>1, <1>2 DEF ReqType, Goto, Label
<1>3. ASSUME NEW answer \in {"invalid", "conflict", "error"}, Write(r, answer)
      PROVE  MovesOn(r) /\ req'[r].answer = answer /\ req'[r].open = req[r].open
  BY <1>1, <1>3 DEF ReqType, Write, Label, Answer
<1> QED BY <1>2, <1>3

\* A step inside a handler that leaves the pool alone.
LEMMA StaysInside ==
  ASSUME IInv, NEW r \in Request, MovesOn(r), UNCHANGED <<users, inUse>>,
         req[r].pc \notin {"new", "end", "done"}, req'[r].pc # "done",
         req'[r].open = req[r].open, Fault \/ Ok,
         req'[r].answer = "conflict" =>
           \E u \in users : u.by # r /\ Conflict(u, req[r].row)
  PROVE  IInv'
<1>1. faults' \in 0..MaxFaults /\ faults' \in {faults, faults + 1}
  BY FaultBounds DEF IInv, Fault, Ok
<1>2. Core'
  BY <1>1, MovesOnCore
<1>3. \A q \in Request : req'[q].open = req[q].open
  BY DEF MovesOn, Others
<1>4. NoConnectionLeak' /\ inUse' \in 0..PoolSize
  BY <1>3, PoolSame DEF IInv
<1>5. TypeOK'
  BY <1>1, <1>4 DEF TypeOK, MovesOn, ReqType, IInv
<1> QED BY <1>2, <1>4, <1>5 DEF IInv

LEMMA FailingStatement ==
  ASSUME IInv, NEW r \in Request, StatementFails(r),
         req[r].pc \in {"email", "phone", "insert"}
  PROVE  IInv'
<1>1. MovesOn(r) /\ req'[r].answer = "error" /\ req'[r].open = req[r].open
  BY Moved DEF StatementFails
<1>2. req'[r].pc = "end"
  BY DEF StatementFails, Write, IInv, TypeOK
<1> QED BY <1>1, <1>2, StaysInside DEF StatementFails

LEMMA BindStep ==
  ASSUME IInv, NEW r \in Request, Bind(r)
  PROVE  IInv'
<1>1. /\ MovesOn(r) /\ req'[r].open = req[r].open
      /\ req'[r].answer # "conflict" /\ req'[r].pc # "done"
  BY Moved DEF Bind, At, Goto, Write, IInv, TypeOK
<1> QED BY <1>1, StaysInside DEF Bind, At, Ok

\* What a look-up that takes a snapshot assigns.
LEMMA Looked ==
  ASSUME NEW r \in Request, req \in ReqType, users \in SUBSET User,
         NEW label \in Label, NEW answer \in Answer,
         req' = [req EXCEPT ![r].view = users, ![r].pc = label, ![r].answer = answer]
  PROVE  /\ req' \in ReqType /\ Others(r)
         /\ req'[r].pending = req[r].pending /\ req'[r].row = req[r].row
         /\ req'[r].view = users /\ req'[r].open = req[r].open
         /\ req'[r].pc = label /\ req'[r].answer = answer
<1> DEFINE Rows == User \cup {None}
           Views == SUBSET User
<1>1. /\ req \in [Request -> [pc : Label, row : Rows, view : Views, pending : Rows,
                              open : BOOLEAN, answer : Answer]]
      /\ users \in Views
  BY DEF ReqType
<1> HIDE DEF Rows, Views
<1>2. req' \in [Request -> [pc : Label, row : Rows, view : Views, pending : Rows,
                            open : BOOLEAN, answer : Answer]]
  BY <1>1
<1>3. req' \in ReqType
  BY <1>2 DEF ReqType, Rows, Views
<1>4. /\ Others(r)
      /\ req'[r].pending = req[r].pending /\ req'[r].row = req[r].row
      /\ req'[r].view = users /\ req'[r].open = req[r].open
      /\ req'[r].pc = label /\ req'[r].answer = answer
  BY <1>1 DEF Others
<1> QED BY <1>3, <1>4

LEMMA FindEmailStep ==
  ASSUME IInv, NEW r \in Request, FindEmail(r)
  PROVE  IInv'
<1>1. CASE StatementFails(r)
  BY <1>1, FailingStatement DEF FindEmail, At
<1>2. CASE ~StatementFails(r)
  <2> DEFINE found == \E u \in users : u.email = req[r].row.email
  <2>1. /\ At(r, "email") /\ Ok /\ UNCHANGED <<users, inUse>>
        /\ req' = [req EXCEPT ![r].view = users,
                              ![r].pc = IF found THEN "end" ELSE "phone",
                              ![r].answer = IF found THEN "conflict" ELSE "none"]
    BY <1>2 DEF FindEmail
  <2>2. req \in ReqType /\ users \in SUBSET User /\ req[r].pending = None
    BY <2>1 DEF IInv, Core, PendingOK, TypeOK, ReqType, At
  <2>3. found => \E u \in users : u.by # r /\ Conflict(u, req[r].row)
    BY <2>1 DEF Conflict, IInv, Core, PendingOK, RowsOf, At
  <2> HIDE DEF found
  <2>4. CASE found
    <3>1. req' = [req EXCEPT ![r].view = users, ![r].pc = "end", ![r].answer = "conflict"]
      BY <2>1, <2>4
    <3>2. /\ req' \in ReqType /\ Others(r) /\ req'[r].pending = None
          /\ req'[r].row = req[r].row /\ req'[r].view = users
          /\ req'[r].open = req[r].open
          /\ req'[r].pc = "end" /\ req'[r].answer = "conflict"
      BY <2>2, <3>1, Looked DEF Label, Answer
    <3>3. MovesOn(r)
      BY <3>2 DEF MovesOn
    <3> QED BY <2>1, <2>3, <2>4, <3>2, <3>3, StaysInside DEF At
  <2>5. CASE ~found
    <3>1. req' = [req EXCEPT ![r].view = users, ![r].pc = "phone", ![r].answer = "none"]
      BY <2>1, <2>5
    <3>2. /\ req' \in ReqType /\ Others(r) /\ req'[r].pending = None
          /\ req'[r].row = req[r].row /\ req'[r].view = users
          /\ req'[r].open = req[r].open
          /\ req'[r].pc = "phone" /\ req'[r].answer = "none"
      BY <2>2, <3>1, Looked DEF Label, Answer
    <3>3. MovesOn(r)
      BY <3>2 DEF MovesOn
    <3> QED BY <2>1, <3>2, <3>3, StaysInside DEF At
  <2> QED BY <2>4, <2>5
<1> QED BY <1>1, <1>2

LEMMA FindPhoneStep ==
  ASSUME IInv, NEW r \in Request, FindPhone(r)
  PROVE  IInv'
<1>1. CASE StatementFails(r)
  BY <1>1, FailingStatement DEF FindPhone, At
<1>2. CASE ~StatementFails(r)
  <2> DEFINE found == \E u \in View(r) : u.phone = req[r].row.phone
  <2>1. /\ At(r, "phone") /\ Ok /\ UNCHANGED <<users, inUse>>
        /\ IF found THEN Write(r, "conflict") ELSE Goto(r, "insert")
    BY <1>2 DEF FindPhone
  <2>2. MovesOn(r) /\ req'[r].open = req[r].open /\ req'[r].pc # "done"
    BY <2>1, Moved DEF At, Write, Goto, IInv, TypeOK
  <2>3. req'[r].answer = "conflict" => found
    BY <2>1, Moved DEF At
  <2>4. found => \E u \in users : u.by # r /\ Conflict(u, req[r].row)
    BY <2>1 DEF View, Conflict, IInv, Core, PendingOK, ViewOK, RowsOf, At
  <2> HIDE DEF found
  <2> QED BY <2>1, <2>2, <2>3, <2>4, StaysInside DEF At
<1> QED BY <1>1, <1>2

LEMMA BeginStep ==
  ASSUME IInv, NEW r \in Request, Begin(r)
  PROVE  IInv'
<1>1. CASE Fault /\ Goto(r, "bind") /\ UNCHANGED inUse
  <2>1. MovesOn(r) /\ req'[r].answer = "none" /\ req'[r].open = req[r].open
    BY <1>1, Moved DEF Begin, At
  <2>2. req'[r].pc = "bind"
    BY <1>1 DEF Goto, IInv, TypeOK
  <2> QED BY <1>1, <2>1, <2>2, StaysInside DEF Begin, At
<1>2. CASE /\ inUse < PoolSize /\ inUse' = inUse + 1 /\ Ok
           /\ req' = [req EXCEPT ![r].pc = "bind", ![r].open = TRUE]
  <2>1. req \in ReqType /\ req[r].pending = None /\ req[r].answer = "none"
    BY DEF IInv, Core, PendingOK, ViewOK, TypeOK, ReqType, Begin, At
  <2>2. /\ MovesOn(r) /\ req'[r].open /\ req'[r].answer = "none"
        /\ req'[r].pc = "bind"
    BY <1>2, <2>1 DEF MovesOn, Others, ReqType, Label
  <2>3. Core'
    BY <1>2, <2>2, MovesOnCore DEF Begin, At, Ok
  <2>4. NoConnectionLeak' /\ inUse' \in 0..PoolSize
    BY <1>2, <2>2, PoolTake DEF MovesOn, IInv, Core, PendingOK, Begin, At
  <2>5. TypeOK'
    BY <1>2, <2>2, <2>4 DEF TypeOK, MovesOn, ReqType, IInv, Begin, Ok
  <2> QED BY <2>3, <2>4, <2>5 DEF IInv
<1> QED BY <1>1, <1>2 DEF Begin

\* The row and the answer that a request takes to its end.
LEMMA Finished ==
  ASSUME IInv, NEW r \in Request, NEW answer \in Answer, Finish(r, answer)
  PROVE  /\ req' \in ReqType /\ Others(r)
         /\ req'[r].pc = "done" /\ req'[r].pending = None /\ ~req'[r].open
         /\ req'[r].row = req[r].row /\ req'[r].view = {}
         /\ req'[r].answer = answer
<1>1. req \in ReqType
  BY DEF IInv, TypeOK, ReqType
<1> QED BY <1>1 DEF Finish, New, ReqType, Others, Label

LEMMA PanicStep ==
  ASSUME IInv, NEW r \in Request, Panic(r)
  PROVE  IInv'
<1>1. /\ req' \in ReqType /\ Others(r)
      /\ req'[r].pc = "done" /\ req'[r].pending = None /\ ~req'[r].open
      /\ req'[r].row = req[r].row /\ req'[r].view = {}
      /\ req'[r].answer = "hollow"
  BY Finished DEF Panic, Answer
<1>2. MovesOn(r)
  BY <1>1 DEF MovesOn
<1>3. Core'
  BY <1>1, <1>2, MovesOnCore DEF Panic, Fault
<1>4. NoConnectionLeak' /\ inUse' \in 0..PoolSize
  BY <1>1, PoolRelease DEF Panic, IInv
<1>5. TypeOK'
  BY <1>1, <1>4, FaultBounds DEF TypeOK, ReqType, IInv, Panic
<1> QED BY <1>3, <1>4, <1>5 DEF IInv

\* The insert: the row conflicts with nothing in the table, and with nothing
\* that is inserted and not yet committed.
LEMMA InsertStep ==
  ASSUME IInv, NEW r \in Request, Insert(r)
  PROVE  IInv'
<1>1. CASE StatementFails(r)
  BY <1>1, FailingStatement DEF Insert, At
<1>2. CASE Refused(r) /\ Ok /\ Write(r, "error") /\ UNCHANGED <<users, inUse>>
  <2>1. MovesOn(r) /\ req'[r].answer = "error" /\ req'[r].open = req[r].open
    BY <1>2, Moved DEF Insert, At
  <2>2. req'[r].pc = "end"
    BY <1>2 DEF Write, IInv, TypeOK
  <2> QED BY <1>2, <2>1, <2>2, StaysInside DEF Insert, At
<1>3. CASE /\ Connected(r) /\ ~Waits(r) /\ ~Refused(r) /\ Ok
           /\ req' = [req EXCEPT ![r].pc = "end", ![r].answer = "ok",
                                 ![r].pending = req[r].row]
           /\ UNCHANGED <<users, inUse>>
  <2> USE DEF IInv, Core
  <2>1. req \in ReqType /\ req[r].row \in User /\ req[r].pc = "insert"
    BY DEF TypeOK, ReqType, PendingOK, Insert, At
  <2>2. /\ req' \in ReqType /\ Others(r)
        /\ req'[r].pc = "end" /\ req'[r].answer = "ok"
        /\ req'[r].pending = req[r].row /\ req'[r].row = req[r].row
        /\ req'[r].view = req[r].view /\ req'[r].open = req[r].open
        /\ users' = users /\ faults' = faults
    BY <1>3, <2>1 DEF ReqType, Others, Label, Answer, Ok
  <2>3. PendingOK'
    BY <2>1, <2>2 DEF PendingOK, RowsOf, Others
  <2>4. NoConflict'
    <3>1. \A u \in users : ~Conflict(u, req[r].row)
      BY <1>3 DEF Refused
    <3>2. \A q \in Request \ {r} : req[q].pending # None =>
            /\ ~Conflict(req[q].pending, req[r].row)
            /\ ~Conflict(req[r].row, req[q].pending)
      BY <1>3 DEF Waits, Conflict
    <3> QED BY <2>2, <3>1, <3>2 DEF NoConflict, Others
  <2>5. ViewOK'
    BY <1>3, <2>1, <2>2 DEF ViewOK, Others
  <2>6. RefusalsOK' /\ UniqueUsers'
    BY <1>3, <2>1, <2>2 DEF RefusalsOK, UniqueUsers, Others
  <2>7. OutcomeOK'
    BY <2>1, <2>2, NoneAssumption DEF OutcomeOK, RowsOf, Others
  <2>8. NoConnectionLeak' /\ inUse' \in 0..PoolSize
    BY <1>3, <2>2, PoolSame DEF Others
  <2>9. TypeOK'
    BY <1>3, <2>2 DEF TypeOK, ReqType, Ok
  <2> QED BY <2>3, <2>4, <2>5, <2>6, <2>7, <2>8, <2>9
<1> QED BY <1>1, <1>2, <1>3 DEF Insert

-----------------------------------------------------------------------------
(* The first step of a request, the end of a transaction, and a crash *)

LEMMA Numbered ==
  ASSUME NEW r \in Request, req \in ReqType, NEW row \in User, NEW label \in Label,
         req' = [req EXCEPT ![r].pc = label, ![r].row = row]
  PROVE  req' \in ReqType
<1> DEFINE Rows == User \cup {None}
           Views == SUBSET User
<1>1. /\ req \in [Request -> [pc : Label, row : Rows, view : Views, pending : Rows,
                              open : BOOLEAN, answer : Answer]]
      /\ row \in Rows
  BY DEF ReqType
<1> HIDE DEF Rows, Views
<1>2. req' \in [Request -> [pc : Label, row : Rows, view : Views, pending : Rows,
                            open : BOOLEAN, answer : Answer]]
  BY <1>1
<1> QED BY <1>2 DEF ReqType, Rows, Views

LEMMA ArriveStep ==
  ASSUME IInv, NEW r \in Request, Arrive(r)
  PROVE  IInv'
<1> USE DEF IInv, Core
<1>1. PICK e \in Email, p \in Phone :
        req' = [req EXCEPT ![r].pc = "begin",
                           ![r].row = [email |-> e, phone |-> p, by |-> r]]
  BY DEF Arrive
<1>2. [email |-> e, phone |-> p, by |-> r] \in User
  BY DEF User
<1>3. PICK row \in User :
        /\ row.by = r
        /\ req' = [req EXCEPT ![r].pc = "begin", ![r].row = row]
  BY <1>1, <1>2
<1>4. /\ req \in ReqType /\ req[r].pc = "new" /\ req[r].pending = None
      /\ req[r].answer = "none" /\ ~req[r].open /\ RowsOf(r) = {}
  BY DEF TypeOK, ReqType, PendingOK, ViewOK, Arrive, At
<1>5. /\ req' \in ReqType /\ Others(r)
      /\ req'[r].pc = "begin" /\ req'[r].row \in User /\ req'[r].row.by = r
      /\ req'[r].pending = None /\ req'[r].answer = "none" /\ ~req'[r].open
      /\ req'[r].view = req[r].view
      /\ users' = users /\ inUse' = inUse /\ faults' = faults
  <2>1. req' \in ReqType
    BY <1>3, <1>4, Numbered DEF Label
  <2>2. /\ Others(r)
        /\ req'[r].pc = "begin" /\ req'[r].row \in User /\ req'[r].row.by = r
        /\ req'[r].pending = None /\ req'[r].answer = "none" /\ ~req'[r].open
        /\ req'[r].view = req[r].view
    BY <1>3, <1>4 DEF ReqType, Others
  <2> QED BY <2>1, <2>2 DEF Arrive
<1>6. PendingOK'
  BY <1>4, <1>5 DEF PendingOK, RowsOf, Others
<1>7. NoConflict' /\ ViewOK' /\ RefusalsOK' /\ UniqueUsers'
  BY <1>4, <1>5 DEF NoConflict, ViewOK, RefusalsOK, UniqueUsers, Others
<1>8. OutcomeOK'
  BY <1>4, <1>5 DEF OutcomeOK, RowsOf, Others
<1>9. NoConnectionLeak' /\ inUse' \in 0..PoolSize
  <2>1. \A q \in Request : req'[q].open = req[q].open
    BY <1>4, <1>5 DEF Others, ReqType
  <2> QED BY <1>5, <2>1, PoolSame
<1>10. TypeOK'
  BY <1>5 DEF TypeOK, ReqType
<1> QED BY <1>6, <1>7, <1>8, <1>9, <1>10

\* The table grows by the row of r, or by nothing; a row is lost only in a
\* commit that failed.
LEMMA EndTable ==
  ASSUME IInv, NEW r \in Request, End(r)
  PROVE  /\ req[r].pc = "end" /\ (Fault \/ Ok)
         /\ users' \in {users, users \cup Pending(r)}
         /\ Ok => users' = users \cup Pending(r)
<1>1. ~Commits(r) => Pending(r) = {}
  BY DEF IInv, Core, PendingOK, Commits, Pending
<1>2. req[r].pc = "end"
  BY DEF End, At
<1>3. CASE Commits(r)
  <2>1. ~(Fault /\ Ok)
    BY DEF Fault, Ok, IInv, TypeOK
  <2> QED BY <1>2, <1>3, <2>1 DEF End
<1>4. CASE ~Commits(r)
  <2>1. Ok /\ users' = users
    BY <1>4 DEF End
  <2>2. users = users \cup Pending(r)
    BY <1>1, <1>4
  <2> QED BY <1>2, <2>1, <2>2
<1> QED BY <1>3, <1>4

LEMMA EndStep ==
  ASSUME IInv, NEW r \in Request, End(r)
  PROVE  IInv'
<1> USE DEF IInv, Core
<1>1. /\ req[r].pc = "end" /\ (Fault \/ Ok)
      /\ users' \in {users, users \cup Pending(r)}
      /\ Ok => users' = users \cup Pending(r)
  BY EndTable
<1>2. req \in ReqType /\ req[r].answer \in Answer
  BY DEF TypeOK, ReqType
<1>3. /\ req' \in ReqType /\ Others(r)
      /\ req'[r].pc = "done" /\ req'[r].pending = None /\ ~req'[r].open
      /\ req'[r].row = req[r].row /\ req'[r].view = {}
      /\ req'[r].answer = req[r].answer
  BY <1>2, Finished DEF End
<1>4. \A u \in Pending(r) : u = req[r].pending /\ u \in User /\ u.by = r /\ u = req[r].row
  BY <1>1 DEF Pending, PendingOK
<1>5. users \subseteq users' /\ users' \subseteq users \cup Pending(r)
  BY <1>1
<1>6. PendingOK'
  BY <1>1, <1>3, <1>4, <1>5 DEF PendingOK, RowsOf, Others
<1>7. NoConflict'
  BY <1>3, <1>4, <1>5 DEF NoConflict, Others, Pending, Conflict
<1>8. ViewOK' /\ RefusalsOK'
  BY <1>1, <1>3, <1>5 DEF ViewOK, RefusalsOK, Others
<1>9. OutcomeOK'
  <2> SUFFICES ASSUME faults' = 0 PROVE OutcomeOK'
    BY DEF OutcomeOK
  <2>1. Ok /\ faults = 0 /\ users' = users \cup Pending(r)
    BY <1>1, FaultBounds DEF Ok
  <2>2. req[r].answer = "ok" <=> req[r].pending # None
    BY <1>1, <2>1 DEF OutcomeOK
  <2>3. (RowsOf(r))' # {} <=> req[r].pending # None
    BY <1>1, <1>4, <2>1 DEF RowsOf, Pending, PendingOK
  <2>4. \A q \in Request \ {r} : (RowsOf(q))' = RowsOf(q)
    BY <1>4, <2>1 DEF RowsOf
  <2> QED BY <1>3, <2>1, <2>2, <2>3, <2>4 DEF OutcomeOK, Others
<1>10. UniqueUsers'
  BY <1>4, <1>5 DEF UniqueUsers, NoConflict, Pending, Conflict
<1>11. NoConnectionLeak' /\ inUse' \in 0..PoolSize
  BY <1>3, PoolRelease DEF End
<1>12. TypeOK'
  BY <1>1, <1>3, <1>4, <1>11, FaultBounds DEF TypeOK, ReqType
<1> QED BY <1>6, <1>7, <1>8, <1>9, <1>10, <1>11, <1>12

LEMMA CrashStep ==
  ASSUME IInv, Crash
  PROVE  IInv'
<1> USE DEF IInv, Core
<1>1. req \in ReqType /\ users' = users /\ inUse' = 0
  BY DEF TypeOK, ReqType, Crash
<1>2. req' \in ReqType
  BY <1>1 DEF Crash, New, ReqType, Label, Answer
<1>3. faults' \in 0..MaxFaults /\ faults' # 0
  BY FaultBounds DEF Crash
<1>4. \A r \in Request :
        \/ req[r].pc \in {"new", "done"} /\ req'[r] = req[r]
        \/ /\ req[r].pc \notin {"new", "done"} /\ req'[r].pc = "done"
           /\ req'[r].row = req[r].row /\ req'[r].view = {}
           /\ req'[r].pending = None /\ ~req'[r].open /\ req'[r].answer = "lost"
  BY DEF Crash, New
<1>5. \A r \in Request : req'[r].pending = None /\ ~req'[r].open
  BY <1>4 DEF PendingOK
<1>6. PendingOK'
  BY <1>1, <1>4, <1>5 DEF PendingOK, RowsOf
<1>7. NoConflict' /\ OutcomeOK'
  BY <1>3, <1>5 DEF NoConflict, OutcomeOK
<1>8. ViewOK' /\ RefusalsOK'
  BY <1>1, <1>4 DEF ViewOK, RefusalsOK
<1>9. UniqueUsers'
  BY <1>1 DEF UniqueUsers
<1>10. Holders' = {}
  BY <1>5 DEF Holders
<1>11. NoConnectionLeak'
  BY <1>1, <1>10, FS_EmptySet, LeakOfHolders
<1>12. TypeOK'
  BY <1>1, <1>2, <1>3, PoolAssumption DEF TypeOK, ReqType
<1> QED BY <1>6, <1>7, <1>8, <1>9, <1>11, <1>12

-----------------------------------------------------------------------------
(* The invariant and what follows from it *)

LEMMA InitIInv == Init => IInv
<1> SUFFICES ASSUME Init PROVE IInv
  OBVIOUS
<1>1. req \in ReqType
  BY DEF Init, New, ReqType, Label, Answer
<1>2. \A r \in Request : req[r] = New
  BY DEF Init
<1>3. TypeOK
  BY <1>1, PoolAssumption, FaultsAssumption DEF TypeOK, ReqType, Init
<1>4. Holders = {}
  BY <1>2 DEF Holders, New
<1>5. NoConnectionLeak
  BY <1>4, FS_EmptySet, LeakOfHolders DEF Init
<1>6. Core
  BY <1>2 DEF Core, PendingOK, NoConflict, ViewOK, RefusalsOK, OutcomeOK,
              UniqueUsers, RowsOf, New, Init
<1> QED BY <1>3, <1>5, <1>6 DEF IInv

LEMMA StutterStep ==
  ASSUME IInv, UNCHANGED vars
  PROVE  IInv'
BY DEF vars, IInv, TypeOK, NoConnectionLeak, Core, PendingOK, NoConflict, ViewOK,
       RefusalsOK, OutcomeOK, UniqueUsers, RowsOf

LEMMA NextIInv == IInv /\ [Next]_vars => IInv'
<1> SUFFICES ASSUME IInv, [Next]_vars PROVE IInv'
  OBVIOUS
<1>1. ASSUME NEW r \in Request, Arrive(r) \/ Serve(r) \/ Panic(r)
      PROVE  IInv'
  BY <1>1, ArriveStep, BeginStep, BindStep, FindEmailStep, FindPhoneStep,
     InsertStep, EndStep, PanicStep DEF Serve
<1> QED BY <1>1, CrashStep, StutterStep DEF Next, AllDone

\* IInv holds in every state the middleware and the handlers reach.
THEOREM Invariance == Spec => []IInv
<1>1. Init => IInv
  BY InitIInv
<1>2. IInv /\ [Next]_vars => IInv'
  BY NextIInv
<1> QED BY <1>1, <1>2, PTL DEF Spec

\* Every variable keeps its type, the pool and the failures their bounds.
THEOREM TypeCorrect == Spec => []TypeOK
<1>1. IInv => TypeOK
  BY DEF IInv
<1> QED BY <1>1, Invariance, PTL

\* The unique keys hold whatever the interleaving of checks and inserts
\* (Service.CreateUser, repository.Create).
THEOREM Unique == Spec => []UniqueUsers
<1>1. IInv => UniqueUsers
  BY DEF IInv, Core
<1> QED BY <1>1, Invariance, PTL

\* A 409 of Service.CreateUser names a committed account of another request.
THEOREM Conflicts == Spec => []ConflictIsReal
<1>1. IInv => ConflictIsReal
  BY DEF IInv, Core, RefusalsOK, ConflictIsReal, Answered
<1> QED BY <1>1, Invariance, PTL

\* Without failures 200 is answered exactly for the rows that
\* DBTransactionHandle committed.
THEOREM Outcomes == Spec => []AnswerTellsOutcome
<1>1. IInv => AnswerTellsOutcome
  BY DEF IInv, Core, OutcomeOK, AnswerTellsOutcome, Answered, At
<1> QED BY <1>1, Invariance, PTL

\* DBTransactionHandle returns every connection on every path, a panic included.
THEOREM Connections == Spec => []NoConnectionLeak
<1>1. IInv => NoConnectionLeak
  BY DEF IInv
<1> QED BY <1>1, Invariance, PTL

-----------------------------------------------------------------------------
(* Implementation of Accounts *)

LEMMA OthersKeepTable ==
  ASSUME NEW r \in Request, Arrive(r) \/ Serve(r) \/ Panic(r), ~End(r)
  PROVE  users' = users
BY DEF Arrive, Serve, Begin, Bind, FindEmail, FindPhone, Insert, StatementFails, Panic

LEMMA EndAdds ==
  ASSUME IInv, NEW r \in Request, End(r)
  PROVE  [A!Next]_users
<1>1. users' \in {users, users \cup Pending(r)}
  BY EndTable
<1>2. CASE req[r].pending = None
  <2>1. users \cup Pending(r) = users
    BY <1>2 DEF Pending
  <2> QED BY <1>1, <2>1
<1>3. CASE req[r].pending # None
  <2>1. req[r].pending \in User
    BY <1>3 DEF IInv, TypeOK
  <2>2. \A u \in users : ~Conflict(u, req[r].pending)
    BY <1>3 DEF IInv, Core, NoConflict
  <2>3. Pending(r) = {req[r].pending}
    BY <1>3 DEF Pending
  <2> QED BY <1>1, <2>1, <2>2, <2>3 DEF A!Next, A!Add
<1> QED BY <1>2, <1>3

\* Every end of a transaction, and nothing else, adds an account, and none
\* that conflicts: the middleware, the checks and the unique keys together
\* implement the table that Accounts promises.
THEOREM Refines == Spec => ImplementsAccounts
<1>1. Init => A!Init
  BY DEF Init, A!Init
<1>2. IInv /\ [Next]_vars => [A!Next]_users
  <2> SUFFICES ASSUME IInv, [Next]_vars PROVE [A!Next]_users
    OBVIOUS
  <2>1. ASSUME NEW r \in Request, Arrive(r) \/ Serve(r) \/ Panic(r)
        PROVE  [A!Next]_users
    BY <2>1, OthersKeepTable, EndAdds
  <2> QED BY <2>1 DEF Next, Crash, AllDone, vars
<1> QED BY <1>1, <1>2, Invariance, PTL DEF Spec, ImplementsAccounts, A!Spec

=============================================================================

----------------------------- MODULE Directory -----------------------------
(***************************************************************************)
(* Reading users: a client that walks the pages of GET /users while rows   *)
(* are added (api/admin/user, internal/utils/pagination.go).               *)
(*                                                                         *)
(* created_at is stamped before the insert and has whole seconds, so a row *)
(* may become visible below rows that are newer, and rows of one second    *)
(* have no order.  A page is two statements outside a transaction, Find    *)
(* and Count.                                                              *)
(*                                                                         *)
(* X_Y is a faulty form of the operator X that no specification uses: it   *)
(* serves to confirm that a property notices the fault.                    *)
(***************************************************************************)
EXTENDS Integers, FiniteSets

CONSTANTS
  Row,       \* the rows that POST /users may add
  Start,     \* values of page to begin with
  Size,      \* values of page_size
  MaxPage, MaxTime, MaxFaults  \* bounds: pages read, the clock, failures

ASSUME StartAssumption == Start \subseteq Int /\ Size \subseteq Int
ASSUME BoundsAssumption == {MaxPage, MaxTime, MaxFaults} \subseteq Nat
ASSUME RowAssumption == IsFiniteSet(Row)

VARIABLES
  now,    \* seconds
  row,    \* row[r]: whether r is in the table, and its created_at
  walk,   \* the client's walk: its request, the page at hand and the answer
  seen,   \* rows the walk was shown
  due,    \* rows that were visible when it began
  faults

vars == <<now, row, walk, seen, due, faults>>

NoWalk == [at |-> "idle", page |-> 1, size |-> 1, found |-> {}, count |-> 0]

\* Rows a statement outside a transaction sees.
Visible_Dirty == {r \in Row : row[r].is # "absent"}
Visible == {r \in Row : row[r].is = "committed"}

TypeOK ==
  /\ now \in 0..MaxTime
  /\ row \in [Row -> [is : {"absent", "pending", "committed"}, at : 0..MaxTime]]
  /\ walk \in [at : {"idle", "find", "search", "count", "page", "end", "failed", "bad"},
               page : Int, size : Size \cup {1},
               found : SUBSET Row, count : 0..Cardinality(Row)]
  /\ seen \in SUBSET Row /\ due \in SUBSET Row
  /\ walk.page \in Start \cup {1} \/ walk.page <= MaxPage
  /\ walk.found \cup due \subseteq Visible
  /\ faults \in 0..MaxFaults

Init ==
  /\ now = 0
  /\ row = [r \in Row |-> [is |-> "absent", at |-> 0]]
  /\ walk = NoWalk
  /\ seen = {} /\ due = {}
  /\ faults = 0

-----------------------------------------------------------------------------
Fault == faults < MaxFaults /\ faults' = faults + 1
Ok == UNCHANGED faults

(* The writers: transactions of POST /users. *)

Create(r) ==
  /\ row[r].is = "absent"
  /\ row' = [row EXCEPT ![r] = [is |-> "pending", at |-> now]]
  /\ UNCHANGED <<now, walk, seen, due, faults>>

End(r) ==
  /\ row[r].is = "pending"
  /\ \E is \in {"absent", "committed"} : row' = [row EXCEPT ![r].is = is]
  /\ UNCHANGED <<now, walk, seen, due, faults>>

-----------------------------------------------------------------------------
(* The readers *)

Sorted_Unordered(s) == TRUE
\* Order("created_at desc")
Sorted(s) == \A i, j \in DOMAIN s : i < j => row[s[i]].at >= row[s[j]].at

\* The results MySQL may give.
Listings ==
  LET n == Cardinality(Visible) IN
  {s \in [1..n -> Visible] : (\A i, j \in 1..n : s[i] = s[j] => i = j) /\ Sorted(s)}

\* Pagination.Build
Offset(page, size) == (page - 1) * size

\* gorm leaves out a negative limit and an offset that is not positive.
\* MySQL has no OFFSET without LIMIT.
Rejected == walk.size < 0 /\ Offset(walk.page, walk.size) > 0
Slice(s) ==
  {s[i] : i \in {i \in DOMAIN s :
    LET k == i - (IF Offset(walk.page, walk.size) > 0 THEN Offset(walk.page, walk.size) ELSE 0)
    IN  k > 0 /\ (walk.size < 0 \/ k <= walk.size)}}

\* BindQuery: a query that does not bind is answered 400, after which Build
\* panics on the missing pagination.
Ask ==
  /\ walk.at = "idle"
  /\ \/ walk' = [walk EXCEPT !.at = "bad"]
     \/ \E at \in {"find", "search"}, page \in Start, size \in Size :
          walk' = [walk EXCEPT !.at = at, !.page = page, !.size = size]
  /\ due' = Visible
  /\ UNCHANGED <<now, row, seen, faults>>

\* Offset(-1).Limit(-1): a LIMIT on the one row of COUNT(*) would drop it.
Total_OnePage ==
  IF walk.size = 0 \/ Offset(walk.page, walk.size) > 0 THEN 0 ELSE Cardinality(Visible)
Total == Cardinality(Visible)

\* With a keyword the statement asks for users.name, a column that the table
\* does not have: it fails and is answered 500.
Search ==
  /\ walk.at = "search"
  /\ walk' = [walk EXCEPT !.at = "failed"]
  /\ UNCHANGED <<now, row, seen, due, faults>>

\* GetAllUsers of the repository: Find, then Count on the same conditions.
Find ==
  /\ walk.at = "find"
  /\ \/ /\ ~Rejected /\ Ok
        /\ \E s \in Listings : walk' = [walk EXCEPT !.at = "count", !.found = Slice(s)]
     \/ Rejected /\ Ok /\ walk' = [walk EXCEPT !.at = "failed"]
     \/ Fault /\ walk' = [walk EXCEPT !.at = "failed"]
  /\ UNCHANGED <<now, row, seen, due>>

Count ==
  /\ walk.at = "count"
  /\ \/ walk' = [walk EXCEPT !.at = "page", !.count = Total] /\ Ok
     \/ walk' = [walk EXCEPT !.at = "failed"] /\ Fault
  /\ UNCHANGED <<now, row, seen, due>>

\* The answer; the client asks for the next page unless this one is short.
Deliver ==
  /\ walk.at = "page"
  /\ seen' = seen \cup walk.found
  /\ walk' = IF Cardinality(walk.found) < walk.size \/ walk.page >= MaxPage
             THEN [walk EXCEPT !.at = "end"]
             ELSE [walk EXCEPT !.at = "find", !.page = walk.page + 1]
  /\ Ok /\ UNCHANGED <<now, row, due>>

Tick == now < MaxTime /\ now' = now + 1 /\ UNCHANGED <<row, walk, seen, due, faults>>

Next ==
  \/ Ask \/ Search \/ Find \/ Count \/ Deliver \/ Tick
  \/ \E r \in Row : Create(r) \/ End(r)

Spec == Init /\ [][Next]_vars

-----------------------------------------------------------------------------
(* Properties *)

Alone(r) == \A q \in Row \ {r} : row[q].is # "absent" => row[q].at # row[r].at

\* A walk that reached a short page has been shown every row that was there
\* when it began, although rows are added between its pages and may enter
\* anywhere; rows that share their second are not promised.
NothingMissed ==
  walk.at = "end" /\ Cardinality(walk.found) < walk.size =>
    \A r \in due : Alone(r) => r \in seen

\* The count covers the page it comes with and the pages before it, although
\* rows are added between the two statements.
CountCoversPage ==
  walk.at = "page" /\ walk.found # {} =>
    walk.count >= Cardinality(walk.found)
                  + (IF walk.size > 0 /\ walk.page > 1 THEN (walk.page - 1) * walk.size ELSE 0)

=============================================================================

----------------------------- MODULE RateLimit -----------------------------
(***************************************************************************)
(* The rate-limit middleware of one route                                  *)
(* (internal/middlewares/rate_limit.go) over the in-memory store of the    *)
(* limiter library: one counter per key, which the request that finds it   *)
(* expired starts again.  Reading and counting is one step of the library, *)
(* under the counter's lock.  The library's cleaner deletes counters whose *)
(* window is over: that is no step here, as Counted treats both alike.     *)
(*                                                                         *)
(* The counters belong to a path, not to a method: the GET of a path takes *)
(* from the same Limit as its POST.  passed and the bound on it are about  *)
(* whatever is let through; Pipeline counts the POSTs of /users only.      *)
(*                                                                         *)
(* X_Y is a faulty form of the operator X that no specification uses: it   *)
(* serves to confirm that a property notices the fault.                    *)
(***************************************************************************)
EXTENDS Integers, FiniteSets

CONSTANTS
  Client,   \* keys of the limiter
  Limit,    \* requests per window
  Period,   \* length of a window, in ticks
  MaxNow,   \* bound: the last tick of the model's clock
  MaxStarts \* bound: requests that arrive

VARIABLES
  now,      \* wall clock
  counter,  \* the store's counters
  passed    \* history: requests let through since the process started

\* A key the store does not hold counts like one whose window is over.
Absent == [count |-> 0, expires |-> -1]

LimitTypeOK ==
  /\ now \in 0..MaxNow
  /\ counter \in [Client -> [count : 0..MaxStarts, expires : -1..(MaxNow + Period)]]
  /\ passed \in [Client -> SUBSET [id : 1..MaxStarts, at : 0..MaxNow]]

LimitInit ==
  /\ now = 0
  /\ counter = [c \in Client |-> Absent]
  /\ passed = [c \in Client |-> {}]

Counted_EndsEarly(c) ==
  IF now >= counter[c].expires
  THEN [count |-> 1, expires |-> now + Period]
  ELSE [counter[c] EXCEPT !.count = @ + 1]

Counted_Twice(c) ==
  IF now > counter[c].expires
  THEN [count |-> 1, expires |-> now + Period]
  ELSE [counter[c] EXCEPT !.count = @ + 2]

\* instance.Get: the count goes up, in a window of its own if the last is over.
Counted(c) ==
  IF now > counter[c].expires
  THEN [count |-> 1, expires |-> now + Period]
  ELSE [counter[c] EXCEPT !.count = @ + 1]

Reached(c) == Counted(c).count > Limit

Admit(c, id) ==
  /\ ~Reached(c)
  /\ counter' = [counter EXCEPT ![c] = Counted(c)]
  /\ passed' = [passed EXCEPT ![c] = @ \cup {[id |-> id, at |-> now]}]

Reject(c) ==
  /\ Reached(c)
  /\ counter' = [counter EXCEPT ![c] = Counted(c)]
  /\ UNCHANGED passed

\* The counters are in the memory of the process.
Restart ==
  /\ counter' = [c \in Client |-> Absent]
  /\ passed' = [c \in Client |-> {}]

-----------------------------------------------------------------------------
\* Windows start with a request and not on the minute, so two of them can
\* meet inside one period, but never three, and of the first such a period
\* misses at least the request that opened it: a process lets through fewer
\* than twice the limit of one key within any period.
SlidingLimit ==
  \A c \in Client, t \in 0..MaxNow :
    Cardinality({p \in passed[c] : p.at \in t..(t + Period)}) < 2 * Limit

=============================================================================

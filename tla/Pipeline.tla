------------------------------ MODULE Pipeline ------------------------------
(***************************************************************************)
(* POST /users through its whole chain: Idempotency, the rate limiter, the *)
(* JWT middleware and the transaction around the handler, in the order in  *)
(* which internal/router/router.go and api/admin/user/route.go mount them. *)
(*                                                                         *)
(* Idempotency and RateLimit give the steps of those two middlewares; what *)
(* the first calls its handler is here the rest of the chain.  The limiter *)
(* runs before the token is looked at, so its key is the client's address. *)
(*                                                                         *)
(* X_Y is a faulty form of the operator X that no specification uses: it   *)
(* serves to confirm that a property notices the fault.                    *)
(***************************************************************************)
EXTENDS Integers, FiniteSets

CONSTANTS
  Key, Request, None, Ttl, MaxNow, MaxStarts, MaxFaults,
  Sent,    \* keys that requests carry, None for no key
  Client,  \* client addresses
  User,    \* accounts whose access tokens are presented
  Limit, Period

ASSUME TtlAssumption == Ttl \in Nat \ {0}
ASSUME LimitAssumption == Limit \in Nat \ {0} /\ Period \in Nat
ASSUME BoundsAssumption == {MaxNow, MaxStarts, MaxFaults} \subseteq Nat
ASSUME NoneAssumption == None \notin Key \cup Client \cup User
ASSUME SentAssumption == Sent \subseteq Key \cup {None}
ASSUME RequestAssumption == IsFiniteSet(Request)

VARIABLES
  now, backend, store, req, produced, starts, faults,
  counter, passed,
  chain,     \* chain[r]: where r is behind Idempotency, and who sent it
  sender,    \* history: the account whose token the n-th request carried
  committed, \* requests whose transaction is committed
  mishaps    \* panics and failed commits so far

\* Clients stay: a disconnection only reaches the steps of Idempotency, the
\* limiter's store is memory and the transaction has no context.
I == INSTANCE Idempotency WITH Hangups <- FALSE
R == INSTANCE RateLimit

ASSUME ResponseAssumption == None \notin I!Response /\ None \notin I!Record

idemVars == <<backend, store, req, produced, starts>>
limiterVars == <<counter, passed>>
chainVars == <<chain, sender, committed, mishaps>>
vars == <<now, faults, idemVars, limiterVars, chainVars>>

Outside == [pc |-> "limit", client |-> None, user |-> None]

TypeOK ==
  /\ I!TypeOK
  /\ R!LimitTypeOK
  /\ chain \in [Request -> [pc : {"limit", "auth", "work", "commit"},
                            client : Client \cup {None}, user : User \cup {None}]]
  /\ sender \in [1..MaxStarts -> User \cup {None}]
  /\ committed \in SUBSET (1..MaxStarts)
  /\ mishaps \in 0..MaxFaults

Init ==
  /\ I!Init
  /\ R!LimitInit
  /\ chain = [r \in Request |-> Outside]
  /\ sender = [n \in 1..MaxStarts |-> None]
  /\ committed = {}
  /\ mishaps = 0

At(r, label) == I!At(r, "handler") /\ chain[r].pc = label

Goto(r, label) == chain' = [chain EXCEPT ![r].pc = label]

\* The chain returns to Idempotency with an answer of this class.
Respond(r, class) ==
  /\ I!Handler(r)
  /\ req'[r].response.class = class

\* MaxFaults bounds the failures of every kind together.
Bounded == faults' + mishaps <= MaxFaults

Ok == UNCHANGED mishaps
Mishap == faults + mishaps < MaxFaults /\ mishaps' = mishaps + 1

\* The chain goes on inside Idempotency's handler.
Inside == UNCHANGED <<now, faults, idemVars>>

-----------------------------------------------------------------------------
\* A request from an address, with the valid token of an account or without.
Arrive(r, k, c, u) ==
  /\ I!Arrive(r, k)
  /\ chain' = [chain EXCEPT ![r] = [pc |-> "limit", client |-> c, user |-> u]]
  /\ sender' = [sender EXCEPT ![starts'] = u]
  /\ UNCHANGED <<limiterVars, committed, mishaps>>

\* HandleRateLimit: count, and answer 429 when the limit is exceeded.
RateLimit(r) ==
  LET c == chain[r].client IN
  /\ At(r, "limit")
  /\ \/ R!Admit(c, req[r].id) /\ Goto(r, "auth") /\ Inside
     \/ R!Reject(c) /\ Respond(r, "refused") /\ UNCHANGED chain
  /\ Ok /\ UNCHANGED <<sender, committed>>

\* JWTAuthMiddleWare: without a valid access token the answer is 401.
Authenticate(r) ==
  /\ At(r, "auth")
  /\ \/ chain[r].user # None /\ Goto(r, "work") /\ Inside
     \/ chain[r].user = None /\ Respond(r, "refused") /\ UNCHANGED chain
  /\ Ok /\ UNCHANGED <<limiterVars, sender, committed>>

Work_AnswerFirst(r) ==
  /\ At(r, "work")
  /\ Respond(r, "success") /\ Ok /\ UNCHANGED chain
  /\ UNCHANGED <<limiterVars, sender, committed>>

\* DBTransactionHandle up to the end of the handler: a 200 is committed next,
\* a 4xx or a 5xx is rolled back, a panic is rolled back and leaves a 200
\* that nobody wrote.
Work(r) ==
  /\ At(r, "work")
  /\ \/ Goto(r, "commit") /\ Ok /\ Inside
     \/ \E class \in {"refused", "failed"} : Respond(r, class) /\ Ok /\ UNCHANGED chain
     \/ Respond(r, "success") /\ Mishap /\ UNCHANGED chain
  /\ UNCHANGED <<limiterVars, sender, committed>>

\* A failed commit is only logged; the 200 stands.
Commit(r) ==
  /\ At(r, "commit")
  /\ \/ Ok /\ committed' = committed \cup {req[r].id}
     \/ Mishap /\ committed' \in {committed, committed \cup {req[r].id}}
  /\ Respond(r, "success")
  /\ UNCHANGED <<limiterVars, chain, sender>>

\* The steps of Idempotency around the chain.
Replay(r) == I!Get(r) /\ Bounded /\ UNCHANGED <<limiterVars, chainVars>>
Record(r) == I!Set(r) /\ Bounded /\ UNCHANGED <<limiterVars, chainVars>>
Send(r) ==
  /\ I!Send(r)
  /\ chain' = [chain EXCEPT ![r] = Outside]
  /\ UNCHANGED <<limiterVars, sender, committed, mishaps>>

Tick == I!Tick /\ UNCHANGED <<limiterVars, chainVars>>

\* A restart: the limiter forgets, open transactions are rolled back.
Crash ==
  /\ I!Crash /\ Bounded
  /\ R!Restart
  /\ chain' = [r \in Request |-> Outside]
  /\ UNCHANGED <<sender, committed, mishaps>>

Serve(r) ==
  \/ Replay(r) \/ RateLimit(r) \/ Authenticate(r) \/ Work(r) \/ Commit(r)
  \/ Record(r) \/ Send(r)

Next ==
  \/ \E r \in Request :
       \/ \E k \in Sent, c \in Client, u \in User \cup {None} :
            Arrive(r, k, c, u)
       \/ Serve(r)
  \/ Tick
  \/ Crash

Spec == Init /\ [][Next]_vars

-----------------------------------------------------------------------------
(* Properties *)

\* Without panics and failed commits, no client is told, and no record will
\* tell, of an account that is not committed: the transaction ends inside
\* the chain whose answer is recorded, whatever crashes in between.
SuccessIsCommitted ==
  mishaps = 0 =>
    /\ \A k \in Key :
         store[k] # None /\ store[k].response.class = "success" =>
           store[k].response.by \in committed
    /\ \A r \in Request :
         I!At(r, "send") /\ req[r].response.class = "success" =>
           req[r].response.by \in committed

\* A client address is let through to the JWT check fewer than twice its
\* limit of times within any period, wherever in that period one window ends
\* and the next begins.
SlidingLimit == R!SlidingLimit

-----------------------------------------------------------------------------
(* What the documentation says and the code does not do *)

\* rate_limit.go:40-41: authenticated requests are keyed by the JWT user id,
\* so a single user can't dodge limits by rotating IPs.  So at one instant,
\* which lies in one window, an account has at most the limit let through.
UserIsLimited ==
  \A u \in User, t \in 0..MaxNow :
    Cardinality({p \in UNION {passed[c] : c \in Client} :
                   p.at = t /\ sender[p.id] = u}) <= Limit

=============================================================================

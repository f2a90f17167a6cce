----------------------------- MODULE Idempotency -----------------------------
(***************************************************************************)
(* The global Idempotency middleware over its store                        *)
(* (internal/middlewares/idempotency.go, internal/idempotency/).           *)
(*                                                                         *)
(* Requests are goroutines; the lookup, the handler behind c.Next() and    *)
(* the write of the record are separate steps with nothing between them    *)
(* that keeps a second request with the same key out.  Store calls carry   *)
(* the request's context, which net/http cancels when the client goes      *)
(* away; the handler's own statements do not.                              *)
(*                                                                         *)
(* X_Y is a faulty form of the operator X that no specification uses: it   *)
(* serves to confirm that a property notices the fault.                    *)
(***************************************************************************)
EXTENDS Integers, FiniteSets

CONSTANTS
  Key,        \* (route, Idempotency-Key) pairs of POST requests
  Request,    \* goroutines serving a request
  None,       \* no key, no record, no response
  Ttl,        \* IDEMPOTENCY_TTL, in ticks of the clock
  MaxNow,     \* bound: the last tick of the model's clock
  MaxStarts,  \* bound: requests that arrive
  MaxFaults,  \* bound: failed store calls and crashes
  Hangups     \* whether clients may disconnect while they wait

ASSUME TtlAssumption == Ttl \in Nat \ {0}
ASSUME BoundsAssumption ==
  MaxNow \in Nat /\ MaxStarts \in Nat /\ MaxFaults \in Nat /\ Hangups \in BOOLEAN
VARIABLES
  now,      \* wall clock
  backend,  \* the store NewStore selected at startup
  store,    \* store[k]: the record kept for k, expired ones included
  req,      \* req[r]: where request r is, and its local variables
  produced, \* history: responses the handler produced for each key
  starts,   \* requests so far; numbers them
  faults    \* failures so far

vars == <<now, backend, store, req, produced, starts, faults>>

\* The implementations of Store; "none" is noopStore.
\* The implementations of Store; "none" is noopStore.
Backend == {"mysql", "redis", "none"}

\* What the handler chain behind the middleware answers: a 2xx, a 4xx, a 5xx.
Class == {"success", "refused", "failed"}

Response == [by : 1..MaxStarts, class : Class]
Record == [response : Response, expires : 0..(MaxNow + Ttl)]

ASSUME NoneAssumption ==
  None \notin Key /\ None \notin Response /\ None \notin Record

Label == {"idle", "get", "handler", "set", "send"}

Idle == [pc |-> "idle", key |-> None, id |-> 0, response |-> None,
         connected |-> TRUE, seen |-> None, replayed |-> FALSE]

TypeOK ==
  /\ now \in 0..MaxNow
  /\ backend \in Backend
  /\ store \in [Key -> Record \cup {None}]
  /\ req \in [Request -> [pc : Label, key : Key \cup {None},
                          id : 0..MaxStarts, response : Response \cup {None},
                          connected : BOOLEAN, seen : Record \cup {None},
                          replayed : BOOLEAN]]
  /\ produced \in [Key -> SUBSET Response]
  /\ starts \in 0..MaxStarts
  /\ faults \in 0..MaxFaults

\* NewStore: redis without an address falls back to the noop store.
NewStore(kind, redisAddr) ==
  IF kind = "mysql" THEN "mysql"
  ELSE IF kind = "redis" /\ redisAddr THEN "redis" ELSE "none"

Init ==
  /\ now = 0
  /\ \E kind \in {"", "mysql", "redis"}, redisAddr \in BOOLEAN :
       backend = NewStore(kind, redisAddr)
  /\ store = [k \in Key |-> None]
  /\ req = [r \in Request |-> Idle]
  /\ produced = [k \in Key |-> {}]
  /\ starts = 0
  /\ faults = 0

-----------------------------------------------------------------------------
(* The store.  MySQL filters expired rows when it reads but not when it    *)
(* writes; Redis drops a record when its TTL runs out.                     *)

Live(k) == store[k] # None /\ now < store[k].expires

Occupied_NeverKeeps(k) == FALSE
Occupied_NoExpiry(k) == store[k] # None
Occupied(k) == IF backend = "mysql" THEN store[k] # None ELSE Live(k)

Put_TtlTwice(k, response) ==
  IF backend = "none" \/ Occupied(k) THEN UNCHANGED store
  ELSE store' = [store EXCEPT ![k] = [response |-> response,
                                     expires |-> now + Ttl + Ttl]]

\* Set: the first writer wins.
Put(k, response) ==
  IF backend = "none" \/ Occupied(k) THEN UNCHANGED store
  ELSE store' = [store EXCEPT ![k] = [response |-> response,
                                     expires |-> now + Ttl]]

-----------------------------------------------------------------------------
At(r, label) == req[r].pc = label

Goto(r, label) == req' = [req EXCEPT ![r].pc = label]

Fault == faults < MaxFaults /\ faults' = faults + 1
Ok == UNCHANGED faults

\* A request arrives.  Without a key, or with another method, it passes
\* straight to the handler.  seen is history: the record its key had then,
\* an expired one included.
Arrive(r, k) ==
  /\ At(r, "idle") /\ starts < MaxStarts
  /\ starts' = starts + 1
  /\ req' = [req EXCEPT ![r] =
       [Idle EXCEPT !.pc = IF k = None THEN "handler" ELSE "get", !.key = k,
                    !.id = starts + 1,
                    !.seen = IF k = None THEN None ELSE store[k]]]
  /\ UNCHANGED <<now, backend, store, produced, faults>>

Get_SharedCacheKey(r) ==
  LET k == req[r].key IN
  /\ At(r, "get")
  /\ \/ /\ Ok
        /\ \E j \in Key : Live(j) /\
             req' = [req EXCEPT ![r].pc = "send", ![r].replayed = TRUE,
                                ![r].response = store[j].response]
     \/ ~Live(k) /\ Ok /\ Goto(r, "handler")
  /\ UNCHANGED <<now, backend, store, produced, starts>>

\* The lookup.  Every error, not only ErrNotFound, is a miss.
Get(r) ==
  LET k == req[r].key IN
  /\ At(r, "get")
  /\ \/ /\ Live(k) /\ req[r].connected /\ Ok
        /\ req' = [req EXCEPT ![r].pc = "send", ![r].replayed = TRUE,
                              ![r].response = store[k].response]
     \/ (~Live(k) \/ ~req[r].connected) /\ Ok /\ Goto(r, "handler")
     \/ Fault /\ Goto(r, "handler")
  /\ UNCHANGED <<now, backend, store, produced, starts>>

\* Only answers below 500 are recorded.
Recordable_All(class) == TRUE
Recordable(class) == class # "failed"

AfterHandler_AnswerFirst(r, class) == "send"

\* What follows c.Next(): a request without a key has no record to write.
AfterHandler(r, class) ==
  IF req[r].key # None /\ Recordable(class) THEN "set" ELSE "send"

\* c.Next(): the rest of the chain runs and writes its answer.
Handler(r) ==
  /\ At(r, "handler")
  /\ \E class \in Class :
       LET response == [by |-> req[r].id, class |-> class] IN
       /\ req' = [req EXCEPT ![r].pc = AfterHandler(r, class),
                             ![r].response = response]
       /\ produced' = [k \in Key |->
            IF k = req[r].key THEN produced[k] \cup {response} ELSE produced[k]]
  /\ UNCHANGED <<now, backend, store, starts, faults>>

\* The record is written unless the context is cancelled; an error is only
\* logged, and the statement may have been applied all the same.
Set(r) ==
  /\ At(r, "set")
  /\ \/ req[r].connected /\ Put(req[r].key, req[r].response) /\ Ok
     \/ ~req[r].connected /\ UNCHANGED store /\ Ok
     \/ Fault /\ (Put(req[r].key, req[r].response) \/ UNCHANGED store)
  /\ Goto(r, "send")
  /\ UNCHANGED <<now, backend, produced, starts>>

\* The buffered answer leaves when the whole chain has returned.
Send(r) ==
  /\ At(r, "send")
  /\ req' = [req EXCEPT ![r] = Idle]
  /\ UNCHANGED <<now, backend, store, produced, starts, faults>>

\* The client gives up waiting; net/http cancels the request's context.
Hangup(r) ==
  /\ Hangups /\ ~At(r, "idle") /\ req[r].connected
  /\ req' = [req EXCEPT ![r].connected = FALSE]
  /\ UNCHANGED <<now, backend, store, produced, starts, faults>>

Tick ==
  /\ now < MaxNow
  /\ now' = now + 1
  /\ UNCHANGED <<backend, store, req, produced, starts, faults>>

\* The process dies and is started again; the store outlives it.
Crash ==
  /\ Fault
  /\ req' = [r \in Request |-> Idle]
  /\ UNCHANGED <<now, backend, store, produced, starts>>

Serve(r) == Get(r) \/ Handler(r) \/ Set(r) \/ Send(r)

Next ==
  \/ \E r \in Request :
       \/ \E k \in Key \cup {None} : Arrive(r, k)
       \/ Serve(r)
       \/ Hangup(r)
  \/ Tick
  \/ Crash

Spec == Init /\ [][Next]_vars

-----------------------------------------------------------------------------
(* Properties *)

\* A record, and every answer sent under a key, is a response the handler
\* produced for that same key; a record never holds a 5xx, so an outage is
\* not replayed after it is over.
AnswersBelongToKey ==
  /\ \A k \in Key :
       store[k] # None =>
            store[k].response \in produced[k] /\ store[k].response.class # "failed"
  /\ \A r \in Request :
       At(r, "send") /\ req[r].key # None => req[r].response \in produced[req[r].key]

\* The first writer wins: as long as a record lives, what it holds stays.
FirstWriterWins ==
  [][\A k \in Key : Live(k) => store'[k] = store[k]]_vars

\* A request that arrives when its key has a record is answered from that
\* very record, and the handler does not run again, whatever other requests
\* do meanwhile, unless the store failed, the client left, or the record's
\* time ran out on the way.
LiveRecordIsReplayed ==
  \A r \in Request :
    LET seen == req[r].seen IN
    At(r, "send") /\ seen # None /\ req[r].connected /\ faults = 0 =>
      \/ req[r].replayed /\ req[r].response = seen.response
      \/ now >= seen.expires

\* An answer below 500 that a waiting client is about to get for the first
\* time is behind a write: since its request arrived, a record was made for
\* its key, of this answer or of a concurrent one, and a retry finds it until
\* it expires.  The one way out is MySQL's: the key already had a record that
\* has expired, and the leftover row keeps every new one out.
AnswersAreRecorded ==
  \A r \in Request :
    LET rec == store[req[r].key] IN
    /\ At(r, "send") /\ req[r].key # None /\ ~req[r].replayed /\ req[r].connected
    /\ req[r].response.class # "failed" /\ faults = 0 /\ backend # "none"
    => /\ rec # None
       /\ rec # req[r].seen \/ (backend = "mysql" /\ now >= rec.expires)

\* The write that ends a request leaves a live record.
SetLeavesRecord(r) ==
  At(r, "set") /\ req[r].connected /\ req'[r].pc = "send" /\ UNCHANGED faults =>
    Live(req[r].key)'

\* With Redis it does, also when an earlier record of the key has expired.
RedisRecordsAgain ==
  [][backend = "redis" => \A r \in Request : SetLeavesRecord(r)]_vars

-----------------------------------------------------------------------------
(* What the documentation says and the code does not do *)

\* redis_store.go:53-54: behaviour is consistent across backends.  Redis
\* records a key again once its record has expired; so should MySQL.
EveryBackendRecordsAgain ==
  [][backend # "none" => \A r \in Request : SetLeavesRecord(r)]_vars

=============================================================================

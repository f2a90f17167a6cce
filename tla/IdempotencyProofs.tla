------------------------- MODULE IdempotencyProofs -------------------------
(***************************************************************************)
(* Theorems about Idempotency, for any keys, requests, time to live, store *)
(* and number of failures, with clients that leave and clients that stay.  *)
(***************************************************************************)
EXTENDS Idempotency, TLAPS

ReqRecord == [pc : Label, key : Key \cup {None},
              id : 0..MaxStarts, response : Response \cup {None},
              connected : BOOLEAN, seen : Record \cup {None},
              replayed : BOOLEAN]

\* The local variables a request has at each label: only requests with a key
\* use the store, and what is about to be recorded was produced for that key.
LocalsOK ==
  \A r \in Request :
    /\ req[r].pc # "idle" => req[r].id \in 1..MaxStarts
    /\ req[r].pc \in {"get", "set"} => req[r].key \in Key
    /\ req[r].pc \in {"set", "send"} => req[r].response \in Response
    /\ req[r].pc = "set" => /\ req[r].response.class # "failed"
                            /\ req[r].response \in produced[req[r].key]

\* The record a request saw when it arrived is still there until it expires,
\* and without failures leads from the lookup straight to the replay.
SeenOK ==
  \A r \in Request :
    LET seen == req[r].seen IN
    seen # None /\ now < seen.expires =>
      /\ req[r].key \in Key /\ store[req[r].key] = seen
      /\ req[r].connected /\ faults = 0 =>
           \/ req[r].pc = "get"
           \/ req[r].pc = "send" /\ req[r].replayed /\ req[r].response = seen.response

IInv ==
  /\ TypeOK /\ LocalsOK /\ AnswersBelongToKey
  /\ SeenOK /\ AnswersAreRecorded

-----------------------------------------------------------------------------
(* The store *)

\* Put leaves a record that lives alone, whichever the store.
LEMMA PutKeepsLive ==
  ASSUME TypeOK, NEW k \in Key, NEW j \in Key, NEW response \in Response,
         Put(k, response), Live(j)
  PROVE  store'[j] = store[j]
BY DEF TypeOK, Put, Occupied, Live

\* It keeps or adds records, and adds only the response it is given.
LEMMA PutAdds ==
  ASSUME TypeOK, NEW k \in Key, NEW response \in Response, Put(k, response)
  PROVE  /\ store' \in [Key -> Record \cup {None}]
         /\ \A j \in Key : store[j] # None => store'[j] # None
         /\ \A j \in Key : store'[j] # store[j] =>
              /\ j = k /\ store'[j] \in Record
              /\ store'[j] = [response |-> response, expires |-> now + Ttl]
<1>1. now + Ttl \in 0..(MaxNow + Ttl)
  BY TtlAssumption, BoundsAssumption DEF TypeOK
<1>2. CASE UNCHANGED store
  BY <1>2 DEF TypeOK
<1>3. CASE store' = [store EXCEPT ![k] = [response |-> response,
                                          expires |-> now + Ttl]]
  <2>1. [response |-> response, expires |-> now + Ttl] \in Record
    BY <1>1 DEF Record
  <2> QED BY <1>3, <2>1, NoneAssumption DEF TypeOK
<1> QED BY <1>2, <1>3 DEF Put

\* Without a live record, a store keeps either the new one or, with MySQL, the
\* leftover of an old one.
LEMMA PutRecords ==
  ASSUME TypeOK, NEW k \in Key, NEW response \in Response,
         Put(k, response), backend # "none"
  PROVE  /\ store'[k] # None
         /\ store'[k] = store[k] => backend = "mysql" \/ Live(k)
<1> DEFINE new == [response |-> response, expires |-> now + Ttl]
<1>1. CASE Occupied(k)
  BY <1>1 DEF Put, Occupied, Live
<1>2. CASE ~Occupied(k)
  <2>1. new \in Record /\ new.expires > now
    BY TtlAssumption, BoundsAssumption DEF Record, TypeOK
  <2>2. store'[k] = new /\ store'[k] # None
    BY <1>2, <2>1, NoneAssumption DEF Put, TypeOK
  <2>3. store[k] = new => Live(k)
    BY <2>1, <2>2 DEF Live
  <2> QED BY <2>2, <2>3
<1> QED BY <1>1, <1>2

\* What Put adds outlives the present: it differs from what has expired.
LEMMA PutIsNew ==
  ASSUME TypeOK, NEW k \in Key, NEW response \in Response, Put(k, response),
         NEW old \in Record, now >= old.expires, store'[k] # store[k]
  PROVE  store'[k] # old
<1>1. store'[k].expires = now + Ttl
  <2>1. store'[k] = [response |-> response, expires |-> now + Ttl]
    BY PutAdds
  <2> QED BY <2>1
<1>2. now + Ttl > now /\ now \in Int /\ old.expires \in Int
  BY TtlAssumption, BoundsAssumption DEF TypeOK, Record
<1> QED BY <1>1, <1>2

-----------------------------------------------------------------------------
(* Steps *)

Others(r) == \A q \in Request \ {r} : req'[q] = req[q]

LEMMA FaultBounds ==
  ASSUME TypeOK, Fault \/ Ok
  PROVE  /\ faults' \in 0..MaxFaults
         /\ faults' = 0 => faults = 0
         /\ faults' = 0 => UNCHANGED faults
BY BoundsAssumption DEF TypeOK, Fault, Ok

LEMMA IdleType == Idle \in ReqRecord
BY BoundsAssumption DEF Idle, ReqRecord, Label

LEMMA ReqTyped ==
  /\ TypeOK => req \in [Request -> ReqRecord]
  /\ TypeOK' <=> /\ now' \in 0..MaxNow
                 /\ backend' \in Backend
                 /\ store' \in [Key -> Record \cup {None}]
                 /\ req' \in [Request -> ReqRecord]
                 /\ produced' \in [Key -> SUBSET Response]
                 /\ starts' \in 0..MaxStarts
                 /\ faults' \in 0..MaxFaults
BY DEF TypeOK, ReqRecord

LEMMA InitIInv == Init => IInv
<1> SUFFICES ASSUME Init PROVE IInv
  OBVIOUS
<1>1. backend \in Backend
  BY DEF Init, NewStore, Backend
<1>2. TypeOK
  <2>1. Idle \in ReqRecord
    BY IdleType
  <2>2. req \in [Request -> ReqRecord]
    BY <2>1 DEF Init
  <2>3. store \in [Key -> Record \cup {None}]
    BY DEF Init
  <2>4. produced \in [Key -> SUBSET Response]
    BY DEF Init
  <2>5. now \in 0..MaxNow /\ starts \in 0..MaxStarts /\ faults \in 0..MaxFaults
    <3>1. now = 0 /\ starts = 0 /\ faults = 0
      BY DEF Init
    <3> QED BY <3>1, BoundsAssumption
  <2> QED BY <1>1, <2>2, <2>3, <2>4, <2>5 DEF TypeOK, ReqRecord
<1>3. \A r \in Request : req[r] = Idle
  BY DEF Init
<1>4. LocalsOK /\ SeenOK
  BY <1>3 DEF LocalsOK, SeenOK, Idle
<1>5. AnswersBelongToKey /\ AnswersAreRecorded
  BY <1>3 DEF Init, AnswersBelongToKey, AnswersAreRecorded, At, Idle
<1> QED BY <1>2, <1>4, <1>5 DEF IInv

LEMMA ArriveStep ==
  ASSUME IInv, NEW r \in Request, NEW k \in Key \cup {None}, Arrive(r, k)
  PROVE  IInv'
<1> USE DEF IInv
<1> DEFINE new == [Idle EXCEPT !.pc = IF k = None THEN "handler" ELSE "get", !.key = k,
                               !.id = starts + 1,
                               !.seen = IF k = None THEN None ELSE store[k]]
<1> DEFINE found == IF k = None THEN None ELSE store[k]
<1>1. /\ starts' \in 1..MaxStarts /\ starts' = starts + 1
      /\ UNCHANGED <<now, backend, store, produced, faults>>
  BY BoundsAssumption DEF Arrive, TypeOK
<1>2. found \in Record \cup {None}
  BY DEF TypeOK
<1>3. req' = [req EXCEPT ![r] = new]
  BY DEF Arrive
<1>4. req'[r] = new /\ Others(r)
  BY <1>3 DEF Others, TypeOK
<1>5. /\ new.pc = (IF k = None THEN "handler" ELSE "get")
      /\ new.key = k /\ new.id = starts + 1 /\ new.seen = found
      /\ new.connected = TRUE /\ new.response = None /\ new.replayed = FALSE
      /\ new \in ReqRecord
  <2>1. Idle.connected = TRUE /\ Idle.response = None /\ Idle.replayed = FALSE
    BY DEF Idle
  <2>2. new.pc = (IF k = None THEN "handler" ELSE "get")
    BY IdleType DEF ReqRecord
  <2>3. new.key = k /\ new.id = starts + 1 /\ new.seen = found
    BY IdleType DEF ReqRecord
  <2>4. new.connected = TRUE /\ new.response = None /\ new.replayed = FALSE
    BY <2>1, IdleType DEF ReqRecord
  <2>5. new \in ReqRecord
    <3>1. (IF k = None THEN "handler" ELSE "get") \in Label
      BY DEF Label
    <3>2. starts + 1 \in 0..MaxStarts
      BY <1>1
    <3> QED BY <1>2, <3>1, <3>2, IdleType DEF ReqRecord
  <2> QED BY <2>2, <2>3, <2>4, <2>5
<1> HIDE DEF new
<1>6. TypeOK'
  BY <1>1, <1>3, <1>5, ReqTyped DEF TypeOK
<1>7. LocalsOK'
  BY <1>1, <1>4, <1>5, NoneAssumption DEF LocalsOK, Others
<1>8. SeenOK'
  <2>1. new.seen # None =>
          k \in Key /\ store[k] = new.seen /\ new.pc = "get"
    BY <1>5, NoneAssumption
  <2> QED BY <1>1, <1>4, <1>5, <2>1 DEF SeenOK, Others
<1>9. AnswersBelongToKey'
  BY <1>1, <1>4, <1>5 DEF AnswersBelongToKey, Others, At
<1>10. AnswersAreRecorded'
  BY <1>1, <1>4, <1>5 DEF AnswersAreRecorded, Others, At
<1> QED BY <1>6, <1>7, <1>8, <1>9, <1>10

LEMMA GetStep ==
  ASSUME IInv, NEW r \in Request, Get(r)
  PROVE  IInv'
<1> USE DEF IInv
<1> DEFINE k == req[r].key
<1>1. /\ UNCHANGED <<now, backend, store, produced, starts>>
      /\ req[r].pc = "get" /\ k \in Key /\ req[r].id \in 1..MaxStarts
  BY DEF Get, At, LocalsOK
<1>2. /\ faults' \in 0..MaxFaults /\ (faults' = 0 => faults = 0)
      /\ (faults' = 0 => UNCHANGED faults)
  BY FaultBounds DEF Get
<1>3. CASE /\ Live(k)
           /\ req' = [req EXCEPT ![r].pc = "send", ![r].replayed = TRUE,
                                 ![r].response = store[k].response]
  <2>1. /\ store[k] \in Record /\ store[k].response \in Response
        /\ store[k].response \in produced[k]
    BY <1>1, <1>3 DEF Live, TypeOK, Record, AnswersBelongToKey
  <2>2. /\ Others(r) /\ req'[r].pc = "send" /\ req'[r].replayed = TRUE
        /\ req'[r].response = store[k].response /\ req'[r].key = k
        /\ req'[r].id = req[r].id /\ req'[r].seen = req[r].seen
        /\ req'[r].connected = req[r].connected
    BY <1>3 DEF Others, TypeOK
  <2>3. [req[r] EXCEPT !.pc = "send", !.replayed = TRUE,
                       !.response = store[k].response] \in ReqRecord
    BY <2>1, ReqTyped DEF ReqRecord, Label
  <2>4. TypeOK'
    BY <1>1, <1>2, <1>3, <2>3, ReqTyped DEF TypeOK
  <2>5. LocalsOK'
    BY <1>1, <2>1, <2>2 DEF LocalsOK, Others
  <2>6. AnswersBelongToKey'
    BY <1>1, <2>1, <2>2 DEF AnswersBelongToKey, Others, At
  <2>7. SeenOK'
    BY <1>1, <1>2, <2>2 DEF SeenOK, Others
  <2>8. AnswersAreRecorded'
    BY <1>1, <1>2, <2>2 DEF AnswersAreRecorded, Others, At
  <2> QED BY <2>4, <2>5, <2>6, <2>7, <2>8
<1>4. CASE /\ Goto(r, "handler")
           /\ ~Live(k) \/ ~req[r].connected \/ faults' # 0
  <2>2. /\ Others(r) /\ req'[r].pc = "handler"
        /\ req'[r].key = k
        /\ req'[r].id = req[r].id /\ req'[r].seen = req[r].seen
        /\ req'[r].connected = req[r].connected
    BY <1>4 DEF Others, TypeOK, Goto
  <2>3. [req[r] EXCEPT !.pc = "handler"] \in ReqRecord
    BY ReqTyped DEF ReqRecord, Label
  <2>4. TypeOK'
    BY <1>1, <1>2, <1>4, <2>3, ReqTyped DEF TypeOK, Goto
  <2>5. LocalsOK'
    BY <1>1, <2>2 DEF LocalsOK, Others
  <2>6. AnswersBelongToKey'
    BY <1>1, <2>2 DEF AnswersBelongToKey, Others, At
  <2>7. SeenOK'
    BY <1>1, <1>2, <1>4, <2>2 DEF SeenOK, Others, Live
  <2>8. AnswersAreRecorded'
    BY <1>1, <1>2, <2>2 DEF AnswersAreRecorded, Others, At
  <2> QED BY <2>4, <2>5, <2>6, <2>7, <2>8
<1>5. faults' # 0 \/ Ok
  BY <1>2 DEF Get, Ok
<1>6. Fault => faults' # 0
  BY BoundsAssumption DEF Fault, TypeOK
<1> QED BY <1>3, <1>4, <1>6 DEF Get

LEMMA HandlerStep ==
  ASSUME IInv, NEW r \in Request, Handler(r)
  PROVE  IInv'
<1> USE DEF IInv
<1> DEFINE k == req[r].key
<1>1. /\ UNCHANGED <<now, backend, store, starts, faults>>
      /\ req[r].pc = "handler" /\ req[r].id \in 1..MaxStarts
  BY DEF Handler, At, LocalsOK
<1>2. PICK class \in Class :
        LET response == [by |-> req[r].id, class |-> class] IN
        /\ req' = [req EXCEPT ![r].pc = AfterHandler(r, class),
                              ![r].response = response]
        /\ produced' = [j \in Key |->
             IF j = k THEN produced[j] \cup {response} ELSE produced[j]]
  BY DEF Handler
<1> DEFINE response == [by |-> req[r].id, class |-> class]
<1>3. response \in Response /\ response.class = class
  BY <1>1 DEF Response
<1>4. /\ Others(r) /\ req'[r].pc = AfterHandler(r, class)
      /\ req'[r].response = response /\ req'[r].key = k
      /\ req'[r].id = req[r].id /\ req'[r].seen = req[r].seen
      /\ req'[r].connected = req[r].connected
  BY <1>2 DEF Others, TypeOK
<1>5. /\ AfterHandler(r, class) \in {"set", "send"}
      /\ AfterHandler(r, class) = "set" => k # None /\ class # "failed"
      /\ AfterHandler(r, class) = "send" => k = None \/ class = "failed"
  BY DEF AfterHandler, Recordable
<1>6. \A j \in Key : /\ produced[j] \subseteq produced'[j]
                     /\ j = k => response \in produced'[j]
  BY <1>2
<1>7. TypeOK'
  <2>1. [req[r] EXCEPT !.pc = AfterHandler(r, class), !.response = response] \in ReqRecord
    BY <1>3, <1>5, ReqTyped DEF ReqRecord, Label
  <2>2. produced' \in [Key -> SUBSET Response]
    BY <1>2, <1>3 DEF TypeOK
  <2> QED BY <1>1, <1>2, <2>1, <2>2, ReqTyped DEF TypeOK
<1>8. LocalsOK'
  <2>1. k # None => k \in Key
    BY DEF TypeOK
  <2> QED BY <1>1, <1>3, <1>4, <1>5, <1>6, <2>1 DEF LocalsOK, Others
<1>9. AnswersBelongToKey'
  <2>1. k # None => k \in Key
    BY DEF TypeOK
  <2>2. \A q \in Request : req[q].key # None => req[q].key \in Key
    BY DEF TypeOK
  <2> QED BY <1>1, <1>4, <1>6, <2>1, <2>2 DEF AnswersBelongToKey, Others, At
<1>10. SeenOK'
  BY <1>1, <1>4 DEF SeenOK, Others
<1>11. AnswersAreRecorded'
  BY <1>1, <1>3, <1>4, <1>5 DEF AnswersAreRecorded, Others, At
<1> QED BY <1>7, <1>8, <1>9, <1>10, <1>11

LEMMA SetStep ==
  ASSUME IInv, NEW r \in Request, Set(r)
  PROVE  IInv'
<1> USE DEF IInv
<1> DEFINE k == req[r].key
<1>1. /\ UNCHANGED <<now, backend, produced, starts>>
      /\ req[r].pc = "set" /\ Goto(r, "send")
  BY DEF Set, At
<1>2. /\ k \in Key /\ req[r].id \in 1..MaxStarts
      /\ req[r].response \in Response /\ req[r].response.class # "failed"
      /\ req[r].response \in produced[k]
  BY <1>1 DEF LocalsOK
<1>3. /\ faults' \in 0..MaxFaults /\ (faults' = 0 => faults = 0)
      /\ (faults' = 0 => UNCHANGED faults)
  BY FaultBounds DEF Set
<1>4. Put(k, req[r].response) \/ UNCHANGED store
  BY DEF Set
<1>5. /\ Others(r) /\ req'[r].pc = "send" /\ req'[r].key = k
      /\ req'[r].response = req[r].response
      /\ req'[r].id = req[r].id /\ req'[r].seen = req[r].seen
      /\ req'[r].connected = req[r].connected
  BY <1>1 DEF Others, TypeOK, Goto
<1>6. /\ store' \in [Key -> Record \cup {None}]
      /\ \A j \in Key : store[j] # None => store'[j] # None
      /\ \A j \in Key : store'[j] # store[j] =>
           j = k /\ store'[j].response = req[r].response
      /\ \A j \in Key : Live(j) => store'[j] = store[j]
  <2>1. CASE UNCHANGED store
    BY <2>1 DEF TypeOK
  <2>2. CASE Put(k, req[r].response)
    <3>1. \A j \in Key : store'[j] # store[j] =>
            j = k /\ store'[j] = [response |-> req[r].response, expires |-> now + Ttl]
      BY <1>2, <2>2, PutAdds
    <3> QED BY <1>2, <2>2, <3>1, PutAdds, PutKeepsLive
  <2> QED BY <1>4, <2>1, <2>2
<1>7. TypeOK'
  <2>1. [req[r] EXCEPT !.pc = "send"] \in ReqRecord
    BY ReqTyped DEF ReqRecord, Label
  <2> QED BY <1>1, <1>3, <1>6, <2>1, ReqTyped DEF TypeOK, Goto
<1>8. LocalsOK'
  BY <1>1, <1>2, <1>5 DEF LocalsOK, Others
<1>9. AnswersBelongToKey'
  BY <1>1, <1>2, <1>5, <1>6 DEF AnswersBelongToKey, Others, At
<1>10. SeenOK'
  <2>1. \A q \in Request :
          req[q].seen # None /\ now < req[q].seen.expires =>
            Live(req[q].key) /\ store'[req[q].key] = req[q].seen
    BY <1>6 DEF SeenOK, Live
  <2> QED BY <1>1, <1>3, <1>5, <2>1 DEF SeenOK, Others
<1>11. AnswersAreRecorded'
  <2> SUFFICES ASSUME NEW q \in Request, req'[q].pc = "send", req'[q].key # None,
                      ~req'[q].replayed, req'[q].connected,
                      req'[q].response.class # "failed", faults' = 0, backend # "none"
               PROVE  LET rec == store'[req[q].key] IN
                      /\ rec # None
                      /\ rec # req[q].seen \/ (backend = "mysql" /\ now >= rec.expires)
    BY <1>1, <1>5 DEF AnswersAreRecorded, Others, At
  <2> DEFINE j == req[q].key  seen == req[q].seen
  <2>1. /\ faults = 0 /\ now \in Int /\ j \in Key
        /\ seen # None => seen \in Record /\ seen.expires \in Int
        /\ req[q].connected /\ ~req[q].replayed
    <3>1. req'[q].key = j /\ req'[q].connected = req[q].connected
          /\ req'[q].replayed = req[q].replayed
      BY <1>1, <1>5 DEF Others, Goto, TypeOK
    <3> QED BY <1>3, <3>1, TtlAssumption, BoundsAssumption DEF TypeOK, Record
  <2>2. seen # None => now >= seen.expires
    <3>1. req[q].pc # "get"
      BY <1>1, <1>5 DEF Others
    <3> QED BY <2>1, <3>1 DEF SeenOK
  <2>3. CASE store'[j] # store[j]
    <3>1. j = k /\ Put(k, req[r].response)
      BY <1>4, <1>6, <2>1, <2>3
    <3>2. store'[j] # None
      BY <1>2, <2>1, <2>3, <3>1, PutAdds, NoneAssumption
    <3>3. store'[j] # seen
      BY <1>2, <2>1, <2>2, <2>3, <3>1, <3>2, PutIsNew
    <3> QED BY <3>2, <3>3
  <2>4. CASE store'[j] = store[j] /\ q # r
    <3>1. req'[q] = req[q]
      BY <1>5, <2>4 DEF Others
    <3> QED BY <2>1, <2>4, <3>1 DEF AnswersAreRecorded, At
  <2>5. CASE store'[j] = store[j] /\ q = r
    <3>1. Put(k, req[r].response)
      <4>1. ~Fault
        BY <1>3, <2>1, BoundsAssumption DEF Fault, TypeOK
      <4> QED BY <2>1, <2>5, <4>1 DEF Set
    <3>2. store[j] # None /\ (backend = "mysql" \/ Live(j))
      BY <1>2, <2>5, <3>1, PutRecords
    <3> QED BY <2>1, <2>2, <2>5, <3>2 DEF Live
  <2> QED BY <2>3, <2>4, <2>5
<1> QED BY <1>7, <1>8, <1>9, <1>10, <1>11

LEMMA SendStep ==
  ASSUME IInv, NEW r \in Request, Send(r)
  PROVE  IInv'
<1> USE DEF IInv
<1> DEFINE k == req[r].key
<1>1. /\ UNCHANGED <<now, backend, store, produced, starts, faults>>
      /\ req[r].pc = "send" /\ req' = [req EXCEPT ![r] = Idle]
  BY DEF Send, At
<1>3. /\ Others(r) /\ req'[r].pc = "idle" /\ req'[r].seen = None
  BY <1>1 DEF Others, TypeOK, Idle
<1>4. req[r].response \in Response
  BY <1>1 DEF LocalsOK
<1>5. TypeOK'
  BY <1>1, IdleType, ReqTyped DEF TypeOK
<1>6. LocalsOK' /\ SeenOK' /\ AnswersAreRecorded'
  BY <1>1, <1>3 DEF LocalsOK, SeenOK, AnswersAreRecorded, Others, At
<1>7. AnswersBelongToKey'
  BY <1>1, <1>3 DEF AnswersBelongToKey, Others, At
<1> QED BY <1>5, <1>6, <1>7

LEMMA HangupStep ==
  ASSUME IInv, NEW r \in Request, Hangup(r)
  PROVE  IInv'
<1> USE DEF IInv
<1>1. /\ UNCHANGED <<now, backend, store, produced, starts, faults>>
      /\ req' = [req EXCEPT ![r].connected = FALSE]
  BY DEF Hangup
<1>2. /\ Others(r) /\ req'[r].pc = req[r].pc /\ req'[r].key = req[r].key
      /\ req'[r].response = req[r].response
      /\ req'[r].id = req[r].id /\ req'[r].seen = req[r].seen
      /\ req'[r].connected = FALSE
  BY <1>1 DEF Others, TypeOK
<1>3. TypeOK'
  <2>1. [req[r] EXCEPT !.connected = FALSE] \in ReqRecord
    BY ReqTyped DEF ReqRecord
  <2> QED BY <1>1, <2>1, ReqTyped DEF TypeOK
<1>4. LocalsOK'
  BY <1>1, <1>2 DEF LocalsOK, Others
<1>5. AnswersBelongToKey'
  BY <1>1, <1>2 DEF AnswersBelongToKey, Others, At
<1>6. SeenOK' /\ AnswersAreRecorded'
  BY <1>1, <1>2 DEF SeenOK, AnswersAreRecorded, Others, At
<1> QED BY <1>3, <1>4, <1>5, <1>6

LEMMA TickStep == IInv /\ Tick => IInv'
<1> SUFFICES ASSUME IInv, Tick PROVE IInv'
  OBVIOUS
<1> USE DEF IInv
<1>1. /\ now' \in 0..MaxNow /\ now' = now + 1
      /\ UNCHANGED <<backend, store, req, produced, starts, faults>>
  BY BoundsAssumption DEF Tick, TypeOK
<1>2. TypeOK'
  BY <1>1 DEF TypeOK
<1>3. SeenOK'
  <2>1. \A r \in Request : req[r].seen # None => req[r].seen.expires \in Int
    BY TtlAssumption, BoundsAssumption DEF TypeOK, Record
  <2>2. now \in Int
    BY DEF TypeOK
  <2> QED BY <1>1, <2>1, <2>2 DEF SeenOK
<1>4. LocalsOK' /\ AnswersBelongToKey'
  BY <1>1 DEF LocalsOK, AnswersBelongToKey, At
<1>5. AnswersAreRecorded'
  <2> SUFFICES ASSUME NEW r \in Request, NEW rec, rec = store[req[r].key],
                      At(r, "send"), req[r].key # None,
                      rec # None, now >= rec.expires
               PROVE  now' >= rec.expires
    BY <1>1 DEF AnswersAreRecorded, At
  <2>1. rec.expires \in Int /\ now \in Int
    BY TtlAssumption, BoundsAssumption DEF TypeOK, Record
  <2> QED BY <1>1, <2>1
<1> QED BY <1>2, <1>3, <1>4, <1>5

LEMMA CrashStep == IInv /\ Crash => IInv'
<1> SUFFICES ASSUME IInv, Crash PROVE IInv'
  OBVIOUS
<1> USE DEF IInv
<1>1. /\ UNCHANGED <<now, backend, store, produced, starts>>
      /\ req' = [r \in Request |-> Idle]
  BY DEF Crash
<1>2. faults' \in 0..MaxFaults /\ faults' # 0
  BY BoundsAssumption DEF Crash, Fault, TypeOK
<1>3. \A r \in Request : req'[r].pc = "idle" /\ req'[r].seen = None
  BY <1>1 DEF Idle
<1>4. TypeOK'
  BY <1>1, <1>2, IdleType, ReqTyped DEF TypeOK
<1>5. LocalsOK' /\ SeenOK'
  BY <1>3 DEF LocalsOK, SeenOK
<1>6. AnswersBelongToKey' /\ AnswersAreRecorded'
  BY <1>1, <1>2, <1>3 DEF AnswersBelongToKey, AnswersAreRecorded, At
<1> QED BY <1>4, <1>5, <1>6

LEMMA StutterStep == IInv /\ UNCHANGED vars => IInv'
BY DEF IInv, vars, TypeOK, LocalsOK, AnswersBelongToKey, SeenOK,
       AnswersAreRecorded, At

LEMMA NextIInv == IInv /\ [Next]_vars => IInv'
<1> SUFFICES ASSUME IInv, [Next]_vars PROVE IInv'
  OBVIOUS
<1>1. ASSUME NEW r \in Request, NEW k \in Key \cup {None}, Arrive(r, k) PROVE IInv'
  BY <1>1, ArriveStep
<1>2. ASSUME NEW r \in Request, Serve(r) PROVE IInv'
  BY <1>2, GetStep, HandlerStep, SetStep, SendStep DEF Serve
<1>3. ASSUME NEW r \in Request, Hangup(r) PROVE IInv'
  BY <1>3, HangupStep
<1>4. CASE Tick
  BY <1>4, TickStep
<1>5. CASE Crash
  BY <1>5, CrashStep
<1>6. CASE UNCHANGED vars
  BY <1>6, StutterStep
<1> QED BY <1>1, <1>2, <1>3, <1>4, <1>5, <1>6 DEF Next

-----------------------------------------------------------------------------
(* Theorems *)

\* The inductive invariant holds of every run of the middleware.
THEOREM Invariance == Spec => []IInv
<1>1. Init => IInv
  BY InitIInv
<1>2. IInv /\ [Next]_vars => IInv'
  BY NextIInv
<1> QED BY <1>1, <1>2, PTL DEF Spec

\* Every variable of the middleware and its stores stays in its type.
THEOREM TypeCorrect == Spec => []TypeOK
<1>1. IInv => TypeOK
  BY DEF IInv
<1> QED BY <1>1, Invariance, PTL

\* What is recorded or sent under a key was produced for that key, and no
\* outage is recorded, for every store and whatever fails.
THEOREM AnswersOfKey == Spec => []AnswersBelongToKey
<1>1. IInv => AnswersBelongToKey
  BY DEF IInv
<1> QED BY <1>1, Invariance, PTL

\* For any number of concurrent requests, what a waiting client is about to
\* get for the first time is behind a record made since its request arrived,
\* but for the expired rows of MySQL.
THEOREM AnswersRecorded == Spec => []AnswersAreRecorded
<1>1. IInv => AnswersAreRecorded
  BY DEF IInv
<1> QED BY <1>1, Invariance, PTL

\* A request that arrives while its key has a record is answered from it.
THEOREM Replayed == Spec => []LiveRecordIsReplayed
<1>1. IInv => LiveRecordIsReplayed
  <2> SUFFICES ASSUME IInv, NEW r \in Request,
                      At(r, "send"), req[r].seen # None, req[r].connected, faults = 0,
                      ~(now >= req[r].seen.expires)
               PROVE  req[r].replayed /\ req[r].response = req[r].seen.response
    BY DEF LiveRecordIsReplayed
  <2>1. now < req[r].seen.expires
    BY TtlAssumption, BoundsAssumption DEF IInv, TypeOK, Record
  <2> QED BY <2>1 DEF IInv, SeenOK, At
<1> QED BY <1>1, Invariance, PTL

-----------------------------------------------------------------------------
(* What a step may do to the records *)

LEMMA OnlySetWrites ==
  ASSUME [Next]_vars
  PROVE  UNCHANGED store \/ \E r \in Request : Set(r)
<1>1. ASSUME NEW r \in Request, NEW k \in Key \cup {None}, Arrive(r, k)
      PROVE  UNCHANGED store
  BY <1>1 DEF Arrive
<1>2. ASSUME NEW r \in Request, Serve(r)
      PROVE  UNCHANGED store \/ Set(r)
  BY <1>2 DEF Serve, Get, Handler, Send
<1>3. ASSUME NEW r \in Request, Hangup(r)
      PROVE  UNCHANGED store
  BY <1>3 DEF Hangup
<1> QED BY <1>1, <1>2, <1>3 DEF Next, Tick, Crash, vars

LEMMA LiveStays ==
  ASSUME IInv, [Next]_vars, NEW k \in Key, Live(k)
  PROVE  store'[k] = store[k]
<1>1. ASSUME NEW r \in Request, Set(r) PROVE store'[k] = store[k]
  <2>1. req[r].key \in Key /\ req[r].response \in Response
    BY <1>1 DEF IInv, LocalsOK, Set, At
  <2>2. Put(req[r].key, req[r].response) \/ UNCHANGED store
    BY <1>1 DEF Set
  <2> QED BY <2>1, <2>2, PutKeepsLive DEF IInv
<1> QED BY <1>1, OnlySetWrites

\* As long as a record lives, no request replaces it: the insert of MySQL and
\* the SET NX of Redis let the first writer win in every interleaving.
THEOREM FirstWriter == Spec => FirstWriterWins
<1>1. IInv /\ [Next]_vars => \A k \in Key : Live(k) => store'[k] = store[k]
  BY LiveStays
<1>2. IInv /\ [Next]_vars => [\A k \in Key : Live(k) => store'[k] = store[k]]_vars
  BY <1>1
<1> QED BY <1>2, Invariance, PTL DEF Spec, FirstWriterWins

LEMMA SetLeavesLive ==
  ASSUME IInv, NEW r \in Request, Set(r), backend = "redis",
         req[r].connected, UNCHANGED faults
  PROVE  Live(req[r].key)'
<1> DEFINE k == req[r].key
<1>1. TypeOK /\ k \in Key /\ req[r].response \in Response
  BY DEF IInv, LocalsOK, Set, At
<1>2. ~Fault
  BY <1>1 DEF Fault, TypeOK
<1>3. /\ Put(k, req[r].response) /\ now' = now
      /\ req'[r].key = k
  BY <1>1, <1>2 DEF Set, Goto, TypeOK
<1>4. CASE Live(k)
  <2>1. store'[k] = store[k]
    BY <1>1, <1>3, <1>4, PutKeepsLive
  <2> QED BY <1>3, <1>4, <2>1 DEF Live
<1>5. CASE ~Live(k)
  <2> DEFINE new == [response |-> req[r].response, expires |-> now + Ttl]
  <2>1. store'[k] = new
    BY <1>1, <1>3, <1>5 DEF Put, Occupied, TypeOK
  <2>2. new \in Record /\ now < new.expires
    BY <1>1, TtlAssumption, BoundsAssumption DEF TypeOK, Record
  <2>3. store'[k] # None /\ now' < store'[k].expires
    BY <1>3, <2>1, <2>2, NoneAssumption
  <2> QED BY <1>3, <2>3 DEF Live
<1> QED BY <1>4, <1>5

LEMMA OnlySetEnds ==
  ASSUME IInv, [Next]_vars, NEW r \in Request,
         At(r, "set"), req'[r].pc = "send", UNCHANGED faults
  PROVE  Set(r)
<1>1. req \in [Request -> ReqRecord] /\ req[r].pc = "set" /\ faults \in Int
  BY ReqTyped DEF IInv, TypeOK, At
<1>2. ASSUME NEW q \in Request, q # r, req'[r] # req[r] PROVE ~Serve(q) /\ ~Hangup(q)
  BY <1>1, <1>2 DEF Serve, Get, Handler, Set, Send, Goto, Hangup
<1>3. ~Get(r) /\ ~Handler(r) /\ ~Send(r)
  BY <1>1 DEF Get, Handler, Send, At
<1>4. ~Hangup(r)
  BY <1>1 DEF Hangup, ReqRecord
<1>5. ASSUME NEW q \in Request, NEW k \in Key \cup {None}, Arrive(q, k) PROVE FALSE
  <2>1. q # r
    BY <1>1, <1>5 DEF Arrive, At
  <2> QED BY <1>1, <1>5, <2>1 DEF Arrive
<1>6. ~Crash
  BY <1>1 DEF Crash, Fault
<1>7. ~Tick /\ ~UNCHANGED vars
  BY <1>1 DEF Tick, vars
<1> QED BY <1>1, <1>2, <1>3, <1>4, <1>5, <1>6, <1>7 DEF Next, Serve

\* With Redis the write that ends a request leaves a live record, also when
\* an earlier one of the key has expired.
THEOREM RedisRecords == Spec => RedisRecordsAgain
<1> DEFINE A == backend = "redis" => \A r \in Request : SetLeavesRecord(r)
<1>1. ASSUME IInv, [Next]_vars PROVE A
  <2> SUFFICES ASSUME backend = "redis", NEW r \in Request,
                      At(r, "set"), req[r].connected, req'[r].pc = "send",
                      UNCHANGED faults
               PROVE  Live(req[r].key)'
    BY DEF SetLeavesRecord
  <2> QED BY <1>1, OnlySetEnds, SetLeavesLive
<1>2. IInv /\ [Next]_vars => [A]_vars
  BY <1>1
<1> QED BY <1>2, Invariance, PTL DEF Spec, RedisRecordsAgain

=============================================================================

--------------------------- MODULE PipelineProofs ---------------------------
(***************************************************************************)
(* Theorems about Pipeline, for any keys, clients, accounts, limits,       *)
(* windows, requests and failures.                                         *)
(*                                                                         *)
(* What IdempotencyProofs shows is used here as it stands: P is that       *)
(* module over the variables of Pipeline.                                  *)
(***************************************************************************)
EXTENDS Pipeline, FiniteSetTheorems, TLAPS

P == INSTANCE IdempotencyProofs WITH Hangups <- FALSE

-----------------------------------------------------------------------------
(* P is I *)

LEMMA SameData == P!Response = I!Response /\ P!Record = I!Record
BY DEF P!Response, I!Response, P!Record, I!Record, P!Class, I!Class

LEMMA SameArrive ==
  ASSUME NEW r, NEW k
  PROVE  P!Arrive(r, k) <=> I!Arrive(r, k)
BY DEF P!Arrive, I!Arrive, P!At, I!At, P!Idle, I!Idle

LEMMA SameGet ==
  ASSUME NEW r
  PROVE  P!Get(r) <=> I!Get(r)
BY DEF P!Get, I!Get, P!At, I!At, P!Live, I!Live, P!Goto, I!Goto, P!Ok, I!Ok,
       P!Fault, I!Fault

LEMMA SameHandler ==
  ASSUME NEW r
  PROVE  P!Handler(r) <=> I!Handler(r)
BY DEF P!Handler, I!Handler, P!At, I!At, P!AfterHandler, I!AfterHandler,
       P!Recordable, I!Recordable, P!Class, I!Class

LEMMA SameSet ==
  ASSUME NEW r
  PROVE  P!Set(r) <=> I!Set(r)
BY DEF P!Set, I!Set, P!At, I!At, P!Goto, I!Goto, P!Ok, I!Ok, P!Fault, I!Fault,
       P!Put, I!Put, P!Occupied, I!Occupied, P!Live, I!Live

LEMMA SameSend ==
  ASSUME NEW r
  PROVE  P!Send(r) <=> I!Send(r)
BY DEF P!Send, I!Send, P!At, I!At, P!Idle, I!Idle

LEMMA SameHangup ==
  ASSUME NEW r
  PROVE  P!Hangup(r) <=> I!Hangup(r)
BY DEF P!Hangup, I!Hangup, P!At, I!At

LEMMA SameStep == [P!Next]_P!vars <=> [I!Next]_I!vars
<1>1. P!vars = I!vars
  BY DEF P!vars, I!vars
<1>2. P!Tick <=> I!Tick
  BY DEF P!Tick, I!Tick
<1>3. P!Crash <=> I!Crash
  BY DEF P!Crash, I!Crash, P!Fault, I!Fault, P!Idle, I!Idle
<1>4. ASSUME NEW r PROVE P!Serve(r) <=> I!Serve(r)
  BY SameGet, SameHandler, SameSet, SameSend DEF P!Serve, I!Serve
<1>5. P!Next <=> I!Next
  BY <1>2, <1>3, <1>4, SameArrive, SameHangup DEF P!Next, I!Next
<1> QED BY <1>1, <1>5, Zenon DEF P!vars, I!vars

LEMMA SameInit == P!Init <=> I!Init
BY DEF P!Init, I!Init, P!NewStore, I!NewStore, P!Idle, I!Idle

LEMMA SameInvariants ==
  /\ P!TypeOK <=> I!TypeOK
  /\ P!AnswersBelongToKey <=> I!AnswersBelongToKey
  /\ P!LiveRecordIsReplayed <=> I!LiveRecordIsReplayed
  /\ P!AnswersAreRecorded <=> I!AnswersAreRecorded
BY SameData DEF P!TypeOK, I!TypeOK, P!Backend, I!Backend, P!Label, I!Label,
  P!AnswersBelongToKey, I!AnswersBelongToKey, P!At, I!At,
  P!LiveRecordIsReplayed, I!LiveRecordIsReplayed,
  P!AnswersAreRecorded, I!AnswersAreRecorded

LEMMA Assumptions ==
  /\ Ttl \in Nat \ {0}
  /\ MaxNow \in Nat /\ MaxStarts \in Nat /\ MaxFaults \in Nat /\ FALSE \in BOOLEAN
  /\ None \notin Key /\ None \notin P!Response /\ None \notin P!Record
BY SameData, TtlAssumption, BoundsAssumption, NoneAssumption, ResponseAssumption

-----------------------------------------------------------------------------
(* The limiter *)

\* Its variables, without the bound on the count.
LimiterTyped ==
  /\ now \in 0..MaxNow
  /\ counter \in [Client -> [count : Nat, expires : -1..(MaxNow + Period)]]
  /\ passed \in [Client -> SUBSET [id : 1..MaxStarts, at : 0..MaxNow]]

\* A window lasts from its first request to its end, both included.
Begin(c) == counter[c].expires - Period
Current(c) == {p \in passed[c] : p.at >= Begin(c)}
Previous(c) == {p \in passed[c] : p.at >= Begin(c) - Period /\ p.at < Begin(c)}
Late(c) == {p \in Current(c) : p.at > Begin(c)}
Within(c, t) == {p \in passed[c] : p.at \in t..(t + Period)}

\* The window at hand has let through at most what was counted and at most
\* the limit, the first of them where the window begins.  A period that meets
\* this window therefore holds less than the limit of what was before.
WindowOf(c) ==
  /\ IsFiniteSet(passed[c])
  /\ Begin(c) <= now
  /\ \A p \in passed[c] : p.at <= counter[c].expires
  /\ Cardinality(Current(c)) <= counter[c].count
  /\ Cardinality(Current(c)) <= Limit
  /\ now <= counter[c].expires => Cardinality(Late(c)) <= counter[c].count - 1
  /\ Cardinality(Late(c)) <= Limit - 1
  /\ Cardinality(Previous(c)) <= Limit - 1
  /\ \A t \in 0..MaxNow : Cardinality(Within(c, t)) <= 2 * Limit - 1

WindowOK == \A c \in Client : WindowOf(c)

LEMMA LimitNat == Limit \in Nat /\ 1 <= Limit /\ Limit - 1 \in Nat /\ Period \in Nat
BY LimitAssumption

LEMMA SameCardinality ==
  ASSUME NEW S
  PROVE  R!Cardinality(S) = Cardinality(S)
BY DEF R!Cardinality, Cardinality, R!IsFiniteSet, IsFiniteSet

LEMMA WindowSlides == WindowOK => SlidingLimit
<1> SUFFICES ASSUME WindowOK, NEW c \in Client, NEW t \in 0..MaxNow
             PROVE  Cardinality({p \in passed[c] : p.at \in t..(t + Period)}) < 2 * Limit
  BY SameCardinality DEF SlidingLimit, R!SlidingLimit
<1>1. /\ Cardinality(Within(c, t)) <= 2 * Limit - 1
      /\ IsFiniteSet(Within(c, t))
  BY FS_Subset DEF WindowOK, WindowOf, Within
<1>2. Cardinality(Within(c, t)) \in Nat
  BY <1>1, FS_CardinalityType
<1> QED BY <1>1, <1>2, LimitNat DEF Within

LEMMA SmallerSet ==
  ASSUME NEW S, IsFiniteSet(S), NEW T, T \subseteq S, NEW n \in Nat,
         Cardinality(S) <= n
  PROVE  IsFiniteSet(T) /\ Cardinality(T) \in Nat /\ Cardinality(T) <= n
BY FS_Subset, FS_CardinalityType

\* Two sets of at most n and n - 1 elements cover what lies in either.
LEMMA TwoSets ==
  ASSUME NEW S, IsFiniteSet(S), NEW T, IsFiniteSet(T), NEW V, V \subseteq S \cup T,
         NEW n \in Nat \ {0}, Cardinality(S) <= n, Cardinality(T) <= n - 1
  PROVE  Cardinality(V) <= 2 * n - 1
<1>1. /\ IsFiniteSet(S \cup T)
      /\ Cardinality(S \cup T) =
           Cardinality(S) + Cardinality(T) - Cardinality(S \cap T)
  BY FS_Union
<1>2. IsFiniteSet(S \cap T)
  BY FS_Subset
<1>3. /\ Cardinality(S \cap T) \in Nat /\ Cardinality(S) \in Nat
      /\ Cardinality(T) \in Nat
  BY <1>2, FS_CardinalityType
<1>4. Cardinality(S \cup T) <= 2 * n - 1 /\ 2 * n - 1 \in Nat
  BY <1>1, <1>3
<1> QED BY <1>1, <1>4, SmallerSet

\* A window that begins lets no period hold more than it and the last one.
LEMMA WindowAdmits ==
  ASSUME LimiterTyped, NEW c \in Client, WindowOf(c), NEW id,
         R!Admit(c, id), now' = now
  PROVE  WindowOf(c)'
<1> USE LimitNat
<1> DEFINE new == [id |-> id, at |-> now]
<1>1. /\ now \in Int /\ counter[c].expires \in Int /\ counter[c].count \in Nat
      /\ \A p \in passed[c] : p.at \in Int
  BY BoundsAssumption DEF LimiterTyped
<1>2. /\ counter'[c] = R!Counted(c) /\ counter'[c].count <= Limit
      /\ passed'[c] = passed[c] \cup {new}
  <2>1. R!Counted(c).count \in Nat
    BY DEF R!Counted, LimiterTyped
  <2> QED BY <2>1 DEF R!Admit, R!Reached, LimiterTyped
<1>3. new.at = now
  OBVIOUS
<1> HIDE DEF new
<1>4. /\ passed[c] \subseteq passed'[c] /\ IsFiniteSet(passed'[c])
      /\ \A p \in passed'[c] : p \in passed[c] \/ p = new
  BY <1>2, FS_AddElement DEF WindowOf
<1>5. /\ Current(c) \subseteq passed[c] /\ IsFiniteSet(Current(c))
      /\ Cardinality(Current(c)) \in Nat
      /\ IsFiniteSet(Late(c)) /\ Cardinality(Late(c)) \in Nat
  BY FS_Subset, FS_CardinalityType DEF Current, Late, WindowOf
<1>6. /\ Begin(c)' \in Int /\ Begin(c)' <= now
      /\ \A p \in passed'[c] : p.at <= counter'[c].expires
      /\ Cardinality(Current(c)') <= counter'[c].count
      /\ Cardinality(Current(c)') <= Limit
      /\ Cardinality(Late(c)') <= counter'[c].count - 1
      /\ Cardinality(Late(c)') <= Limit - 1
      /\ Cardinality(Previous(c)') <= Limit - 1
  <2>1. CASE now > counter[c].expires
    <3>1. counter'[c].count = 1 /\ counter'[c].expires = now + Period
      BY <1>2, <2>1 DEF R!Counted
    <3>2. Begin(c)' = now
      BY <1>1, <3>1 DEF Begin
    <3>3. Current(c)' = {new}
      <4>1. \A p \in passed[c] : ~(p.at >= now)
        BY <1>1, <2>1 DEF WindowOf
      <4> QED BY <1>1, <1>2, <1>3, <3>2, <4>1 DEF Current
    <3>4. Cardinality(Current(c)') = 1
      BY <3>3, FS_Singleton
    <3>5. Previous(c)' \subseteq Late(c)
      BY <1>1, <1>3, <1>4, <2>1, <3>2 DEF Previous, Late, Current, Begin
    <3>6. Cardinality(Previous(c)') <= Limit - 1
      BY <1>5, <3>5, SmallerSet DEF WindowOf
    <3>8. Cardinality(Late(c)') = 0
      <4>1. Late(c)' = {}
        BY <1>1, <1>3, <3>2, <3>3 DEF Late
      <4> QED BY <4>1, FS_EmptySet
    <3>7. \A p \in passed'[c] : p.at <= counter'[c].expires
      BY <1>1, <1>3, <1>4, <2>1, <3>1 DEF WindowOf
    <3> QED BY <1>1, <3>1, <3>2, <3>4, <3>6, <3>7, <3>8
  <2>2. CASE ~(now > counter[c].expires)
    <3>1. /\ counter'[c].count = counter[c].count + 1
          /\ counter'[c].expires = counter[c].expires
      BY <1>2, <2>2 DEF R!Counted, LimiterTyped
    <3>2. Begin(c)' = Begin(c) /\ Begin(c) <= now /\ Begin(c) \in Int
      BY <1>1, <3>1 DEF Begin, WindowOf
    <3>3. Current(c)' \subseteq Current(c) \cup {new}
      BY <1>4, <3>2 DEF Current
    <3>4. /\ IsFiniteSet(Current(c) \cup {new})
          /\ Cardinality(Current(c) \cup {new}) <= counter[c].count + 1
      <4>1. /\ IsFiniteSet(Current(c) \cup {new})
            /\ Cardinality(Current(c) \cup {new}) =
                 IF new \in Current(c) THEN Cardinality(Current(c))
                                       ELSE Cardinality(Current(c)) + 1
        BY <1>5, FS_AddElement
      <4> QED BY <1>1, <1>5, <4>1 DEF WindowOf
    <3>5. Cardinality(Current(c)') <= counter'[c].count
      BY <1>1, <3>1, <3>3, <3>4, SmallerSet
    <3>6. Cardinality(Current(c)') <= Limit
      BY <1>1, <1>2, <3>1, <3>3, <3>4, SmallerSet
    <3>7. Previous(c)' = Previous(c)
      BY <1>1, <1>3, <1>4, <3>2 DEF Previous
    <3>8. \A p \in passed'[c] : p.at <= counter'[c].expires
      BY <1>1, <1>3, <1>4, <2>2, <3>1 DEF WindowOf
    <3>9. Cardinality(Late(c)') <= counter'[c].count - 1
      <4>1. Late(c)' \subseteq Late(c) \cup {new}
        BY <3>2, <3>3 DEF Late
      <4>2. Cardinality(Late(c)) <= counter[c].count - 1
        BY <1>1, <2>2 DEF WindowOf
      <4>3. /\ IsFiniteSet(Late(c) \cup {new})
            /\ Cardinality(Late(c) \cup {new}) =
                 IF new \in Late(c) THEN Cardinality(Late(c))
                                    ELSE Cardinality(Late(c)) + 1
        BY <1>5, FS_AddElement
      <4>4. Cardinality(Late(c) \cup {new}) <= counter[c].count
        BY <1>1, <1>5, <4>2, <4>3
      <4>5. Cardinality(Late(c)') <= counter[c].count
        BY <1>1, <4>1, <4>3, <4>4, SmallerSet
      <4> QED BY <1>1, <3>1, <4>5
    <3>10. Cardinality(Late(c)') <= Limit - 1
      <4>1. IsFiniteSet(Late(c)')
        BY <1>4, FS_Subset DEF Late, Current
      <4>2. Cardinality(Late(c)') \in Nat
        BY <4>1, FS_CardinalityType
      <4> QED BY <1>1, <1>2, <3>1, <3>9, <4>2
    <3> QED BY <3>2, <3>5, <3>6, <3>7, <3>8, <3>9, <3>10 DEF WindowOf
  <2> QED BY <2>1, <2>2
<1>7. ASSUME NEW t \in 0..MaxNow PROVE Cardinality(Within(c, t)') <= 2 * Limit - 1
  <2>1. CASE t + Period < Begin(c)'
    <3>1. Within(c, t)' = Within(c, t)
      BY <1>1, <1>3, <1>4, <1>6, <2>1 DEF Within
    <3> QED BY <3>1 DEF WindowOf
  <2>2. CASE ~(t + Period < Begin(c)')
    <3>1. IsFiniteSet(Current(c)') /\ IsFiniteSet(Previous(c)')
      BY <1>4, FS_Subset DEF Current, Previous
    <3>2. Within(c, t)' \subseteq Current(c)' \cup Previous(c)'
      BY <1>1, <1>3, <1>4, <1>6, <2>2 DEF Within, Current, Previous
    <3> QED BY <1>6, <3>1, <3>2, TwoSets
  <2> QED BY <2>1, <2>2
<1> QED BY <1>4, <1>6, <1>7 DEF WindowOf

\* A refusal counts, and lets nothing through.
LEMMA WindowRejects ==
  ASSUME LimiterTyped, NEW c \in Client, WindowOf(c), R!Reject(c), now' = now
  PROVE  WindowOf(c)'
<1> USE LimitNat
<1>1. /\ now \in Int /\ counter[c].expires \in Int /\ counter[c].count \in Nat
      /\ \A p \in passed[c] : p.at \in Int
  BY BoundsAssumption DEF LimiterTyped
<1>2. counter'[c] = R!Counted(c) /\ passed' = passed
  BY DEF R!Reject, LimiterTyped
<1>3. ~(now > counter[c].expires)
  BY DEF R!Reject, R!Reached, R!Counted
<1>4. /\ counter'[c].count = counter[c].count + 1
      /\ counter'[c].expires = counter[c].expires
  BY <1>2, <1>3 DEF R!Counted, LimiterTyped
<1>5. Begin(c)' = Begin(c)
  BY <1>4 DEF Begin
<1>6. /\ Current(c)' = Current(c) /\ Previous(c)' = Previous(c)
      /\ \A t \in 0..MaxNow : Within(c, t)' = Within(c, t)
      /\ Late(c)' = Late(c)
  BY <1>2, <1>5 DEF Current, Previous, Within, Late
<1>7. Cardinality(Current(c)) \in Nat /\ Cardinality(Late(c)) \in Nat
  BY FS_Subset, FS_CardinalityType DEF Current, Late, WindowOf
<1> QED BY <1>1, <1>2, <1>4, <1>5, <1>6, <1>7 DEF WindowOf

\* Nothing is counted and the clock does not go back.
LEMMA WindowStays ==
  ASSUME LimiterTyped, NEW c \in Client, WindowOf(c), now' \in Int, now <= now',
         counter'[c] = counter[c], passed'[c] = passed[c]
  PROVE  WindowOf(c)'
<1>1. now \in Int /\ Begin(c) \in Int
  BY LimitNat, BoundsAssumption DEF LimiterTyped, Begin
<1>2. Begin(c)' = Begin(c)
  BY DEF Begin
<1>3. /\ Current(c)' = Current(c) /\ Previous(c)' = Previous(c)
      /\ \A t \in 0..MaxNow : Within(c, t)' = Within(c, t)
      /\ Late(c)' = Late(c)
  BY <1>2 DEF Current, Previous, Within, Late
<1>4. now' <= counter[c].expires => now <= counter[c].expires
  BY <1>1 DEF LimiterTyped
<1> QED BY <1>1, <1>2, <1>3, <1>4 DEF WindowOf

LEMMA WindowEmpty ==
  ASSUME NEW c \in Client, counter[c] = R!Absent, passed[c] = {}, now \in Nat
  PROVE  WindowOf(c)
<1>1. counter[c].count = 0 /\ counter[c].expires = -1
  BY DEF R!Absent
<1>2. /\ Current(c) = {} /\ Previous(c) = {} /\ Late(c) = {}
      /\ \A t \in 0..MaxNow : Within(c, t) = {}
  BY DEF Current, Previous, Within, Late
<1>3. 0 <= 2 * Limit - 1 /\ 0 <= Limit - 1 /\ ~(now <= -1) /\ Begin(c) <= now
  BY <1>1, LimitNat DEF Begin
<1> QED BY <1>1, <1>2, <1>3, LimitNat, FS_EmptySet DEF WindowOf

LEMMA WindowForgotten ==
  ASSUME NEW c \in Client, counter'[c] = R!Absent, passed'[c] = {}, now' \in Nat
  PROVE  WindowOf(c)'
<1>1. counter'[c].count = 0 /\ counter'[c].expires = -1
  BY DEF R!Absent
<1>2. /\ Current(c)' = {} /\ Previous(c)' = {} /\ Late(c)' = {}
      /\ \A t \in 0..MaxNow : Within(c, t)' = {}
  BY DEF Current, Previous, Within, Late
<1>3. 0 <= 2 * Limit - 1 /\ 0 <= Limit - 1 /\ ~(now' <= -1) /\ Begin(c)' <= now'
  BY <1>1, LimitNat DEF Begin
<1>4. Cardinality({}) = 0
  BY FS_EmptySet
<1>5. /\ Cardinality(Current(c)') = 0 /\ Cardinality(Previous(c)') = 0
      /\ Cardinality(Late(c)') = 0
      /\ \A t \in 0..MaxNow : Cardinality(Within(c, t)') = 0
  BY <1>2, <1>4
<1>6. IsFiniteSet(passed'[c])
  BY FS_EmptySet
<1> QED BY <1>1, <1>3, <1>5, <1>6, LimitNat DEF WindowOf

-----------------------------------------------------------------------------
(* Every step is one of Idempotency's, or none of its business *)

LEMMA StepImplements == [Next]_vars => [I!Next]_I!vars
<1> SUFFICES ASSUME [Next]_vars PROVE I!Next \/ UNCHANGED I!vars
  OBVIOUS
<1>1. ASSUME NEW r \in Request, NEW k \in Sent, NEW c \in Client,
             NEW u \in User \cup {None}, Arrive(r, k, c, u)
      PROVE  I!Next
  BY <1>1, SentAssumption DEF Arrive, I!Next
<1>2. ASSUME NEW r \in Request, RateLimit(r) \/ Authenticate(r) \/ Work(r) \/ Commit(r)
      PROVE  I!Next \/ UNCHANGED I!vars
  <2>1. I!Handler(r) \/ Inside
    BY <1>2 DEF RateLimit, Authenticate, Work, Commit, Respond
  <2> QED BY <2>1 DEF Inside, idemVars, I!vars, I!Next, I!Serve
<1>3. ASSUME NEW r \in Request, Replay(r) \/ Record(r) \/ Send(r)
      PROVE  I!Next
  BY <1>3 DEF Replay, Record, Send, I!Next, I!Serve
<1>4. ASSUME Tick \/ Crash PROVE I!Next
  BY <1>4 DEF Tick, Crash, I!Next
<1>5. CASE UNCHANGED vars
  BY <1>5 DEF vars, idemVars, I!vars
<1> QED BY <1>1, <1>2, <1>3, <1>4, <1>5 DEF Next, Serve

LEMMA InitP == Init => P!IInv
BY SameInit, Assumptions, P!InitIInv DEF Init

LEMMA NextP == P!IInv /\ [Next]_vars => P!IInv'
BY StepImplements, SameStep, Assumptions, P!NextIInv

-----------------------------------------------------------------------------
(* The invariant *)

ChainTyped ==
  /\ chain \in [Request -> [pc : {"limit", "auth", "work", "commit"},
                            client : Client \cup {None}, user : User \cup {None}]]
  /\ sender \in [1..MaxStarts -> User \cup {None}]
  /\ committed \in SUBSET (1..MaxStarts)
  /\ mishaps \in 0..MaxFaults

\* Requests that the limiter has still to count.
Waiting == {r \in Request : req[r].pc \in {"get", "handler"} /\ chain[r].pc = "limit"}

\* Every request has an address, and is counted at most once.
CountOK ==
  /\ \A r \in Request : req[r].pc # "idle" => chain[r].client \in Client
  /\ \A c \in Client : counter[c].count + Cardinality(Waiting) <= starts

\* SuccessIsCommitted, also of answers that are still to be recorded.
CommittedOK ==
  mishaps = 0 =>
    /\ \A k \in Key :
         store[k] # None /\ store[k].response.class = "success" =>
           store[k].response.by \in committed
    /\ \A r \in Request :
         req[r].pc \in {"set", "send"} /\ req[r].response.class = "success" =>
           req[r].response.by \in committed

\* What Pipeline adds to Idempotency.
ChainInv == ChainTyped /\ LimiterTyped /\ WindowOK /\ CountOK /\ CommittedOK

IInv == P!IInv /\ ChainInv

LEMMA Typed ==
  ASSUME IInv
  PROVE  /\ now \in 0..MaxNow /\ starts \in 0..MaxStarts /\ faults \in 0..MaxFaults
         /\ store \in [Key -> P!Record \cup {None}]
         /\ req \in [Request -> P!ReqRecord]
         /\ \A r \in Request : req[r].pc # "idle" => req[r].id \in 1..MaxStarts
BY DEF IInv, P!IInv, P!TypeOK, P!ReqRecord, P!LocalsOK

LEMMA WaitingFinite ==
  /\ IsFiniteSet(Waiting) /\ Cardinality(Waiting) \in Nat
  /\ \A S \in SUBSET Request : IsFiniteSet(S) /\ Cardinality(S) \in Nat
BY RequestAssumption, FS_Subset, FS_CardinalityType DEF Waiting

Others(r) == \A q \in Request \ {r} : req'[q] = req[q]

\* Nothing is counted and nobody arrives.
LEMMA CountStays ==
  ASSUME IInv, UNCHANGED <<counter, starts>>, Waiting' \subseteq Waiting
  PROVE  \A c \in Client : counter'[c].count + Cardinality(Waiting') <= starts'
<1>1. Cardinality(Waiting') <= Cardinality(Waiting) /\ Cardinality(Waiting') \in Nat
  BY WaitingFinite, FS_Subset, FS_CardinalityType
<1>2. \A c \in Client : counter[c].count \in Nat
  BY DEF IInv, ChainInv, LimiterTyped
<1>3. starts \in Nat
  BY Typed, BoundsAssumption
<1> QED BY <1>1, <1>2, <1>3, WaitingFinite DEF IInv, ChainInv, CountOK

\* The limiter and the clock stay.
LEMMA LimiterStays ==
  ASSUME IInv, UNCHANGED <<now, limiterVars>>
  PROVE  LimiterTyped' /\ WindowOK'
<1>1. LimiterTyped'
  BY DEF IInv, ChainInv, LimiterTyped, limiterVars
<1>2. now \in Int
  BY Typed, BoundsAssumption
<1> QED BY <1>1, <1>2, WindowStays DEF IInv, ChainInv, WindowOK, limiterVars

LEMMA Responds ==
  ASSUME IInv, NEW r \in Request, NEW class, Respond(r, class)
  PROVE  /\ UNCHANGED <<now, backend, store, starts, faults>>
         /\ req[r].pc = "handler" /\ req[r].id \in 1..MaxStarts
         /\ Others(r) /\ req'[r].pc \in {"set", "send"}
         /\ req'[r].response.by = req[r].id /\ req'[r].response.class = class
<1>1. /\ UNCHANGED <<now, backend, store, starts, faults>>
      /\ req[r].pc = "handler" /\ req'[r].response.class = class
  BY DEF Respond, I!Handler, I!At
<1>2. PICK k \in I!Class :
        req' = [req EXCEPT ![r].pc = I!AfterHandler(r, k),
                           ![r].response = [by |-> req[r].id, class |-> k]]
  BY DEF Respond, I!Handler
<1>3. I!AfterHandler(r, k) \in {"set", "send"}
  BY DEF I!AfterHandler
<1> QED BY <1>1, <1>2, <1>3, Typed DEF Others

LEMMA InitChain == Init => ChainInv
<1> SUFFICES ASSUME Init PROVE ChainInv
  OBVIOUS
<1>1. /\ now = 0 /\ starts = 0 /\ mishaps = 0 /\ committed = {}
      /\ \A r \in Request : req[r].pc = "idle"
      /\ \A k \in Key : store[k] = None
  BY DEF Init, I!Init, I!Idle
<1>2. /\ counter = [c \in Client |-> R!Absent]
      /\ passed = [c \in Client |-> {}]
  BY DEF Init, R!LimitInit
<1>3. ChainTyped
  BY <1>1, BoundsAssumption DEF Init, ChainTyped, Outside
<1>4. LimiterTyped
  <2>1. R!Absent \in [count : Nat, expires : -1..(MaxNow + Period)]
    BY BoundsAssumption, LimitNat DEF R!Absent
  <2> QED BY <1>1, <1>2, <2>1, BoundsAssumption DEF LimiterTyped
<1>5. WindowOK
  BY <1>1, <1>2, WindowEmpty DEF WindowOK
<1>6. CountOK
  <2>1. Waiting = {}
    BY <1>1 DEF Waiting
  <2>2. Cardinality(Waiting) = 0
    BY <2>1, FS_EmptySet
  <2> QED BY <1>1, <1>2, <2>2 DEF CountOK, R!Absent
<1>7. CommittedOK
  BY <1>1 DEF CommittedOK
<1> QED BY <1>3, <1>4, <1>5, <1>6, <1>7 DEF ChainInv

LEMMA ArriveStep ==
  ASSUME IInv, NEW r \in Request, NEW k \in Sent, NEW c \in Client,
         NEW u \in User \cup {None}, Arrive(r, k, c, u)
  PROVE  ChainInv'
<1> USE DEF IInv, ChainInv
<1>1. /\ UNCHANGED <<now, store, limiterVars, committed, mishaps>>
      /\ req[r].pc = "idle" /\ starts' = starts + 1 /\ starts < MaxStarts
      /\ chain' = [chain EXCEPT ![r] = [pc |-> "limit", client |-> c, user |-> u]]
      /\ sender' = [sender EXCEPT ![starts'] = u]
  BY DEF Arrive, I!Arrive, I!At
<1>2. Others(r) /\ req'[r].pc \in {"get", "handler"}
  <2>1. \E new : req' = [req EXCEPT ![r] = new] /\ new.pc \in {"get", "handler"}
    <3> DEFINE new == [I!Idle EXCEPT !.pc = IF k = None THEN "handler" ELSE "get",
                         !.key = k, !.id = starts + 1,
                         !.seen = IF k = None THEN None ELSE store[k]]
    <3>1. req' = [req EXCEPT ![r] = new]
      BY DEF Arrive, I!Arrive
    <3>2. new.pc \in {"get", "handler"}
      BY DEF I!Idle
    <3> QED BY <3>1, <3>2
  <2> QED BY <2>1, Typed DEF Others
<1>3. starts' \in 1..MaxStarts
  BY <1>1, Typed, BoundsAssumption
<1>4. ChainTyped'
  BY <1>1, <1>3 DEF ChainTyped
<1>5. LimiterTyped' /\ WindowOK'
  BY <1>1, LimiterStays
<1>6. CountOK'
  <2>1. Waiting' \subseteq Waiting \cup {r}
    BY <1>1, <1>2 DEF Waiting, Others, ChainTyped
  <2>2. /\ IsFiniteSet(Waiting \cup {r})
        /\ Cardinality(Waiting \cup {r}) \in Nat
        /\ Cardinality(Waiting \cup {r}) <= Cardinality(Waiting) + 1
    <3>1. /\ IsFiniteSet(Waiting \cup {r})
          /\ Cardinality(Waiting \cup {r}) =
               IF r \in Waiting THEN Cardinality(Waiting) ELSE Cardinality(Waiting) + 1
      BY WaitingFinite, FS_AddElement
    <3> QED BY <3>1, WaitingFinite
  <2>3. Cardinality(Waiting') <= Cardinality(Waiting \cup {r}) /\ Cardinality(Waiting') \in Nat
    BY <2>1, <2>2, FS_Subset, FS_CardinalityType
  <2>4. \A d \in Client : counter[d].count \in Nat
    BY DEF LimiterTyped
  <2>5. starts \in Nat
    BY Typed, BoundsAssumption
  <2>6. \A d \in Client : counter'[d].count + Cardinality(Waiting') <= starts'
    BY <1>1, <2>2, <2>3, <2>4, <2>5, WaitingFinite DEF CountOK, limiterVars
  <2>7. \A q \in Request : req'[q].pc # "idle" => chain'[q].client \in Client
    BY <1>1, <1>2 DEF CountOK, ChainTyped, Others
  <2> QED BY <2>6, <2>7 DEF CountOK
<1>7. CommittedOK'
  BY <1>1, <1>2 DEF CommittedOK, Others
<1> QED BY <1>4, <1>5, <1>6, <1>7

\* An answer other than a success, or any after a mishap, says of no account
\* that it is committed.
LEMMA RespondCommits ==
  ASSUME IInv, NEW r \in Request, NEW class, Respond(r, class),
         committed \subseteq committed',
         mishaps' = 0 => mishaps = 0,
         mishaps' = 0 /\ class = "success" => req[r].id \in committed'
  PROVE  CommittedOK'
BY Responds DEF IInv, ChainInv, CommittedOK, Others

LEMMA RateLimitStep ==
  ASSUME IInv, NEW r \in Request, RateLimit(r)
  PROVE  ChainInv'
<1> USE DEF IInv, ChainInv
<1>1. /\ req[r].pc = "handler" /\ chain[r].pc = "limit"
      /\ UNCHANGED <<sender, committed, mishaps>>
      /\ r \in Waiting /\ chain[r].client \in Client /\ req[r].id \in 1..MaxStarts
  BY Typed DEF RateLimit, At, I!At, Ok, Waiting, CountOK
<1>client. PICK c \in Client : c = chain[r].client
  BY <1>1
<1>id. PICK id \in 1..MaxStarts : id = req[r].id
  BY <1>1
<1>2. /\ R!Admit(c, id) \/ R!Reject(c)
      /\ UNCHANGED <<now, starts>>
  BY <1>client, <1>id, Responds DEF RateLimit, Inside, idemVars
<1>3. /\ R!Counted(c) \in [count : Nat, expires : -1..(MaxNow + Period)]
      /\ R!Counted(c).count <= counter[c].count + 1
  BY LimitNat, BoundsAssumption, <1>1 DEF R!Counted, LimiterTyped
<1>4. counter' = [counter EXCEPT ![c] = R!Counted(c)]
  BY <1>2 DEF R!Admit, R!Reject
<1>5. LimiterTyped'
  <2>1. passed' \in [Client -> SUBSET [id : 1..MaxStarts, at : 0..MaxNow]]
    BY <1>1, <1>2 DEF R!Admit, R!Reject, LimiterTyped
  <2> QED BY <1>2, <1>3, <1>4, <2>1 DEF LimiterTyped
<1>6. WindowOK'
  <2>1. WindowOf(c)'
    BY <1>1, <1>2, WindowAdmits, WindowRejects DEF WindowOK
  <2>2. ASSUME NEW d \in Client, d # c PROVE WindowOf(d)'
    <3>1. counter'[d] = counter[d] /\ passed'[d] = passed[d]
      BY <1>2, <1>4, <2>2 DEF R!Admit, R!Reject, LimiterTyped
    <3>2. now' \in Int /\ now <= now'
      BY <1>2, Typed, BoundsAssumption
    <3> QED BY <3>1, <3>2, WindowStays DEF WindowOK
  <2> QED BY <2>1, <2>2 DEF WindowOK
<1>7. /\ Others(r) \/ UNCHANGED req
      /\ req'[r].pc \notin {"get", "idle"}
      /\ req'[r].pc = "handler" => chain'[r].pc = "auth"
      /\ \A q \in Request : chain'[q].client = chain[q].client
      /\ \A q \in Request \ {r} : chain'[q] = chain[q]
  <2>1. CASE Goto(r, "auth") /\ Inside
    BY <1>1, <2>1 DEF Goto, Inside, idemVars, ChainTyped
  <2>2. CASE Respond(r, "refused") /\ UNCHANGED chain
    BY <2>2, Responds
  <2> QED BY <2>1, <2>2 DEF RateLimit
<1>8. CountOK'
  <2>1. Waiting' \subseteq Waiting \ {r}
    BY <1>7 DEF Waiting, Others
  <2>2. /\ IsFiniteSet(Waiting \ {r})
        /\ Cardinality(Waiting \ {r}) = Cardinality(Waiting) - 1
    BY <1>1, WaitingFinite, FS_RemoveElement
  <2>3. /\ Cardinality(Waiting') <= Cardinality(Waiting) - 1
        /\ Cardinality(Waiting') \in Nat
    BY <2>1, <2>2, FS_Subset, FS_CardinalityType
  <2>4. /\ \A d \in Client : counter[d].count \in Nat
        /\ \A d \in Client : counter'[d].count \in Nat
        /\ \A d \in Client : counter'[d].count <= counter[d].count + 1
    BY <1>3, <1>4 DEF LimiterTyped
  <2>5. starts \in Nat
    BY Typed, BoundsAssumption
  <2>6. \A d \in Client : counter'[d].count + Cardinality(Waiting') <= starts'
    BY <1>2, <2>3, <2>4, <2>5, WaitingFinite DEF CountOK
  <2>7. \A q \in Request : req'[q].pc # "idle" => chain'[q].client \in Client
    BY <1>1, <1>7 DEF CountOK, Others
  <2> QED BY <2>6, <2>7 DEF CountOK
<1>9. ChainTyped'
  <2>1. chain' = chain \/ Goto(r, "auth")
    BY DEF RateLimit
  <2> QED BY <1>1, <2>1 DEF ChainTyped, Goto
<1>10. CommittedOK'
  <2>1. CASE Inside
    BY <1>1, <2>1 DEF Inside, idemVars, CommittedOK
  <2>2. CASE Respond(r, "refused")
    BY <1>1, <2>2, RespondCommits
  <2> QED BY <2>1, <2>2 DEF RateLimit
<1> QED BY <1>5, <1>6, <1>8, <1>9, <1>10

LEMMA ChainStep ==
  ASSUME IInv, NEW r \in Request, Authenticate(r) \/ Work(r) \/ Commit(r)
  PROVE  ChainInv'
<1> USE DEF IInv, ChainInv
<1>1. /\ req[r].pc = "handler" /\ req[r].id \in 1..MaxStarts
      /\ UNCHANGED <<limiterVars, sender>>
      /\ chain[r].pc # "limit"
  BY Typed DEF Authenticate, Work, Commit, At, I!At
<1>2. CASE Inside
  <2>1. /\ UNCHANGED <<now, starts, store, req, committed, mishaps>>
        /\ Goto(r, "work") \/ Goto(r, "commit")
    BY <1>2, <1>1, Responds DEF Inside, idemVars, Authenticate, Work, Commit, Ok
  <2>2. LimiterTyped' /\ WindowOK'
    BY <1>1, <2>1, LimiterStays
  <2>3. ChainTyped'
    BY <1>1, <2>1 DEF ChainTyped, Goto
  <2>4. Waiting' \subseteq Waiting /\ \A q \in Request : chain'[q].client = chain[q].client
    BY <2>1 DEF Waiting, Goto, ChainTyped
  <2>5. CountOK'
    BY <1>1, <2>1, <2>4, CountStays DEF CountOK, limiterVars
  <2>6. CommittedOK'
    BY <2>1 DEF CommittedOK
  <2> QED BY <2>2, <2>3, <2>5, <2>6
<1>3. ASSUME NEW class, Respond(r, class),
             UNCHANGED chain, committed \subseteq committed',
             committed' \subseteq committed \cup {req[r].id},
             Ok \/ Mishap,
             Ok /\ class = "success" => req[r].id \in committed'
      PROVE  ChainInv'
  <2>1. /\ UNCHANGED <<now, starts, store>> /\ Others(r)
        /\ req'[r].pc \in {"set", "send"}
    BY <1>3, Responds
  <2>2. mishaps' \in 0..MaxFaults /\ (mishaps' = 0 => Ok)
    <3>1. mishaps \in 0..MaxFaults /\ faults \in Nat
      BY Typed, BoundsAssumption DEF ChainTyped
    <3> QED BY <1>3, <3>1, BoundsAssumption DEF Ok, Mishap
  <2>3. LimiterTyped' /\ WindowOK'
    BY <1>1, <2>1, LimiterStays
  <2>4. ChainTyped'
    BY <1>1, <1>3, <2>2 DEF ChainTyped
  <2>5. Waiting' \subseteq Waiting
    BY <1>3, <2>1 DEF Waiting, Others
  <2>6. CountOK'
    BY <1>1, <1>3, <2>1, <2>5, CountStays DEF CountOK, limiterVars, Others
  <2>7. CommittedOK'
    BY <1>3, <2>2, RespondCommits DEF Ok
  <2> QED BY <2>3, <2>4, <2>6, <2>7
<1>4. CASE Authenticate(r)
  BY <1>2, <1>3, <1>4 DEF Authenticate, Ok
<1>5. CASE Work(r)
  BY <1>2, <1>3, <1>5, BoundsAssumption, Typed DEF Work, Ok, Mishap, ChainTyped
<1>6. CASE Commit(r)
  BY <1>3, <1>6, BoundsAssumption, Typed DEF Commit, Ok, Mishap, ChainTyped
<1> QED BY <1>4, <1>5, <1>6

LEMMA ReplayStep ==
  ASSUME IInv, NEW r \in Request, Replay(r)
  PROVE  ChainInv'
<1> USE DEF IInv, ChainInv
<1> DEFINE k == req[r].key
<1>1. /\ UNCHANGED <<now, store, starts, limiterVars, chainVars>>
      /\ req[r].pc = "get" /\ k \in Key
  BY DEF Replay, I!Get, I!At, P!IInv, P!LocalsOK
<1>2. /\ Others(r) /\ req'[r].pc \in {"send", "handler"}
      /\ req'[r].pc = "send" =>
           store[k] # None /\ req'[r].response = store[k].response
  <2>1. CASE I!Live(k) /\ req' = [req EXCEPT ![r].pc = "send", ![r].replayed = TRUE,
                                           ![r].response = store[k].response]
    BY <2>1, Typed DEF I!Live, Others
  <2>2. CASE I!Goto(r, "handler")
    BY <2>2, Typed DEF I!Goto, Others
  <2> QED BY <2>1, <2>2 DEF Replay, I!Get
<1>3. LimiterTyped' /\ WindowOK' /\ ChainTyped'
  BY <1>1, LimiterStays DEF ChainTyped, chainVars
<1>4. Waiting' \subseteq Waiting
  BY <1>1, <1>2 DEF Waiting, Others, chainVars
<1>5. CountOK'
  BY <1>1, <1>2, <1>4, CountStays DEF CountOK, limiterVars, chainVars, Others
<1>6. CommittedOK'
  BY <1>1, <1>2 DEF CommittedOK, chainVars, Others
<1> QED BY <1>3, <1>5, <1>6

LEMMA RecordStep ==
  ASSUME IInv, NEW r \in Request, Record(r)
  PROVE  ChainInv'
<1> USE DEF IInv, ChainInv
<1> DEFINE k == req[r].key
<1>1. /\ UNCHANGED <<now, starts, limiterVars, chainVars>>
      /\ req[r].pc = "set" /\ k \in Key
  BY DEF Record, I!Set, I!At, P!IInv, P!LocalsOK
<1>2. /\ Others(r) /\ req'[r].pc = "send" /\ req'[r].response = req[r].response
  BY Typed DEF Record, I!Set, I!Goto, Others
<1>3. \A j \in Key : store'[j] = store[j] \/ store'[j].response = req[r].response
  BY Typed DEF Record, I!Set, I!Put
<1>4. LimiterTyped' /\ WindowOK' /\ ChainTyped'
  BY <1>1, LimiterStays DEF ChainTyped, chainVars
<1>5. Waiting' \subseteq Waiting
  BY <1>1, <1>2 DEF Waiting, Others, chainVars
<1>6. CountOK'
  BY <1>1, <1>2, <1>5, CountStays DEF CountOK, limiterVars, chainVars, Others
<1>7. CommittedOK'
  BY <1>1, <1>2, <1>3 DEF CommittedOK, chainVars, Others
<1> QED BY <1>4, <1>6, <1>7

LEMMA SendStep ==
  ASSUME IInv, NEW r \in Request, Send(r)
  PROVE  ChainInv'
<1> USE DEF IInv, ChainInv
<1>1. /\ UNCHANGED <<now, store, starts, limiterVars, sender, committed, mishaps>>
      /\ chain' = [chain EXCEPT ![r] = Outside]
  BY DEF Send, I!Send
<1>2. Others(r) /\ req'[r].pc = "idle"
  BY Typed DEF Send, I!Send, I!Idle, Others
<1>3. LimiterTyped' /\ WindowOK'
  BY <1>1, LimiterStays
<1>4. ChainTyped'
  BY <1>1 DEF ChainTyped, Outside
<1>5. Waiting' \subseteq Waiting
  BY <1>1, <1>2 DEF Waiting, Others, ChainTyped
<1>6. CountOK'
  BY <1>1, <1>2, <1>5, CountStays DEF CountOK, limiterVars, ChainTyped, Others
<1>7. CommittedOK'
  BY <1>1, <1>2 DEF CommittedOK, Others
<1> QED BY <1>3, <1>4, <1>6, <1>7

LEMMA TickStep == IInv /\ Tick => ChainInv'
<1> SUFFICES ASSUME IInv, Tick PROVE ChainInv'
  OBVIOUS
<1> USE DEF IInv, ChainInv
<1>1. /\ UNCHANGED <<store, req, starts, limiterVars, chainVars>>
      /\ now' \in 0..MaxNow /\ now' \in Int /\ now <= now'
  BY Typed, BoundsAssumption DEF Tick, I!Tick
<1>2. LimiterTyped' /\ ChainTyped'
  BY <1>1 DEF LimiterTyped, ChainTyped, limiterVars, chainVars
<1>3. WindowOK'
  BY <1>1, WindowStays DEF WindowOK, limiterVars
<1>4. Waiting' = Waiting
  BY <1>1 DEF Waiting, chainVars
<1>5. CountOK'
  BY <1>1, <1>4 DEF CountOK, limiterVars, chainVars
<1>6. CommittedOK'
  BY <1>1 DEF CommittedOK, chainVars
<1> QED BY <1>2, <1>3, <1>5, <1>6

LEMMA CrashStep == IInv /\ Crash => ChainInv'
<1> SUFFICES ASSUME IInv, Crash PROVE ChainInv'
  OBVIOUS
<1> USE DEF IInv, ChainInv
<1>1. /\ UNCHANGED <<now, store, starts, sender, committed, mishaps>>
      /\ counter' = [c \in Client |-> R!Absent] /\ passed' = [c \in Client |-> {}]
      /\ chain' = [r \in Request |-> Outside]
      /\ \A r \in Request : req'[r].pc = "idle"
  BY DEF Crash, I!Crash, I!Idle, R!Restart
<1>2. LimiterTyped'
  <2>1. R!Absent \in [count : Nat, expires : -1..(MaxNow + Period)]
    BY BoundsAssumption, LimitNat DEF R!Absent
  <2> QED BY <1>1, <2>1 DEF LimiterTyped
<1>3. ASSUME NEW c \in Client PROVE WindowOf(c)'
  <2>1. counter'[c] = R!Absent /\ passed'[c] = {} /\ now' \in Nat
    BY <1>1, Typed, BoundsAssumption
  <2> QED BY <2>1, WindowForgotten
<1>4. ChainTyped'
  BY <1>1 DEF ChainTyped, Outside
<1>5. CountOK'
  <2>1. Waiting' = {}
    BY <1>1 DEF Waiting
  <2>2. Cardinality(Waiting') = 0
    BY <2>1, FS_EmptySet
  <2> QED BY <1>1, <2>2, Typed, BoundsAssumption DEF CountOK, R!Absent
<1>6. CommittedOK'
  BY <1>1 DEF CommittedOK
<1> QED BY <1>2, <1>3, <1>4, <1>5, <1>6 DEF WindowOK

LEMMA StutterStep == IInv /\ UNCHANGED vars => ChainInv'
<1> SUFFICES ASSUME IInv, UNCHANGED vars PROVE ChainInv'
  OBVIOUS
<1> USE DEF IInv, ChainInv
<1>1. UNCHANGED <<now, req, store, starts, limiterVars, chainVars>>
  BY DEF vars, idemVars
<1>2. Waiting' = Waiting
  BY <1>1 DEF Waiting, chainVars
<1> QED BY <1>1, <1>2, LimiterStays
        DEF ChainTyped, CountOK, CommittedOK, limiterVars, chainVars

LEMMA NextChain == IInv /\ [Next]_vars => ChainInv'
<1> SUFFICES ASSUME IInv, [Next]_vars PROVE ChainInv'
  OBVIOUS
<1>1. ASSUME NEW r \in Request, NEW k \in Sent, NEW c \in Client,
             NEW u \in User \cup {None}, Arrive(r, k, c, u)
      PROVE  ChainInv'
  BY <1>1, ArriveStep
<1>2. ASSUME NEW r \in Request, Serve(r) PROVE ChainInv'
  BY <1>2, RateLimitStep, ChainStep, ReplayStep, RecordStep, SendStep DEF Serve
<1> QED BY <1>1, <1>2, TickStep, CrashStep, StutterStep DEF Next

-----------------------------------------------------------------------------
(* Theorems *)

\* The invariant of Idempotency and that of the chain hold together.
THEOREM Invariance == Spec => []IInv
<1>1. Init => IInv
  BY InitP, InitChain DEF IInv
<1>2. IInv /\ [Next]_vars => IInv'
  <2>1. IInv /\ [Next]_vars => P!IInv'
    BY NextP DEF IInv
  <2> QED BY <2>1, NextChain DEF IInv
<1> QED BY <1>1, <1>2, PTL DEF Spec

\* Every variable of the chain stays in its type; no counter exceeds the
\* number of requests.
THEOREM TypeCorrect == Spec => []TypeOK
<1>1. IInv => TypeOK
  <2> SUFFICES ASSUME IInv PROVE TypeOK
    OBVIOUS
  <2>1. I!TypeOK
    BY SameInvariants DEF IInv, P!IInv
  <2>2. R!LimitTypeOK
    <3>1. \A c \in Client : counter[c].count \in 0..MaxStarts
      BY Typed, BoundsAssumption, WaitingFinite DEF IInv, ChainInv, CountOK, LimiterTyped
    <3> QED BY <3>1 DEF IInv, ChainInv, LimiterTyped, R!LimitTypeOK
  <2> QED BY <2>1, <2>2 DEF IInv, ChainInv, ChainTyped, TypeOK
<1> QED BY <1>1, Invariance, PTL

\* Without panics and failed commits, a success that is sent or recorded is
\* committed, through all middlewares and across crashes.
THEOREM Committed == Spec => []SuccessIsCommitted
<1>1. IInv => SuccessIsCommitted
  BY DEF IInv, ChainInv, CommittedOK, SuccessIsCommitted, I!At
<1> QED BY <1>1, Invariance, PTL

\* A client gets fewer than twice its limit within any period, for every limit
\* and every period.
THEOREM Sliding == Spec => []SlidingLimit
<1>1. IInv => SlidingLimit
  BY WindowSlides DEF IInv, ChainInv
<1> QED BY <1>1, Invariance, PTL

\* What holds of Idempotency alone holds of it in front of this chain.
THEOREM IdempotencyHolds ==
  Spec => [](I!AnswersBelongToKey /\ I!LiveRecordIsReplayed /\ I!AnswersAreRecorded)
<1>1. P!Spec => [](P!AnswersBelongToKey /\ P!LiveRecordIsReplayed /\ P!AnswersAreRecorded)
  BY Assumptions, P!AnswersOfKey, P!Replayed, P!AnswersRecorded, PTL
<1>2. Init => P!Init
  BY SameInit DEF Init
<1>3. [Next]_vars => [P!Next]_P!vars
  BY StepImplements, SameStep
<1> QED BY <1>1, <1>2, <1>3, SameInvariants, PTL DEF Spec, P!Spec

=============================================================================

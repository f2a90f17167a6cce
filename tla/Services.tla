------------------------------ MODULE Services ------------------------------
(***************************************************************************)
(* Uploads and Outbound in one process: a failed upload to S3 ends it, and *)
(* takes along the requests and calls of everybody else.                   *)
(***************************************************************************)
EXTENDS Integers

CONSTANTS Upload, Call, None, MaxTime, MaxFaults

ASSUME BoundsAssumption == {MaxTime, MaxFaults} \subseteq Nat
ASSUME NoneAssumption == None \notin Upload

VARIABLES now, objects, up, call, done, admin, faults

U == INSTANCE Uploads
O == INSTANCE Outbound

uploadVars == <<now, objects, up>>
outboundVars == <<call, done, admin>>
vars == <<uploadVars, outboundVars, faults>>

TypeOK == U!UploadTypeOK /\ O!OutboundTypeOK

Init == U!UploadInit /\ O!OutboundInit /\ faults = 0

Serve(u) == U!UploadStep(u) /\ UNCHANGED outboundVars
Perform(c) == O!CallStep(c) /\ UNCHANGED uploadVars

Arrive ==
  \/ \E u \in Upload : (U!ReadForm(u) \/ U!GetSignedUrl(u)) /\ UNCHANGED outboundVars
  \/ \E c \in Call : O!Request(c) /\ UNCHANGED uploadVars

Tick == U!Tick /\ UNCHANGED outboundVars

\* logger.Fatalf of UploadToS3: os.Exit.  A new process serves what comes next.
Exit == U!S3Fails /\ O!CallsLost

Next ==
  \/ Arrive \/ Tick \/ Exit
  \/ \E u \in Upload : Serve(u)
  \/ \E c \in Call : Perform(c)

Spec == Init /\ [][Next]_vars

-----------------------------------------------------------------------------
(* Properties *)

\* What UploadFile and UploadImage answer is stored stays stored, and no
\* thumbnail without its original, also beside calls and across the exits of
\* the process.
ObjectsHold == U!ObjectsHold

\* No call of a provider is reported done that was not.
SuccessHappened == O!SuccessHappened

=============================================================================

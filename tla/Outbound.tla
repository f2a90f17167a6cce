------------------------------ MODULE Outbound ------------------------------
(***************************************************************************)
(* The calls to other companies' APIs and what is reported of them:        *)
(* services/twilio.go, services/stripe.go, services/gcp_services/gmail.go, *)
(* api/admin/gcp_billing/controller.go, the two seeds of database/seeds    *)
(* and internal/middlewares/firebase.go.                                   *)
(*                                                                         *)
(* A call has an effect at the provider and a result at the caller, and    *)
(* the connection may break between the two.  The providers are external;  *)
(* services/module.go leaves these services out of the present build.      *)
(*                                                                         *)
(* X_Y is a faulty form of the operator X that no specification uses: it   *)
(* serves to confirm that a property notices the fault.                    *)
(***************************************************************************)
EXTENDS Integers

CONSTANTS
  Call,      \* calls, each on a goroutine of its own
  MaxFaults  \* bound: failed calls

VARIABLES
  call,   \* call[c]: where the call is, and what its caller was told
  done,   \* done[c]: what the provider did of what call c asks for
  admin,  \* the administrator has an account at Firebase
  faults

\* The methods of StripeService that pass on the error of the client.
ReturnsError == {"CreateCustomer", "CreateSubscription"}

\* Those that answer any error with a StripeErrorResponse of their own, of
\* type 500.
AnswersInternal ==
  {"UpdateSubscription", "CancelSubscription", "CreatePrices", "UpdatePrices",
   "CreatePaymentIntent", "VoidInvoice"}

\* The handlers of the billing controller: 500 for any error of the service.
Answers500 == {"GetCost", "GetBudgetInfo", "CreateUpdateBudget"}

\* Besides: SendSMS, MessageSuccess, SendEmail with a text that its language
\* can encode and without, AdminSeed.Run, ProjectBudgetSeed.Run, HandleAuth.
Operation ==
  {"sms", "message", "mail", "mail cut", "admin", "budget", "auth"}
    \cup ReturnsError \cup AnswersInternal \cup Answers500

\* "refused" is an ErrorResponse beside a nil error, "internal" a 500 or an
\* ErrorResponse of that type.
Result ==
  {"none", "ok", "refused", "error", "internal", "unauthorized", "skipped", "lost"}

Reached(c, place) == call[c].at = place

OutboundTypeOK ==
  /\ call \in [Call -> [at : {"new", "prepare", "provider", "done"},
                        op : Operation \cup {"none"}, result : Result]]
  /\ \A c \in Call : Reached(c, "done") <=> call[c].result # "none"
  /\ done \in [Call -> {"nothing", "part", "whole"}]
  /\ admin \in BOOLEAN
  /\ faults \in 0..MaxFaults

OutboundInit ==
  /\ call = [c \in Call |-> [at |-> "new", op |-> "none", result |-> "none"]]
  /\ done = [c \in Call |-> "nothing"]
  /\ admin \in BOOLEAN

-----------------------------------------------------------------------------
Proceed(c) == call' = [call EXCEPT ![c].at = "provider"]
Report(c, result) == call' = [call EXCEPT ![c].at = "done", ![c].result = result]

Fault == faults < MaxFaults /\ faults' = faults + 1
Ok == UNCHANGED faults

Request(c) ==
  /\ Reached(c, "new")
  /\ \E op \in Operation : call' = [call EXCEPT ![c].at = "prepare", ![c].op = op]
  /\ Ok /\ UNCHANGED <<done, admin>>

\* SendEmail parses its template first; with a language other than ja and en
\* the message stays empty, which the provider refuses.
PrepareMail(c) ==
  /\ call[c].op \in {"mail", "mail cut"}
  /\ Proceed(c) \/ Report(c, "error")
  /\ Ok

\* AdminSeed takes any failure of the look-up for an absent account.
LookUpAdmin(c) ==
  /\ call[c].op = "admin"
  /\ \/ admin /\ Report(c, "ok") /\ Ok
     \/ ~admin /\ Proceed(c) /\ Ok
     \/ Proceed(c) /\ Fault

\* ProjectBudgetSeed looks at SET_BUDGET.
PrepareBudget(c) ==
  /\ call[c].op = "budget"
  /\ Proceed(c) \/ Report(c, "skipped")
  /\ Ok

Prepare(c) ==
  /\ Reached(c, "prepare")
  /\ \/ PrepareMail(c) \/ LookUpAdmin(c) \/ PrepareBudget(c)
     \/ call[c].op \notin {"mail", "mail cut", "admin", "budget"} /\ Proceed(c) /\ Ok
  /\ UNCHANGED <<done, admin>>

\* getTokenFromHeader leaves the type of its error out; HandleAuth answers 401
\* whatever the type, also when Firebase could not be asked.
Unverified == "unauthorized"

\* What the caller is told of a call that failed.
OfError(op) ==
  CASE op \in AnswersInternal \cup Answers500 -> "internal"
    [] op = "auth" -> Unverified
    [] OTHER -> "error"

\* What each caller makes of a refusal of the provider: Twilio's is told by
\* the status, and MessageSuccess returns the other, nil, error for it.
OfRefusal_StatusIgnored(op) == IF op \in {"sms", "message"} THEN "ok" ELSE OfError(op)
OfRefusal(op) ==
  CASE op = "sms"     -> "refused"
    [] op = "message" -> "ok"
    [] OTHER          -> OfError(op)

\* What a setter reads of the claims of a verified token: a role that the
\* route allows, another, or no value of type Role; and the account, a number
\* or no float64.
Claims == [role : {"allowed", "other", "untyped"}, id : {"number", "other"}]

\* HandleUserAuth, HandleAdminAuth: a type assertion that fails is a panic,
\* which the recovery middleware answers with 500.  HandleAdminAuth without
\* roles checks none.
SetClaims(claims, checked) ==
  IF claims.role = "other" /\ checked THEN "unauthorized"
  ELSE IF claims.role = "untyped" \/ claims.id = "other" THEN "internal" ELSE "ok"

\* HandleAuth lets a request through when one setter takes its claims; without
\* setters it lets none through.
Admit(c) ==
  \/ \E claims \in Claims, checked \in BOOLEAN : Report(c, SetClaims(claims, checked))
  \/ Report(c, "unauthorized")

Refuse_NoResult(c) == call' = [call EXCEPT ![c].at = "done"]
Refuse(c) == Report(c, OfRefusal(call[c].op))
Break(c) == Report(c, OfError(call[c].op)) /\ Fault

\* Firebase keeps one account for an address.
Performs(c) == call[c].op = "admin" => ~admin

\* ToISO2022JP stops at a letter it has no code for, and SendEmail drops its
\* error: the beginning of the message is sent.
Effect(S) ==
  /\ done' = [c \in Call |-> IF c \notin S THEN done[c]
                             ELSE IF call[c].op = "mail cut" THEN "part" ELSE "whole"]
  /\ admin' = (admin \/ \E c \in S : call[c].op = "admin")

Provider(c) ==
  /\ Reached(c, "provider")
  /\ \/ /\ Performs(c) /\ Effect({c})
        /\ \/ call[c].op = "auth" /\ Admit(c) /\ Ok
           \/ call[c].op # "auth" /\ Report(c, "ok") /\ Ok
           \/ Break(c)
     \/ /\ UNCHANGED <<done, admin>>
        /\ \/ Refuse(c) /\ Ok
           \/ Break(c)

CallStep(c) == Prepare(c) \/ Provider(c)

\* Every call is gone with the process; what was sent may still be done.
CallsLost ==
  /\ call' = [c \in Call |-> IF call[c].at \in {"new", "done"} THEN call[c]
                             ELSE [call[c] EXCEPT !.at = "done", !.result = "lost"]]
  /\ \E S \in SUBSET {c \in Call : Reached(c, "provider") /\ Performs(c)} : Effect(S)

-----------------------------------------------------------------------------
(* Properties *)

\* A success that is reported has happened: across refusals, broken
\* connections and unreadable answers nobody is told "sent", "paid" or
\* "created", or is let through, for nothing.  Two callers do not keep this,
\* and of them less is said: MessageSuccess reports a refusal as a success, so
\* nothing; an e-mail with a letter that ISO-2022-JP lacks is reported as sent
\* when its beginning was.
SuccessHappened ==
  \A c \in Call :
    call[c].result = "ok" /\ call[c].op # "message" =>
      CASE call[c].op = "admin"    -> admin
        [] call[c].op = "mail cut" -> done[c] = "part"
        [] OTHER                   -> done[c] = "whole"

=============================================================================

-------------------------- MODULE HttpSender_proofs --------------------------
(* The HTTP sender keeps the contract of module Sender, which the theorems *)
(* about Delivery rely on.                                                 *)
EXTENDS HttpSender, TLAPS

-----------------------------------------------------------------------------
(* What one reply is taken for.                                            *)

AnyHttp == HttpStatuses \cup Redirects

\* Errors are told apart by the status only, if there is one.
LEMMA ActionByStatus ==
    ASSUME NEW err, err.status \in Int \ {0}
    PROVE  FailureAction(err) = IF err.status \in {401, 403} THEN "Fail" ELSE "CheckLabel"
  BY DEF FailureAction

LEMMA WitnessActions ==
    /\ Denied \in SendErrors /\ FailureAction(Denied) = "Fail" /\ "none" \in Fates(Denied)
    /\ Refused \in SendErrors /\ FailureAction(Refused) = "CheckLabel"
    /\ LabelStates \ {"wire"} \subseteq Fates(Refused)
  BY DEF Denied, Refused, SendErrors, FailureAction, Fates, Error, ConnectError, LocalError,
         TransportError, LabelStates

\* What UploadKeepsContract asks of an outcome.
UploadTrue(o, state) ==
    IF o.kind = "ok" THEN state = "committed"
    ELSE \E err \in SendErrors : FailureAction(err) = FailureAction(o.err) /\ state \in Fates(err)

\* An error with a status is covered by Denied or by Refused.
LEMMA StatusKept ==
    ASSUME NEW err, err.status \in AnyHttp, NEW state \in LabelStates \ {"wire"},
           err.status \in {401, 403} => state = "none"
    PROVE  UploadTrue(Fails(err), state)
<1>1. err.status \in Int \ {0}
  BY DEF AnyHttp, HttpStatuses, Redirects
<1>2. Fails(err).err = err /\ Fails(err).kind # "ok"
  BY DEF Fails, Outcome
<1>3. FailureAction(err) = IF err.status \in {401, 403} THEN "Fail" ELSE "CheckLabel"
  BY <1>1, ActionByStatus
<1>4. CASE err.status \in {401, 403}
  <2>1. FailureAction(Denied) = FailureAction(err) /\ state \in Fates(Denied)
    BY <1>3, <1>4, WitnessActions
  <2> QED
    BY <1>2, <2>1, WitnessActions DEF UploadTrue
<1>5. CASE err.status \notin {401, 403}
  <2>1. FailureAction(Refused) = FailureAction(err) /\ state \in Fates(Refused)
    BY <1>3, <1>5, WitnessActions
  <2> QED
    BY <1>2, <2>1, WitnessActions DEF UploadTrue
<1> QED
  BY <1>4, <1>5

LEMMA HttpErrorKept ==
    ASSUME NEW http \in AnyHttp, NEW retriable, NEW ambiguous,
           NEW state \in LabelStates \ {"wire"}, http \in {401, 403} => state = "none"
    PROVE  UploadTrue(Fails(Error(http, retriable, ambiguous)), state)
<1> DEFINE e == Error(http, retriable, ambiguous)
<1>1. e.status = http
  BY DEF Error
<1> HIDE DEF e
<1>2. UploadTrue(Fails(e), state)
  BY <1>1, StatusKept
<1> QED
  BY <1>2 DEF e

\* A success is read only from a reply that is true of a committed load.
LEMMA SuccessIsCommitted ==
    ASSUME NEW r, NEW state, Truthful(r, state), Parsed(r.body), IsHttpSuccess(r)
    PROVE  state = "committed"
<1>1. r.http \in 200 .. 299 /\ r.body.form = "json"
  BY DEF Parsed, IsHttpSuccess, Successful
<1>2. CASE r.body.status = ""
  BY <1>1, <1>2 DEF Truthful
<1>3. CASE r.body.status \in {"Success", "Publish Timeout"}
  BY <1>1, <1>3 DEF Truthful
<1>4. CASE r.body.status = "Label Already Exists" /\ r.body.existing = "FINISHED"
  BY <1>1, <1>4 DEF Truthful
<1> QED
  BY <1>2, <1>3, <1>4 DEF IsHttpSuccess

LEMMA UploadOutcomeKeeps ==
    ASSUME NEW r, NEW state \in LabelStates \ {"wire"}, r.http \in HttpStatuses, Truthful(r, state)
    PROVE  UploadTrue(UploadOutcome(r), state)
<1>1. r.http \in AnyHttp /\ (r.http \in {401, 403} => state = "none")
  BY DEF AnyHttp, Truthful
<1>2. UploadTrue(Fails(Error(r.http, FALSE, TRUE)), state)
  <2> DEFINE e == Error(r.http, FALSE, TRUE)
  <2>1. e.status = r.http
    BY DEF Error
  <2> HIDE DEF e
  <2>2. UploadTrue(Fails(e), state)
    BY <1>1, <2>1, StatusKept
  <2> QED
    BY <2>2 DEF e
<1>3. UploadTrue(Fails(ClassifyResponseError(r)), state)
  <2>1. \E retriable, ambiguous : ClassifyResponseError(r) = Error(r.http, retriable, ambiguous)
    BY DEF ClassifyResponseError
  <2> QED
    BY <1>1, <2>1, HttpErrorKept
<1>4. CASE Successful(r.http) /\ ~Parsed(r.body)
  BY <1>2, <1>4 DEF UploadOutcome
<1>5. CASE IsHttpSuccess(r) /\ Parsed(r.body)
  BY <1>5, SuccessIsCommitted DEF UploadOutcome, UploadTrue, Ok, Outcome
<1>6. CASE ~IsHttpSuccess(r) /\ ~(Successful(r.http) /\ ~Parsed(r.body))
  BY <1>3, <1>6 DEF UploadOutcome
<1> QED
  BY <1>4, <1>5, <1>6 DEF IsHttpSuccess

\* What PollKeepsContract asks of an outcome.
PollTrue(o, state) ==
    IF o.kind = "state"
    THEN /\ o.state = "committed" => state = "committed"
         /\ o.state \in {"none", "aborted"} => Dead(state)
    ELSE \E err \in PollErrors :
            /\ err.retriable = o.err.retriable
            /\ PollErrorIsTransient(err) = PollErrorIsTransient(o.err)
            /\ (err = ConnectError) <=> (o.err = ConnectError)

\* What a reply to a label request says of the label.
SaysTrue(r, state) ==
    /\ r.body.status = "committed" => state = "committed"
    /\ r.body.status \in {"none", "aborted"} => Dead(state)

LEMMA PollErrorKept ==
    ASSUME NEW err \in PollErrors, NEW state
    PROVE  PollTrue(Fails(err), state)
  BY DEF PollTrue, Fails, Outcome

\* A reply without a state is covered by 503 or by Refused.
LEMMA StatelessKept ==
    ASSUME NEW http \in AnyHttp, NEW state
    PROVE  PollTrue(Fails(Error(http, FALSE, FALSE)), state)
<1> DEFINE e == Error(http, FALSE, FALSE)
           f == IF http \in {408, 429} \cup 500 .. 599 THEN Error(503, FALSE, FALSE) ELSE Refused
<1>1. e.retriable = FALSE /\ f.retriable = FALSE
  BY DEF Error, Refused
<1>2. e # ConnectError /\ f # ConnectError
  BY <1>1 DEF Error, ConnectError
<1>3. PollErrorIsTransient(e) = PollErrorIsTransient(f)
  BY DEF Error, Refused, PollErrorIsTransient
<1>4. f \in PollErrors
  BY DEF PollErrors
<1>5. Fails(e).err = e /\ Fails(e).kind # "state"
  BY DEF Fails, Outcome
<1> HIDE DEF e, f
<1>6. /\ f.retriable = Fails(e).err.retriable
      /\ PollErrorIsTransient(f) = PollErrorIsTransient(Fails(e).err)
      /\ (f = ConnectError) <=> (Fails(e).err = ConnectError)
  BY <1>1, <1>2, <1>3, <1>5, Zenon
<1>7. PollTrue(Fails(e), state)
  BY <1>4, <1>5, <1>6, Zenon DEF PollTrue
<1> QED
  BY <1>7 DEF e

LEMMA PollOutcomeKeeps ==
    ASSUME NEW r, NEW state, r.http \in AnyHttp, SaysTrue(r, state)
    PROVE  PollTrue(PollOutcome(r), state)
<1>1. CASE Parsed(r.body) /\ r.body.status # ""
  BY <1>1 DEF PollOutcome, PollTrue, SaysTrue, State, Outcome
<1>2. CASE ~(Parsed(r.body) /\ r.body.status # "")
  <2>1. PollOutcome(r) = Fails(Error(r.http, FALSE, FALSE))
    BY <1>2 DEF PollOutcome
  <2> QED
    BY <2>1, StatelessKept
<1> QED
  BY <1>1, <1>2

-----------------------------------------------------------------------------
(* What was true of the label stays true while the load goes on.           *)

LEMMA MovesCases ==
    \A state : \A next \in Moves(state) :
        \/ state = "wire" /\ next \in {"running", "none"}
        \/ state = "running" /\ next \in {"committed", "aborted"}
  BY DEF Moves

LEMMA TruthLasts ==
    ASSUME NEW r, NEW state, state # "wire", NEW next \in Moves(state), Truthful(r, state)
    PROVE  Truthful(r, next)
<1>1. state = "running" /\ next \in {"committed", "aborted"}
  BY MovesCases
<1>2. r.http \notin {401, 403}
  BY <1>1 DEF Truthful
<1>3. CASE ~(r.http \in 200 .. 299 /\ r.body.form = "json")
  BY <1>2, <1>3 DEF Truthful
<1>4. CASE r.http \in 200 .. 299 /\ r.body.form = "json"
  <2>1. r.body.status # "" /\ r.body.status \notin {"Success", "Publish Timeout"}
    BY <1>1, <1>4 DEF Truthful
  <2>2. r.body.status = "Label Already Exists"
    BY <1>1, <1>4, <2>1 DEF Truthful, Dead
  <2>3. r.body.existing = "RUNNING"
    <3>1. r.body.existing # "FINISHED"
      BY <1>1, <1>4, <2>2 DEF Truthful
    <3> QED
      BY <1>1, <1>4, <2>2, <3>1 DEF Truthful
  <2> QED
    BY <1>1, <1>2, <1>4, <2>2, <2>3 DEF Truthful
<1> QED
  BY <1>3, <1>4

LEMMA LocalFates == \A err \in {ConnectError, LocalError, Denied} : Fates(err) = {"none"}
<1>1. TransportError \notin {ConnectError, LocalError, Denied}
  BY DEF TransportError, ConnectError, LocalError, Denied, Error
<1> QED
  BY <1>1 DEF Fates

LEMMA FatesLast ==
    ASSUME NEW err \in SendErrors, NEW state \in Fates(err), NEW next \in Moves(state)
    PROVE  next \in Fates(err)
<1>1. CASE err \in {ConnectError, LocalError, Denied}
  BY <1>1, LocalFates, MovesCases
<1>2. CASE err \notin {ConnectError, LocalError, Denied}
  BY <1>2, MovesCases DEF Fates, LabelStates
<1> QED
  BY <1>1, <1>2

-----------------------------------------------------------------------------
(* The invariant.                                                          *)

UploadInv ==
    call = "upload" =>
        /\ pc \in {"request", "redirected"} => label = "none"
        /\ pc = "redirected" => reply.http \in Redirects
        /\ pc = "answered" => /\ label # "wire"
                              /\ reply.http \in HttpStatuses
                              /\ Truthful(reply, label)
        /\ pc = "done" => UploadTrue(outcome, label)

PollInv ==
    call = "poll" =>
        /\ pc # "redirected"
        /\ pc = "answered" => reply.http \in AnyHttp /\ SaysTrue(reply, label)
        /\ pc = "done" => PollTrue(outcome, label)

LabelInv ==
    /\ label \in LabelStates
    /\ ~LateArrival => label # "wire"

Inv == call \in {"upload", "poll"} /\ LabelInv /\ UploadInv

LEMMA InitInv == Init => Inv /\ PollInv
  BY DEF Init, Inv, LabelInv, UploadInv, PollInv, LabelStates

LEMMA SentTruly ==
    ASSUME NEW err \in SendErrors, NEW state \in Fates(err)
    PROVE  UploadTrue(Fails(err), state)
  BY DEF UploadTrue, Fails, Outcome

LEMMA RequestErrors ==
    /\ {ConnectError, TransportError, LocalError} \subseteq SendErrors
    /\ {TransportError, LocalError} \subseteq PollErrors
    /\ PollMayNotConnect => ConnectError \in PollErrors
  BY DEF SendErrors, PollErrors

LEMMA FatesTyped ==
    \A err \in SendErrors : /\ Fates(err) \subseteq LabelStates
                            /\ ~LateArrival => "wire" \notin Fates(err)
  BY DEF Fates, LabelStates

\* Uploads, whatever comes after them.
LEMMA UploadStep == Inv /\ [Next]_vars => Inv'
<1> SUFFICES ASSUME Inv, [Next]_vars PROVE Inv'
  OBVIOUS
<1> USE DEF Inv, LabelInv, UploadInv
<1>1. ASSUME NEW r, r.http \in HttpStatuses, UploadAnswered(r) PROVE Inv'
  BY <1>1 DEF UploadAnswered, Requested
<1>2. ASSUME NEW http \in Redirects, UploadRedirected(http) PROVE Inv'
  BY <1>2 DEF UploadRedirected, Requested, Reply
<1>3. ASSUME NEW r, PollAnswered(r) PROVE Inv'
  BY <1>3 DEF PollAnswered, Requested
<1>4. ASSUME NEW err \in {ConnectError, TransportError}, RequestFails(err) PROVE Inv'
  <2>1. CASE call = "upload"
    BY <1>4, <2>1, RequestErrors, SentTruly, FatesTyped DEF RequestFails, Return
  <2>2. CASE call = "poll"
    BY <1>4, <2>2 DEF RequestFails, Return
  <2> QED
    BY <2>1, <2>2
<1>5. CASE DorisStep
  <2>1. label' \in Moves(label) /\ UNCHANGED <<call, pc, reply, outcome>>
    BY <1>5 DEF DorisStep
  <2>2. LabelInv'
    BY <2>1, MovesCases DEF LabelStates
  <2>3. CASE call = "upload" /\ pc \in {"request", "redirected"}
    BY <2>1, <2>3, MovesCases
  <2>4. CASE call = "upload" /\ pc = "answered"
    BY <2>1, <2>2, <2>4, TruthLasts, MovesCases
  <2>5. CASE call = "upload" /\ pc = "done"
    <3>1. UploadTrue(outcome, label')
      <4>1. CASE outcome.kind = "ok"
        BY <2>1, <2>5, <4>1, MovesCases DEF UploadTrue
      <4>2. CASE outcome.kind # "ok"
        BY <2>1, <2>5, <4>2, FatesLast DEF UploadTrue
      <4> QED
        BY <4>1, <4>2
    <3> QED
      BY <2>1, <2>2, <2>5, <3>1
  <2> QED
    BY <2>1, <2>2, <2>3, <2>4, <2>5
<1>6. CASE CannotRequest
  <2>1. "none" \in Fates(LocalError)
    BY LocalFates
  <2> QED
    BY <1>6, <2>1, RequestErrors, SentTruly DEF CannotRequest, Return
<1>7. CASE FollowRedirect
  BY <1>7 DEF FollowRedirect
<1>8. CASE RedirectFails
  <2>1. CASE call = "upload"
    <3>1. label = "none" /\ reply.http \in Redirects
      BY <1>8, <2>1 DEF RedirectFails
    <3>2. UploadTrue(Fails(Error(reply.http, FALSE, TRUE)), label)
      <4>1. reply.http \in AnyHttp /\ reply.http \notin {401, 403} /\ label \in LabelStates \ {"wire"}
        BY <3>1 DEF AnyHttp, LabelStates, Redirects
      <4> QED
        <5> DEFINE e == Error(reply.http, FALSE, TRUE)
        <5>1. e.status = reply.http
          BY DEF Error
        <5> HIDE DEF e
        <5>2. UploadTrue(Fails(e), label)
          BY <4>1, <5>1, StatusKept
        <5> QED
          BY <5>2 DEF e
    <3>3. UploadTrue(Fails(Error(0, FALSE, TRUE)), label)
      <4>1. TransportError = Error(0, FALSE, TRUE) /\ "none" \in Fates(TransportError)
        BY DEF TransportError, Fates, Error, ConnectError, LocalError, Denied, LabelStates
      <4> QED
        BY <3>1, <4>1, RequestErrors, SentTruly
    <3> QED
      BY <1>8, <3>2, <3>3, <2>1 DEF RedirectFails, Return
  <2>2. CASE call = "poll"
    BY <1>8, <2>2 DEF RedirectFails, Return
  <2> QED
    BY <2>1, <2>2
<1>9. CASE ReadReply
  <2>1. CASE call = "upload"
    BY <1>9, <2>1, UploadOutcomeKeeps DEF ReadReply, Return
  <2>2. CASE call = "poll"
    BY <1>9, <2>2 DEF ReadReply, Return
  <2> QED
    BY <2>1, <2>2
<1>10. CASE StartPoll
  BY <1>10 DEF StartPoll
<1>11. CASE UNCHANGED vars
  BY <1>11 DEF vars
<1> QED
  BY <1>1, <1>2, <1>3, <1>4, <1>5, <1>6, <1>7, <1>8, <1>9, <1>10, <1>11
     DEF Next, Answers, ClientStep, Reply

LEMMA StatusesSaid ==
    ASSUME NEW state, NEW body \in Unreadable \cup StateBodies(state)
    PROVE  body.status \in {"", state}
<1>1. CASE body \in Unreadable
  <2>1. PICK form \in {"cut", "empty", "text"} : body = Body(form, "", "")
    BY <1>1 DEF Unreadable
  <2> QED
    BY <2>1 DEF Body
<1>2. CASE body = Body("json", state, "")
  BY <1>2 DEF Body
<1>3. CASE body = Body("json", "", "")
  BY <1>3 DEF Body
<1> QED
  BY <1>1, <1>2, <1>3 DEF StateBodies

\* Label requests, if no upload is still on its way.
LEMMA PollStep ==
    ASSUME PollMayNotConnect, ~LateArrival
    PROVE  Inv /\ PollInv /\ [Next]_vars => PollInv'
<1> SUFFICES ASSUME Inv, PollInv, [Next]_vars, call' = "poll" PROVE PollInv'
  BY DEF PollInv
<1> USE DEF PollInv
<1>1. ASSUME NEW r, UploadAnswered(r) PROVE PollInv'
  BY <1>1 DEF UploadAnswered, Requested
<1>2. ASSUME NEW http, UploadRedirected(http) PROVE PollInv'
  BY <1>2 DEF UploadRedirected, Requested
<1>3. ASSUME NEW http \in AnyHttp,
             NEW body \in Unreadable \cup StateBodies(IF label = "wire" THEN "none" ELSE label),
             PollAnswered(Reply(http, body))
      PROVE PollInv'
  <2>1. label # "wire"
    BY DEF Inv, LabelInv
  <2>2. body.status \in {"", label}
    <3>1. body \in Unreadable \cup StateBodies(label)
      BY <2>1
    <3> QED
      BY <3>1, StatusesSaid
  <2> QED
    BY <1>3, <2>2 DEF PollAnswered, Requested, SaysTrue, Reply, Dead
<1>4. ASSUME NEW err \in {ConnectError, TransportError}, RequestFails(err) PROVE PollInv'
  BY <1>4, RequestErrors, PollErrorKept DEF RequestFails, Return
<1>5. CASE DorisStep
  <2>1. label' \in Moves(label) /\ UNCHANGED <<call, pc, reply, outcome>> /\ label = "running"
    BY <1>5, MovesCases DEF DorisStep, Inv, LabelInv
  <2>2. CASE pc = "done"
    BY <2>1, <2>2 DEF PollTrue, Dead
  <2>3. CASE pc # "done"
    BY <2>1, <2>3 DEF SaysTrue, Dead
  <2> QED
    BY <2>2, <2>3
<1>6. CASE CannotRequest
  BY <1>6, RequestErrors, PollErrorKept DEF CannotRequest, Return
<1>7. CASE FollowRedirect
  BY <1>7 DEF FollowRedirect
<1>8. CASE RedirectFails
  BY <1>8 DEF RedirectFails
<1>9. CASE ReadReply
  BY <1>9, PollOutcomeKeeps DEF ReadReply, Return
<1>10. CASE StartPoll
  BY <1>10 DEF StartPoll
<1>11. CASE UNCHANGED vars
  BY <1>11 DEF vars
<1> QED
  BY <1>1, <1>2, <1>3, <1>4, <1>5, <1>6, <1>7, <1>8, <1>9, <1>10, <1>11
     DEF Next, Answers, ClientStep, AnyHttp

-----------------------------------------------------------------------------

\* UploadKeepsContract holds however Doris, the network and the redirects
\* answer send(), also when uploads arrive late.
THEOREM UploadKeepsContractAlways == Spec => []UploadKeepsContract
<1>1. Inv => UploadKeepsContract
  BY DEF Inv, UploadInv, UploadTrue, UploadKeepsContract, Concluded
<1> QED
  BY <1>1, InitInv, UploadStep, PTL DEF Spec

\* PollKeepsContract holds for poll_label() if uploads do not arrive late: a
\* label that Doris does not know is then one it will not load.
THEOREM PollKeepsContractAlways ==
    ASSUME PollMayNotConnect, ~LateArrival
    PROVE  Spec => []PollKeepsContract
<1>1. PollInv => PollKeepsContract
  BY DEF PollInv, PollTrue, PollKeepsContract, Concluded
<1>2. Inv /\ PollInv /\ [Next]_vars => (Inv /\ PollInv)'
  BY UploadStep, PollStep
<1> QED
  BY <1>1, <1>2, InitInv, PTL DEF Spec

=============================================================================

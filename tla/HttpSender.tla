----------------------------- MODULE HttpSender -----------------------------
(***************************************************************************)
(* One upload attempt over HTTP, as HttpSender and AsyncHttpSender make    *)
(* it: the PUT, the redirects it follows, the reading of the reply; and a  *)
(* request for the state of the attempt's label afterwards.  The servers   *)
(* and the network are the environment: an answer is on its way while the  *)
(* load it is about goes on.                                               *)
(*                                                                         *)
(* Headers, credentials and the body are left out: what the servers make   *)
(* of them is their choice of an answer.                                   *)
(***************************************************************************)
EXTENDS Sender

VARIABLES call,     \* "upload" or "poll"
          pc,       \* where it stands
          hops,     \* redirect_count
          label,    \* what became of the label in Doris
          reply,    \* the answer that is on its way
          outcome   \* what the call returned

vars == <<call, pc, hops, label, reply, outcome>>

\* What the client gets to see of a body: "cut" if the connection breaks before
\* its end, "json" if it parses.
Body(form, status, existing) == [form |-> form, status |-> status, existing |-> existing]

Unreadable == {Body(form, "", "") : form \in {"cut", "empty", "text"}}

\* StreamLoadResponse's Status and ExistingJobStatus.
LoadBodies ==
    {Body("json", status, "") : status \in {"Success", "Publish Timeout", "Fail", ""}} \cup
    {Body("json", "Label Already Exists", job) : job \in {"RUNNING", "FINISHED", "CANCELLED", ""}}

\* PollResponse's data: the state of the label, or nothing.
StateBodies(state) == {Body("json", state, ""), Body("json", "", "")}

HttpStatuses == {200, 204, 400, 401, 403, 408, 429, 500, 503}
Redirects == {301, 302, 303, 307, 308}

Reply(http, body) == [http |-> http, body |-> body]
NoReplyYet == Reply(0, Body("", "", ""))

Outcome(kind, err, state) == [kind |-> kind, err |-> err, state |-> state]
Pending == Outcome("pending", LocalError, "")
Ok == Outcome("ok", LocalError, "")
Fails(err) == Outcome("error", err, "")
State(state) == Outcome("state", LocalError, state)

TypeOK ==
    /\ call \in {"upload", "poll"}
    /\ pc \in {"request", "redirected", "answered", "done"}
    /\ hops \in 0 .. MaxRedirects
    /\ label \in LabelStates
    /\ reply \in [http : Nat, body : [form : STRING, status : STRING, existing : STRING]]
    /\ outcome.kind \in {"pending", "ok", "error", "state"}

Init ==
    /\ call = "upload" /\ pc = "request"
    /\ hops = 0
    /\ label = "none"
    /\ reply = NoReplyYet
    /\ outcome = Pending

Return(o) == pc' = "done" /\ outcome' = o

-----------------------------------------------------------------------------
(* The network and the servers, external.                                  *)

\* The servers begin nothing for a request that never arrives, that they
\* redirect or that they do not authorise; and Doris tells the truth: a reply
\* of success is about a load that has been committed.  It is assumed that a
\* JSON reply with a status of success has a Status: is_http_success takes one
\* without for a success.
Truthful(r, state) ==
    /\ r.http \in {401, 403} => state = "none"
    /\ (r.http \in 200 .. 299 /\ r.body.form = "json") =>
          CASE r.body.status = "" -> FALSE
            [] r.body.status \in {"Success", "Publish Timeout"} -> state = "committed"
            [] r.body.status = "Label Already Exists" ->
                  CASE r.body.existing = "FINISHED" -> state = "committed"
                    [] r.body.existing = "RUNNING"  -> state \in {"running", "committed", "aborted"}
                    [] OTHER -> state = "aborted"
            [] OTHER -> Dead(state)

Requested(c) == call = c /\ pc = "request"

\* No connection, or one that breaks, or no answer within the timeout.
RequestFails(err) ==
    /\ pc = "request"
    /\ IF call = "upload" THEN label' \in Fates(err) ELSE UNCHANGED label
    /\ Return(Fails(err))
    /\ UNCHANGED <<call, hops, reply>>

\* The answer to an upload that is not redirected.
UploadAnswered(r) ==
    /\ Requested("upload")
    /\ label' \in LabelStates \ {"wire"}
    /\ Truthful(r, label')
    /\ reply' = r
    /\ pc' = "answered"
    /\ UNCHANGED <<call, hops, outcome>>

UploadRedirected(http) ==
    /\ Requested("upload")
    /\ reply' = Reply(http, Body("", "", ""))
    /\ pc' = "redirected"
    /\ UNCHANGED <<call, hops, label, outcome>>

\* The answer to a label request: Doris does not know a label whose request is
\* still on its way.
PollAnswered(r) ==
    /\ Requested("poll")
    /\ reply' = r
    /\ pc' = "answered"
    /\ UNCHANGED <<call, hops, label, outcome>>

Answers ==
    \/ \E http \in HttpStatuses, body \in Unreadable \cup LoadBodies :
          UploadAnswered(Reply(http, body))
    \/ \E http \in Redirects : UploadRedirected(http)
    \/ \E http \in HttpStatuses \cup Redirects :
          \E body \in Unreadable \cup StateBodies(IF label = "wire" THEN "none" ELSE label) :
             PollAnswered(Reply(http, body))
    \/ \E err \in {ConnectError, TransportError} : RequestFails(err)

\* The load goes on.
DorisStep ==
    /\ label' \in Moves(label)
    /\ UNCHANGED <<call, pc, hops, reply, outcome>>

-----------------------------------------------------------------------------
(* The client.                                                             *)

\* The request cannot be made: the body is not compressed, the URL does not
\* parse, the label request has no database.
CannotRequest ==
    /\ pc = "request"
    /\ Return(Fails(LocalError))
    /\ UNCHANGED <<call, hops, label, reply>>

\* Mutant: redirect_count stays.
FollowRedirectUncounted ==
    /\ pc = "redirected" /\ hops < MaxRedirects
    /\ pc' = "request"
    /\ UNCHANGED <<call, hops, label, reply, outcome>>

\* A redirect is a new request, with a timeout of its own.
FollowRedirect ==
    /\ pc = "redirected" /\ hops < MaxRedirects
    /\ hops' = hops + 1
    /\ pc' = "request"
    /\ UNCHANGED <<call, label, reply, outcome>>

\* One too many, one without a Location, or one that is not a URL.
RedirectFails ==
    /\ pc = "redirected"
    /\ \/ Return(Fails(Error(reply.http, FALSE, TRUE)))
       \/ hops < MaxRedirects /\ Return(Fails(Error(0, FALSE, TRUE)))
    /\ UNCHANGED <<call, hops, label, reply>>

Successful(http) == http \in 200 .. 299
Parsed(body) == body.form = "json"

\* Mutant: a label that exists counts as loaded.
IsHttpSuccessExists(r) ==
    Successful(r.http) /\ (Parsed(r.body) => r.body.status # "Fail")

\* is_http_success.
IsHttpSuccess(r) ==
    /\ Successful(r.http)
    /\ Parsed(r.body) =>
          \/ r.body.status \in {"", "Success", "Publish Timeout"}
          \/ r.body.status = "Label Already Exists" /\ r.body.existing = "FINISHED"

\* classify_response_error.
ClassifyResponseError(r) ==
    LET overloaded == r.http \in {408, 429} \/ r.http >= 500
        exists == Parsed(r.body) /\ r.body.status = "Label Already Exists"
        settled == Parsed(r.body) /\ r.body.status \in {"", "Success", "Publish Timeout"}
    IN  IF exists /\ r.body.existing = "RUNNING"
        THEN Error(r.http, FALSE, TRUE)
        ELSE Error(r.http, overloaded /\ ~exists /\ ~settled, FALSE)

\* Mutant: what does not parse is left to is_http_success.
UploadOutcomeUnparsed(r) ==
    IF IsHttpSuccess(r) THEN Ok ELSE Fails(ClassifyResponseError(r))

\* The end of send(): a successful status without a body that parses tells
\* nothing.
UploadOutcome(r) ==
    IF Successful(r.http) /\ ~Parsed(r.body) THEN Fails(Error(r.http, FALSE, TRUE))
    ELSE IF IsHttpSuccess(r) THEN Ok ELSE Fails(ClassifyResponseError(r))

\* Mutant: a reply that does not parse may be asked for again.
PollOutcomeRetriable(r) ==
    IF Parsed(r.body) /\ r.body.status # "" THEN State(r.body.status)
                                           ELSE Fails(Error(r.http, TRUE, FALSE))

\* The end of poll_label(): the HTTP status does not count if there is a state,
\* a redirect is not followed, and a body that was cut off reads as empty.
PollOutcome(r) ==
    IF Parsed(r.body) /\ r.body.status # "" THEN State(r.body.status)
                                           ELSE Fails(Error(r.http, FALSE, FALSE))

ReadReply ==
    /\ pc = "answered"
    /\ Return(IF call = "upload" THEN UploadOutcome(reply) ELSE PollOutcome(reply))
    /\ UNCHANGED <<call, hops, label, reply>>

\* deliver_batch asks for the label, and may ask again.
MayPoll ==
    CASE call = "upload" -> outcome.kind = "error" /\ FailureAction(outcome.err) = "CheckLabel"
      [] outcome.kind = "state" -> outcome.state = "running"
      [] OTHER -> PollErrorIsTransient(outcome.err)

StartPoll ==
    /\ pc = "done" /\ MayPoll
    /\ call' = "poll" /\ pc' = "request"
    /\ outcome' = Pending /\ reply' = NoReplyYet
    /\ UNCHANGED <<hops, label>>

ClientStep == CannotRequest \/ FollowRedirect \/ RedirectFails \/ ReadReply

-----------------------------------------------------------------------------

Settled == pc = "done" /\ Moves(label) = {} /\ ~MayPoll

Next == Answers \/ DorisStep \/ ClientStep \/ StartPoll \/ (Settled /\ UNCHANGED vars)

Spec == Init /\ [][Next]_vars

\* A request is answered or times out (doris_upload_request_timeout), and the
\* client goes on.
FairSpec == Spec /\ WF_vars(Answers) /\ WF_vars(FollowRedirect \/ RedirectFails) /\ WF_vars(ReadReply)

-----------------------------------------------------------------------------

Concluded(c) == call = c /\ pc = "done"

\* An upload keeps what Delivery relies on: a success is loaded, an error after
\* which it retries or gives up without asking is one after which Doris has
\* not begun the load, and no error is read otherwise than one of SendErrors.
UploadKeepsContract ==
    Concluded("upload") =>
        IF outcome.kind = "ok" THEN label = "committed"
        ELSE \E err \in SendErrors : /\ FailureAction(err) = FailureAction(outcome.err)
                                     /\ label \in Fates(err)

\* So does a label request: a final state is true and stays true while the
\* answer is on its way, and an error is read like one of PollErrors.
PollKeepsContract ==
    Concluded("poll") =>
        IF outcome.kind = "state"
        THEN /\ outcome.state = "committed" => label = "committed"
             /\ outcome.state \in {"none", "aborted"} => Dead(label)
        ELSE \E err \in PollErrors :
                /\ err.retriable = outcome.err.retriable
                /\ PollErrorIsTransient(err) = PollErrorIsTransient(outcome.err)
                /\ (err = ConnectError) <=> (outcome.err = ConnectError)

\* Every call ends: servers that redirect it in a circle do not keep it.
EveryCallEnds == pc # "done" ~> pc = "done"

\* "transport failures and server-side overload are transient" (sender.rs): an
\* answer that was cut off by the network is worth another request.
BrokenPollsAreTransient ==
    (Concluded("poll") /\ outcome.kind = "error" /\ reply.body.form = "cut") =>
        PollErrorIsTransient(outcome.err)

=============================================================================

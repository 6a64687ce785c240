------------------------------- MODULE Sender -------------------------------
(***************************************************************************)
(* The contract between the trait Sender and the delivery of a batch: the  *)
(* errors an upload or a label-state request may end with, what Doris may  *)
(* have done with the label then, and how the delivery reads the error.    *)
(* Delivery relies on it, HttpSender keeps it.                             *)
(***************************************************************************)
EXTENDS Integers

CONSTANTS PollMayNotConnect,  \* a label-state request may fail to connect
          LateArrival         \* an upload that timed out may reach Doris later

ASSUME SenderAssumption ==
    /\ PollMayNotConnect \in BOOLEAN
    /\ LateArrival \in BOOLEAN

\* none: Doris does not know the label; wire: the request is still on its way;
\* running: PREPARE or PRECOMMITTED; committed: COMMITTED or VISIBLE.
LabelStates == {"none", "wire", "running", "committed", "aborted"}

Dead(state) == state \in {"none", "aborted"}

\* Doris, external: a load it has begun commits or aborts, a request still on
\* its way arrives or is lost.
Moves(state) ==
    CASE state = "wire"    -> {"running", "none"}
      [] state = "running" -> {"committed", "aborted"}
      [] OTHER -> {}

-----------------------------------------------------------------------------

\* send follows up to ten redirects, each with a request of its own.
MaxRedirects == 10

Error(status, retriable, ambiguous) ==
    [status |-> status, retriable |-> retriable, ambiguous |-> ambiguous]

ConnectError   == Error(0, TRUE, FALSE)     \* classify_transport_error
TransportError == Error(0, FALSE, TRUE)
LocalError     == Error(0, FALSE, FALSE)    \* compression, URL, request building
NoReply        == Error(200, FALSE, TRUE)   \* empty, unparsable, bad redirect
Denied         == Error(401, FALSE, FALSE)
Refused        == Error(400, FALSE, FALSE)  \* classify_response_error
FailReply      == Error(200, FALSE, FALSE)
Overloaded     == Error(503, TRUE, FALSE)

SendErrors == {ConnectError, TransportError, LocalError, NoReply, Denied,
               Refused, FailReply, Overloaded}

\* What may have become of the label when the upload ends with err.
Fates(err) ==
    CASE err \in {ConnectError, LocalError, Denied} -> {"none"}
      [] err = TransportError /\ LateArrival -> LabelStates
      [] OTHER -> LabelStates \ {"wire"}

\* Mutants: everything without an HTTP status is retried, everything 4xx is
\* final, everything retriable is retried.
FailureActionRetryTransport(err) ==
    CASE err.status \in {401, 403} -> "Fail" [] err.status = 0 -> "RetryNow" [] OTHER -> "CheckLabel"
FailureActionFail4xx(err) ==
    CASE err.status \in 400 .. 499 -> "Fail"
      [] err.status = 0 /\ err.retriable -> "RetryNow"
      [] OTHER -> "CheckLabel"
FailureActionRetry5xx(err) ==
    CASE err.status \in {401, 403} -> "Fail" [] err.retriable -> "RetryNow" [] OTHER -> "CheckLabel"

\* failure_action.
FailureAction(err) ==
    CASE err.status \in {401, 403} -> "Fail"
      [] err.status = 0 /\ err.retriable /\ ~err.ambiguous -> "RetryNow"
      [] OTHER -> "CheckLabel"

\* poll_error_is_transient.
PollErrorIsTransient(err) ==
    err.retriable \/ err.ambiguous \/ err.status \in {408, 429} \cup 500 .. 599

\* poll_label: no database, transport errors, and replies without a state.
PollErrors ==
    {LocalError, TransportError, Refused, FailReply, Error(503, FALSE, FALSE)}
        \cup (IF PollMayNotConnect THEN {ConnectError} ELSE {})

=============================================================================

------------------------------ MODULE Delivery ------------------------------
(***************************************************************************)
(* The delivery of one batch by an upload worker: the attempts of          *)
(* deliver_batch, each under a fresh label, the decision what a failed     *)
(* attempt means, the label-state poll that settles it, and the two        *)
(* deadlines.  Doris and the network are the environment.                  *)
(*                                                                         *)
(* Time is counted in ticks of 500 ms, the unit of all the backoffs.  It   *)
(* passes while a request is under way and while the worker sleeps.        *)
(***************************************************************************)
EXTENDS Sender, Sequences

CONSTANTS UploadTimeout,      \* doris_upload_timeout
          PollTimeout,        \* status_poll_timeout
          MaxRetries,         \* max_retries; 0 means no limit
          RequestTimeout,     \* doris_upload_request_timeout
          Durations,          \* the times a label request may take
          UploadDurations     \* the times an upload may take

\* send gives each request of its redirect loop the whole timeout.
LongestUpload == (MaxRedirects + 1) * RequestTimeout

ASSUME DeliveryAssumption ==
    /\ UploadTimeout \in Nat
    /\ PollTimeout \in Nat
    /\ MaxRetries \in Nat
    /\ RequestTimeout \in Nat
    /\ Durations \subseteq 0 .. RequestTimeout
    /\ UploadDurations \subseteq 0 .. LongestUpload

VARIABLES pc,           \* where the worker stands
          now,          \* the clock; the delivery starts at 0
          labels,       \* labels[i]: what became of attempt i's label in Doris
          pollDeadline, \* poll_label_until_conclusion's deadline
          pollBackoff,  \* and the time it sleeps next
          result        \* the result the batch is completed with

vars == <<pc, now, labels, pollDeadline, pollBackoff, result>>

\* deliver_batch's attempts.
attempts == Len(labels)

Results == {"pending", "success", "denied", "unsettled", "gaveUp", "timeout"}

TypeOK ==
    /\ pc \in {"send", "poll", "retry", "done"}
    /\ now \in Nat
    /\ labels \in Seq(LabelStates)
    /\ pollDeadline \in Nat
    /\ pollBackoff \in 1 .. 8
    /\ result \in Results

Init ==
    /\ pc = "send" /\ now = 0
    /\ labels = <<>>
    /\ pollDeadline = 0 /\ pollBackoff = 1
    /\ result = "pending"

-----------------------------------------------------------------------------
(* The backoffs.                                                           *)

\* retry_backoff_delay: 1 s, 2 s, 4 s, 4 s, ...
RetryBackoff(n) == CASE n = 1 -> 2 [] n = 2 -> 4 [] OTHER -> 8

\* Mutant: no upper limit.
NextBackoffUnlimited(b) == 2 * b

\* next_backoff, up to 4 s.
NextBackoff(b) == IF 2 * b > 8 THEN 8 ELSE 2 * b

-----------------------------------------------------------------------------
(* The worker.                                                             *)

Finish(r) == pc' = "done" /\ result' = r

\* sender.send succeeds: complete_batch.
SendOk(d) ==
    /\ pc = "send"
    /\ now' = now + d
    /\ labels' = Append(labels, "committed")
    /\ Finish("success")
    /\ UNCHANGED <<pollDeadline, pollBackoff>>

\* sender.send fails: failure_action decides.
SendFails(d, err, fate) ==
    /\ pc = "send"
    /\ now' = now + d
    /\ labels' = Append(labels, fate)
    /\ \/ /\ FailureAction(err) = "RetryNow"
          /\ pc' = "retry"
          /\ UNCHANGED <<pollDeadline, pollBackoff, result>>
       \/ /\ FailureAction(err) = "Fail"
          /\ Finish("denied")
          /\ UNCHANGED <<pollDeadline, pollBackoff>>
       \/ /\ FailureAction(err) = "CheckLabel"
          /\ pc' = "poll"
          /\ pollDeadline' = now' + PollTimeout
          /\ pollBackoff' = 1
          /\ UNCHANGED result

\* Mutants: a label that is still running at the deadline is retried; the
\* deadline is forgotten.
PollAgainRetries(d) ==
    \/ /\ now + d > pollDeadline
       /\ now' = now + d
       /\ pc' = "retry"
       /\ UNCHANGED <<pollBackoff, result>>
    \/ /\ now + d <= pollDeadline
       /\ now' = now + d + pollBackoff
       /\ pollBackoff' = NextBackoff(pollBackoff)
       /\ UNCHANGED <<pc, result>>
PollAgainForever(d) ==
    /\ now' = now + d + pollBackoff
    /\ pollBackoff' = NextBackoff(pollBackoff)
    /\ UNCHANGED <<pc, result>>

\* The end of a turn of the poll loop: give up at the deadline, or sleep.
PollAgain(d) ==
    \/ /\ now + d > pollDeadline
       /\ now' = now + d
       /\ Finish("unsettled")
       /\ UNCHANGED pollBackoff
    \/ /\ now + d <= pollDeadline
       /\ now' = now + d + pollBackoff
       /\ pollBackoff' = NextBackoff(pollBackoff)
       /\ UNCHANGED <<pc, result>>

\* poll_label answers with the state of the label.
PollState(d) ==
    LET state == labels[attempts] IN
    /\ pc = "poll"
    /\ \/ /\ state = "committed"
          /\ now' = now + d
          /\ Finish("success")
          /\ UNCHANGED pollBackoff
       \/ /\ state \in {"aborted", "none", "wire"}    \* ABORTED, UNKNOWN
          /\ now' = now + d
          /\ pc' = "retry"
          /\ UNCHANGED <<pollBackoff, result>>
       \/ /\ state = "running"
          /\ PollAgain(d)
    /\ UNCHANGED <<labels, pollDeadline>>

\* poll_label fails.  An error that is returned, not repeated, is taken for a
\* dead label if it is retriable.
PollFails(d, err) ==
    /\ pc = "poll"
    /\ \/ /\ PollErrorIsTransient(err) /\ now + d <= pollDeadline
          /\ PollAgain(d)
       \/ /\ ~PollErrorIsTransient(err) \/ now + d > pollDeadline
          /\ now' = now + d
          /\ IF err.retriable THEN pc' = "retry" /\ UNCHANGED result
                              ELSE Finish("unsettled")
          /\ UNCHANGED pollBackoff
    /\ UNCHANGED <<labels, pollDeadline>>

\* Mutants: one retry too many; the backoff is not counted.
RetriesUsedUpOffByOne == MaxRetries > 0 /\ attempts > MaxRetries + 1
OutOfTimeNow == now > UploadTimeout

RetriesUsedUp == MaxRetries > 0 /\ attempts > MaxRetries
OutOfTime == now + RetryBackoff(attempts) > UploadTimeout

\* Retry under a fresh label after a backoff, unless the retries or the time
\* are used up.
Retry ==
    /\ pc = "retry"
    /\ \/ /\ RetriesUsedUp
          /\ Finish("gaveUp")
          /\ UNCHANGED now
       \/ /\ ~RetriesUsedUp /\ OutOfTime
          /\ Finish("timeout")
          /\ UNCHANGED now
       \/ /\ ~RetriesUsedUp /\ ~OutOfTime
          /\ now' = now + RetryBackoff(attempts)
          /\ pc' = "send"
          /\ UNCHANGED result
    /\ UNCHANGED <<labels, pollDeadline, pollBackoff>>

WorkerStep ==
    \/ \E d \in UploadDurations :
          \/ SendOk(d)
          \/ \E err \in SendErrors : \E fate \in Fates(err) : SendFails(d, err, fate)
    \/ \E d \in Durations :
          \/ PollState(d)
          \/ \E err \in PollErrors : PollFails(d, err)
    \/ Retry

-----------------------------------------------------------------------------
(* Doris, external.                                                        *)

DorisStep ==
    /\ \E i \in DOMAIN labels : \E state \in Moves(labels[i]) :
          labels' = [labels EXCEPT ![i] = state]
    /\ UNCHANGED <<pc, now, pollDeadline, pollBackoff, result>>

Settled == pc = "done" /\ \A i \in DOMAIN labels : Moves(labels[i]) = {}

Next == WorkerStep \/ DorisStep \/ (Settled /\ UNCHANGED vars)

Spec == Init /\ [][Next]_vars

-----------------------------------------------------------------------------

\* No batch is loaded twice: at most one of the labels it was uploaded under
\* commits.
NoDoubleLoad ==
    \A i, j \in DOMAIN labels :
        labels[i] = "committed" /\ labels[j] = "committed" => i = j

\* Behind it: a label is given up only when Doris will never load it, as
\* deliver_batch's "Decide whether this attempt is really dead" says.
AbandonedLabelsAreDead ==
    \A i \in DOMAIN labels : i < attempts \/ pc \in {"retry", "send"} => Dead(labels[i])

\* The result is true: a success is loaded, and a timeout, an exhausted retry
\* or a denied upload will never be, so that the caller may send it again.
ResultIsTrue ==
    /\ result = "success" => labels[attempts] = "committed"
    /\ result \in {"timeout", "gaveUp", "denied"} => \A i \in DOMAIN labels : Dead(labels[i])

\* max_retries bounds the re-uploads.
RetriesBounded == MaxRetries > 0 => attempts <= MaxRetries + 1

\* doris_upload_timeout is checked between attempts only.  What a delivery can
\* run over it: one upload with all its redirects, a poll up to its deadline,
\* the sleep that crosses the deadline and the last label request.
EndsInTime == now <= UploadTimeout + LongestUpload + PollTimeout + 8 + RequestTimeout

\* An upload is never started after doris_upload_timeout, but the first.
NoUploadAfterTimeout == pc = "send" => now <= UploadTimeout

\* What UploadOnce calls loaded, and what it calls the report.
Loaded == \E i \in DOMAIN labels : labels[i] = "committed"

Report ==
    IF result = "pending" THEN "pending"
    ELSE IF result = "success" THEN "loaded"
    ELSE IF result = "unsettled" THEN "unknown" ELSE "notLoaded"

Once == INSTANCE UploadOnce WITH loaded <- Loaded, report <- Report

\* The delivery implements the abstract upload: the rows land at most once,
\* before a success is reported and never after a failure that is final.
ImplementsOnce == Once!Spec

=============================================================================

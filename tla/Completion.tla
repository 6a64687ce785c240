----------------------------- MODULE Completion -----------------------------
(***************************************************************************)
(* What becomes of a batch's result: the worker that counts the attempts   *)
(* and the completed job in the atomics of the stats collector, one by     *)
(* one, and then fills the handles; the callers that wait on a handle, of  *)
(* the blocking client (a mutex and a condition variable) or of the async  *)
(* client (a watch channel); and a stats() that reads the atomics one by   *)
(* one meanwhile.  The two collectors are the same code twice.             *)
(*                                                                         *)
(* A step is one atomic operation, or one critical section of a mutex.     *)
(***************************************************************************)
EXTENDS Integers, Sequences, FiniteSets

CONSTANTS Batches,      \* the batches, each with one handle
          Dispatched,   \* the order in which they are dispatched
          Bytes,        \* Bytes[b]: the byte_size of b
          MaxAttempts,  \* MaxAttempts[b]: the most uploads of b
          MayFail,      \* the batches whose delivery may end with an error
          NumWorkers,   \* doris_upload_workers
          Waiters,      \* the calls of wait() and wait_timeout()
          Kind,         \* Kind[c]: "wait", "timeout" or "async"
          Awaits,       \* Awaits[c]: the batch it waits for
          Reporter,     \* the caller that asks for stats() when it has waited
          LogMayPanic   \* the log line of a retry may panic

ASSUME CompletionAssumption ==
    /\ IsFiniteSet(Batches)
    /\ Bytes \in [Batches -> Nat]
    /\ Dispatched \in Seq(Batches)
    \* A batch is moved into the channel: it is dispatched once.
    /\ \A i, j \in DOMAIN Dispatched : Dispatched[i] = Dispatched[j] => i = j
    /\ MaxAttempts \in [Batches -> Nat \ {0}]
    /\ MayFail \subseteq Batches
    /\ NumWorkers \in Nat \ {0}
    /\ Kind \in [Waiters -> {"wait", "timeout", "async"}]
    /\ Awaits \in [Waiters -> Batches]
    /\ Reporter \in Waiters
    /\ LogMayPanic \in BOOLEAN

Workers == 1 .. NumWorkers
Batcher == 0
Tasks == {Batcher} \cup Workers   \* the threads or tasks that complete batches

VARIABLES
    queue,    \* the batches that are dispatched or about to be
    job,      \* job[t]: the batch t has and how far it is
    counter,  \* the atomics
    result,   \* result[b]: what the handle of b holds
    held,     \* the batches whose completion is still alive
    waiter,   \* waiter[c]: where the call c stands
    reader,   \* how many fields stats() has read; -1 before it starts
    snap,     \* what it has read
    seen      \* history: the batches that were complete when it started

workVars == <<queue, job, counter, result, held>>
snapVars == <<reader, snap, seen>>
vars == <<workVars, waiter, snapVars>>

Counters == {"busy", "attempts", "bytes", "jobs", "errors", "retries"}

\* What a worker does with a batch, in order: the uploads are counted before
\* they are made, the job before its handle gets the result.
Phases == {"attempts", "bytes", "upload", "jobs", "errors", "retries", "complete",
           "callbacks", "panicked"}

\* closed: "dispatch channel closed before batch delivery".
Results == {"none", "ok", "failed", "closed"}

Job == [phase : Phases, batch : Batches, attempts : Nat, failed : BOOLEAN]

Idle == [phase |-> "idle"]

TypeOK ==
    /\ queue \in Seq(Batches) /\ held \subseteq Batches /\ seen \subseteq Batches
    /\ job \in [Tasks -> Job \cup {Idle}]
    /\ counter \in [Counters -> Nat]
    /\ result \in [Batches -> Results]
    /\ waiter \in [Waiters -> {"idle", "blocked", "woken", "timedOut", "got", "none", "panicked"}]
    /\ reader \in -1 .. 5
    /\ snap \in [Counters -> Nat]

Zero == [k \in Counters |-> 0]

Init ==
    /\ queue = Dispatched /\ held = Batches
    /\ job = [t \in Tasks |-> Idle]
    /\ counter = Zero
    /\ result = [b \in Batches |-> "none"]
    /\ waiter = [c \in Waiters |-> "idle"]
    /\ reader = -1 /\ snap = Zero /\ seen = {}

-----------------------------------------------------------------------------
(* The worker: run_worker, deliver_batch, complete_batch and the           *)
(* collector's record_upload_attempt and record_completion.                *)

Panicked(t) == job[t].phase = "panicked"
AllPanicked == \A w \in Workers : Panicked(w)

SetJob(t, j) == job' = [job EXCEPT ![t] = j]
Bump(k, n) == counter' = [counter EXCEPT ![k] = @ + n]

\* A worker takes a batch: busy_workers goes up.
Start(w) ==
    /\ job[w] = Idle /\ queue # <<>>
    /\ queue' = Tail(queue)
    /\ SetJob(w, [phase |-> "attempts", batch |-> Head(queue), attempts |-> 1, failed |-> FALSE])
    /\ Bump("busy", 1)
    /\ UNCHANGED <<result, held, waiter, snapVars>>

\* fail_dispatch, complete_dispatch_closed: with no worker left the batcher
\* completes the batch, which was never uploaded.
FailDispatch ==
    /\ job[Batcher] = Idle /\ AllPanicked /\ queue # <<>>
    /\ queue' = Tail(queue)
    /\ SetJob(Batcher, [phase |-> "jobs", batch |-> Head(queue), attempts |-> 0, failed |-> TRUE])
    /\ UNCHANGED <<counter, result, held, waiter, snapVars>>

\* Mutant: the handle is filled before the job is counted.
AfterHandleFirst(j) ==
    CASE j.phase = "attempts" -> "bytes"
      [] j.phase = "bytes"    -> "upload"
      [] j.phase = "upload"   -> "complete"
      [] j.phase = "complete" -> "jobs"
      [] j.phase = "jobs"     -> IF j.failed THEN "errors" ELSE "retries"
      [] j.phase = "errors"   -> "retries"
      [] j.phase = "retries"  -> "callbacks"

\* The order of the statements: record_completion skips what adds nothing.
After(j) ==
    LET retries == IF j.attempts > 1 THEN "retries" ELSE "complete" IN
    CASE j.phase = "attempts" -> "bytes"
      [] j.phase = "bytes"    -> "upload"
      [] j.phase = "upload"   -> "jobs"
      [] j.phase = "jobs"     -> IF j.failed THEN "errors" ELSE retries
      [] j.phase = "errors"   -> retries
      [] j.phase = "retries"  -> "complete"
      [] j.phase = "complete" -> "callbacks"

\* What the worker adds to the counter of its phase: retries are the attempts
\* after the first.
Amount(j) ==
    CASE j.phase \in {"attempts", "jobs", "errors"} -> 1
      [] j.phase = "bytes" -> Bytes[j.batch]
      [] j.phase = "retries" -> j.attempts - 1

Count(t) ==
    /\ job[t].phase \in Counters
    /\ Bump(job[t].phase, Amount(job[t]))
    /\ SetJob(t, [job[t] EXCEPT !.phase = After(job[t])])
    /\ UNCHANGED <<queue, result, held, waiter, snapVars>>

\* Mutant: what is no longer the first attempt is not counted.
RetryUncounted(w) ==
    /\ job[w].phase = "upload" /\ job[w].attempts < MaxAttempts[job[w].batch]
    /\ SetJob(w, [job[w] EXCEPT !.attempts = @ + 1])
    /\ UNCHANGED <<queue, counter, result, held, waiter, snapVars>>

\* The upload fails and is tried again.
Retry(w) ==
    /\ job[w].phase = "upload" /\ job[w].attempts < MaxAttempts[job[w].batch]
    /\ SetJob(w, [job[w] EXCEPT !.phase = "attempts", !.attempts = @ + 1])
    /\ UNCHANGED <<queue, counter, result, held, waiter, snapVars>>

\* The delivery has a result.
Conclude(w, failed) ==
    /\ job[w].phase = "upload"
    /\ failed => job[w].batch \in MayFail
    /\ SetJob(w, [job[w] EXCEPT !.phase = After(job[w]), !.failed = failed])
    /\ UNCHANGED <<queue, counter, result, held, waiter, snapVars>>

\* The log line before a retry panics, or the one about a callback's panic: the
\* thread or the task ends, the batch is dropped with it, and busy_workers is
\* not taken back.  The last worker drops the channel and the batches in it.
LogPanics(t) ==
    /\ LogMayPanic
    /\ \/ job[t].phase = "upload" /\ job[t].attempts < MaxAttempts[job[t].batch]
       \/ job[t].phase = "callbacks"
    /\ \E n \in 0 .. Len(queue) :
          /\ n > 0 => t \in Workers /\ \A w \in Workers \ {t} : Panicked(w)
          /\ queue' = SubSeq(queue, n + 1, Len(queue))
          /\ held' = held \ ({job[t].batch} \cup {queue[i] : i \in 1 .. n})
    /\ SetJob(t, [job[t] EXCEPT !.phase = "panicked"])
    /\ UNCHANGED <<counter, result, waiter, snapVars>>

ResultOf(j) == IF j.attempts = 0 THEN "closed" ELSE IF j.failed THEN "failed" ELSE "ok"

\* Mutant: the handle is filled and nobody is notified.
CompleteSilently(t) ==
    /\ job[t].phase = "complete"
    /\ result' = [result EXCEPT ![job[t].batch] = ResultOf(job[t])]
    /\ SetJob(t, [job[t] EXCEPT !.phase = After(job[t])])
    /\ UNCHANGED <<queue, counter, held, waiter, snapVars>>

\* BatchCompletion::complete and AsyncBatchCompletion::complete: the first
\* result stays, and every call that is blocked is woken under the same lock.
Complete(t) ==
    LET b == job[t].batch IN
    /\ job[t].phase = "complete"
    /\ IF result[b] # "none"
       THEN UNCHANGED <<result, waiter>>
       ELSE /\ result' = [result EXCEPT ![b] = ResultOf(job[t])]
            /\ waiter' = [c \in Waiters |->
                  IF Awaits[c] = b /\ waiter[c] = "blocked" THEN "woken" ELSE waiter[c]]
    /\ SetJob(t, [job[t] EXCEPT !.phase = After(job[t])])
    /\ UNCHANGED <<queue, counter, held, snapVars>>

\* The callbacks have run, the batch is dropped and busy_workers goes down.
Finish(t) ==
    /\ job[t].phase = "callbacks"
    /\ held' = held \ {job[t].batch}
    /\ SetJob(t, Idle)
    /\ IF t \in Workers THEN Bump("busy", -1) ELSE UNCHANGED counter
    /\ UNCHANGED <<queue, result, waiter, snapVars>>

CompleteBatch(t) == Count(t) \/ Complete(t) \/ Finish(t)
Deliver(w) == Start(w) \/ Retry(w) \/ \E failed \in BOOLEAN : Conclude(w, failed)

-----------------------------------------------------------------------------
(* Handle::wait, Handle::wait_timeout and AsyncHandle::wait.               *)

Goto(c, state) == waiter' = [waiter EXCEPT ![c] = state]
WaiterOnly == UNCHANGED <<workVars, snapVars>>

HasResult(c) == result[Awaits[c]] # "none"

\* The call looks, and blocks if there is nothing: the condition variable lets
\* go of the mutex in the same step, the watch channel remembers the version.
Look(c) ==
    /\ waiter[c] \in {"idle", "woken"}
    /\ Goto(c, IF HasResult(c) THEN "got" ELSE "blocked")
    /\ WaiterOnly

\* A condition variable may wake up for no reason.
WakeSpuriously(c) ==
    /\ waiter[c] = "blocked" /\ Kind[c] # "async"
    /\ Goto(c, "woken")
    /\ WaiterOnly

\* The time is up, while blocked or on the way to the mutex ...
TimeUp(c) ==
    /\ waiter[c] \in {"blocked", "woken"} /\ Kind[c] = "timeout"
    /\ Goto(c, "timedOut")
    /\ WaiterOnly

\* Mutant: "if wait_result.timed_out() { return None }".
TimedOutBlindly(c) ==
    /\ waiter[c] = "timedOut"
    /\ Goto(c, "none")
    /\ WaiterOnly

\* ... and the call looks again before it returns None.
TimedOut(c) ==
    /\ waiter[c] = "timedOut"
    /\ Goto(c, IF HasResult(c) THEN "got" ELSE "none")
    /\ WaiterOnly

\* watch's changed() fails when the sender is gone, and wait() panics.
SenderGone(c) ==
    /\ waiter[c] = "blocked" /\ Kind[c] = "async"
    /\ Awaits[c] \notin held
    /\ Goto(c, "panicked")
    /\ WaiterOnly

-----------------------------------------------------------------------------
(* ClientStatsCollector::snapshot.                                         *)

\* The caller that was waiting asks for stats(): at any time if its wait had a
\* timeout.  The retries and the times are read for averages only and left out.

\* Mutant: the attempts are read before the bytes.
ReadsAttemptsFirst == <<"jobs", "errors", "busy", "attempts", "bytes">>

\* The order of the loads.
Reads == <<"jobs", "errors", "busy", "bytes", "attempts">>

StartSnapshot ==
    /\ reader = -1 /\ waiter[Reporter] \in {"got", "none"}
    /\ reader' = 0
    /\ seen' = {b \in Batches : result[b] # "none"}
    /\ UNCHANGED <<workVars, waiter, snap>>

Read ==
    /\ reader \in 0 .. Len(Reads) - 1
    /\ reader' = reader + 1
    /\ snap' = [snap EXCEPT ![Reads[reader + 1]] = counter[Reads[reader + 1]]]
    /\ UNCHANGED <<workVars, waiter, seen>>

-----------------------------------------------------------------------------

AllWorkDone ==
    /\ queue = <<>> \/ Panicked(Batcher)
    /\ \A t \in Tasks : job[t] = Idle \/ Panicked(t)

Next ==
    \/ \E w \in Workers : Deliver(w)
    \/ FailDispatch
    \/ \E t \in Tasks : CompleteBatch(t) \/ LogPanics(t)
    \/ \E c \in Waiters : \/ Look(c) \/ WakeSpuriously(c) \/ TimeUp(c)
                          \/ TimedOut(c) \/ SenderGone(c)
    \/ StartSnapshot \/ Read
    \/ AllWorkDone /\ UNCHANGED vars

Spec == Init /\ [][Next]_vars

\* The workers go on, a thread that is not blocked is scheduled, the timeout
\* elapses and the runtime polls a woken task.  Nobody is obliged to call.
FairSpec ==
    /\ Spec
    /\ \A w \in Workers : WF_vars(Deliver(w))
    /\ WF_vars(FailDispatch)
    /\ \A t \in Tasks : WF_vars(CompleteBatch(t))
    /\ \A c \in Waiters : /\ WF_vars(waiter[c] = "woken" /\ Look(c))
                          /\ WF_vars(TimeUp(c)) /\ WF_vars(TimedOut(c)) /\ WF_vars(SenderGone(c))

-----------------------------------------------------------------------------

Completed == {b \in Batches : result[b] # "none"}
Failed(bs) == {b \in bs : result[b] \in {"failed", "closed"}}
Undelivered(bs) == {b \in bs : result[b] = "closed"}

SnapshotTaken == reader = Len(Reads)

\* A stats() that begins after a handle has its result counts the batch: its
\* job, its error if it failed, its upload.
SnapshotSeesResults ==
    SnapshotTaken =>
        /\ snap["jobs"] >= Cardinality(seen)
        /\ snap["errors"] >= Cardinality(Failed(seen))
        /\ snap["attempts"] >= Cardinality(seen \ Undelivered(seen))

\* The fields of a snapshot are of different moments, but average_load_size is
\* never more than the largest batch, and no more workers are busy than there
\* are.
SnapshotPlausible ==
    SnapshotTaken =>
        /\ \E b \in Batches : snap["bytes"] <= snap["attempts"] * Bytes[b]
        /\ snap["busy"] <= NumWorkers

\* The uploads that were made for a batch that a panic then dropped.
LostUploads ==
    UNION {{w} \X (1 .. job[w].attempts) :
              w \in {v \in Workers : Panicked(v) /\ result[job[v].batch] = "none"}}

\* When the work is done the counters agree with each other and with the
\* handles, also after panics: every upload is the first of a job, a retry of
\* one or was made for a batch that was lost, a batch without a worker is a job
\* without an upload, and each panic leaves one worker busy.
CountersAddUp ==
    AllWorkDone =>
        /\ counter["jobs"] = Cardinality(Completed)
        /\ counter["errors"] = Cardinality(Failed(Batches))
        /\ counter["attempts"] + Cardinality(Undelivered(Batches))
              = counter["jobs"] + counter["retries"] + Cardinality(LostUploads)
        /\ counter["busy"] = Cardinality({w \in Workers : Panicked(w)})

\* wait_timeout returns None only while there is no result, also when the time
\* is up just as the result comes.
NoneOnlyWithoutResult ==
    [][\A c \in Waiters : Goto(c, "none") /\ waiter' # waiter => ~HasResult(c)]_vars

\* Every call that waits returns: the wake-up of complete() is not missed and a
\* spurious one does no harm.  What may hang is a blocking wait() for a batch
\* that a panic has dropped, where the async wait() panics, and a wait for what
\* the batcher leaves behind when it panics itself.
EveryWaitReturns ==
    \A c \in Waiters :
        waiter[c] = "blocked" ~>
            \/ waiter[c] \in {"got", "none", "panicked"}
            \/ Kind[c] = "wait" /\ Awaits[c] \notin held /\ ~HasResult(c)
            \/ Panicked(Batcher)

=============================================================================

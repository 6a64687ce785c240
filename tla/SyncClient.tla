----------------------------- MODULE SyncClient -----------------------------
(***************************************************************************)
(* The blocking client: callers, the intake queue, the batcher thread, the *)
(* bounded dispatch channel, the upload workers, close() and drop.         *)
(*                                                                         *)
(* One step is one access to something another thread can see: an atomic,  *)
(* a mutex, a channel operation, a handle.  What deliver_batch does before *)
(* it has a result for its batch is one step here; it is module Delivery.  *)
(***************************************************************************)
EXTENDS Batching, FiniteSets

CONSTANTS Timed,            \* the calls that give up when the queue stays full
          WithCallback,     \* the submissions sent with a callback
          Closers,          \* the threads that call close()
          NumWorkers,       \* doris_upload_workers
          MaxQueueSize,     \* max_queue_size, the capacity of the intake
          MaxUploadQueue,   \* max_upload_queue_size, of the dispatch channel
          LogMayPanic       \* the logger (or eprintln!) may panic

ASSUME SyncClientAssumption ==
    /\ Timed \subseteq Subs
    /\ WithCallback \subseteq Subs
    /\ NumWorkers \in Nat \ {0}
    /\ MaxQueueSize \in Nat \ {0}
    /\ MaxUploadQueue \in Nat \ {0}
    /\ LogMayPanic \in BOOLEAN

Workers == 1 .. NumWorkers
Batcher == 0
Threads == {Batcher} \cup Workers   \* the threads that run complete_batch

VARIABLES
    call,         \* call[s]: where the send call of s stands
    closed,       \* Client.closed
    intakeClosed, \* RequestQueue.closed
    senderHeld,   \* RequestQueue.sender is Some
    chan,         \* the intake channel
    pending,      \* RequestQueue.pending, as a sequence of at most one
    batcher,      \* where the batcher thread stands
    got,          \* submissions taken from the intake, not yet absorbed
    gotBytes,     \* collect_batch's bytes
    room,         \* collect_batch's max_bytes; 0 means no limit
    current,      \* Accumulator.current, NoBatch for None
    lingered,     \* the linger deadline of the open batch has passed
    out,          \* the dispatch channel
    job,          \* job[t]: the batch thread t works on and how far it is
    closer,       \* closer[c]: where the close call of c stands
    dropped,      \* the Client has been dropped
    done,         \* submissions whose handle has a result
    called,       \* submissions whose callback has been invoked
    discarded,    \* submissions dropped with the dispatch channel
    accepted,     \* history: submissions in the order the queue took them
    sent          \* history: submissions in the order they left the batcher

callerVars == <<call, accepted>>
flagVars   == <<closed, intakeClosed, senderHeld, closer, dropped>>
intakeVars == <<chan, pending>>
batchVars  == <<got, gotBytes, room, current, lingered>>
workVars   == <<job, done, called, discarded>>
vars == <<callerVars, flagVars, intakeVars, batcher, batchVars, out, workVars, sent>>

Idle == [phase |-> "none", batch |-> NoBatch, next |-> 0]

CallStates    == {"idle", "enqueue", "clone", "sending", "accepted", "rejected"}
BatcherStates == {"loop", "wait", "collect", "absorb", "dispatch", "closing", "done"}
Phases        == {"none", "deliver", "complete", "callback", "exited", "panicked"}
CloserStates  == {"idle", "flag", "sender", "joinBatcher", "joinWorkers",
                  "ok", "err", "second"}

TypeOK ==
    /\ call \in [Subs -> CallStates]
    /\ closed \in BOOLEAN /\ intakeClosed \in BOOLEAN /\ senderHeld \in BOOLEAN
    /\ chan \in Seq(Subs) /\ Len(chan) <= MaxQueueSize
    /\ pending \in Seq(Subs) /\ Len(pending) <= 1
    /\ batcher \in BatcherStates
    /\ got \in Seq(Subs) /\ gotBytes \in Nat /\ room \in Nat
    /\ current \in Batch /\ lingered \in BOOLEAN
    /\ out \in Seq(Batch) /\ Len(out) <= MaxUploadQueue
    /\ job \in [Threads -> [phase : Phases, batch : Batch, next : Nat]]
    /\ closer \in [Closers -> CloserStates] /\ dropped \in BOOLEAN
    /\ done \subseteq Subs /\ called \subseteq Subs /\ discarded \subseteq Subs
    /\ accepted \in Seq(Subs) /\ sent \in Seq(Subs)

Init ==
    /\ call = [s \in Subs |-> "idle"]
    /\ closed = FALSE /\ intakeClosed = FALSE /\ senderHeld = TRUE
    /\ chan = <<>> /\ pending = <<>>
    /\ batcher = "loop" /\ got = <<>> /\ gotBytes = 0 /\ room = 0
    /\ current = NoBatch /\ lingered = FALSE
    /\ out = <<>>
    /\ job = [t \in Threads |-> Idle]
    /\ closer = [c \in Closers |-> "idle"] /\ dropped = FALSE
    /\ done = {} /\ called = {} /\ discarded = {}
    /\ accepted = <<>> /\ sent = <<>>

-----------------------------------------------------------------------------
(* Callers: Client::send_batch_internal and RequestQueue::enqueue.         *)

Goto(s, state) == call' = [call EXCEPT ![s] = state]

\* send_batch_internal up to the enqueue: the size check, then Client.closed.
Send(s) ==
    /\ call[s] = "idle" /\ ~dropped
    /\ IF StandaloneSize(s) > BatchBytes \/ closed
       THEN Goto(s, "rejected")
       ELSE Goto(s, "enqueue")
    /\ UNCHANGED <<accepted, flagVars, intakeVars, batcher, batchVars, out, workVars, sent>>

\* enqueue loads RequestQueue.closed ...
CheckIntake(s) ==
    /\ call[s] = "enqueue"
    /\ Goto(s, IF intakeClosed THEN "rejected" ELSE "clone")
    /\ UNCHANGED <<accepted, flagVars, intakeVars, batcher, batchVars, out, workVars, sent>>

\* ... clones the channel's sender under the mutex ...
CloneSender(s) ==
    /\ call[s] = "clone"
    /\ Goto(s, IF senderHeld THEN "sending" ELSE "rejected")
    /\ UNCHANGED <<accepted, flagVars, intakeVars, batcher, batchVars, out, workVars, sent>>

\* Mutant: room for one too many.
RoomInIntakeOffByOne == Len(chan) <= MaxQueueSize

RoomInIntake == Len(chan) < MaxQueueSize

\* ... and sends, waiting for room in the channel.
Enqueue(s) ==
    /\ call[s] = "sending"
    /\ RoomInIntake
    /\ chan' = Append(chan, s)
    /\ accepted' = Append(accepted, s)
    /\ Goto(s, "accepted")
    /\ UNCHANGED <<flagVars, pending, batcher, batchVars, out, workVars, sent>>

\* QueueFull.
EnqueueTimeout(s) ==
    /\ call[s] = "sending" /\ s \in Timed
    /\ ~RoomInIntake
    /\ Goto(s, "rejected")
    /\ UNCHANGED <<accepted, flagVars, intakeVars, batcher, batchVars, out, workVars, sent>>

Caller(s) == Send(s) \/ CheckIntake(s) \/ CloneSender(s) \/ Enqueue(s) \/ EnqueueTimeout(s)

-----------------------------------------------------------------------------
(* The batcher thread: run_batcher, the receiving half of RequestQueue and *)
(* the Accumulator.                                                        *)

\* The batcher runs its own code: it is not inside complete_batch.
At(state) == batcher = state /\ job[Batcher].phase = "none"

\* Mutants: the channel counts as disconnected once the queue has dropped its
\* own sender, or with the closed flag, whoever is still sending.
DisconnectedByQueue == ~senderHeld
DisconnectedByFlag == intakeClosed

\* No sender of the intake channel is left: what is in it is all there is.
Disconnected == ~senderHeld /\ \A s \in Subs : call[s] # "sending"

\* Every receiver of the dispatch channel is gone.
WorkersGone == \A w \in Workers : job[w].phase \in {"exited", "panicked"}

\* Nothing to dequeue.
Empty == pending = <<>> /\ chan = <<>>

\* Mutant: the channel is looked into first.
TakesPendingLast == pending # <<>> /\ chan = <<>>

\* take_pending_or_next prefers what was kept back to the channel.
TakesPending == pending # <<>>

\* take_pending_or_next, or the wait for the next item, then the beginning of
\* collect_batch: one submission that fills max on its own is a batch.
TakeFirst(max) ==
    LET first == IF TakesPending THEN Head(pending) ELSE Head(chan) IN
    /\ ~Empty
    /\ IF TakesPending THEN pending' = <<>> /\ UNCHANGED chan
                       ELSE chan' = Tail(chan) /\ UNCHANGED pending
    /\ got' = <<first>>
    /\ gotBytes' = StandaloneSize(first)
    /\ room' = max
    /\ batcher' = IF max > 0 /\ gotBytes' >= max THEN "absorb" ELSE "collect"

\* Accumulator::remaining_bytes.
RemainingBytes == IF current.bytes < BatchBytes THEN BatchBytes - current.bytes ELSE 0

\* No open batch: dequeue_batch blocks for the first submission ...
DequeueFirst ==
    /\ At("loop") /\ current = NoBatch
    /\ TakeFirst(BatchBytes)
    /\ UNCHANGED <<callerVars, flagVars, current, lingered, out, workVars, sent>>

\* ... and finds the intake closed and drained: the thread ends.
DequeueClosed ==
    /\ At("loop") /\ current = NoBatch
    /\ Empty /\ Disconnected
    /\ batcher' = "done"
    /\ UNCHANGED <<callerVars, flagVars, intakeVars, batchVars, out, workVars, sent>>

\* Mutant: a lingered batch waits for a worker instead of trying one.
KeepOpenBlocking ==
    /\ At("loop") /\ current # NoBatch /\ lingered
    /\ batcher' = "dispatch"
    /\ UNCHANGED <<callerVars, flagVars, intakeVars, batchVars, out, workVars, sent>>

\* An open batch whose linger has not expired goes on accumulating.
KeepOpen ==
    /\ At("loop") /\ current # NoBatch /\ ~lingered
    /\ batcher' = "wait"
    /\ UNCHANGED <<callerVars, flagVars, intakeVars, batchVars, out, workVars, sent>>

\* Mutant: the callbacks before the handles.
CallbacksFirst(b) == [phase |-> "callback", batch |-> b, next |-> 1]

\* complete_batch, called by thread t for batch b: first its handles.
Completing(b) == [phase |-> "complete", batch |-> b, next |-> 1]

\* try_dispatch of a lingered batch.  A full channel arms the linger anew.
TryDispatch ==
    /\ At("loop") /\ current # NoBatch /\ lingered
    /\ \/ /\ WorkersGone                       \* fail_dispatch
          /\ job' = [job EXCEPT ![Batcher] = Completing(current)]
          /\ sent' = sent \o current.subs
          /\ current' = NoBatch
          /\ UNCHANGED <<batcher, lingered, out>>
       \/ /\ ~WorkersGone /\ Len(out) < MaxUploadQueue
          /\ out' = Append(out, current)
          /\ sent' = sent \o current.subs
          /\ current' = NoBatch
          /\ UNCHANGED <<batcher, lingered, job>>
       \/ /\ ~WorkersGone /\ Len(out) = MaxUploadQueue
          /\ lingered' = FALSE
          /\ batcher' = "wait"
          /\ UNCHANGED <<current, out, job, sent>>
    /\ UNCHANGED <<callerVars, flagVars, intakeVars, got, gotBytes, room,
                   done, called, discarded>>

\* dequeue_batch_wait returns Batch ...
DequeueMore ==
    /\ At("wait")
    /\ TakeFirst(RemainingBytes)
    /\ UNCHANGED <<callerVars, flagVars, current, lingered, out, workVars, sent>>

\* ... Timeout ...
DequeueTimeout ==
    /\ At("wait") /\ Empty /\ lingered
    /\ batcher' = "loop"
    /\ UNCHANGED <<callerVars, flagVars, intakeVars, batchVars, out, workVars, sent>>

\* Mutant: the open batch is forgotten.
DequeueDisconnectedNoFlush ==
    /\ At("wait") /\ Empty /\ Disconnected
    /\ batcher' = "done"
    /\ UNCHANGED <<callerVars, flagVars, intakeVars, batchVars, out, workVars, sent>>

\* ... or Closed.
DequeueDisconnected ==
    /\ At("wait") /\ Empty /\ Disconnected
    /\ batcher' = "closing"
    /\ UNCHANGED <<callerVars, flagVars, intakeVars, batchVars, out, workVars, sent>>

\* One turn of collect_batch's loop: try_recv; what does not fit is kept in
\* RequestQueue.pending.
Collect ==
    /\ At("collect")
    /\ \/ /\ chan = <<>>
          /\ batcher' = "absorb"
          /\ UNCHANGED <<chan, pending, got, gotBytes>>
       \/ /\ chan # <<>>
          /\ room > 0 /\ gotBytes + AppendSize(Head(chan)) > room
          /\ pending' = <<Head(chan)>>
          /\ chan' = Tail(chan)
          /\ batcher' = "absorb"
          /\ UNCHANGED <<got, gotBytes>>
       \/ /\ chan # <<>>
          /\ room = 0 \/ gotBytes + AppendSize(Head(chan)) <= room
          /\ got' = Append(got, Head(chan))
          /\ gotBytes' = gotBytes + AppendSize(Head(chan))
          /\ chan' = Tail(chan)
          /\ UNCHANGED <<batcher, pending>>
    /\ UNCHANGED <<callerVars, flagVars, room, current, lingered, out, workVars, sent>>

\* Mutants: the size s has on its own, or without separators.
OverflowsStandalone(s) == current # NoBatch /\ current.bytes + StandaloneSize(s) > BatchBytes
OverflowsPayload(s) == current # NoBatch /\ current.bytes + Payload[s] > BatchBytes

Overflows(s) == current # NoBatch /\ current.bytes + AppendSize(s) > BatchBytes

\* Mutant: a batch that has just reached batch_bytes stays open.
FillsBeyond(b) == b.bytes > BatchBytes

Fills(b) == b.bytes >= BatchBytes

\* One turn of absorb's loop.  An overflowing or full batch is dispatched
\* before the loop goes on; a new batch starts its linger.
Absorb ==
    /\ At("absorb")
    /\ \/ /\ got = <<>>
          /\ batcher' = "loop"
          /\ UNCHANGED <<got, current, lingered>>
       \/ /\ got # <<>> /\ Overflows(Head(got))
          /\ batcher' = "dispatch"
          /\ UNCHANGED <<got, current, lingered>>
       \/ /\ got # <<>> /\ ~Overflows(Head(got))
          /\ current' = AddSubmission(current, Head(got))
          /\ got' = Tail(got)
          /\ lingered' = (current # NoBatch /\ lingered)
          /\ batcher' = IF Fills(current') THEN "dispatch" ELSE "absorb"
    /\ UNCHANGED <<callerVars, flagVars, intakeVars, gotBytes, room, out, workVars, sent>>

\* dispatch_blocking: waits for room in the dispatch channel; a channel
\* nobody receives from fails the batch (fail_dispatch).
Dispatch ==
    /\ At("dispatch") \/ At("closing")
    /\ \/ /\ WorkersGone
          /\ job' = [job EXCEPT ![Batcher] = Completing(current)]
          /\ UNCHANGED out
       \/ /\ ~WorkersGone /\ Len(out) < MaxUploadQueue
          /\ out' = Append(out, current)
          /\ UNCHANGED job
    /\ sent' = sent \o current.subs
    /\ current' = NoBatch
    /\ batcher' = IF batcher = "dispatch" THEN "absorb" ELSE "done"
    /\ UNCHANGED <<callerVars, flagVars, intakeVars, got, gotBytes, room, lingered,
                   done, called, discarded>>

BatcherStep ==
    \/ DequeueFirst \/ DequeueClosed \/ KeepOpen \/ TryDispatch
    \/ DequeueMore \/ DequeueTimeout \/ DequeueDisconnected
    \/ Collect \/ Absorb \/ Dispatch

\* Time passes: the linger of the open batch expires.
LingerExpires ==
    /\ current # NoBatch /\ ~lingered
    /\ lingered' = TRUE
    /\ UNCHANGED <<callerVars, flagVars, intakeVars, batcher, got, gotBytes, room,
                   current, out, workVars, sent>>

-----------------------------------------------------------------------------
(* The upload workers and complete_batch.                                  *)

\* The batcher has dropped its end of the dispatch channel.
BatcherGone == At("done") \/ job[Batcher].phase = "panicked"

SetJob(t, j) == job' = [job EXCEPT ![t] = j]

\* run_worker receives a batch ...
TakeBatch(w) ==
    /\ job[w].phase = "none" /\ out # <<>>
    /\ SetJob(w, [phase |-> "deliver", batch |-> Head(out), next |-> 0])
    /\ out' = Tail(out)
    /\ UNCHANGED <<callerVars, flagVars, intakeVars, batcher, batchVars,
                   done, called, discarded, sent>>

\* Mutant: a worker ends as soon as the channel is closed.
ExitWorkerEarly(w) ==
    /\ job[w].phase = "none" /\ BatcherGone
    /\ SetJob(w, [Idle EXCEPT !.phase = "exited"])
    /\ UNCHANGED <<callerVars, flagVars, intakeVars, batcher, batchVars, out,
                   done, called, discarded, sent>>

\* ... or finds the channel empty and closed, and ends.
ExitWorker(w) ==
    /\ job[w].phase = "none" /\ out = <<>> /\ BatcherGone
    /\ SetJob(w, [Idle EXCEPT !.phase = "exited"])
    /\ UNCHANGED <<callerVars, flagVars, intakeVars, batcher, batchVars, out,
                   done, called, discarded, sent>>

\* deliver_batch has a result, good or bad, for the batch.
Delivered(w) ==
    /\ job[w].phase = "deliver"
    /\ SetJob(w, Completing(job[w].batch))
    /\ UNCHANGED <<callerVars, flagVars, intakeVars, batcher, batchVars, out,
                   done, called, discarded, sent>>

Queued == UNION {ToSet(out[i].subs) : i \in DOMAIN out}

\* The last thread with a receiver of the dispatch channel.
LastWorker(t) ==
    t \in Workers /\ \A w \in Workers \ {t} : job[w].phase \in {"exited", "panicked"}

\* A panic ends thread t and drops its batch.  With the last receiver the
\* channel discards the batches that are queued in it.
Panic(t) ==
    /\ SetJob(t, [job[t] EXCEPT !.phase = "panicked"])
    /\ IF LastWorker(t) THEN out' = <<>> /\ discarded' = discarded \cup Queued
                        ELSE UNCHANGED <<out, discarded>>

\* The log line of a retry panics, outside of any catch_unwind.
RetryLogPanics(w) ==
    /\ LogMayPanic /\ job[w].phase = "deliver"
    /\ Panic(w)
    /\ UNCHANGED <<callerVars, flagVars, intakeVars, batcher, batchVars, done, called, sent>>

HasCallback(b) == \E i \in DOMAIN b.subs : b.subs[i] \in WithCallback

\* Mutant: one handle short.
AllButOneCompleted(j) == j.next >= Len(j.batch.subs)

AllCompleted(j) == j.next > Len(j.batch.subs)

\* complete_batch gives the next submission's handle its result.
CompleteHandle(t) ==
    LET j == job[t] IN
    /\ j.phase = "complete" /\ ~AllCompleted(j)
    /\ done' = done \cup {j.batch.subs[j.next]}
    /\ SetJob(t, [j EXCEPT !.next = @ + 1])
    /\ UNCHANGED <<callerVars, flagVars, intakeVars, batcher, batchVars, out,
                   called, discarded, sent>>

\* All handles have theirs: the callbacks follow, if there are any.
HandlesCompleted(t) ==
    LET j == job[t] IN
    /\ j.phase = "complete" /\ AllCompleted(j)
    /\ SetJob(t, IF HasCallback(j.batch) THEN [j EXCEPT !.phase = "callback", !.next = 1]
                                         ELSE Idle)
    /\ UNCHANGED <<callerVars, flagVars, intakeVars, batcher, batchVars, out,
                   done, called, discarded, sent>>

\* The next submission's callback, if it has one.  A panic of the callback is
\* caught; the log line that reports it, or a slow callback, may panic too.
RunCallback(t) ==
    LET j == job[t]
        s == j.batch.subs[j.next]
    IN
    /\ j.phase = "callback" /\ j.next <= Len(j.batch.subs)
    /\ called' = IF s \in WithCallback THEN called \cup {s} ELSE called
    /\ \/ SetJob(t, [j EXCEPT !.next = @ + 1]) /\ UNCHANGED <<out, discarded>>
       \/ LogMayPanic /\ s \in WithCallback /\ Panic(t)
    /\ UNCHANGED <<callerVars, flagVars, intakeVars, batcher, batchVars, done, sent>>

\* The batch is finished.
CallbacksDone(t) ==
    /\ job[t].phase = "callback" /\ job[t].next > Len(job[t].batch.subs)
    /\ SetJob(t, Idle)
    /\ UNCHANGED <<callerVars, flagVars, intakeVars, batcher, batchVars, out,
                   done, called, discarded, sent>>

CompleteBatch(t) == CompleteHandle(t) \/ HandlesCompleted(t) \/ RunCallback(t) \/ CallbacksDone(t)

Worker(w) == TakeBatch(w) \/ ExitWorker(w) \/ Delivered(w) \/ RetryLogPanics(w)

-----------------------------------------------------------------------------
(* Client::close and Drop.                                                 *)

Advance(c, state) == closer' = [closer EXCEPT ![c] = state]

\* close() swaps Client.closed; a second close() returns Ok at once.
Close(c) ==
    /\ closer[c] = "idle" /\ ~dropped
    /\ closed' = TRUE
    /\ Advance(c, IF closed THEN "second" ELSE "flag")
    /\ UNCHANGED <<callerVars, intakeClosed, senderHeld, dropped, intakeVars, batcher,
                   batchVars, out, workVars, sent>>

\* RequestQueue::close swaps its own flag ...
CloseIntake(c) ==
    /\ closer[c] = "flag"
    /\ intakeClosed' = TRUE
    /\ Advance(c, "sender")
    /\ UNCHANGED <<callerVars, closed, senderHeld, dropped, intakeVars, batcher,
                   batchVars, out, workVars, sent>>

\* Mutant: the sender is kept.
DropSenderForgotten(c) ==
    /\ closer[c] = "sender"
    /\ Advance(c, "joinBatcher")
    /\ UNCHANGED <<callerVars, closed, intakeClosed, senderHeld, dropped, intakeVars,
                   batcher, batchVars, out, workVars, sent>>

\* ... and drops the queue's sender under the mutex.
DropSender(c) ==
    /\ closer[c] = "sender"
    /\ senderHeld' = FALSE
    /\ Advance(c, "joinBatcher")
    /\ UNCHANGED <<callerVars, closed, intakeClosed, dropped, intakeVars, batcher,
                   batchVars, out, workVars, sent>>

\* Mutant: the workers are not joined.
JoinBatcherOnly(c) ==
    /\ closer[c] = "joinBatcher" /\ BatcherGone
    /\ Advance(c, IF job[Batcher].phase = "panicked" THEN "err" ELSE "ok")
    /\ UNCHANGED <<callerVars, closed, intakeClosed, senderHeld, dropped, intakeVars,
                   batcher, batchVars, out, workVars, sent>>

\* Joining a panicked batcher ends close() with an error.
JoinBatcher(c) ==
    /\ closer[c] = "joinBatcher" /\ BatcherGone
    /\ Advance(c, IF job[Batcher].phase = "panicked" THEN "err" ELSE "joinWorkers")
    /\ UNCHANGED <<callerVars, closed, intakeClosed, senderHeld, dropped, intakeVars,
                   batcher, batchVars, out, workVars, sent>>

\* The workers are joined in order, up to the first that panicked.
JoinWorkers(c) ==
    /\ closer[c] = "joinWorkers"
    /\ \/ /\ \A w \in Workers : job[w].phase = "exited"
          /\ Advance(c, "ok")
       \/ /\ \E w \in Workers : /\ job[w].phase = "panicked"
                                /\ \A v \in Workers : v < w => job[v].phase = "exited"
          /\ Advance(c, "err")
    /\ UNCHANGED <<callerVars, closed, intakeClosed, senderHeld, dropped, intakeVars,
                   batcher, batchVars, out, workVars, sent>>

Closer(c) == Close(c) \/ CloseIntake(c) \/ DropSender(c) \/ JoinBatcher(c) \/ JoinWorkers(c)

Returned == {"idle", "ok", "err", "second"}

\* Drop has the client to itself: no call is in progress.  It closes the
\* intake and joins nobody.
Drop ==
    /\ ~dropped
    /\ \A s \in Subs : call[s] \in {"idle", "accepted", "rejected"}
    /\ \A c \in Closers : closer[c] \in Returned
    /\ dropped' = TRUE
    /\ IF closed THEN UNCHANGED <<intakeClosed, senderHeld>>
                 ELSE intakeClosed' = TRUE /\ senderHeld' = FALSE
    /\ UNCHANGED <<callerVars, closed, closer, intakeVars, batcher, batchVars, out,
                   workVars, sent>>

-----------------------------------------------------------------------------

\* Nothing is left to run: the threads are gone and no call is in progress,
\* or waits for room in a queue whose batcher has panicked.
Quiescent ==
    /\ \A c \in Closers : closer[c] \in Returned
    /\ \A s \in Subs : \/ call[s] \in {"idle", "accepted", "rejected"}
                       \/ call[s] = "sending" /\ job[Batcher].phase = "panicked"
    /\ BatcherGone /\ WorkersGone

Next ==
    \/ \E s \in Subs : Caller(s)
    \/ BatcherStep
    \/ LingerExpires
    \/ \E w \in Workers : Worker(w)
    \/ \E t \in Threads : CompleteBatch(t)
    \/ \E c \in Closers : Closer(c)
    \/ Drop
    \/ Quiescent /\ UNCHANGED vars

Spec == Init /\ [][Next]_vars

\* Threads that can run are run, time passes, and a call that has begun goes
\* on.  Nobody is obliged to send, to close or to drop.
Fairness ==
    /\ \A s \in Subs : WF_vars(CheckIntake(s) \/ CloneSender(s) \/ Enqueue(s))
    /\ WF_vars(BatcherStep)
    /\ WF_vars(LingerExpires)
    /\ \A w \in Workers : WF_vars(TakeBatch(w) \/ ExitWorker(w) \/ Delivered(w))
    /\ \A t \in Threads : WF_vars(CompleteBatch(t))
    /\ \A c \in Closers : WF_vars(CloseIntake(c) \/ DropSender(c) \/ JoinBatcher(c)
                                   \/ JoinWorkers(c))

FairSpec == Spec /\ Fairness

-----------------------------------------------------------------------------
(* Safety.                                                                 *)

\* No submission is lost, duplicated or overtaken between the intake and the
\* dispatch channel: what the batcher handed over, the open batch, what was
\* collected, what RequestQueue.pending holds and what is queued are, in this
\* order, the submissions in the order of acceptance (collect_batch, absorb).
\* What the batcher holds when it panics counts as where it was then.
PipelineFIFO == accepted = sent \o current.subs \o got \o pending \o chan

Batches == {current} \cup {out[i] : i \in DOMAIN out} \cup {job[t].batch : t \in Threads}

\* No upload body exceeds batch_bytes, although collect_batch measures the
\* collected submissions as a body of their own and absorb appends them.
BatchWithinLimit == \A b \in Batches : b.bytes <= BatchBytes

\* The byte_size the decisions are taken on is the length of the encoded body.
ByteSizeExact == \A b \in Batches \ {NoBatch} : b.bytes = EncodedSize(b.subs)

\* An open batch always has room left when more is dequeued for it: a room of
\* zero would tell collect_batch that there is no limit.
NeverUnlimited == batcher = "collect" => room > 0

\* "Only a batch that has reached batch_bytes (or cannot fit the next record)
\* makes the batcher wait": dispatch_blocking is not reached otherwise, except
\* for the last batch.
OnlyFullBatchesBlock ==
    batcher = "dispatch" =>
        \/ Fills(current)
        \/ got # <<>> /\ Overflows(Head(got))

\* The submissions whose handle thread t has still to complete ...
Owed(t) ==
    LET j == job[t] IN
    CASE j.phase = "deliver"  -> ToSet(j.batch.subs)
      [] j.phase = "complete" -> {j.batch.subs[i] : i \in j.next .. Len(j.batch.subs)}
      [] OTHER -> {}

\* ... and those whose callback it has still to invoke.
CallsOwed(t) ==
    LET j == job[t] IN
    IF j.phase = "callback"
    THEN {j.batch.subs[i] : i \in j.next .. Len(j.batch.subs)} \cap WithCallback
    ELSE {}

Panicked == {t \in Threads : job[t].phase = "panicked"}

\* The batches of the threads a panic has killed, and those that were queued
\* when it killed the last worker.
Lost == discarded \cup UNION {ToSet(job[t].batch.subs) : t \in Panicked}

\* Every handle is completed at most once and every callback invoked at most
\* once, never before the handle: BatchCompletion::complete would silently
\* ignore a second result, a callback would not.
AtMostOnce ==
    /\ \A t \in Threads : /\ Owed(t) \cap (done \cup Queued) = {}
                          /\ CallsOwed(t) \cap called = {}
                          /\ \A u \in Threads \ {t} : Owed(t) \cap Owed(u) = {}
    /\ called \subseteq done

\* A submission that has left the batcher is completed, or owed by the thread
\* that has its batch, or queued while there is a worker that can take it.
\* Otherwise a panic has lost it: its own batch, or, if it was the panic of the
\* last worker, all that was queued for one.
NothingLost ==
    /\ ToSet(sent) \subseteq done \cup Queued \cup Lost \cup UNION {Owed(t) : t \in Threads}
    /\ Queued # {} => ~WorkersGone
    /\ discarded # {} => WorkersGone /\ Panicked \cap Workers # {}

\* "close() stops intake, drains accepted work, and waits for in-flight
\* deliveries": once the first close() has returned Ok every accepted handle
\* is complete and every callback has run, whatever raced with it, and that
\* stays so (nothing is accepted any more).
CloseDrains ==
    (\E c \in Closers : closer[c] = "ok") =>
        /\ ToSet(accepted) \subseteq done
        /\ ToSet(accepted) \cap WithCallback \subseteq called

\* The same claim for every close() that has returned Ok.
EveryCloseDrains ==
    (\E c \in Closers : closer[c] \in {"ok", "second"}) => ToSet(accepted) \subseteq done

\* The claim of the integration tests that a callback has run by the time the
\* handle's wait() returns.
WaitSeesCallback == done \cap WithCallback \subseteq called

-----------------------------------------------------------------------------
(* Liveness, under FairSpec with a logger that does not panic.             *)

\* "Every accepted send returns a handle" and the handle completes, its
\* callback is invoked: by size, by linger or by close, whoever else sends.
EveryAcceptedCompletes ==
    \A s \in Subs : call[s] = "accepted" ~> s \in done /\ (s \in WithCallback => s \in called)

\* A call of send() returns, though it may wait for room in the queue.
EverySendReturns == \A s \in Subs : call[s] = "enqueue" ~> call[s] \in {"accepted", "rejected"}

\* A call of close() returns.
EveryCloseReturns == \A c \in Closers : closer[c] = "flag" ~> closer[c] \in Returned

-----------------------------------------------------------------------------
(* The client implements the service.                                      *)

ServiceStatus(s) ==
    CASE call[s] \in {"enqueue", "clone", "sending"} -> "calling" [] OTHER -> call[s]

ServiceClosing(c) ==
    CASE closer[c] = "idle" -> "idle"
      [] closer[c] = "ok" -> "drained"
      [] closer[c] \in {"err", "second"} -> "returned"
      [] OTHER -> "calling"

Service == INSTANCE ClientService WITH
    status  <- [s \in Subs |-> ServiceStatus(s)],
    closing <- [c \in Closers |-> ServiceClosing(c)],
    drained <- \E c \in Closers : closer[c] = "ok"

\* Every step is a step of ClientService or invisible to callers.
ImplementsService == Service!SafeSpec

\* With fair threads and a logger that does not panic also its liveness.
ImplementsFairService == Service!Spec

=============================================================================

----------------------------- MODULE AsyncClient -----------------------------
(***************************************************************************)
(* The tokio client: send futures, the bounded intake channel, the batcher *)
(* task with its select loop, the bounded dispatch channel, whose receiver *)
(* the worker tasks share behind an async mutex, close() and drop.         *)
(*                                                                         *)
(* A step runs a task from one access to shared state to the next.  A      *)
(* future may be dropped where it awaits.  What deliver_batch_async does   *)
(* before it has a result is one step, as in SyncClient.                   *)
(***************************************************************************)
EXTENDS Batching, FiniteSets

CONSTANTS WithCallback,     \* the submissions sent with a callback
          Closers,          \* the tasks that call close()
          NumWorkers,       \* doris_upload_workers
          MaxQueueSize,     \* max_queue_size, the capacity of the intake
          MaxUploadQueue,   \* max_upload_queue_size, of the dispatch channel
          QueueWaitLimited, \* max_queue_wait_time is not zero
          LogMayPanic       \* the logger (or eprintln!) may panic

ASSUME AsyncClientAssumption ==
    /\ WithCallback \subseteq Subs
    /\ NumWorkers \in Nat \ {0}
    /\ MaxQueueSize \in Nat \ {0}
    /\ MaxUploadQueue \in Nat \ {0}
    /\ QueueWaitLimited \in BOOLEAN
    /\ LogMayPanic \in BOOLEAN

Workers == 1 .. NumWorkers
Batcher == 0
Tasks == {Batcher} \cup Workers     \* the tasks that run complete_async_batch

VARIABLES
    call,       \* call[s]: where the send future of s stands
    closed,     \* AsyncClient.closed
    intakeHeld, \* AsyncClient.intake_tx is Some
    chan,       \* the intake channel
    batcher,    \* where run_async_batcher stands
    hand,       \* the submission it has received and not added yet
    current,    \* the open batch, or the full one that waits for room
    armed,      \* linger_armed
    expired,    \* the sleep has elapsed since it was last reset
    out,        \* the dispatch channel
    job,        \* job[t]: the batch task t works on and how far it is
    closer,     \* closer[c]: where the close future of c stands
    dropped,    \* the AsyncClient has been dropped
    done,       \* submissions whose handle has a result
    called,     \* submissions whose callback has been invoked
    discarded,  \* submissions dropped with the dispatch channel
    accepted,   \* history: submissions in the order the intake took them
    sent        \* history: submissions in the order they left the batcher

callerVars == <<call, accepted>>
flagVars   == <<closed, intakeHeld, closer, dropped>>
openVars   == <<hand, current, armed, expired>>
workVars   == <<job, done, called, discarded>>
vars == <<callerVars, flagVars, chan, batcher, openVars, out, workVars, sent>>

Idle == [phase |-> "none", batch |-> NoBatch, next |-> 0]

TypeOK ==
    /\ call \in [Subs -> {"idle", "clone", "waiting", "accepted", "rejected"}]
    /\ closed \in BOOLEAN /\ intakeHeld \in BOOLEAN /\ dropped \in BOOLEAN
    /\ chan \in Seq(Subs) /\ Len(chan) <= MaxQueueSize
    /\ batcher \in {"select", "overflow", "add", "full", "flush", "done"}
    /\ hand \in Seq(Subs) /\ Len(hand) <= 1
    /\ current \in Batch /\ armed \in BOOLEAN /\ expired \in BOOLEAN
    /\ out \in Seq(Batch) /\ Len(out) <= MaxUploadQueue
    /\ job \in [Tasks -> [phase : {"none", "receiving", "deliver", "complete", "callback",
                                   "exited", "panicked"},
                          batch : Batch, next : Nat]]
    /\ closer \in [Closers -> {"idle", "taking", "awaitBatcher", "awaitWorkers",
                               "ok", "err", "second", "cancelled"}]
    /\ done \subseteq Subs /\ called \subseteq Subs /\ discarded \subseteq Subs
    /\ accepted \in Seq(Subs) /\ sent \in Seq(Subs)

Init ==
    /\ call = [s \in Subs |-> "idle"]
    /\ closed = FALSE /\ intakeHeld = TRUE
    /\ chan = <<>>
    /\ batcher = "select" /\ hand = <<>>
    /\ current = NoBatch /\ armed = FALSE /\ expired = FALSE
    /\ out = <<>>
    /\ job = [t \in Tasks |-> Idle]
    /\ closer = [c \in Closers |-> "idle"] /\ dropped = FALSE
    /\ done = {} /\ called = {} /\ discarded = {}
    /\ accepted = <<>> /\ sent = <<>>

\* The batcher runs its own code: it is not inside complete_async_batch.
At(state) == batcher = state /\ job[Batcher].phase = "none"

Panicked(t) == job[t].phase = "panicked"
Ended(t) == job[t].phase \in {"exited", "panicked"}

\* The tasks that own one end of a channel: with the batcher task the intake's
\* receiver and the dispatch sender are gone, with the last worker task the
\* dispatch receiver is.
BatcherGone == At("done") \/ Panicked(Batcher)
WorkersGone == \A w \in Workers : Ended(w)

-----------------------------------------------------------------------------
(* AsyncClient::send_internal.                                             *)

Goto(s, state) == call' = [call EXCEPT ![s] = state]
CallerOnly == UNCHANGED <<flagVars, chan, batcher, openVars, out, workVars, sent, accepted>>

\* The size check, then AsyncClient.closed.
Send(s) ==
    /\ call[s] = "idle" /\ ~dropped
    /\ Goto(s, IF StandaloneSize(s) > BatchBytes \/ closed THEN "rejected" ELSE "clone")
    /\ CallerOnly

\* The intake's sender is cloned under the mutex.
CloneTx(s) ==
    /\ call[s] = "clone"
    /\ Goto(s, IF intakeHeld THEN "waiting" ELSE "rejected")
    /\ CallerOnly

RoomInIntake == Len(chan) < MaxQueueSize

\* tx.send(): the permit and the push.
Enqueue(s) ==
    /\ call[s] = "waiting"
    /\ RoomInIntake /\ ~Panicked(Batcher)
    /\ chan' = Append(chan, s)
    /\ accepted' = Append(accepted, s)
    /\ Goto(s, "accepted")
    /\ UNCHANGED <<flagVars, batcher, openVars, out, workVars, sent>>

\* No handle: the wait ended with QueueFull, or with ClientClosed because the
\* batcher task has panicked, or the future was dropped while it waited.
EnqueueFails(s) ==
    /\ call[s] = "waiting"
    /\ \/ QueueWaitLimited /\ ~RoomInIntake
       \/ Panicked(Batcher)
    /\ Goto(s, "rejected")
    /\ CallerOnly

CancelSend(s) ==
    /\ call[s] = "waiting"
    /\ Goto(s, "rejected")
    /\ CallerOnly

-----------------------------------------------------------------------------
(* run_async_batcher.                                                      *)

\* Mutant: the end of the intake is read off the client's own sender.
DisconnectedByClient == ~intakeHeld

\* Every sender of the intake is gone, the clones of waiting sends included.
Disconnected == ~intakeHeld /\ \A s \in Subs : call[s] # "waiting"

\* Mutant: the separators are not counted.
OverflowsPayload(s) == current # NoBatch /\ current.bytes + Payload[s] > BatchBytes

Overflows(s) == current # NoBatch /\ current.bytes + AppendSize(s) > BatchBytes

\* select! takes the branch of the intake.
Receive ==
    /\ At("select") /\ chan # <<>>
    /\ hand' = <<Head(chan)>>
    /\ chan' = Tail(chan)
    /\ batcher' = IF Overflows(Head(chan)) THEN "overflow" ELSE "add"
    /\ UNCHANGED <<callerVars, flagVars, current, armed, expired, out, workVars, sent>>

\* Mutant: was_empty is read after the batch has been created.
AddReceivedUnarmed ==
    /\ At("add")
    /\ current' = AddSubmission(current, Head(hand))
    /\ hand' = <<>>
    /\ batcher' = IF current'.bytes >= BatchBytes THEN "full" ELSE "select"
    /\ UNCHANGED <<callerVars, flagVars, chan, armed, expired, out, workVars, sent>>

\* The submission joins the open batch; the first one arms the linger.
AddReceived ==
    /\ At("add")
    /\ current' = AddSubmission(current, Head(hand))
    /\ hand' = <<>>
    /\ IF current = NoBatch THEN armed' = TRUE /\ expired' = FALSE
                            ELSE UNCHANGED <<armed, expired>>
    /\ batcher' = IF current'.bytes >= BatchBytes THEN "full" ELSE "select"
    /\ UNCHANGED <<callerVars, flagVars, chan, out, workVars, sent>>

\* The batch leaves the batcher: into the dispatch channel if there is room, or
\* through complete_dispatch_closed when every worker task is gone.
HandOver ==
    /\ \/ /\ ~WorkersGone /\ Len(out) < MaxUploadQueue
          /\ out' = Append(out, current)
          /\ UNCHANGED job
       \/ /\ WorkersGone
          /\ job' = [job EXCEPT ![Batcher] = [phase |-> "complete", batch |-> current, next |-> 1]]
          /\ UNCHANGED out
    /\ sent' = sent \o current.subs
    /\ current' = NoBatch /\ armed' = FALSE

\* Mutant: the submission that did not fit is forgotten.
SendBatchForgets ==
    /\ At("overflow") \/ At("full") \/ At("flush")
    /\ HandOver
    /\ batcher' = IF batcher = "flush" THEN "done" ELSE "select"
    /\ hand' = <<>>
    /\ UNCHANGED <<callerVars, flagVars, chan, expired, done, called, discarded>>

\* send_or_complete_batch, which waits for room: for a batch the next
\* submission would overflow, for a full one, and for the last one.
SendBatch ==
    /\ At("overflow") \/ At("full") \/ At("flush")
    /\ HandOver
    /\ batcher' = CASE batcher = "overflow" -> "add"
                    [] batcher = "full"     -> "select"
                    [] batcher = "flush"    -> "done"
    /\ UNCHANGED <<callerVars, flagVars, chan, hand, expired, done, called, discarded>>

\* select! takes the branch of the sleep: try_send, and another linger window
\* if the channel is full.
TrySendLingered ==
    /\ At("select") /\ armed /\ expired
    /\ \/ /\ HandOver
          /\ UNCHANGED expired
       \/ /\ ~WorkersGone /\ Len(out) = MaxUploadQueue
          /\ expired' = FALSE
          /\ UNCHANGED <<current, armed, out, job, sent>>
    /\ UNCHANGED <<callerVars, flagVars, chan, batcher, hand, done, called, discarded>>

\* recv() returns None: what remains is flushed.
IntakeEnds ==
    /\ At("select") /\ chan = <<>> /\ Disconnected
    /\ batcher' = IF current = NoBatch THEN "done" ELSE "flush"
    /\ UNCHANGED <<callerVars, flagVars, chan, openVars, out, workVars, sent>>

BatcherStep == Receive \/ AddReceived \/ SendBatch \/ TrySendLingered \/ IntakeEnds

\* Time passes: the sleep elapses.
LingerExpires ==
    /\ armed /\ ~expired
    /\ expired' = TRUE
    /\ UNCHANGED <<callerVars, flagVars, chan, batcher, hand, current, armed, out, workVars, sent>>

-----------------------------------------------------------------------------
(* run_async_worker, deliver_batch_async and complete_async_batch.         *)

SetJob(t, j) == job' = [job EXCEPT ![t] = j]
WorkOnly == UNCHANGED <<callerVars, flagVars, chan, batcher, openVars, sent>>

\* The worker locks the shared receiver and awaits recv() with the lock held.
LockReceiver(w) ==
    /\ job[w].phase = "none"
    /\ \A v \in Workers : job[v].phase # "receiving"
    /\ SetJob(w, [Idle EXCEPT !.phase = "receiving"])
    /\ WorkOnly /\ UNCHANGED <<out, done, called, discarded>>

TakeBatch(w) ==
    /\ job[w].phase = "receiving" /\ out # <<>>
    /\ SetJob(w, [phase |-> "deliver", batch |-> Head(out), next |-> 0])
    /\ out' = Tail(out)
    /\ WorkOnly /\ UNCHANGED <<done, called, discarded>>

\* Mutant: the first worker to see the end keeps the lock.
ExitWorkerLocked(w) ==
    /\ job[w].phase = "receiving" /\ out = <<>> /\ BatcherGone
    /\ UNCHANGED vars

\* The channel is closed and drained: the worker releases the lock and ends.
ExitWorker(w) ==
    /\ job[w].phase = "receiving" /\ out = <<>> /\ BatcherGone
    /\ SetJob(w, [Idle EXCEPT !.phase = "exited"])
    /\ WorkOnly /\ UNCHANGED <<out, done, called, discarded>>

\* deliver_batch_async has a result, good or bad.
Delivered(w) ==
    /\ job[w].phase = "deliver"
    /\ SetJob(w, [phase |-> "complete", batch |-> job[w].batch, next |-> 1])
    /\ WorkOnly /\ UNCHANGED <<out, done, called, discarded>>

Queued == UNION {ToSet(out[i].subs) : i \in DOMAIN out}

\* The last task that shares the receiver of the dispatch channel.
LastWorker(t) == t \in Workers /\ \A w \in Workers \ {t} : Ended(w)

\* A panic ends task t and drops its batch.  The last worker task drops the
\* receiver too, and the batches that are queued.
Panic(t) ==
    /\ SetJob(t, [job[t] EXCEPT !.phase = "panicked"])
    /\ IF LastWorker(t) THEN out' = <<>> /\ discarded' = discarded \cup Queued
                        ELSE UNCHANGED <<out, discarded>>

\* The log line of a retry panics.
RetryLogPanics(w) ==
    /\ LogMayPanic /\ job[w].phase = "deliver"
    /\ Panic(w)
    /\ WorkOnly /\ UNCHANGED <<done, called>>

HasCallback(b) == \E i \in DOMAIN b.subs : b.subs[i] \in WithCallback

\* First every handle of the batch gets the result ...
CompleteHandle(t) ==
    LET j == job[t] IN
    /\ j.phase = "complete" /\ j.next <= Len(j.batch.subs)
    /\ done' = done \cup {j.batch.subs[j.next]}
    /\ SetJob(t, [j EXCEPT !.next = @ + 1])
    /\ WorkOnly /\ UNCHANGED <<out, called, discarded>>

\* ... then the callbacks are invoked, if there are any.
HandlesCompleted(t) ==
    LET j == job[t] IN
    /\ j.phase = "complete" /\ j.next > Len(j.batch.subs)
    /\ SetJob(t, IF HasCallback(j.batch) THEN [j EXCEPT !.phase = "callback", !.next = 1]
                                         ELSE Idle)
    /\ WorkOnly /\ UNCHANGED <<out, done, called, discarded>>

\* A callback's panic is caught, that of the log line after it is not.
RunCallback(t) ==
    LET j == job[t]
        s == j.batch.subs[j.next]
    IN
    /\ j.phase = "callback" /\ j.next <= Len(j.batch.subs)
    /\ called' = called \cup ({s} \cap WithCallback)
    /\ \/ SetJob(t, [j EXCEPT !.next = @ + 1]) /\ UNCHANGED <<out, discarded>>
       \/ LogMayPanic /\ s \in WithCallback /\ Panic(t)
    /\ WorkOnly /\ UNCHANGED done

CallbacksDone(t) ==
    /\ job[t].phase = "callback" /\ job[t].next > Len(job[t].batch.subs)
    /\ SetJob(t, Idle)
    /\ WorkOnly /\ UNCHANGED <<out, done, called, discarded>>

Worker(w) == LockReceiver(w) \/ TakeBatch(w) \/ ExitWorker(w) \/ Delivered(w)
CompleteBatch(t) == CompleteHandle(t) \/ HandlesCompleted(t) \/ RunCallback(t) \/ CallbacksDone(t)

-----------------------------------------------------------------------------
(* AsyncClient::close and Drop.                                            *)

Advance(c, state) == closer' = [closer EXCEPT ![c] = state]
CloserOnly == UNCHANGED <<callerVars, chan, batcher, openVars, out, workVars, sent, dropped>>

\* close() swaps the flag; whoever finds it set returns Ok at once ...
Close(c) ==
    /\ closer[c] = "idle" /\ ~dropped
    /\ closed' = TRUE
    /\ Advance(c, IF closed THEN "second" ELSE "taking")
    /\ CloserOnly /\ UNCHANGED intakeHeld

\* ... takes the intake's sender and the batcher's handle ...
TakeIntake(c) ==
    /\ closer[c] = "taking"
    /\ intakeHeld' = FALSE
    /\ Advance(c, "awaitBatcher")
    /\ CloserOnly /\ UNCHANGED closed

\* Mutant: the workers are not awaited.
AwaitBatcherOnly(c) ==
    /\ closer[c] = "awaitBatcher" /\ BatcherGone
    /\ Advance(c, IF Panicked(Batcher) THEN "err" ELSE "ok")
    /\ CloserOnly /\ UNCHANGED <<closed, intakeHeld>>

\* ... awaits the batcher task ...
AwaitBatcher(c) ==
    /\ closer[c] = "awaitBatcher" /\ BatcherGone
    /\ Advance(c, IF Panicked(Batcher) THEN "err" ELSE "awaitWorkers")
    /\ CloserOnly /\ UNCHANGED <<closed, intakeHeld>>

\* ... and the workers in order, up to the first that panicked.
AwaitWorkers(c) ==
    /\ closer[c] = "awaitWorkers"
    /\ \/ (\A w \in Workers : job[w].phase = "exited") /\ Advance(c, "ok")
       \/ /\ \E w \in Workers : /\ Panicked(w)
                                /\ \A v \in Workers : v < w => job[v].phase = "exited"
          /\ Advance(c, "err")
    /\ CloserOnly /\ UNCHANGED <<closed, intakeHeld>>

\* The future is dropped while it awaits a task: the task goes on, detached.
CancelClose(c) ==
    /\ closer[c] \in {"awaitBatcher", "awaitWorkers"}
    /\ Advance(c, "cancelled")
    /\ CloserOnly /\ UNCHANGED <<closed, intakeHeld>>

Returned == {"idle", "ok", "err", "second", "cancelled"}

\* Drop: the calls borrow the client, so none is in progress.
Drop ==
    /\ ~dropped
    /\ \A s \in Subs : call[s] \in {"idle", "accepted", "rejected"}
    /\ \A c \in Closers : closer[c] \in Returned
    /\ dropped' = TRUE
    /\ closed' = TRUE
    /\ intakeHeld' = (intakeHeld /\ closed)
    /\ UNCHANGED <<callerVars, closer, chan, batcher, openVars, out, workVars, sent>>

-----------------------------------------------------------------------------

\* No task is left to run and no call is in progress.
Quiescent ==
    /\ \A c \in Closers : closer[c] \in Returned
    /\ \A s \in Subs : call[s] \in {"idle", "accepted", "rejected"}
    /\ BatcherGone /\ WorkersGone

Next ==
    \/ \E s \in Subs : Send(s) \/ CloneTx(s) \/ Enqueue(s) \/ EnqueueFails(s) \/ CancelSend(s)
    \/ BatcherStep \/ LingerExpires
    \/ \E w \in Workers : Worker(w) \/ RetryLogPanics(w)
    \/ \E t \in Tasks : CompleteBatch(t)
    \/ \E c \in Closers : Close(c) \/ TakeIntake(c) \/ AwaitBatcher(c) \/ AwaitWorkers(c)
                             \/ CancelClose(c)
    \/ Drop
    \/ Quiescent /\ UNCHANGED vars

Spec == Init /\ [][Next]_vars

\* The runtime polls every task that can go on, and time passes.  Nobody is
\* obliged to send, to close, to drop or to cancel.
FairSpec ==
    /\ Spec
    /\ \A s \in Subs : WF_vars(CloneTx(s) \/ Enqueue(s) \/ EnqueueFails(s))
    /\ WF_vars(BatcherStep) /\ WF_vars(LingerExpires)
    /\ \A w \in Workers : WF_vars(Worker(w))
    /\ \A t \in Tasks : WF_vars(CompleteBatch(t))
    /\ \A c \in Closers : WF_vars(TakeIntake(c) \/ AwaitBatcher(c) \/ AwaitWorkers(c))

-----------------------------------------------------------------------------

\* Between the intake and the dispatch channel no submission is lost,
\* duplicated or overtaken, also when the one in the batcher's hand overflows
\* the open batch, and whichever branch select! takes.  What the batcher holds
\* or has in its channel when it panics counts as where it was then.
PipelineFIFO == accepted = sent \o current.subs \o hand \o chan

Batches == {current} \cup {out[i] : i \in DOMAIN out} \cup {job[t].batch : t \in Tasks}

\* No upload body exceeds batch_bytes.
BatchWithinLimit == \A b \in Batches : b.bytes <= BatchBytes

\* An open batch has its linger armed, and only an open batch has: so the sleep
\* never fires without a batch, and no batch is left without a sleep.
LingerArmedWhileOpen == armed <=> current # NoBatch

\* "flushes all pending records and waits for in-flight uploads to complete":
\* the close() that set the flag returns Ok only when every accepted handle is
\* complete and every callback has run, whichever sends and closes raced with
\* it or were dropped.
CloseDrains ==
    (\E c \in Closers : closer[c] = "ok") =>
        /\ ToSet(accepted) \subseteq done
        /\ ToSet(accepted) \cap WithCallback \subseteq called

APanic == \E t \in Tasks : Panicked(t)

\* "already accepted handles still complete": a handle completes and its
\* callback runs although sends or close() are cancelled, if no task panics.
EveryAcceptedCompletes ==
    \A s \in Subs : call[s] = "accepted" ~>
        APanic \/ (s \in done /\ (s \in WithCallback => s \in called))

\* "tasks run to completion on the runtime": once close() or drop has taken the
\* sender, the batcher and every worker end, also if nobody awaits them.
ShutdownEndsTasks == ~intakeHeld ~> APanic \/ (BatcherGone /\ WorkersGone)

\* What the callers of send and of close see of where their futures stand.
ServiceStatus(s) == IF call[s] \in {"clone", "waiting"} THEN "calling" ELSE call[s]

ServiceClosing(c) ==
    CASE closer[c] = "idle" -> "idle"
      [] closer[c] = "ok" -> "drained"
      [] closer[c] \in {"err", "second", "cancelled"} -> "returned"
      [] OTHER -> "calling"

\* The async client keeps the promises of ClientService.
Service == INSTANCE ClientService WITH
    status  <- [s \in Subs |-> ServiceStatus(s)],
    closing <- [c \in Closers |-> ServiceClosing(c)],
    drained <- \E c \in Closers : closer[c] = "ok"

ImplementsService == Service!SafeSpec

=============================================================================

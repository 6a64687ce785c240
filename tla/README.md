# A TLA+ model of the buffered Doris stream-load client

The crate batches records that callers submit one by one, or in groups, and uploads the batches to
Apache Doris by HTTP stream load. It has a blocking client (`Client`, threads and crossbeam
channels) and an async one (`AsyncClient`, tokio). This directory holds TLA+ modules of the parts
in which the order of events matters, the configurations that model-check them with TLC, and
theorems about them that TLAPS proves for every value of the constants.

File names without a directory are those of the crate's `src/`.

## 1. Inventory

### Components

| Component | Code | State it keeps | Operations |
|---|---|---|---|
| Callers' side of `Client` | `client.rs` 100-223 | `closed` | `send*`, `close`, `stats`, `buffered_records`, drop |
| `RequestQueue` | `queue.rs` 162-308 | the bounded intake channel, its `sender` under a mutex, the `pending` slot, `closed` | `enqueue`, `dequeue_batch`, `dequeue_batch_wait`, `collect_batch`, `close`, `len` |
| Batcher thread, `Accumulator` | `client.rs` 507-650 | the open batch and its linger deadline | `absorb`, `remaining_bytes`, `dispatch_blocking`, `try_dispatch`, `fail_dispatch` |
| `QueuedSubmission`, `DeliveryBatch` | `queue.rs` 10-147 | the records of a body and `byte_size` | `new`, `add_submission`, `add`, `encode_body` |
| Worker pool | `client.rs` 652-664 | one batch per worker | `run_worker` |
| Delivery of a batch | `client.rs` 666-885 | label, attempts, two deadlines | `deliver_batch`, `poll_label_until_conclusion` |
| Completion | `client.rs` 887-912, `types.rs` 126-234 | the result of a handle, a condition variable | `complete_batch`, `BatchCompletion::complete`, `wait`, `wait_timeout` |
| HTTP sender | `sender.rs`, `async_client.rs` 128-356 | none | `send` with its redirect loop, `poll_label`, the classification of replies and errors |
| `AsyncClient`, batcher and worker tasks | `async_client.rs` | as `Client`, over tokio channels and tasks, without pending slot | as `Client`, with cancellable futures |
| Statistics | `client.rs` 941-1066, `async_client.rs` | atomic counters, the last 1000 durations | `record_*`, `snapshot` |
| Validation | `client.rs` 234-505 | a thread-local `seen` array | CSV and JSON checks of a record |
| Configuration | `config.rs` | none after `build` | defaults, checks, URLs |
| Compression | `compression.rs` | none | the codecs, `adler32` |

### How they interact

```
 callers --send--> intake channel --> batcher --> dispatch channel --> workers --HTTP--> Doris
    ^                (bounded)      (+ pending,     (bounded)             |
    |                                open batch)                          |
    +------------- handles complete, then callbacks are invoked ---------+
```

A caller that finds the intake full waits. The batcher fills one batch at a time. A full batch
waits for room in the dispatch channel; a batch whose linger has expired is only offered. A worker
takes a batch, uploads it until it has a result, and completes the handles and runs the callbacks
of its submissions on its own thread. `close()` sets `Client.closed`, closes the intake by dropping
the queue's channel sender, joins the batcher (which ends when the channel is disconnected and
empty, after flushing the open batch) and then the workers (which end when the batcher has dropped
the dispatch channel and it is empty). Dropping the client only closes the intake.

### What is hard, and what makes each component correct

- **Close against send.** A sender clones the channel's sender under the mutex and sends later;
  the channel is disconnected only when the last clone is gone. Correct: nothing that was accepted
  is left behind by a `close()` that returns `Ok`, and nothing is accepted after it.
- **Back pressure.** Callers, batcher and workers wait for each other over two bounded channels,
  `close()` for all of them. Correct: every send and every close returns, every handle completes.
- **The intake path.** Submissions are held in five places (channel, pending slot, collected group,
  open batch, dispatch channel) and moved one at a time. Correct: none lost, duplicated or
  overtaken.
- **Sizes.** Three computations of the size of a body (the predictions of `QueuedSubmission::new`,
  the measure of `collect_batch`, the count of `add`) decide what is admitted, collected and
  dispatched. Correct: they agree with the encoded body, and no body exceeds `batch_bytes`.
- **Retries.** An upload whose answer is lost, a label that Doris does not know yet, a label check
  that fails. Correct: the rows are loaded at most once, and the reported result is true.
- **Time.** Two deadlines, checked at some points only, doubling backoffs, and a request timeout that
  starts anew with each redirect. Correct: no upload after the deadline, and a bound for the overrun.
- **Panics.** Callbacks are run under `catch_unwind`, the logger is not. Correct: a panic loses
  nothing but the batch of the thread it kills and, as the last worker takes the receiver of the
  dispatch channel with it, what is queued there when it kills the last worker; who waits for a lost
  batch is told where it is possible.
- **Cancelled futures.** A `send` or a `close` of the async client may be dropped at each of its
  awaits. Correct: nothing of a dropped send remains, and the tasks drain and end without the
  dropped close.
- **One timer.** The async batcher uses one pinned sleep for all its batches. Correct: it is armed
  exactly while a batch is open.
- **Replies.** Status line, JSON body and what happens to a broken body decide together whether an
  upload counts as loaded, dead or unknown. Correct: the delivery is never told more than Doris said.
- **Waiting and counting.** Handles are completed while callers begin to wait, time out or read the
  statistics. Correct: no wake-up is missed, and a `stats()` after a result has counted it.

`PROJECT.json` lists each of these hazards at its line with the properties that are about it.

## 2. Modules

| Module | Models | Used with |
|---|---|---|
| `ClientService` | abstract: what a client promises its callers, without queue, batches and threads | TLC, TLAPS |
| `Batching` | the size arithmetic of `QueuedSubmission` and `DeliveryBatch`, in closed form | all of the pipeline |
| `SyncClient` | the blocking client, all threads | TLC (`MCSyncClient`), TLAPS |
| `AsyncClient` | the tokio client, all tasks and futures | TLC (`MCAsyncClient`), TLAPS |
| `DeliveryBatch` | how a body is filled and counted record by record | TLC (`MCDeliveryBatch`), TLAPS |
| `UploadOnce` | abstract: what the delivery of a batch promises | TLC, TLAPS |
| `Sender` | the contract between a sender and the delivery: errors, fates of a label, how errors are read | `Delivery`, `HttpSender` |
| `Delivery` | `deliver_batch` and `poll_label_until_conclusion`, with Doris as environment | TLC, TLAPS |
| `HttpSender` | one upload over HTTP with its redirects, and the label requests after it | TLC, TLAPS |
| `Completion` | handles and those who wait for them, the statistics beside them | TLC (`MCCompletion`), TLAPS |
| `Sums_proofs` | lemmas on sums, as numbers of cells | TLAPS |
| `Batching_proofs` | lemmas on sizes and on pipelines, used by both clients | TLAPS |
| `SyncClient_proofs`, `AsyncClient_proofs`, `Delivery_proofs`, `DeliveryBatch_proofs`, `HttpSender_proofs`, `Completion_proofs` | the theorems | TLAPS |

How they fit together:

```
            ClientService                      UploadOnce
             ^         ^                            ^
     SyncClient       AsyncClient               Delivery ---- Sender ---- HttpSender
             \         /                     (one step of           (keeps the contract
              Batching -- DeliveryBatch       the clients)           that Delivery uses)
```

`SyncClient` and `AsyncClient` implement the same `ClientService`; `Delivery` implements
`UploadOnce`. The clients take the delivery of a batch as one step that ends with some result;
`Delivery` is that step in full. `Delivery` in turn takes one upload as one step that ends with an
error of `Sender`, and `HttpSender` shows that this is what uploads end with. The clients use the
closed forms of `Batching`; `DeliveryBatch` shows that they are what the code counts. Both clients
complete a handle in one step; `Completion` has that step in detail.

### SyncClient

One step is one access to something another thread can see: an atomic, a mutex, a channel
operation, a handle. Purely local code between two accesses belongs to the step before or after.

| Variable | Code |
|---|---|
| `call[s]` | where the `send` of submission `s` stands: `enqueue` before the load of `RequestQueue.closed`, `clone` before the mutex, `sending` with a clone in its hands |
| `closed`, `intakeClosed`, `senderHeld` | `Client.closed`, `RequestQueue.closed`, `RequestQueue.sender.is_some()` |
| `chan`, `pending` | the intake channel, `RequestQueue.pending` |
| `batcher`, `got`, `gotBytes`, `room` | where `run_batcher` stands; `submissions`, `bytes` and `max_bytes` of `collect_batch` |
| `current`, `lingered` | `Accumulator.current`; `now >= linger_deadline` |
| `out`, `job[t]` | the dispatch channel; what thread `t` does with its batch (the batcher runs `complete_batch` itself when all workers are gone) |
| `closer[c]`, `dropped` | where a `close()` stands; the client has been dropped |
| `done`, `called` | handles with a result, callbacks that have been invoked |
| `discarded` | submissions that were queued in the dispatch channel when its last receiver was dropped |
| `accepted`, `sent` | history: the order of acceptance, the order of dispatch |

The actions follow the functions: `Send`, `CheckIntake`, `CloneSender`, `Enqueue`,
`EnqueueTimeout` (`send_batch_internal`, `enqueue`); `DequeueFirst`, `DequeueClosed`,
`DequeueMore`, `DequeueTimeout`, `DequeueDisconnected`, `Collect` (the dequeue functions and
`collect_batch`, one turn of its loop a step); `Absorb` (one turn of its loop), `KeepOpen`,
`TryDispatch`, `Dispatch` (`run_batcher`, `Accumulator`); `TakeBatch`, `Delivered`, `ExitWorker`
(`run_worker`); `CompleteHandle`, `HandlesCompleted`, `RunCallback`, `CallbacksDone`
(`complete_batch`, on a worker or the batcher); `Close`, `CloseIntake`, `DropSender`,
`JoinBatcher`, `JoinWorkers`, `Drop`. `RetryLogPanics` and the second half of `RunCallback` are the
places where a logger's panic is not caught. `Panic` is what follows: the thread ends and drops its
batch. The receivers of the dispatch channel belong to the workers alone (`run_worker` owns its
clone, `Client::new` keeps none), so the panic of the last worker (`LastWorker`) disconnects the
channel and discards the batches in it, whose handles then never complete.

The linger deadline is abstracted to a flag that time may set at any moment while a batch is open;
a full dispatch channel clears it, as the code arms the deadline anew. Durations of calls are
arbitrary. Invalid records are not enumerated: they are rejected before any shared state is touched,
as an oversized submission is.

### AsyncClient

One step runs a task from one access to shared state to the next, or from one await to the next.

| Variable | Code |
|---|---|
| `call[s]` | where the send future of `s` stands: `clone` after the closed check, `waiting` for a permit with its own clone of the sender |
| `closed`, `intakeHeld` | `AsyncClient.closed`, `intake_tx` is `Some` |
| `chan`, `out` | the intake and the dispatch channel |
| `batcher`, `hand` | where `run_async_batcher` stands; the submission it has received and not added yet |
| `current`, `armed`, `expired` | the open batch, `linger_armed`, the pinned sleep has elapsed since it was reset |
| `job[t]` | what task `t` does with its batch; a worker in phase `locked` holds the mutex of the receiver |
| `closer[c]`, `dropped` | where a close future stands; the client has been dropped |
| `done`, `called`, `discarded`, `accepted`, `sent` | as in `SyncClient` |

`Send`, `CloneTx`, `Enqueue`, `EnqueueFails` are `send_internal`, its clone of the sender
and `tx.send()` with its timeout; `CancelSend` drops the future. `Receive`, `AddReceived`, `SendBatch`,
`TrySendLingered` and `IntakeEnds` are the select loop; `Receive` and `TrySendLingered` are its two
branches, and either may be taken when both are ready. `LockReceiver`, `TakeBatch`, `ExitWorker`,
`Delivered` are a worker task, which keeps the mutex across `recv().await`; `CompleteHandle` to
`CallbacksDone` are `complete_async_batch`. `Close`, `TakeIntake`, `AwaitBatcher`, `AwaitWorkers` are
`close`, and `CancelClose` drops it at either await. `RetryLogPanics` and a panic in `RunCallback`
end a task, and drop what it owns (`Panic`): the batcher's receiver, so that senders are told; a
worker's batch; and with the last worker task the shared receiver of the dispatch channel and the
batches in it.

### HttpSender

`call` is `upload` or `poll`, `pc` where it stands, `hops` the redirects followed, `label` what
became of the label in Doris, `reply` the answer on its way, `outcome` what the call returned. The
network and the servers are the environment: any status, any body, any redirect, no answer at all,
within `Truthful`, which says what a reply means (a 2xx JSON reply of success is about a committed
load; a reply of 401 or 403 about none). The load goes on (`DorisStep`) while the answer travels.

The code is `CannotRequest`, `FollowRedirect`, `RedirectFails` (the loop of `send`), `IsHttpSuccess`,
`ClassifyResponseError`, `UploadOutcome` (the end of `send`), `PollOutcome` (the end of
`poll_label`), and `FailureAction`, `PollErrorIsTransient` in `Sender`. A body that the network cuts
off parses as nothing, for uploads and for label requests, as in the code.

It is an assumption of `Truthful` that a 2xx JSON reply has a `Status`: `is_http_success` takes one
without for a success, and no property could hold of such a reply.

The blocking and the async sender share the two classifications and have the same loop twice; the
map names the blocking one.

### Completion

One step is one atomic operation or one critical section. A worker's `job` goes through `attempts`
and `bytes` (`record_upload_attempt`), `upload`, `jobs`, `errors`, `retries` (`record_completion`),
`complete` (`BatchCompletion::complete`, which wakes under the lock) and `callbacks`. A waiter is
one call of `wait`, `wait_timeout` or the async `wait`: `Look`, `WakeSpuriously`, `TimeUp`,
`TimedOut`, and `SenderGone`, which is the panic of the async `wait` when the result's sender has
been dropped. `StartSnapshot` and `Read` are `snapshot`, one load a step, in the order of the loads.
`counter` holds the atomics, `held` the batches whose completion is still alive.

### Sender and Delivery

`labels[i]` is what became of the label of attempt `i` in Doris: `none` (Doris does not know it),
`wire` (the request is on its way), `running` (PREPARE, PRECOMMITTED), `committed` (COMMITTED,
VISIBLE), `aborted`. Errors are the triples of status, `retriable` and `ambiguous` on which
`failure_action` and `poll_error_is_transient` decide, one for each way `send` and `poll_label`
fail. Which fates of the label go with which error is the environment's choice, within what the
error says: no label after a connection that failed, a local error or a 401/403; anything after a
lost or negative answer. Doris may commit or abort a running load at any time, or never.

A success (a 2xx reply that `is_http_success` accepts) is taken to mean that the rows are committed.

Time is in ticks of 500 ms, the smallest backoff. Label requests take any of `Durations`, at most
`RequestTimeout`; uploads any of `UploadDurations`, at most `LongestUpload`: `send` follows up to ten
redirects (`MaxRedirects`), and each of the eleven requests has the whole
`doris_upload_request_timeout`. An upload that Doris's frontend redirects to a backend, the normal
case, may thus take twice the "HTTP deadline for one upload" of the repository's README. A step that
sends a request contains its duration, a step that sleeps contains the sleep, so every comparison
of the code with a deadline is made with the time at which the code makes it; sleeps and the
scheduler are taken to be exact.

Two constants widen the environment: `LateArrival` lets a request that timed out reach Doris after
the label check, `PollMayNotConnect` lets label requests fail to connect. The properties hold
without them; with either of them `NoDoubleLoad` is violated (section 3).

### Batching and DeliveryBatch

`StandaloneSize` and `AppendSize` are the two numbers of `QueuedSubmission::new`, `AddSubmission` is
`add_submission` with its loop summed up, `EncodedSize` the length of what `encode_body` builds.
`DeliveryBatch` has the loop itself: `Add` puts one record in and counts as `add` does, with the
special case of the first record, while `whole` keeps the closed forms beside it.

## 3. Runs

| Run | Asks | States | Outcome |
|---|---|---|---|
| `sync_safety` | all threads, CSV, 4 submissions, 2 workers, a logger that may panic | 367 000 | holds |
| `sync_live` | fair threads, JSON, 3 submissions, 1 worker | 41 000 | holds |
| `async_client` | all tasks, JSON, 3 submissions, 2 workers, cancelled futures, panics, fairness | 157 000 | holds |
| `second_close` | does every `close()` that returns `Ok` drain? | | violated |
| `callback_wait` | has the callback run when `wait()` returns? | | violated |
| `completion` | waiters of each kind, panics, a `stats()` at any time | 372 000 | holds |
| `delivery` | every reply, fate and duration, `max_retries` 2 | 28 000 | holds |
| `poll_connect` | the same when label requests may fail to connect | | violated |
| `late_arrival` | the same when an upload may arrive after the label check | | violated |
| `http_sender` | every reply, up to eleven redirects, label requests | 13 700 | holds |
| `http_broken_poll` | is a label request worth repeating when its reply breaks off? | | violated |
| `delivery_batch` | bodies filled in every order of submissions | 270 | holds |

**`sync_safety`.** `PipelineFIFO` is the strongest statement about the intake path: at every moment
what was dispatched, the open batch, the collected group, the pending slot and the channel are, in
this order, exactly the accepted submissions. `BatchWithinLimit`, `ByteSizeExact`, `NeverUnlimited`
and `OnlyFullBatchesBlock` are about sizes, `AtMostOnce`, `NothingLost` and `CloseDrains` about
completion. `NothingLost` says where each dispatched submission is, and that a batch is queued only
while there is a worker to take it: what is neither completed nor owed was in the hands of a thread
that a panic has ended, or queued when a panic ended the last worker. `CloseDrains` holds also for a
sender that was between the closed check and the channel when `close()` began: the batcher does not
see the end of the channel before that sender is done.
`ImplementsService` is the refinement of `ClientService`.

**`sync_live`.** Every accepted handle completes and its callback runs, whoever else sends; send and
close return; the refinement with its fairness.

**`async_client`.** The same promises for the async client, and what is its own: `PipelineFIFO` with
the submission that `select!` has received and that still waits for an overflowing batch to leave;
`LingerArmedWhileOpen`, that the one sleep is armed exactly while a batch is open; `CloseDrains`,
with sends and closes dropped at any await; `ShutdownEndsTasks`, that batcher and workers end once
the sender is gone, also if nobody awaits them; `EveryAcceptedCompletes` under the runtime's
fairness; `ImplementsService`, the same abstract client as the blocking one.

**`completion`.** `EveryWaitReturns` says that no wake-up is missed and names the two calls that may
hang: a blocking `wait` on a batch that a panic has dropped, and a wait on what the batcher leaves
when it panics itself. `NoneOnlyWithoutResult`: `wait_timeout` does not answer `None` with a
result at hand. `SnapshotSeesResults`: who has seen a result and asks for `stats()` finds its job,
its error and its upload counted. `SnapshotPlausible`: the average size of a load is never more
than the largest batch, which depends on the bytes being read before the attempts and counted after
them. `CountersAddUp`: in the end attempts are jobs and retries, up to the uploads of batches that panics
have dropped.

**`http_sender`.** `UploadKeepsContract` and `PollKeepsContract`: whatever is answered, the delivery
gets an outcome that `Sender` allows for what has become of the label. `EveryCallEnds`: servers that
redirect in a circle do not keep a call.

**`delivery`.** No double load, true results, the bounds on retries and time, and the
refinement of `UploadOnce`.

**Violations.** Each is a disagreement of the code with what a document, a comment or a test says,
quoted in `PROJECT.json` under `findings`:

- `poll_connect`: a label request that fails to connect when `status_poll_timeout` is over is
  returned as an error that is `retriable()`, which `deliver_batch` takes for a label concluded as
  ABORTED or UNKNOWN. The batch is uploaded again though the first upload may be visible. It takes
  a `status_poll_timeout` shorter than `doris_upload_timeout`: theorem `NoDoubleLoadAlways` shows
  that with the defaults the time for retries is over by then.
- `late_arrival`: UNKNOWN is taken for dead, but an upload that timed out may still arrive.
- `http_broken_poll`: when the connection breaks in the middle of the reply to a label request, the
  body reads as empty, and the error is not transient, though sender.rs says transport failures are.
  The batch fails with its label unsettled.
- `second_close`: a second `close()` returns `Ok` at once while the first is draining.
- `callback_wait`: handles complete before callbacks run, and a test asserts the contrary order.

### Bounds

- `sync_safety`: submissions 1 and 2 fill a body of 10 bytes exactly, and so do 1 and 3; 2 and 3
  overflow it by one byte; 4 is larger than a body. That meets every comparison with `batch_bytes`
  on both sides: exact fill, overflow by one, the pending slot, a group collected for an open batch,
  a rejected submission. The intake holds two and the dispatch channel one, so both fill up. Two
  workers let batches be delivered in parallel, one worker die while the other goes on, and both die
  with a batch queued; one submission gives up on a full queue, one has a callback, one thread
  closes.
- `sync_live`: JSON bodies, both channels of capacity one and one worker: the tightest pipeline, in
  which every wait for room occurs.
- `second_close`, `callback_wait`: the smallest instances that show the behaviour.
- `delivery`: `doris_upload_timeout` 14 ticks, `status_poll_timeout` 9 ticks, a request timeout of 3
  ticks, label requests of 0 or 3 ticks, uploads of 0, 3, 6 (one redirect) or 33 (the longest chain
  of redirects), two re-uploads. Both deadlines are met on both sides and on the tick, the polling
  backoff reaches its cap, and deliveries end by each of the five results. The number of attempts is
  bounded by `MaxRetries` and by time, so there is no bound beside the constants.
- `async_client`: JSON bodies of 10 bytes; submissions 1 and 2 fill one exactly, 3 fits with neither,
  so a full batch, an overflowing one and a lingering one occur. Both channels of capacity one make
  every wait for room occur; two workers contend for the receiver, and one may panic while the other
  goes on, or both, with a batch queued. One closer, whose future may be dropped; a second `close` is in `second_close`, for which
  both clients have the same code.
- `completion`: one worker, since two add to the counters with commuting atomic additions and each
  holds a batch of its own (the theorems are about any number of them); three batches, one with a retry, two that may fail; one waiter of each
  kind, two on the same batch, one of which asks for `stats()` then.
- `http_sender`: no bound but the code's own ten redirects. The statuses are one or more of each
  class that the code tells apart, with those on the edges of its tests (204, 401, 403, 408, 429).
- `delivery_batch`: three submissions of one or two records, every order, every subset that fits.

The bounds limit the number of submissions, attempts, workers and ticks. Every safety property and
every step property of the runs that hold is also proved without them (section 4); what rests on the
bounds alone is liveness.

### Fairness

`SyncClient!Fairness` is weak fairness of each thread that can run: a call of `send` or `close` that
has begun, the batcher, each worker, each completion, and the passing of the linger. That is what
the operating system's scheduler gives, and what channel operations guarantee: a sender blocked on a
full channel goes on when there is room. With several blocked senders weak fairness of each asks
that room is not taken by others forever; the submissions are finitely many here, so it cannot be.
Nobody is obliged to send, close or drop. `Delivered` is fair because a delivery
ends: `EndsInTime` bounds its time, every turn of the polling loop sleeps for one tick at least and
every retry for two, each request carries `doris_upload_request_timeout`, and an upload is at most
eleven of them. The logger does not panic in the liveness run: with one that does, the handles of a
dead worker never complete, nor what is queued when the last one dies.

`AsyncClient!FairSpec`: the runtime polls every task that can go on, and time passes. Nobody is
obliged to send, to close, to drop or to cancel. Liveness is stated up to a task's panic, which the
run allows.

`Completion!FairSpec`: workers go on, a thread that has been woken is scheduled, a timeout elapses.
Spurious wake-ups are possible and never obliged.

`HttpSender!FairSpec`: a request is answered or times out (`doris_upload_request_timeout`), and the
caller's thread goes on. The answers may be redirects for ever.

`Delivery` is checked without fairness: Doris is not obliged to finish a load, and its properties
are about what has happened and by when.

Deadlock is checked in every run; the steps that only stutter (`Quiescent`, `Settled`, `Full`, `AllWorkDone`) say
which ends are legitimate.

## 4. Proofs

All by TLAPS, from the assumptions on the constants that the modules state.

`Sums_proofs`. The sizes are sums over sequences and the counters sums over workers, and the provers
have no induction over data. A sum of natural numbers is the number of elements of a set of cells,
one column `1 .. n[e]` for each `e` (`Cells`), and what the library proves of `Cardinality` then
carries over: a column more, or a column that changes, changes the number of cells by as much
(`CellsOneMore`, `CellsChange`). `AddsUp` ties this to the folds the modules are written with. Where
an induction over the natural numbers is left, it is made as an argument about the least number for
which a claim fails (`LeastNumber`), with the claim as a set.

`SyncClient_proofs`, for any number of submissions, workers and calls
of `close()`, any capacity of the two channels and any sizes of the records:

- `TypeCorrect`, the type invariant, with the bounds of the channels. `TypeInv` is it in parts that
  follow the groups of variables, so that a step is looked at only for the parts it touches, and
  says in addition that handles and callbacks are gone through from the first.
- `BatchWithinLimitAlways` and `NeverUnlimitedAlways`. `FitInv`: what is past the size check of
  `send_batch_internal`, wherever it is held, fits a body of its own. `RoomInv`: the open batch is
  within the limit, and strictly below it wherever the batcher may take more for it; hence the limit
  it gives to `collect_batch` is never zero. `OutInv`: the same for what has left the batcher.
- `ByteSizeExactAlways`: the count of every batch is the length of its encoded body. `RoomInv` and
  `OutInv` carry it along (`Exact`), for `AddSubmission` keeps it (`AddExact`): one separator for each
  record but the first, and the brackets counted with the first submission only.
- `OnlyFullBatchesBlockAlways`.
- `PipelineFIFOAlways`. `FifoInv` adds to `PipelineFIFO` that the collected group is empty whenever
  more is dequeued and the pending slot whenever the channel is looked into. Without the second a
  submission kept back could be overwritten, without the first it could be overtaken.
- `NothingLostAlways`. `KeptInv` says where each submission that has left the batcher is, for its
  handle and for its callback. That a batch is queued only while a worker is left is not inductive
  with it: `GoneInv` says that the channel is empty once the last worker has ended, which needs that
  an ended worker stays ended (`EndedStays`), that a worker that ends in order found the channel empty,
  and that a panic that is not the last worker's leaves another one.
- `CloseDrainsAlways`: by `EndInv` the batcher ends only when the channel and the
  pending slot are empty, the queue's sender is gone and no caller holds a clone; by `JoinInv` a
  worker ends only after the batcher and with the dispatch channel empty, and `close()` returns `Ok`
  only when all have ended without a panic. Then by `PipelineFIFO` all that was accepted has been
  dispatched, and by `KeptInv` it is completed, as there is no place left where it could be.
- `AtMostOnceAlways`. A submission is accepted once, since its call returns once; so by `PipelineFIFO`
  the open batch shares nothing with what has left the batcher. `ApartInv`: no submission is in two
  of the dispatch channel's batches and the threads' batches. `OnceInv`: what of a thread's batch has
  its result, and what has been called, is exactly what the thread has gone through.
- `ImplementsServiceAlways`: the refinement of `ClientService` (its safety, without fairness). `CallInv`
  says that the accepted submissions are those whose call returned so, and `OwnInv` that what a
  thread works on has been sent by the batcher, so that a handle the code completes is one the
  service has accepted. Each action is then shown to be a step of the service or a stutter;
  `CloseDrains` in the next state is what allows the step in which `close()` returns.

`AsyncClient_proofs`, for any number of submissions, worker tasks and calls of `close()`, any
capacities and sizes, with cancelled futures and panics:

- `TypeCorrect`. `HandInv`, in `TypeInv`: the batcher has a submission in its hand exactly where it
  is about to add it or to send a batch that it overflows.
- `LingerArmedWhileOpenAlways`: the equivalence is inductive with the types, over every branch of
  `select!`.
- `BatchWithinLimitAlways` and `ByteSizeExactAlways`: as for the blocking client, `FitInv` for the
  single submissions, `RoomInv` for the open batch, `OutInv` for the batches that have left the
  batcher.
- `PipelineFIFOAlways`: with `HandInv`, since the submission in the hand stands between the open batch
  and the channel.
- `NothingLostAlways` and `AtMostOnceAlways`, which no run asks of this client, by `KeptInv`, `GoneInv`,
  `ApartInv` and `OnceInv` as above. A worker that holds the receiver's lock has no batch, and a dropped `send` has
  not been accepted, so neither adds a case in which a submission could be in two places.
- `CloseDrainsAlways` and `ImplementsServiceAlways`: `KeptInv`, `EndInv`, `JoinInv`, `CallInv`, `OwnInv` as
  above. The end of the intake is the sender taken by `close()` or drop and no send future with a
  clone; a worker ends only with the receiver's lock in its hands.

`HttpSender_proofs`, for every order of replies, redirects and steps of Doris:

- `UploadKeepsContractAlways`. `UploadInv`: no label before an answer that is not a redirect; while an
  answer travels it stays true of the label, because what it may be true of is closed under the
  moves of Doris (`TruthLasts`); likewise an outcome (`FatesLast`). Reading a reply is a case
  analysis over what the code looks at, with `Denied` and `Refused` as the errors that cover every
  status.
- `PollKeepsContractAlways`, if uploads do not arrive late: the label is then never `wire` (`LabelInv`),
  and UNKNOWN means what `Delivery` takes it for.

With it the assumptions under which the theorems about `Delivery` speak of `HttpSender` are complete:
`Truthful`, and the two constants of `Sender`.

`DeliveryBatch_proofs`: `ClosedFormsAgreeAlways`, for every set of submissions, every size of
records and both modes: when no submission is being added, the bytes counted record by record are
the bytes the closed forms predict. The invariant adds that, in the middle of a submission, the
count is what the closed form gives for the records added so far. `ByteSizeIsBodyLengthAlways`: after
every record `byte_size` is the length of what `encode_body` would write, because adding a record
adds its size and a separator to both. `NeverOutgrowsAlways`, on top of `ClosedFormsAgree`: a body
stays within `batch_bytes` after every single record, because the closed forms said so of the whole
submission before its first.

`Delivery_proofs`, for every timeout, duration of requests and number of retries:

- `TypeCorrect`, the type invariant.
- `NoDoubleLoadAlways`, if uploads do not arrive late and either label requests connect or
  `PollTimeout >= UploadTimeout`. `NoDoubleLoad` is not inductive. `LoadInv` strengthens it: all
  labels but the last are dead; all are dead before an upload; and when the worker is about to retry
  they are all dead or the time for retries is over. The last part carries the case of label
  requests that fail to connect: such an error is returned only after the poll deadline, which then
  lies behind `doris_upload_timeout`.
- `AbandonedLabelsAreDeadAlways`, `ResultIsTrueAlways`, `ImplementsOnceAlways`, if in addition label
  requests connect. `TruthInv` adds to `LoadInv` what each result says about the labels. For the
  refinement each action is shown to be a step of `UploadOnce` or a stutter: a successful upload
  lands and reports at once, a failed one may land, Doris may land a load while the result is open
  or unknown.
- `EndsInTimeAlways`, `NoUploadAfterTimeoutAlways`: `TimeInv` bounds the time in each part of a
  delivery, the poll's by its own deadline and one backoff. A delivery ends at the latest one upload
  (eleven request timeouts), `status_poll_timeout`, one backoff and one label request after
  `doris_upload_timeout`.
- `RetriesBoundedAlways`: before an upload an attempt is left.

`Completion_proofs`, for any number of workers, batches, handles and waiters of each kind, with
panics. No lock makes the counters agree, so the invariant `IInv` says of every phase of a worker
which of its additions have been made:

- `Apart`, `Pending`, `Uploads`: no batch is with two workers or with one and in the channel, what is
  there has no result yet, and a worker knows how many uploads it has made. `BusyInv`: the counter of
  busy workers is the number of workers with a batch, those killed by a panic included.
- `JobInv`: the job and the error counter are the numbers of batches in `JobsOf` and `ErrorsOf`, those
  with a result and those whose worker is between the counter and the handle. The handle comes
  last: hence `SnapshotSeesResultsAlways`, with `SnapInv`, which says what each load of a `stats()`
  under way has seen. Counters only grow, so what has been read is still covered later.
- `SumInv`: attempts, and the batches without an upload, are jobs and retries and the uploads that are
  still open, counted in `OpenUploads`, one cell for each. When no worker is at work only the uploads
  of dropped batches are open: `CountersAddUpAlways`.
- `BytesInv`: the bytes are at most what the attempts that have added theirs could bring. Attempts are
  added before bytes and loaded after them; with the one order or the other changed the average
  could exceed the largest batch. This is `SnapshotPlausibleAlways`.
- `NoMissedWakeUpAlways`: a call that sleeps waits for a handle without a result, because looking and
  falling asleep is one step under the lock, and completing and waking is another. It is the safety
  under `EveryWaitReturns`. `NoneOnlyWithoutResultAlways` is the step property of `wait_timeout`.

Before it was proved, `IInv` held in TLC on the instance of `completion`, and on the same with two
workers (5.7 million states).

Only model-checked, as fairness and `ENABLED` are outside the provers' reach: the liveness
properties `EveryAcceptedCompletes`, `EverySendReturns`, `EveryCloseReturns`, `ShutdownEndsTasks`,
`EveryWaitReturns` and `EveryCallEnds`, and the fair refinement `ImplementsFairService`. Every other
property of the runs that hold is the statement of a theorem.

## 5. What is not modelled

- **Record validation** (`client.rs` 234-505): sequential, decides before any shared state is touched
  whether a send is rejected, which the clients have. Its hard part is in the `csv` and `serde_json`
  crates.
- **Compression** (`compression.rs`): calls to codec crates and the layout of the LZOP container, no
  state. A failure is the `LocalError` of `Sender`.
- **Configuration** (`config.rs`): what `validate` guarantees are the assumptions on the constants;
  URL building and the builder are straight-line code.
- **Headers, credentials, certificates and bodies** in the HTTP sender: their effect is the servers'
  answer, which is arbitrary. The fake senders sleep and succeed.
- **Load times, the sample window and percentiles** in the statistics: values without influence on
  anything else.
- **Callbacks that call the client.** Callbacks return or panic here. One that sends into a full
  intake from a worker, or calls `close()`, waits for its own thread; nothing in the crate says what
  a callback may call, so there is no property to check.

What would come next: the safety on which the remaining liveness properties rest, with the guards of
the actions written out instead of `ENABLED`: that whoever waits for room, for a batch or for the end
of a thread waits for somebody who has a step to take.

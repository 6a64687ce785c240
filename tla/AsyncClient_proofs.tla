------------------------- MODULE AsyncClient_proofs --------------------------
(***************************************************************************)
(* For any number of submissions, workers and closers, any capacity of the *)
(* channels and any sizes of the records: the types of the tokio client,   *)
(* the limit on upload bodies, the linger and the order of the intake;     *)
(* what has left the batcher is completed unless a panic loses it, and at  *)
(* most once; a close() that has returned Ok has drained the client, and   *)
(* the client implements ClientService: every step of its futures and      *)
(* tasks is a step of the service or invisible to the callers.             *)
(***************************************************************************)
EXTENDS AsyncClient, Batching_proofs

-----------------------------------------------------------------------------
(* Types, in parts that follow the groups of variables.                    *)

CallStates == {"idle", "clone", "waiting", "accepted", "rejected"}
CloserStates == {"idle", "taking", "awaitBatcher", "awaitWorkers",
                 "ok", "err", "second", "cancelled"}
BatcherStates == {"select", "overflow", "add", "full", "flush", "done"}
Phases == {"none", "receiving", "deliver", "complete", "callback", "exited", "panicked"}
Job == [phase : Phases, batch : Batch, next : Nat]

CallerType == call \in [Subs -> CallStates] /\ accepted \in Seq(Subs)
FlagType ==
    /\ closed \in BOOLEAN /\ intakeHeld \in BOOLEAN /\ dropped \in BOOLEAN
    /\ closer \in [Closers -> CloserStates]
ChanType == chan \in Seq(Subs) /\ Len(chan) <= MaxQueueSize
OpenType ==
    /\ hand \in Seq(Subs) /\ Len(hand) <= 1
    /\ current \in Batch /\ armed \in BOOLEAN /\ expired \in BOOLEAN
OutType == out \in Seq(Batch) /\ Len(out) <= MaxUploadQueue
\* complete_async_batch goes through the handles, then the callbacks, from the
\* first.
CountsFromOne(j) == j.phase \in {"complete", "callback"} => j.next >= 1
WorkType ==
    /\ job \in [Tasks -> Job]
    /\ done \subseteq Subs /\ called \subseteq Subs /\ discarded \subseteq Subs
    /\ \A t \in Tasks : CountsFromOne(job[t])

\* The batcher has a submission in its hand between recv() and the open batch.
HandInv == hand # <<>> <=> batcher \in {"overflow", "add"}

\* TypeOK in parts, and a little more.
TypeInv ==
    /\ CallerType /\ FlagType /\ ChanType /\ OpenType /\ OutType /\ WorkType
    /\ batcher \in BatcherStates /\ sent \in Seq(Subs) /\ HandInv

LEMMA Unchanged ==
  /\ CallerType /\ UNCHANGED callerVars => CallerType'
  /\ FlagType /\ UNCHANGED flagVars => FlagType'
  /\ ChanType /\ UNCHANGED chan => ChanType'
  /\ OpenType /\ UNCHANGED openVars => OpenType'
  /\ OutType /\ UNCHANGED out => OutType'
  /\ WorkType /\ UNCHANGED workVars => WorkType'
  /\ HandInv /\ UNCHANGED <<openVars, batcher>> => HandInv'
  BY DEF CallerType, callerVars, FlagType, flagVars, ChanType, OpenType, openVars, OutType,
         WorkType, workVars, HandInv

LEMMA InitType == Init => TypeInv
<1>1. /\ NoBatch \in Batch /\ Idle \in Job /\ Idle.phase = "none"
  BY BatchTypes DEF Idle, Job, Phases
<1> SUFFICES ASSUME Init PROVE TypeInv
  OBVIOUS
<1>2. CallerType
  BY DEF Init, CallerType, CallStates
<1>3. FlagType
  BY DEF Init, FlagType, CloserStates
<1>4. MaxQueueSize >= 0 /\ MaxUploadQueue >= 0
  BY AsyncClientAssumption
<1>5. <<>> \in Seq(Subs) /\ <<>> \in Seq(Batch) /\ Len(<<>>) = 0
  OBVIOUS
<1>6. ChanType /\ OutType
  BY <1>4, <1>5 DEF Init, ChanType, OutType
<1>8. OpenType
  <2>1. hand \in Seq(Subs) /\ Len(hand) <= 1
    BY <1>5 DEF Init
  <2>2. current \in Batch /\ armed \in BOOLEAN /\ expired \in BOOLEAN
    BY <1>1 DEF Init
  <2> QED
    BY <2>1, <2>2 DEF OpenType
<1>7. WorkType
  BY <1>1 DEF Init, WorkType, CountsFromOne
<1> QED
  BY <1>2, <1>3, <1>6, <1>7, <1>8 DEF Init, TypeInv, BatcherStates, HandInv

\* The calls of send, and those of close, with every step they take.
SendStep(s) == Send(s) \/ CloneTx(s) \/ Enqueue(s) \/ EnqueueFails(s) \/ CancelSend(s)
CloseStep(c) ==
    Close(c) \/ TakeIntake(c) \/ AwaitBatcher(c) \/ AwaitWorkers(c) \/ CancelClose(c)
WorkerStep(w) == Worker(w) \/ RetryLogPanics(w)

LEMMA Steps ==
  Next => \/ \E s \in Subs : SendStep(s)
          \/ BatcherStep \/ LingerExpires \/ Drop \/ UNCHANGED vars
          \/ \E w \in Workers : WorkerStep(w)
          \/ \E t \in Tasks : CompleteBatch(t)
          \/ \E c \in Closers : CloseStep(c)
  BY DEF Next, SendStep, CloseStep, WorkerStep

LEMMA GotoType ==
  ASSUME CallerType, NEW s \in Subs, NEW state \in CallStates, Goto(s, state)
  PROVE  call' \in [Subs -> CallStates]
  BY DEF CallerType, Goto

LEMMA SendTypes == ASSUME TypeInv, NEW s \in Subs, SendStep(s) PROVE TypeInv'
<1>1. CASE CallerOnly /\ \E state \in CallStates : Goto(s, state)
  BY <1>1, Unchanged, GotoType DEF TypeInv, CallerOnly, CallerType
<1>2. CASE Send(s) \/ CloneTx(s) \/ EnqueueFails(s) \/ CancelSend(s)
  BY <1>1, <1>2 DEF Send, CloneTx, EnqueueFails, CancelSend, CallStates
<1>3. CASE Enqueue(s)
  <2>1. chan \in Seq(Subs) /\ accepted \in Seq(Subs) /\ Len(chan) < MaxQueueSize
        /\ MaxQueueSize \in Nat
    BY <1>3, AsyncClientAssumption DEF TypeInv, CallerType, ChanType, Enqueue, RoomInIntake
  <2>2. /\ chan' \in Seq(Subs) /\ accepted' \in Seq(Subs)
        /\ Len(chan') <= MaxQueueSize
    BY <1>3, <2>1, AppendProperties DEF Enqueue
  <2>3. CallerType' /\ ChanType'
    BY <1>3, <2>2, GotoType DEF Enqueue, TypeInv, CallerType, CallStates, ChanType
  <2> QED
    BY <1>3, <2>3, Unchanged DEF Enqueue, TypeInv
<1> QED
  BY <1>2, <1>3 DEF SendStep

LEMMA BatcherTask ==
  Batcher \in Tasks /\ Batcher \notin Workers /\ \A w \in Workers : w \in Tasks
  BY DEF Tasks, Batcher, Workers

LEMMA SetJobType ==
  ASSUME WorkType, NEW t \in Tasks, NEW j \in Job, CountsFromOne(j),
         SetJob(t, j), done' \subseteq Subs, called' \subseteq Subs, discarded' \subseteq Subs
  PROVE  WorkType'
  BY DEF WorkType, SetJob

\* What complete_async_batch starts from.
Completing(b) == [phase |-> "complete", batch |-> b, next |-> 1]

LEMMA CompletingType ==
  ASSUME NEW b \in Batch
  PROVE  Completing(b) \in Job /\ CountsFromOne(Completing(b))
  BY DEF Completing, Job, Phases, CountsFromOne

\* The two ways the batch leaves.
LEMMA HandsOver ==
  ASSUME HandOver
  PROVE  /\ sent' = sent \o current.subs /\ current' = NoBatch /\ armed' = FALSE
         /\ \/ ~WorkersGone /\ Len(out) < MaxUploadQueue /\ out' = Append(out, current) /\ job' = job
            \/ WorkersGone /\ SetJob(Batcher, Completing(current)) /\ out' = out
  BY DEF HandOver, SetJob, Completing

LEMMA HandOverTypes ==
  ASSUME TypeInv, HandOver, UNCHANGED <<hand, done, called, discarded>>, expired' \in BOOLEAN
  PROVE  OpenType' /\ OutType' /\ WorkType' /\ sent' \in Seq(Subs)
<1>1. /\ current \in Batch /\ current.subs \in Seq(Subs) /\ sent \in Seq(Subs)
      /\ out \in Seq(Batch) /\ Len(out) <= MaxUploadQueue /\ MaxUploadQueue \in Nat
      /\ WorkType /\ OutType /\ OpenType
  BY AsyncClientAssumption DEF TypeInv, OpenType, OutType, Batch
<1>2. sent' \in Seq(Subs)
  BY <1>1, HandsOver, ConcatProperties
<1>3. OpenType'
  BY <1>1, HandsOver, BatchTypes DEF OpenType
<1>4. CASE Len(out) < MaxUploadQueue /\ out' = Append(out, current) /\ job' = job
  <2>1. /\ Append(out, current) \in Seq(Batch)
        /\ Len(Append(out, current)) = Len(out) + 1 /\ Len(out) \in Nat
    BY <1>1, AppendProperties
  <2> QED
    BY <1>1, <1>2, <1>3, <1>4, <2>1 DEF OutType, WorkType
<1>5. CASE SetJob(Batcher, Completing(current)) /\ out' = out
  <2>1. done' \subseteq Subs /\ called' \subseteq Subs /\ discarded' \subseteq Subs
    BY <1>1 DEF WorkType
  <2>2. WorkType'
    BY <1>1, <1>5, <2>1, SetJobType, CompletingType, BatcherTask
  <2> QED
    BY <1>1, <1>2, <1>3, <1>5, <2>2 DEF OutType
<1> QED
  BY <1>4, <1>5, HandsOver

LEMMA SendsBatch ==
  ASSUME SendBatch
  PROVE  /\ HandOver
         /\ UNCHANGED <<callerVars, flagVars, chan, hand, expired, done, called, discarded>>
         /\ \/ At("overflow") /\ batcher' = "add"
            \/ At("full") /\ batcher' = "select"
            \/ At("flush") /\ batcher' = "done"
<1>1. CASE batcher = "overflow"
  BY <1>1 DEF SendBatch, At
<1>2. CASE batcher = "full"
  BY <1>2 DEF SendBatch, At
<1>3. CASE batcher = "flush"
  BY <1>3 DEF SendBatch, At
<1> QED
  BY <1>1, <1>2, <1>3 DEF SendBatch, At

LEMMA BatcherTypes == ASSUME TypeInv, BatcherStep PROVE TypeInv'
<1>1. CASE Receive
  <2>1. chan \in Seq(Subs) /\ chan # <<>> /\ Len(chan) <= MaxQueueSize /\ MaxQueueSize \in Nat
    BY <1>1, AsyncClientAssumption DEF TypeInv, ChanType, Receive
  <2>2. Head(chan) \in Subs /\ Tail(chan) \in Seq(Subs) /\ Len(Tail(chan)) <= MaxQueueSize
    BY <2>1, TakingOne
  <2>3. ChanType'
    BY <1>1, <2>2 DEF Receive, ChanType
  <2>4. OpenType'
    BY <1>1, <2>2 DEF Receive, OpenType, TypeInv
  <2>5. hand' # <<>> /\ batcher' \in {"overflow", "add"}
    BY <1>1 DEF Receive
  <2> QED
    BY <1>1, <2>3, <2>4, <2>5, Unchanged DEF Receive, TypeInv, BatcherStates, HandInv
<1>2. CASE AddReceived
  <2>1. hand \in Seq(Subs) /\ hand # <<>> /\ OpenType
    BY <1>2 DEF AddReceived, At, TypeInv, OpenType, HandInv
  <2>2. Head(hand) \in Subs
    BY <2>1
  <2>3. current' \in Batch /\ hand' = <<>>
    BY <1>2, <2>1, <2>2, BatchTypes DEF AddReceived, OpenType
  <2>4. armed' \in BOOLEAN /\ expired' \in BOOLEAN
    BY <1>2, <2>1 DEF AddReceived, OpenType
  <2>5. OpenType'
    BY <2>3, <2>4 DEF OpenType
  <2>6. batcher' \in {"full", "select"}
    BY <1>2 DEF AddReceived
  <2> QED
    BY <1>2, <2>3, <2>5, <2>6, Unchanged DEF AddReceived, TypeInv, BatcherStates, HandInv
<1>3. CASE SendBatch
  <2>1. OpenType' /\ OutType' /\ WorkType' /\ sent' \in Seq(Subs)
    BY <1>3, SendsBatch, HandOverTypes DEF TypeInv, OpenType
  <2> QED
    BY <1>3, <2>1, SendsBatch, Unchanged DEF TypeInv, BatcherStates, HandInv, At
<1>4. CASE TrySendLingered
  <2>1. /\ CallerType' /\ FlagType' /\ ChanType' /\ batcher' = batcher /\ hand' = hand
        /\ UNCHANGED <<done, called, discarded>>
    BY <1>4, Unchanged DEF TrySendLingered, TypeInv
  <2>2. CASE HandOver /\ expired' = expired
    <3>1. OpenType' /\ OutType' /\ WorkType' /\ sent' \in Seq(Subs)
      BY <2>1, <2>2, HandOverTypes DEF TypeInv, OpenType
    <3> QED
      BY <2>1, <3>1 DEF TypeInv, HandInv
  <2>3. CASE expired' = FALSE /\ UNCHANGED <<current, armed, out, job, sent>>
    <3>1. OpenType' /\ OutType' /\ WorkType'
      BY <2>1, <2>3 DEF TypeInv, OpenType, OutType, WorkType
    <3> QED
      BY <2>1, <2>3, <3>1 DEF TypeInv, HandInv
  <2> QED
    BY <1>4, <2>2, <2>3 DEF TrySendLingered
<1>5. CASE IntakeEnds
  BY <1>5, Unchanged DEF IntakeEnds, At, TypeInv, BatcherStates, HandInv, openVars
<1> QED
  BY <1>1, <1>2, <1>3, <1>4, <1>5 DEF BatcherStep

LEMMA JobType ==
  ASSUME WorkType, NEW t \in Tasks
  PROVE  /\ job[t] \in Job /\ job[t].batch \in Batch /\ job[t].next \in Nat
         /\ job[t].batch.subs \in Seq(Subs)
         /\ CountsFromOne(job[t])
<1>1. job[t] \in Job
  BY DEF WorkType
<1> QED
  BY <1>1 DEF Job, Batch, WorkType

\* A panic ends the task, and may empty the dispatch channel.
LEMMA PanicEffect ==
  ASSUME OutType, NEW t, Panic(t)
  PROVE  /\ SetJob(t, [job[t] EXCEPT !.phase = "panicked"])
         /\ \/ UNCHANGED <<out, discarded>>
            \/ /\ LastWorker(t)
               /\ out' = <<>> /\ Queued' = {} /\ discarded' = discarded \cup Queued
         /\ OutType' /\ Queued \subseteq Subs
<1>1. out \in Seq(Batch) /\ MaxUploadQueue \in Nat /\ Len(out) <= MaxUploadQueue
  BY AsyncClientAssumption DEF OutType
<1>2. out' = out => OutType'
  BY DEF OutType
<1>3. ASSUME out' = <<>> PROVE OutType' /\ Queued' = {}
  <2>1. <<>> \in Seq(Batch) /\ Len(<<>>) = 0 /\ DOMAIN out' = {} /\ 0 <= MaxUploadQueue
    BY <1>1, <1>3
  <2>2. Queued' = {}
    BY <2>1 DEF Queued
  <2> QED
    BY <1>3, <2>1, <2>2 DEF OutType
<1>4. Queued \subseteq Subs
  <2>1. ASSUME NEW i \in DOMAIN out PROVE ToSet(out[i].subs) \subseteq Subs
    <3>1. out[i] \in Batch
      BY <1>1, <2>1
    <3>2. out[i].subs \in Seq(Subs)
      BY <3>1 DEF Batch
    <3> QED
      BY <3>2 DEF ToSet
  <2> QED
    BY <2>1 DEF Queued
<1> QED
  BY <1>2, <1>3, <1>4 DEF Panic

LEMMA PanicType ==
  ASSUME TypeInv, NEW t \in Tasks, Panic(t), done' \subseteq Subs, called' \subseteq Subs
  PROVE  OutType' /\ WorkType'
<1> DEFINE dead == [job[t] EXCEPT !.phase = "panicked"]
<1>1. /\ WorkType /\ OutType /\ job[t] \in Job /\ discarded \subseteq Subs
  BY JobType DEF TypeInv, WorkType
<1>2. dead \in Job /\ CountsFromOne(dead)
  BY <1>1 DEF Job, Phases, CountsFromOne
<1>3. SetJob(t, dead) /\ OutType' /\ discarded' \subseteq Subs
  BY <1>1, PanicEffect
<1> HIDE DEF dead
<1> QED
  BY <1>1, <1>2, <1>3, SetJobType

LEMMA WorkerTypes == ASSUME TypeInv, NEW w \in Workers, WorkerStep(w) PROVE TypeInv'
<1>1. WorkType /\ w \in Tasks /\ OutType
  BY BatcherTask DEF TypeInv
<1>2. /\ CallerType' /\ FlagType' /\ ChanType' /\ OpenType'
      /\ batcher' \in BatcherStates /\ sent' \in Seq(Subs) /\ HandInv'
      /\ done' \subseteq Subs /\ called' \subseteq Subs
  BY <1>1, Unchanged DEF WorkerStep, Worker, LockReceiver, TakeBatch, ExitWorker, Delivered,
                         RetryLogPanics, WorkOnly, TypeInv, WorkType
<1>8. LockReceiver(w) \/ TakeBatch(w) \/ ExitWorker(w) \/ Delivered(w)
        => discarded' \subseteq Subs
  BY <1>1 DEF LockReceiver, TakeBatch, ExitWorker, Delivered, WorkType
<1>3. CASE TakeBatch(w)
  <2>1. /\ out # <<>> /\ out \in Seq(Batch) /\ Len(out) <= MaxUploadQueue /\ out' = Tail(out)
        /\ MaxUploadQueue \in Nat
    BY <1>1, <1>3, AsyncClientAssumption DEF TakeBatch, OutType
  <2>2. Head(out) \in Batch /\ Tail(out) \in Seq(Batch) /\ Len(Tail(out)) <= MaxUploadQueue
    BY <2>1, TakingOne
  <2> DEFINE j == [phase |-> "deliver", batch |-> Head(out), next |-> 0]
  <2>3. j \in Job /\ CountsFromOne(j) /\ SetJob(w, j)
    BY <1>3, <2>2 DEF TakeBatch, Job, Phases, CountsFromOne
  <2> HIDE DEF j
  <2>4. WorkType'
    BY <1>1, <1>2, <1>3, <1>8, <2>3, SetJobType
  <2> QED
    BY <1>2, <2>1, <2>2, <2>4 DEF TypeInv, OutType
<1>4. CASE out' = out /\ discarded' \subseteq Subs /\ \E j \in Job : CountsFromOne(j) /\ SetJob(w, j)
  <2>1. WorkType'
    BY <1>1, <1>2, <1>4, SetJobType
  <2> QED
    BY <1>1, <1>2, <1>4, <2>1, Unchanged DEF TypeInv
<1>5. CASE LockReceiver(w) \/ ExitWorker(w)
  <2> DEFINE j(phase) == [Idle EXCEPT !.phase = phase]
  <2>1. \A p \in {"receiving", "exited"} : j(p) \in Job /\ CountsFromOne(j(p))
    BY BatchTypes DEF Job, Phases, Idle, CountsFromOne
  <2>2. \E p \in {"receiving", "exited"} : SetJob(w, j(p))
    BY <1>5 DEF LockReceiver, ExitWorker
  <2>3. out' = out
    BY <1>5 DEF LockReceiver, ExitWorker
  <2> HIDE DEF j
  <2> QED
    BY <1>4, <1>5, <1>8, <2>1, <2>2, <2>3
<1>6. CASE Delivered(w)
  <2>1. SetJob(w, Completing(job[w].batch)) /\ job[w].batch \in Batch /\ out' = out
    BY <1>1, <1>6, JobType DEF Delivered, Completing
  <2> QED
    BY <1>4, <1>6, <1>8, <2>1, CompletingType
<1>7. CASE RetryLogPanics(w)
  BY <1>1, <1>2, <1>7, PanicType DEF TypeInv, RetryLogPanics
<1> QED
  BY <1>3, <1>5, <1>6, <1>7 DEF WorkerStep, Worker

LEMMA CompleteTypes == ASSUME TypeInv, NEW t \in Tasks, CompleteBatch(t) PROVE TypeInv'
<1>1. WorkType
  BY DEF TypeInv
<1>2. /\ CallerType' /\ FlagType' /\ ChanType' /\ OpenType'
      /\ batcher' \in BatcherStates /\ sent' \in Seq(Subs) /\ HandInv'
  BY Unchanged DEF CompleteBatch, CompleteHandle, HandlesCompleted, RunCallback,
                   CallbacksDone, WorkOnly, TypeInv
<1>3. /\ job[t] \in Job /\ job[t].batch.subs \in Seq(Subs) /\ job[t].next \in Nat
      /\ done \subseteq Subs /\ called \subseteq Subs /\ discarded \subseteq Subs
      /\ CountsFromOne(job[t])
  BY <1>1, JobType DEF WorkType
<1>10. CompleteHandle(t) \/ HandlesCompleted(t) \/ CallbacksDone(t)
         => discarded' = discarded /\ OutType'
  BY Unchanged DEF CompleteHandle, HandlesCompleted, CallbacksDone, TypeInv
<1> DEFINE after == [job[t] EXCEPT !.next = @ + 1]
<1>4. after \in Job /\ after.phase = job[t].phase /\ CountsFromOne(after)
  BY <1>3 DEF Job, CountsFromOne
<1>5. Idle \in Job /\ CountsFromOne(Idle)
  BY BatchTypes DEF Idle, Job, Phases, CountsFromOne
<1>6. CASE CompleteHandle(t)
  <2>1. /\ SetJob(t, after) /\ called' = called
        /\ done' = done \cup {job[t].batch.subs[job[t].next]}
        /\ job[t].next >= 1 /\ job[t].next <= Len(job[t].batch.subs)
    BY <1>3, <1>6 DEF CompleteHandle, CountsFromOne
  <2>2. done' \subseteq Subs
    BY <1>3, <2>1
  <2> HIDE DEF after
  <2>3. WorkType'
    BY <1>1, <1>3, <1>4, <1>6, <1>10, <2>1, <2>2, SetJobType
  <2> QED
    BY <1>2, <1>6, <1>10, <2>3 DEF TypeInv
<1>7. CASE HandlesCompleted(t)
  <2> DEFINE calling == [job[t] EXCEPT !.phase = "callback", !.next = 1]
  <2>1. (SetJob(t, calling) \/ SetJob(t, Idle)) /\ called' = called /\ done' = done
    BY <1>7 DEF HandlesCompleted
  <2>2. calling \in Job /\ calling.next = 1
    BY <1>3 DEF Job, Phases
  <2>3. CountsFromOne(calling)
    BY <2>2 DEF CountsFromOne
  <2> HIDE DEF calling
  <2>4. WorkType'
    BY <1>1, <1>3, <1>5, <1>7, <1>10, <2>1, <2>2, <2>3, SetJobType
  <2> QED
    BY <1>2, <1>7, <1>10, <2>4 DEF TypeInv
<1>8. CASE RunCallback(t)
  <2>1. done' = done /\ done' \subseteq Subs /\ called' \subseteq Subs
    BY <1>3, <1>8, AsyncClientAssumption DEF RunCallback
  <2>2. \/ SetJob(t, after) /\ UNCHANGED <<out, discarded>>
        \/ Panic(t)
    BY <1>8 DEF RunCallback
  <2> HIDE DEF after
  <2>3. CASE SetJob(t, after) /\ UNCHANGED <<out, discarded>>
    BY <1>1, <1>2, <1>3, <1>4, <2>1, <2>3, SetJobType, Unchanged DEF TypeInv
  <2>4. CASE Panic(t)
    BY <1>2, <2>1, <2>4, PanicType DEF TypeInv
  <2> QED
    BY <2>2, <2>3, <2>4
<1>9. CASE CallbacksDone(t)
  <2>1. SetJob(t, Idle) /\ done' = done /\ called' = called
    BY <1>9 DEF CallbacksDone
  <2>2. WorkType'
    BY <1>1, <1>3, <1>5, <1>9, <1>10, <2>1, SetJobType
  <2> QED
    BY <1>2, <1>9, <1>10, <2>2 DEF TypeInv
<1> QED
  BY <1>6, <1>7, <1>8, <1>9 DEF CompleteBatch

LEMMA CloseTypes == ASSUME TypeInv, NEW c \in Closers, CloseStep(c) PROVE TypeInv'
<1>1. /\ CallerType' /\ ChanType' /\ OpenType' /\ OutType' /\ WorkType'
      /\ batcher' \in BatcherStates /\ sent' \in Seq(Subs) /\ HandInv'
  BY Unchanged DEF CloseStep, Close, TakeIntake, AwaitBatcher, AwaitWorkers, CancelClose,
                   CloserOnly, TypeInv
<1>2. FlagType'
  BY DEF CloseStep, Close, TakeIntake, AwaitBatcher, AwaitWorkers, CancelClose, Advance,
         CloserOnly, TypeInv, FlagType, CloserStates
<1> QED
  BY <1>1, <1>2 DEF TypeInv

LEMMA DropTypes == ASSUME TypeInv, Drop PROVE TypeInv'
<1>1. FlagType'
  BY DEF Drop, TypeInv, FlagType
<1> QED
  BY <1>1, Unchanged DEF Drop, TypeInv

LEMMA LingerTypes == ASSUME TypeInv, LingerExpires PROVE TypeInv'
<1>1. OpenType'
  BY DEF LingerExpires, TypeInv, OpenType
<1> QED
  BY <1>1, Unchanged DEF LingerExpires, TypeInv, HandInv

LEMMA TypeStep == TypeInv /\ [Next]_vars => TypeInv'
<1> SUFFICES ASSUME TypeInv, [Next]_vars PROVE TypeInv'
  OBVIOUS
<1>1. CASE UNCHANGED vars
  BY <1>1, Unchanged DEF vars, TypeInv
<1>2. CASE Next
  BY <1>1, <1>2, Steps, SendTypes, BatcherTypes, LingerTypes, WorkerTypes, CompleteTypes,
     CloseTypes, DropTypes
<1> QED
  BY <1>1, <1>2

\* The values of the tokio client's variables are what the code's types say,
\* the channels hold no more than their capacities, and the batcher has a
\* submission in its hand only between recv() and the open batch
\* (async_client.rs 702-812, 937-972).
THEOREM TypeCorrect == Spec => []TypeOK
<1>1. TypeInv => TypeOK
  BY DEF TypeInv, TypeOK, CallerType, FlagType, ChanType, OpenType, OutType, WorkType, Job,
         CallStates, CloserStates, BatcherStates, Phases
<1> QED
  BY <1>1, InitType, TypeStep, PTL DEF Spec

-----------------------------------------------------------------------------
(* Who may change what.                                                    *)

LEMMA BatcherOwns ==
  ASSUME [Next]_vars, ~BatcherStep
  PROVE  UNCHANGED <<batcher, hand, current, armed, sent>>
<1>1. ASSUME NEW s \in Subs, SendStep(s) PROVE UNCHANGED <<batcher, hand, current, armed, sent>>
  BY <1>1 DEF SendStep, Send, CloneTx, Enqueue, EnqueueFails, CancelSend, CallerOnly, openVars
<1>2. ASSUME NEW w \in Workers, WorkerStep(w)
      PROVE  UNCHANGED <<batcher, hand, current, armed, sent>>
  BY <1>2 DEF WorkerStep, Worker, LockReceiver, TakeBatch, ExitWorker, Delivered,
              RetryLogPanics, WorkOnly, openVars
<1>3. ASSUME NEW t \in Tasks, CompleteBatch(t)
      PROVE  UNCHANGED <<batcher, hand, current, armed, sent>>
  BY <1>3 DEF CompleteBatch, CompleteHandle, HandlesCompleted, RunCallback, CallbacksDone,
              WorkOnly, openVars
<1>4. ASSUME NEW c \in Closers, CloseStep(c)
      PROVE  UNCHANGED <<batcher, hand, current, armed, sent>>
  BY <1>4 DEF CloseStep, Close, TakeIntake, AwaitBatcher, AwaitWorkers, CancelClose,
              CloserOnly, openVars
<1>5. ASSUME Drop \/ LingerExpires \/ UNCHANGED vars
      PROVE  UNCHANGED <<batcher, hand, current, armed, sent>>
  BY <1>5 DEF Drop, LingerExpires, vars, openVars
<1> QED
  BY <1>1, <1>2, <1>3, <1>4, <1>5, Steps

\* The handles, the callbacks and the dispatch channel.
LEMMA WhoWorks ==
  ASSUME [Next]_vars
  PROVE  \/ UNCHANGED <<out, job, done, called, discarded, sent>>
         \/ SendBatch \/ TrySendLingered
         \/ \E w \in Workers : WorkerStep(w)
         \/ \E t \in Tasks : CompleteBatch(t)
<1>1. ASSUME NEW s \in Subs, SendStep(s)
      PROVE  UNCHANGED <<out, job, done, called, discarded, sent>>
  BY <1>1 DEF SendStep, Send, CloneTx, Enqueue, EnqueueFails, CancelSend, CallerOnly, workVars
<1>2. ASSUME NEW c \in Closers, CloseStep(c)
      PROVE  UNCHANGED <<out, job, done, called, discarded, sent>>
  BY <1>2 DEF CloseStep, Close, TakeIntake, AwaitBatcher, AwaitWorkers, CancelClose,
              CloserOnly, workVars
<1>3. ASSUME Receive \/ AddReceived \/ IntakeEnds \/ LingerExpires \/ Drop \/ UNCHANGED vars
      PROVE  UNCHANGED <<out, job, done, called, discarded, sent>>
  BY <1>3 DEF Receive, AddReceived, IntakeEnds, LingerExpires, Drop, vars, workVars
<1> QED
  BY <1>1, <1>2, <1>3, Steps DEF BatcherStep

\* The calls of send, and the intake channel.
LEMMA WhoSends ==
  ASSUME [Next]_vars
  PROVE  \/ \E s \in Subs : SendStep(s)
         \/ UNCHANGED <<call, accepted>> /\ (BatcherStep \/ chan' = chan)
<1>1. BatcherStep => UNCHANGED <<call, accepted>>
  BY DEF BatcherStep, Receive, AddReceived, SendBatch, TrySendLingered, IntakeEnds, callerVars
<1>2. ASSUME NEW w \in Workers, WorkerStep(w) PROVE UNCHANGED <<call, accepted, chan>>
  BY <1>2 DEF WorkerStep, Worker, LockReceiver, TakeBatch, ExitWorker, Delivered,
              RetryLogPanics, WorkOnly, callerVars
<1>3. ASSUME NEW t \in Tasks, CompleteBatch(t) PROVE UNCHANGED <<call, accepted, chan>>
  BY <1>3 DEF CompleteBatch, CompleteHandle, HandlesCompleted, RunCallback, CallbacksDone,
              WorkOnly, callerVars
<1>4. ASSUME NEW c \in Closers, CloseStep(c) PROVE UNCHANGED <<call, accepted, chan>>
  BY <1>4 DEF CloseStep, Close, TakeIntake, AwaitBatcher, AwaitWorkers, CancelClose,
              CloserOnly, callerVars
<1>5. LingerExpires \/ Drop \/ UNCHANGED vars => UNCHANGED <<call, accepted, chan>>
  BY DEF LingerExpires, Drop, vars, callerVars
<1> QED
  BY <1>1, <1>2, <1>3, <1>4, <1>5, Steps

\* The calls of close, and the client's own sender, which is never put back.
LEMMA WhoCloses ==
  ASSUME TypeInv, [Next]_vars
  PROVE  /\ closer' = closer \/ \E c \in Closers : CloseStep(c)
         /\ ~intakeHeld => ~intakeHeld'
<1>1. ASSUME NEW s \in Subs, SendStep(s) PROVE UNCHANGED flagVars
  BY <1>1 DEF SendStep, Send, CloneTx, Enqueue, EnqueueFails, CancelSend, CallerOnly
<1>2. ASSUME BatcherStep \/ LingerExpires \/ UNCHANGED vars PROVE UNCHANGED flagVars
  BY <1>2 DEF BatcherStep, Receive, AddReceived, SendBatch, TrySendLingered, IntakeEnds,
              LingerExpires, vars
<1>3. ASSUME NEW w \in Workers, WorkerStep(w) PROVE UNCHANGED flagVars
  BY <1>3 DEF WorkerStep, Worker, LockReceiver, TakeBatch, ExitWorker, Delivered,
              RetryLogPanics, WorkOnly
<1>4. ASSUME NEW t \in Tasks, CompleteBatch(t) PROVE UNCHANGED flagVars
  BY <1>4 DEF CompleteBatch, CompleteHandle, HandlesCompleted, RunCallback, CallbacksDone,
              WorkOnly
<1>5. ASSUME NEW c \in Closers, CloseStep(c) PROVE ~intakeHeld => ~intakeHeld'
  BY <1>5 DEF CloseStep, Close, TakeIntake, AwaitBatcher, AwaitWorkers, CancelClose
<1>6. ASSUME Drop PROVE closer' = closer /\ (~intakeHeld => ~intakeHeld')
  BY <1>6 DEF Drop
<1> QED
  BY <1>1, <1>2, <1>3, <1>4, <1>5, <1>6, Steps DEF flagVars

-----------------------------------------------------------------------------
(* The linger.                                                             *)

\* Exactly while a batch is open its linger is armed: the sleep never fires
\* without a batch to send, and no open batch waits for a submission or for
\* close() to be sent (async_client.rs 781-845).
THEOREM LingerArmedWhileOpenAlways == Spec => []LingerArmedWhileOpen
<1>1. Init => LingerArmedWhileOpen
  BY DEF Init, LingerArmedWhileOpen
<1>2. ASSUME TypeInv, LingerArmedWhileOpen, [Next]_vars PROVE LingerArmedWhileOpen'
  <2>1. CASE ~BatcherStep
    BY <1>2, <2>1, BatcherOwns DEF LingerArmedWhileOpen
  <2>2. CASE HandOver
    BY <2>2 DEF HandOver, LingerArmedWhileOpen
  <2>3. CASE UNCHANGED <<current, armed>>
    BY <1>2, <2>3 DEF LingerArmedWhileOpen
  <2>4. CASE AddReceived
    <3>1. current.subs \in Seq(Subs) /\ hand \in Seq(Subs) /\ hand # <<>>
      BY <1>2, <2>4 DEF TypeInv, OpenType, Batch, HandInv, AddReceived, At
    <3>2. current'.subs = Append(current.subs, Head(hand)) /\ Head(hand) \in Subs
      BY <2>4, <3>1 DEF AddReceived, AddSubmission
    <3>3. current'.subs # <<>>
      BY <3>1, <3>2, AppendProperties
    <3>4. current' # NoBatch
      BY <3>3, NoBatchUploadable
    <3>5. armed' = TRUE
      BY <1>2, <2>4 DEF AddReceived, LingerArmedWhileOpen
    <3> QED
      BY <3>4, <3>5 DEF LingerArmedWhileOpen
  <2> QED
    BY <2>1, <2>2, <2>3, <2>4, SendsBatch DEF BatcherStep, Receive, TrySendLingered,
       IntakeEnds, openVars
<1> QED
  BY <1>1, <1>2, InitType, TypeStep, PTL DEF Spec

-----------------------------------------------------------------------------
(* The limit on upload bodies: a submission that does not fit a body of    *)
(* its own never gets past send_internal, and the batcher hands over the   *)
(* open batch before the next submission would overflow it.                *)

\* Everything past the size check fits.
FitInv ==
    /\ \A s \in Subs : call[s] \in {"clone", "waiting"} => s \in Fitting
    /\ chan \in Seq(Fitting) /\ hand \in Seq(Fitting)

\* The open batch has room for the submission that is about to be added.
RoomInv ==
    /\ current \in Uploadable
    /\ current.subs = <<>> => current = NoBatch
    /\ batcher = "add" => ~Overflows(Head(hand))

\* What has left the batcher is within the limit.
OutInv == out \in Seq(Uploadable) /\ \A t \in Tasks : job[t].batch \in Uploadable

LEMMA InitFits == Init => FitInv /\ RoomInv /\ OutInv
<1> SUFFICES ASSUME Init PROVE FitInv /\ RoomInv /\ OutInv
  OBVIOUS
<1>1. <<>> \in Seq(Fitting) /\ <<>> \in Seq(Uploadable)
  OBVIOUS
<1>2. FitInv
  BY <1>1 DEF Init, FitInv
<1>3. RoomInv
  BY NoBatchUploadable DEF Init, RoomInv
<1>4. OutInv
  BY <1>1, NoBatchUploadable DEF Init, OutInv, Idle
<1> QED
  BY <1>2, <1>3, <1>4

LEMMA FitStep == ASSUME TypeInv, FitInv, [Next]_vars PROVE FitInv'
<1>1. chan \in Seq(Fitting) /\ hand \in Seq(Fitting) /\ call \in [Subs -> CallStates]
  BY DEF FitInv, TypeInv, CallerType
<1>2. ASSUME NEW s \in Subs, SendStep(s) PROVE FitInv'
  <2>1. hand' = hand
    BY <1>2 DEF SendStep, Send, CloneTx, Enqueue, EnqueueFails, CancelSend, CallerOnly, openVars
  <2>2. CASE Enqueue(s)
    <3>1. s \in Fitting /\ chan' = Append(chan, s)
      BY <2>2 DEF Enqueue, FitInv
    <3>2. chan' \in Seq(Fitting)
      BY <1>1, <3>1, AppendProperties
    <3> QED
      BY <1>1, <2>1, <2>2, <3>2 DEF FitInv, Enqueue, Goto
  <2>3. CASE Send(s)
    <3>1. chan' = chan
      BY <2>3 DEF Send, CallerOnly
    <3>2. \/ Goto(s, "rejected")
          \/ Goto(s, "clone") /\ ~(StandaloneSize(s) > BatchBytes)
      BY <2>3 DEF Send
    <3>3. ~(StandaloneSize(s) > BatchBytes) => s \in Fitting
      BY SizesType DEF Fitting
    <3> QED
      BY <1>1, <2>1, <3>1, <3>2, <3>3 DEF FitInv, Goto
  <2>4. CASE CloneTx(s) \/ EnqueueFails(s) \/ CancelSend(s)
    <3>1. chan' = chan
      BY <2>4 DEF CloneTx, EnqueueFails, CancelSend, CallerOnly
    <3> QED
      BY <1>1, <2>1, <2>4, <3>1 DEF FitInv, Goto, CloneTx, EnqueueFails, CancelSend
  <2> QED
    BY <1>2, <2>2, <2>3, <2>4 DEF SendStep
<1>3. CASE BatcherStep /\ call' = call
  <2>1. CASE Receive
    <3>1. chan # <<>> /\ chan' = Tail(chan) /\ hand' = <<Head(chan)>>
      BY <2>1 DEF Receive
    <3>2. Head(chan) \in Fitting /\ Tail(chan) \in Seq(Fitting)
      BY <1>1, <3>1
    <3>3. <<Head(chan)>> \in Seq(Fitting)
      BY <3>2
    <3> QED
      BY <1>3, <3>1, <3>2, <3>3 DEF FitInv
  <2>2. CASE AddReceived
    <3>1. <<>> \in Seq(Fitting)
      OBVIOUS
    <3> QED
      BY <1>3, <2>2, <3>1 DEF FitInv, AddReceived
  <2>3. CASE SendBatch \/ TrySendLingered \/ IntakeEnds
    BY <1>3, <2>3 DEF FitInv, SendBatch, TrySendLingered, IntakeEnds, openVars
  <2> QED
    BY <1>3, <2>1, <2>2, <2>3 DEF BatcherStep
<1>4. CASE ~BatcherStep /\ call' = call /\ chan' = chan
  BY <1>4, BatcherOwns DEF FitInv
<1> QED
  BY <1>2, <1>3, <1>4, WhoSends

LEMMA RoomStep == ASSUME TypeInv, FitInv, RoomInv, [Next]_vars PROVE RoomInv'
<1>1. CASE ~BatcherStep
  BY <1>1, BatcherOwns DEF RoomInv, Overflows
<1>2. CASE Receive
  <2>1. /\ current' = current /\ Head(hand') = Head(chan)
        /\ batcher' = "add" => ~Overflows(Head(chan))
    BY <1>2 DEF Receive
  <2> QED
    BY <2>1 DEF RoomInv, Overflows
<1>3. CASE current' = NoBatch
  BY <1>3, NoBatchUploadable DEF RoomInv, Overflows
<1>4. CASE batcher' # "add" /\ current' = current
  BY <1>4 DEF RoomInv
<1>5. CASE AddReceived
  <2> DEFINE s == Head(hand)
  <2>1. /\ batcher = "add" /\ current' = AddSubmission(current, s)
        /\ batcher' \in {"full", "select"}
    BY <1>5 DEF AddReceived, At
  <2>2. hand # <<>> /\ hand \in Seq(Fitting)
    BY <2>1 DEF TypeInv, HandInv, FitInv
  <2>3. s \in Subs /\ StandaloneSize(s) <= BatchBytes
    BY <2>2 DEF Fitting
  <2>4. current \in Batch /\ current.subs \in Seq(Subs) /\ BatchBytes \in Nat
    BY BatchingAssumption DEF RoomInv, Uploadable, Batch
  <2>5. current' \in Batch /\ current'.bytes \in Nat
    BY <2>1, <2>3, <2>4, BatchTypes DEF Batch
  <2>6. current'.subs = Append(current.subs, s)
    BY <2>1 DEF AddSubmission
  <2>7. current'.subs # <<>>
    BY <2>3, <2>4, <2>6
  <2>8. Exact(current')
    BY <2>1, <2>3, <2>4, AddExact DEF RoomInv, Uploadable
  <2>9. CASE current.subs = <<>>
    <3>1. current'.bytes = StandaloneSize(s)
      BY <2>1, <2>9 DEF AddSubmission
    <3> QED
      BY <2>1, <2>3, <2>5, <2>7, <2>8, <3>1 DEF RoomInv, Uploadable
  <2>10. CASE current.subs # <<>>
    <3>1. current # NoBatch
      BY <2>10 DEF NoBatch
    <3>2. /\ current'.bytes = current.bytes + AppendSize(s)
          /\ ~(current.bytes + AppendSize(s) > BatchBytes)
      BY <2>1, <2>10, <3>1 DEF AddSubmission, Overflows, RoomInv
    <3>3. current'.bytes <= BatchBytes
      BY <2>4, <2>5, <3>2
    <3> QED
      BY <2>1, <2>5, <2>7, <2>8, <3>3 DEF RoomInv, Uploadable
  <2> QED
    BY <2>9, <2>10
<1>6. CASE SendBatch
  BY <1>3, <1>6 DEF SendBatch, HandOver
<1>7. CASE TrySendLingered
  BY <1>3, <1>4, <1>7 DEF TrySendLingered, HandOver, At
<1>8. CASE IntakeEnds
  BY <1>4, <1>8 DEF IntakeEnds, openVars
<1> QED
  BY <1>1, <1>2, <1>5, <1>6, <1>7, <1>8 DEF BatcherStep

LEMMA SetJobUploadable ==
  ASSUME OutInv, WorkType, NEW t \in Tasks, NEW j, j.batch \in Uploadable, SetJob(t, j)
  PROVE  \A u \in Tasks : job'[u].batch \in Uploadable
  BY DEF OutInv, WorkType, SetJob

LEMMA OutStep == ASSUME TypeInv, RoomInv, OutInv, [Next]_vars PROVE OutInv'
<1>1. /\ out \in Seq(Uploadable) /\ current \in Uploadable /\ NoBatch \in Uploadable /\ WorkType
      /\ \A t \in Tasks : job[t].batch \in Uploadable /\ job[t] \in Job
  BY NoBatchUploadable, JobType DEF OutInv, RoomInv, TypeInv
<1>2. CASE HandOver
  <2>1. CASE out' = Append(out, current) /\ job' = job
    <3>1. out' \in Seq(Uploadable)
      BY <1>1, <2>1, AppendProperties
    <3> QED
      BY <1>1, <2>1, <3>1 DEF OutInv
  <2>2. CASE SetJob(Batcher, Completing(current)) /\ out' = out
    <3>1. Completing(current).batch \in Uploadable
      BY <1>1 DEF Completing
    <3>2. \A t \in Tasks : job'[t].batch \in Uploadable
      BY <1>1, <2>2, <3>1, SetJobUploadable, BatcherTask
    <3> QED
      BY <1>1, <2>2, <3>2 DEF OutInv
  <2> QED
    BY <1>2, <2>1, <2>2, HandsOver
<1>3. ASSUME NEW w \in Workers, WorkerStep(w) PROVE OutInv'
  <2>1. w \in Tasks
    BY BatcherTask
  <2>2. CASE TakeBatch(w)
    <3>1. /\ out # <<>> /\ out' = Tail(out)
          /\ SetJob(w, [phase |-> "deliver", batch |-> Head(out), next |-> 0])
      BY <2>2 DEF TakeBatch
    <3>2. Head(out) \in Uploadable /\ out' \in Seq(Uploadable)
      BY <1>1, <3>1
    <3> QED
      BY <1>1, <2>1, <3>1, <3>2, SetJobUploadable DEF OutInv
  <2>3. CASE LockReceiver(w) \/ ExitWorker(w) \/ Delivered(w) \/ RetryLogPanics(w)
    <3>1. out' = out \/ out' = <<>>
      BY <2>3 DEF LockReceiver, ExitWorker, Delivered, RetryLogPanics, Panic
    <3>2. \E j : j.batch \in Uploadable /\ SetJob(w, j)
      BY <1>1, <2>1, <2>3
         DEF LockReceiver, ExitWorker, Delivered, RetryLogPanics, Panic, Idle, Job
    <3>3. out' \in Seq(Uploadable)
      <4>1. <<>> \in Seq(Uploadable)
        OBVIOUS
      <4> QED
        BY <1>1, <3>1, <4>1
    <3> QED
      BY <1>1, <2>1, <3>2, <3>3, SetJobUploadable DEF OutInv
  <2> QED
    BY <1>3, <2>2, <2>3 DEF WorkerStep, Worker
<1>4. ASSUME NEW t \in Tasks, CompleteBatch(t) PROVE OutInv'
  <2>1. out' = out \/ out' = <<>>
    BY <1>4 DEF CompleteBatch, CompleteHandle, HandlesCompleted, RunCallback, CallbacksDone,
                Panic
  <2>2. \E j : j.batch \in Uploadable /\ SetJob(t, j)
    BY <1>1, <1>4 DEF CompleteBatch, CompleteHandle, HandlesCompleted, RunCallback,
                      CallbacksDone, Panic, Idle, Job
  <2>3. out' \in Seq(Uploadable)
    <3>1. <<>> \in Seq(Uploadable)
      OBVIOUS
    <3> QED
      BY <1>1, <2>1, <3>1
  <2> QED
    BY <1>1, <2>2, <2>3, SetJobUploadable DEF OutInv
<1>5. CASE UNCHANGED <<out, job>>
  BY <1>5 DEF OutInv
<1> QED
  BY <1>2, <1>3, <1>4, <1>5, WhoWorks DEF SendBatch, TrySendLingered

LEMMA Fits == Spec => [](TypeInv /\ FitInv /\ RoomInv /\ OutInv)
  BY InitType, InitFits, TypeStep, FitStep, RoomStep, OutStep, PTL DEF Spec

\* Whatever the sizes of the records, in both formats, no upload body of the
\* tokio client exceeds batch_bytes (async_client.rs 680-695, 792-821).
THEOREM BatchWithinLimitAlways == Spec => []BatchWithinLimit
<1>1. RoomInv /\ OutInv => BatchWithinLimit
  BY DEF RoomInv, OutInv, BatchWithinLimit, Batches, Uploadable
<1> QED
  BY <1>1, Fits, PTL

\* As SyncClient!ByteSizeExact.
ByteSizeExact == \A b \in Batches \ {NoBatch} : b.bytes = EncodedSize(b.subs)

\* The byte_size on which every decision of the tokio client is taken is the
\* length of the body that encode_body writes (async_client.rs 792-821,
\* queue.rs 22-137).
THEOREM ByteSizeExactAlways == Spec => []ByteSizeExact
<1>1. RoomInv /\ OutInv => ByteSizeExact
  <2> SUFFICES ASSUME RoomInv, OutInv, NEW b \in Batches PROVE Exact(b)
    BY DEF ByteSizeExact, Exact
  <2> QED
    BY DEF RoomInv, OutInv, Batches, Uploadable
<1> QED
  BY <1>1, Fits, PTL

-----------------------------------------------------------------------------
(* The order of the intake path.                                           *)

LEMMA PipelineTypes ==
  ASSUME TypeInv
  PROVE  /\ sent \in Seq(Subs) /\ current.subs \in Seq(Subs) /\ hand \in Seq(Subs)
         /\ Len(hand) <= 1 /\ chan \in Seq(Subs)
         /\ sent \o current.subs \in Seq(Subs)
         /\ sent \o current.subs \o hand \in Seq(Subs)
<1>1. /\ sent \in Seq(Subs) /\ current.subs \in Seq(Subs) /\ hand \in Seq(Subs)
      /\ Len(hand) <= 1 /\ chan \in Seq(Subs)
  BY DEF TypeInv, OpenType, Batch, ChanType
<1>2. sent \o current.subs \in Seq(Subs)
  BY <1>1, ConcatProperties
<1>3. sent \o current.subs \o hand \in Seq(Subs)
  BY <1>1, <1>2, ConcatProperties
<1> QED
  BY <1>1, <1>2, <1>3

LEMMA InitFifo == Init => PipelineFIFO
<1> SUFFICES ASSUME Init PROVE PipelineFIFO
  OBVIOUS
<1>1. <<>> \o <<>> \o <<>> \o <<>> = <<>>
  BY ConcatEmptySeq, EmptySeq
<1> QED
  BY <1>1, NoBatchUploadable DEF Init, PipelineFIFO

LEMMA FifoStep == ASSUME TypeInv, PipelineFIFO, [Next]_vars PROVE PipelineFIFO'
<1> DEFINE front == sent \o current.subs
<1>1. /\ sent \in Seq(Subs) /\ current.subs \in Seq(Subs) /\ hand \in Seq(Subs)
      /\ Len(hand) <= 1 /\ chan \in Seq(Subs) /\ front \in Seq(Subs)
      /\ front \o hand \in Seq(Subs) /\ accepted = front \o hand \o chan
  BY PipelineTypes DEF PipelineFIFO
<1>2. ASSUME NEW s \in Subs, Enqueue(s) PROVE PipelineFIFO'
  <2>1. /\ accepted' = Append(accepted, s) /\ chan' = Append(chan, s)
        /\ UNCHANGED <<hand, current, sent>>
    BY <1>2 DEF Enqueue, openVars
  <2> DEFINE ahead == front \o hand
  <2>2. ahead \in Seq(Subs) /\ accepted = ahead \o chan
    BY <1>1
  <2> HIDE DEF ahead
  <2>3. ahead \o Append(chan, s) = Append(ahead \o chan, s)
    BY <1>1, <2>2, AppendToConcat
  <2> QED
    BY <2>1, <2>2, <2>3 DEF PipelineFIFO, ahead
<1>3. CASE Receive
  <2>1. /\ chan # <<>> /\ hand = <<>> /\ hand' = <<Head(chan)>> /\ chan' = Tail(chan)
        /\ UNCHANGED <<accepted, sent, current>>
    BY <1>3 DEF Receive, At, TypeInv, HandInv, callerVars
  <2> HIDE DEF front
  <2>2. Head(chan) \in Subs /\ front \o hand = front
    BY <1>1, <2>1, EmptyToConcat
  <2>3. front \o chan = Append(front, Head(chan)) \o Tail(chan)
    BY <1>1, <2>1, MoveOne
  <2>4. front \o <<Head(chan)>> = Append(front, Head(chan))
    BY <1>1, <2>2, AppendIsConcat
  <2>5. accepted' = front \o hand' \o chan'
    BY <1>1, <2>1, <2>2, <2>3, <2>4
  <2> QED
    BY <2>1, <2>5 DEF PipelineFIFO, front
<1>4. CASE AddReceived
  <2>1. /\ hand # <<>> /\ hand' = <<>> /\ UNCHANGED <<accepted, sent, chan>>
        /\ current'.subs = Append(current.subs, Head(hand))
    BY <1>4 DEF AddReceived, AddSubmission, At, TypeInv, HandInv, callerVars
  <2>2. Head(hand) \in Subs /\ Tail(hand) = <<>>
    BY <1>1, <2>1
  <2>3. sent \o current'.subs = Append(front, Head(hand))
    BY <1>1, <2>1, <2>2, AppendToConcat
  <2>4. front \o hand = Append(front, Head(hand)) \o <<>>
    <3> HIDE DEF front
    <3> QED
      BY <1>1, <2>1, <2>2, MoveOne
  <2> QED
    BY <1>1, <2>1, <2>3, <2>4 DEF PipelineFIFO
<1>5. CASE HandOver /\ UNCHANGED <<accepted, hand, chan>>
  <2>1. sent' = front /\ current'.subs = <<>>
    BY <1>5, NoBatchUploadable DEF HandOver
  <2>2. sent' \o current'.subs = front
    BY <1>1, <2>1, EmptyToConcat
  <2> QED
    BY <1>1, <1>5, <2>2 DEF PipelineFIFO
<1>6. CASE SendBatch \/ TrySendLingered
  <2>1. /\ UNCHANGED <<accepted, hand, chan>>
        /\ HandOver \/ UNCHANGED <<sent, current>>
    BY <1>6 DEF SendBatch, TrySendLingered, callerVars
  <2> QED
    BY <1>5, <2>1 DEF PipelineFIFO
<1>7. CASE IntakeEnds
  BY <1>7 DEF IntakeEnds, callerVars, openVars, PipelineFIFO
<1>8. CASE ~BatcherStep /\ UNCHANGED <<accepted, chan>>
  BY <1>8, BatcherOwns DEF PipelineFIFO
<1>9. ASSUME NEW s \in Subs, SendStep(s), ~Enqueue(s) PROVE UNCHANGED <<accepted, chan>>
  BY <1>9 DEF SendStep, Send, CloneTx, EnqueueFails, CancelSend, CallerOnly
<1> QED
  BY <1>2, <1>3, <1>4, <1>6, <1>7, <1>8, <1>9, WhoSends DEF BatcherStep

\* Submissions leave the tokio client's batcher in the order in which the
\* intake accepted them; none is lost, duplicated or overtaken, also when the
\* received one overflows the open batch, and whichever branch select! takes
\* (async_client.rs 704-719, 773-883).
THEOREM PipelineFIFOAlways == Spec => []PipelineFIFO
  BY InitType, TypeStep, InitFifo, FifoStep, PTL DEF Spec

-----------------------------------------------------------------------------
(* Nothing is lost on the way to the workers.                              *)

\* The handle, or the callback, of s is still to be dealt with in job j.
HandleIn(s, j) ==
    \/ j.phase \in {"deliver", "panicked"} /\ s \in ToSet(j.batch.subs)
    \/ j.phase = "complete" /\ \E i \in j.next .. Len(j.batch.subs) : j.batch.subs[i] = s
CallIn(s, j) ==
    \/ j.phase \in {"deliver", "complete", "panicked"} /\ s \in ToSet(j.batch.subs)
    \/ j.phase = "callback" /\ \E i \in j.next .. Len(j.batch.subs) : j.batch.subs[i] = s

HandleKept(s) ==
    s \in done \/ s \in Queued \/ s \in discarded \/ \E t \in Tasks : HandleIn(s, job[t])
CallKept(s) ==
    s \in WithCallback =>
        s \in called \/ s \in Queued \/ s \in discarded \/ \E t \in Tasks : CallIn(s, job[t])

\* What has left the batcher is not forgotten.
KeptInv == \A s \in ToSet(sent) : HandleKept(s) /\ CallKept(s)

LEMMA QueuedAfterAppend ==
  ASSUME OutType, NEW b \in Batch, out' = Append(out, b)
  PROVE  Queued \cup ToSet(b.subs) \subseteq Queued'
<1>1. /\ out \in Seq(Batch) /\ Len(out) \in Nat /\ DOMAIN out = 1 .. Len(out)
  BY LenProperties DEF OutType
<1>2. /\ out' \in Seq(Batch) /\ Len(out') = Len(out) + 1
      /\ \A i \in 1 .. Len(out) : out'[i] = out[i]
      /\ out'[Len(out) + 1] = b
  BY <1>1, AppendProperties
<1>3. DOMAIN out' = 1 .. Len(out) + 1
  BY <1>2, LenProperties
<1>4. /\ \A i \in DOMAIN out : i \in DOMAIN out' /\ out'[i] = out[i]
      /\ Len(out) + 1 \in DOMAIN out'
  BY <1>1, <1>2, <1>3
<1> QED
  BY <1>2, <1>4 DEF Queued

LEMMA QueuedAfterTail ==
  ASSUME OutType, out # <<>>, out' = Tail(out)
  PROVE  Queued \subseteq Queued' \cup ToSet(Head(out).subs)
<1>1. /\ out \in Seq(Batch) /\ Len(out) \in Nat /\ DOMAIN out = 1 .. Len(out)
      /\ Head(out) = out[1]
  BY LenProperties DEF OutType
<1>2. /\ out' \in Seq(Batch) /\ Len(out') = Len(out) - 1
      /\ \A i \in 1 .. Len(out') : out'[i] = out[i + 1]
  BY <1>1, HeadTailProperties
<1>3. DOMAIN out' = 1 .. Len(out')
  BY <1>2, LenProperties
<1>4. ASSUME NEW i \in DOMAIN out, i # 1
      PROVE  i - 1 \in DOMAIN out' /\ out'[i - 1] = out[i]
  <2>1. i - 1 \in 1 .. Len(out') /\ (i - 1) + 1 = i
    BY <1>1, <1>2, <1>4
  <2> QED
    BY <1>2, <1>3, <2>1
<1> QED
  BY <1>1, <1>4 DEF Queued

\* It is enough to look at the job that changes.
LEMMA JobKeeps ==
  ASSUME WorkType, NEW t \in Tasks, NEW j, SetJob(t, j), NEW s,
         done \subseteq done', called \subseteq called', discarded \subseteq discarded',
         s \in Queued => s \in Queued' \cup discarded' \/ (HandleIn(s, j) /\ CallIn(s, j)),
         HandleIn(s, job[t]) => HandleIn(s, j) \/ s \in done',
         s \in WithCallback /\ CallIn(s, job[t]) => CallIn(s, j) \/ s \in called',
         HandleKept(s), CallKept(s)
  PROVE  HandleKept(s)' /\ CallKept(s)'
<1>1. job'[t] = j /\ \A u \in Tasks : u # t => job'[u] = job[u]
  BY DEF SetJob, WorkType
<1>2. HandleKept(s)'
  BY <1>1 DEF HandleKept
<1>3. CallKept(s)'
  BY <1>1 DEF CallKept
<1> QED
  BY <1>2, <1>3

LEMMA KeptStep == ASSUME TypeInv, KeptInv, [Next]_vars PROVE KeptInv'
<1>1. /\ WorkType /\ OutType /\ sent \in Seq(Subs) /\ current \in Batch
      /\ current.subs \in Seq(Subs)
  BY PipelineTypes DEF TypeInv, OpenType
<1>2. ASSUME UNCHANGED <<sent, out, job, done, called, discarded>> PROVE KeptInv'
  <2>1. Queued' = Queued
    BY <1>2 DEF Queued
  <2> QED
    BY <1>2, <2>1 DEF KeptInv, HandleKept, CallKept
<1>3. CASE HandOver /\ job[Batcher].phase = "none" /\ UNCHANGED <<done, called, discarded>>
  <2>1. ToSet(sent') \subseteq ToSet(sent) \cup ToSet(current.subs)
    BY <1>1, <1>3, HandsOver, ElementsOfConcat
  <2>2. job[Batcher].phase = "none"
    BY <1>3 DEF At
  <2>3. CASE SetJob(Batcher, Completing(current)) /\ out' = out
    <3> DEFINE j == Completing(current)
    <3>1. job'[Batcher] = j /\ Batcher \in Tasks
      BY <1>1, <2>3, BatcherTask DEF SetJob, WorkType
    <3>2. Queued' = Queued
      BY <2>3 DEF Queued
    <3>3. ASSUME NEW s \in ToSet(sent) PROVE HandleKept(s)' /\ CallKept(s)'
      <4>1. ~HandleIn(s, job[Batcher]) /\ ~CallIn(s, job[Batcher])
        BY <2>2 DEF HandleIn, CallIn
      <4> HIDE DEF j
      <4> QED
        BY <1>1, <1>3, <2>3, <3>1, <3>2, <4>1, JobKeeps DEF KeptInv, j
    <3>4. ASSUME NEW s \in ToSet(current.subs) PROVE HandleKept(s)' /\ CallKept(s)'
      <4>1. DOMAIN current.subs = 1 .. Len(current.subs)
        BY <1>1, LenProperties
      <4>2. HandleIn(s, j) /\ CallIn(s, j)
        BY <4>1 DEF HandleIn, CallIn, Completing, ToSet
      <4> QED
        BY <3>1, <4>2 DEF HandleKept, CallKept
    <3> QED
      BY <2>1, <3>3, <3>4 DEF KeptInv
  <2>4. CASE out' = Append(out, current) /\ job' = job
    <3>1. Queued \cup ToSet(current.subs) \subseteq Queued'
      BY <1>1, <2>4, QueuedAfterAppend
    <3> QED
      BY <1>3, <2>1, <2>4, <3>1 DEF KeptInv, HandleKept, CallKept
  <2> QED
    BY <1>3, <2>3, <2>4, HandsOver
<1>4. ASSUME NEW w \in Workers, WorkerStep(w) PROVE KeptInv'
  <2>1. /\ w \in Tasks /\ sent' = sent /\ done' = done /\ called' = called
        /\ discarded \subseteq discarded'
    BY <1>4, BatcherTask DEF WorkerStep, Worker, LockReceiver, TakeBatch, ExitWorker,
                             Delivered, RetryLogPanics, Panic, WorkOnly
  <2> SUFFICES ASSUME NEW s \in ToSet(sent), HandleKept(s), CallKept(s)
               PROVE  HandleKept(s)' /\ CallKept(s)'
    BY <2>1 DEF KeptInv
  <2>2. CASE TakeBatch(w)
    <3> DEFINE j == [phase |-> "deliver", batch |-> Head(out), next |-> 0]
    <3>1. SetJob(w, j) /\ out # <<>> /\ out' = Tail(out) /\ job[w].phase = "receiving"
      BY <2>2 DEF TakeBatch
    <3>2. ~HandleIn(s, job[w]) /\ ~CallIn(s, job[w])
      BY <3>1 DEF HandleIn, CallIn
    <3>3. s \in Queued => s \in Queued' \/ s \in ToSet(Head(out).subs)
      BY <1>1, <3>1, QueuedAfterTail
    <3>4. s \in Queued => s \in Queued' \/ (HandleIn(s, j) /\ CallIn(s, j))
      BY <3>3 DEF HandleIn, CallIn
    <3> HIDE DEF j
    <3> QED
      BY <1>1, <2>1, <3>1, <3>2, <3>4, JobKeeps
  <2>3. CASE LockReceiver(w) \/ ExitWorker(w) \/ Delivered(w) \/ RetryLogPanics(w)
    <3>1. Queued \subseteq Queued' \cup discarded'
      BY <2>3 DEF LockReceiver, ExitWorker, Delivered, RetryLogPanics, Panic, Queued
    <3>2. job[w] \in Job /\ DOMAIN job[w].batch.subs = 1 .. Len(job[w].batch.subs)
      BY <1>1, <2>1, JobType, LenProperties
    <3>3. CASE LockReceiver(w) \/ ExitWorker(w)
      <4>1. ~HandleIn(s, job[w]) /\ ~CallIn(s, job[w]) /\ \E j : SetJob(w, j)
        BY <3>3 DEF LockReceiver, ExitWorker, HandleIn, CallIn
      <4> QED
        BY <1>1, <2>1, <3>1, <4>1, JobKeeps
    <3>4. CASE Delivered(w)
      <4> DEFINE j == Completing(job[w].batch)
      <4>1. SetJob(w, j) /\ job[w].phase = "deliver"
        BY <3>4 DEF Delivered, Completing
      <4>2. HandleIn(s, job[w]) => HandleIn(s, j)
        BY <3>2, <4>1 DEF HandleIn, Completing, ToSet
      <4>3. CallIn(s, job[w]) => CallIn(s, j)
        BY <4>1 DEF CallIn, Completing
      <4> HIDE DEF j
      <4> QED
        BY <1>1, <2>1, <3>1, <4>1, <4>2, <4>3, JobKeeps
    <3>5. CASE RetryLogPanics(w)
      <4> DEFINE j == [job[w] EXCEPT !.phase = "panicked"]
      <4>1. SetJob(w, j) /\ job[w].phase = "deliver"
        BY <3>5 DEF RetryLogPanics, Panic
      <4>2. j.phase = "panicked" /\ j.batch = job[w].batch
        BY <3>2 DEF Job
      <4> HIDE DEF j
      <4>3. /\ HandleIn(s, job[w]) => HandleIn(s, j)
            /\ CallIn(s, job[w]) => CallIn(s, j)
        BY <4>1, <4>2 DEF HandleIn, CallIn
      <4> QED
        BY <1>1, <2>1, <3>1, <4>1, <4>3, JobKeeps
    <3> QED
      BY <2>3, <3>3, <3>4, <3>5
  <2> QED
    BY <1>4, <2>2, <2>3 DEF WorkerStep, Worker
<1>5. ASSUME NEW t \in Tasks, CompleteBatch(t) PROVE KeptInv'
  <2>1. /\ sent' = sent /\ done \subseteq done' /\ called \subseteq called'
        /\ discarded \subseteq discarded'
    BY <1>5 DEF CompleteBatch, CompleteHandle, HandlesCompleted, RunCallback, CallbacksDone,
                Panic, WorkOnly
  <2>2. Queued \subseteq Queued' \cup discarded'
    BY <1>5 DEF CompleteBatch, CompleteHandle, HandlesCompleted, RunCallback, CallbacksDone,
                Panic, Queued
  <2> SUFFICES ASSUME NEW s \in ToSet(sent), HandleKept(s), CallKept(s)
               PROVE  HandleKept(s)' /\ CallKept(s)'
    BY <2>1 DEF KeptInv
  <2> DEFINE before == job[t]
             after == [job[t] EXCEPT !.next = @ + 1]
  <2>3. /\ before \in Job /\ before.next \in Nat /\ CountsFromOne(before)
        /\ before.batch.subs \in Seq(Subs)
        /\ Len(before.batch.subs) \in Nat
        /\ DOMAIN before.batch.subs = 1 .. Len(before.batch.subs)
    BY <1>1, JobType, LenProperties
  <2>4. /\ after.phase = before.phase /\ after.batch = before.batch
        /\ after.next = before.next + 1
    BY <2>3 DEF Job
  <2>5. \A i \in before.next .. Len(before.batch.subs) :
            i = before.next \/ i \in after.next .. Len(before.batch.subs)
    BY <2>3, <2>4
  <2>6. CASE CompleteHandle(t)
    <3>1. /\ SetJob(t, after) /\ before.phase = "complete"
          /\ before.batch.subs[before.next] \in done'
      BY <2>6 DEF CompleteHandle
    <3> HIDE DEF before, after
    <3>2. HandleIn(s, before) => HandleIn(s, after) \/ s \in done'
      BY <2>4, <2>5, <3>1 DEF HandleIn
    <3>3. CallIn(s, before) => CallIn(s, after)
      BY <2>4, <3>1 DEF CallIn
    <3> QED
      BY <1>1, <2>1, <2>2, <3>1, <3>2, <3>3, JobKeeps DEF before
  <2>7. CASE HandlesCompleted(t)
    <3> DEFINE j == IF HasCallback(before.batch)
                    THEN [before EXCEPT !.phase = "callback", !.next = 1] ELSE Idle
    <3>1. SetJob(t, j) /\ before.phase = "complete" /\ before.next > Len(before.batch.subs)
      BY <2>7 DEF HandlesCompleted
    <3>2. ~HandleIn(s, before)
      <4> HIDE DEF before
      <4> QED
        BY <2>3, <3>1 DEF HandleIn
    <3>3. s \in WithCallback /\ CallIn(s, before) => CallIn(s, j)
      <4> SUFFICES ASSUME s \in WithCallback, CallIn(s, before) PROVE CallIn(s, j)
        OBVIOUS
      <4>1. PICK i \in 1 .. Len(before.batch.subs) : before.batch.subs[i] = s
        BY <2>3, <3>1 DEF CallIn, ToSet
      <4>2. HasCallback(before.batch)
        BY <2>3, <4>1 DEF HasCallback
      <4>3. j.phase = "callback" /\ j.next = 1 /\ j.batch = before.batch
        BY <2>3, <4>2 DEF Job
      <4> HIDE DEF before, j
      <4> QED
        BY <4>1, <4>3 DEF CallIn
    <3> HIDE DEF j
    <3> QED
      BY <1>1, <2>1, <2>2, <3>1, <3>2, <3>3, JobKeeps
  <2>8. CASE RunCallback(t)
    <3> DEFINE dead == [before EXCEPT !.phase = "panicked"]
    <3>1. /\ SetJob(t, after) \/ SetJob(t, dead)
          /\ before.phase = "callback" /\ before.next <= Len(before.batch.subs)
          /\ before.batch.subs[before.next] \in WithCallback
               => before.batch.subs[before.next] \in called'
      BY <2>8 DEF RunCallback, Panic
    <3>2. dead.phase = "panicked" /\ dead.batch = before.batch
      BY <2>3 DEF Job
    <3> HIDE DEF before, after, dead
    <3>3. ~HandleIn(s, before)
      BY <3>1 DEF HandleIn
    <3>4. s \in WithCallback /\ CallIn(s, before) => CallIn(s, after) \/ s \in called'
      BY <2>4, <2>5, <3>1 DEF CallIn
    <3>5. s \in WithCallback /\ CallIn(s, before) => CallIn(s, dead) \/ s \in called'
      <4> SUFFICES ASSUME CallIn(s, before) PROVE CallIn(s, dead) \/ s \in called'
        OBVIOUS
      <4>1. PICK i \in before.next .. Len(before.batch.subs) : before.batch.subs[i] = s
        BY <3>1 DEF CallIn
      <4>2. i \in DOMAIN before.batch.subs
        BY <2>3, <3>1, <4>1 DEF CountsFromOne
      <4> QED
        BY <3>2, <4>1, <4>2 DEF CallIn, ToSet
    <3> QED
      BY <1>1, <2>1, <2>2, <3>1, <3>3, <3>4, <3>5, JobKeeps DEF before
  <2>9. CASE CallbacksDone(t)
    <3>1. SetJob(t, Idle) /\ before.phase = "callback" /\ before.next > Len(before.batch.subs)
      BY <2>9 DEF CallbacksDone
    <3> HIDE DEF before
    <3>2. ~HandleIn(s, before) /\ ~CallIn(s, before)
      BY <2>3, <3>1 DEF HandleIn, CallIn
    <3> QED
      BY <1>1, <2>1, <2>2, <3>1, <3>2, JobKeeps DEF before
  <2> QED
    BY <1>5, <2>6, <2>7, <2>8, <2>9 DEF CompleteBatch
<1> QED
  <2>1. CASE SendBatch \/ TrySendLingered
    <3>1. (HandOver /\ job[Batcher].phase = "none" /\ UNCHANGED <<done, called, discarded>>)
          \/ UNCHANGED <<out, job, done, called, discarded, sent>>
      BY <2>1, SendsBatch DEF TrySendLingered, At
    <3> QED
      BY <1>2, <1>3, <3>1
  <2> QED
    BY <1>2, <1>4, <1>5, <2>1, WhoWorks

LEMMA InitKept == Init => KeptInv
  BY DEF Init, KeptInv, ToSet

LEMMA Kept == Spec => [](TypeInv /\ PipelineFIFO /\ KeptInv)
  BY InitType, InitFifo, InitKept, TypeStep, FifoStep, KeptStep, PTL DEF Spec

-----------------------------------------------------------------------------
(* What close() waits for.                                                 *)

\* The batcher flushes and ends only when the intake is empty and nobody has a
\* sender any more.
EndInv ==
    /\ batcher \in {"flush", "done"} => chan = <<>> /\ Disconnected
    /\ batcher = "done" => current = NoBatch

\* The workers end only after it, when the dispatch channel is empty; close()
\* has awaited whom it says it has.
JoinInv ==
    /\ \A w \in Workers : job[w].phase = "exited" => BatcherGone /\ out = <<>>
    /\ \A c \in Closers : closer[c] \in {"awaitWorkers", "ok"} => At("done")
    /\ \A c \in Closers : closer[c] = "ok" => \A w \in Workers : job[w].phase = "exited"

LEMMA InitEnds == Init => EndInv /\ JoinInv
  BY BatcherTask DEF Init, EndInv, JoinInv, Idle

LEMMA EndStep == ASSUME TypeInv, EndInv, [Next]_vars PROVE EndInv'
<1>1. call \in [Subs -> CallStates]
  BY DEF TypeInv, CallerType
<1>2. ASSUME NEW s \in Subs, SendStep(s) PROVE EndInv'
  <2>1. UNCHANGED <<batcher, current, intakeHeld>>
    BY <1>2 DEF SendStep, Send, CloneTx, Enqueue, EnqueueFails, CancelSend, CallerOnly,
                flagVars, openVars
  <2>2. CASE batcher \in {"flush", "done"}
    <3>1. chan = <<>> /\ ~intakeHeld /\ \A q \in Subs : call[q] # "waiting"
      BY <2>2 DEF EndInv, Disconnected
    <3>2. ~Enqueue(s) /\ ~EnqueueFails(s) /\ ~CancelSend(s)
      BY <3>1 DEF Enqueue, EnqueueFails, CancelSend
    <3>3. chan' = chan /\ \E state : state # "waiting" /\ Goto(s, state)
      BY <1>2, <3>1, <3>2 DEF SendStep, Send, CloneTx, CallerOnly
    <3>4. \A q \in Subs : call'[q] # "waiting"
      BY <1>1, <3>1, <3>3 DEF Goto
    <3> QED
      BY <2>1, <3>1, <3>3, <3>4 DEF EndInv, Disconnected
  <2>3. CASE batcher \notin {"flush", "done"}
    BY <2>1, <2>3 DEF EndInv
  <2> QED
    BY <2>2, <2>3
<1>3. CASE BatcherStep /\ call' = call
  <2>1. call' = call /\ (~intakeHeld => ~intakeHeld')
    BY <1>3, WhoCloses
  <2>2. CASE IntakeEnds
    <3>1. /\ UNCHANGED <<chan, current>> /\ chan = <<>> /\ Disconnected
          /\ batcher' = "done" => current = NoBatch
      BY <2>2 DEF IntakeEnds, openVars
    <3> QED
      BY <2>1, <3>1 DEF EndInv, Disconnected
  <2>3. CASE SendBatch
    <3>1. /\ chan' = chan /\ current' = NoBatch
          /\ batcher' \in {"flush", "done"} => batcher = "flush"
      BY <2>3, SendsBatch, HandsOver DEF At
    <3> QED
      BY <2>1, <3>1 DEF EndInv, Disconnected
  <2>4. CASE Receive \/ AddReceived \/ TrySendLingered
    <3>1. batcher' \notin {"flush", "done"}
      BY <2>4 DEF Receive, AddReceived, TrySendLingered, At
    <3> QED
      BY <3>1 DEF EndInv
  <2> QED
    BY <1>3, <2>2, <2>3, <2>4 DEF BatcherStep
<1>4. CASE ~BatcherStep /\ call' = call /\ chan' = chan
  BY <1>4, BatcherOwns, WhoCloses DEF EndInv, Disconnected
<1> QED
  BY <1>2, <1>3, <1>4, WhoSends

\* A worker starts nothing new once it has ended: who changes a job, and when.
LEMMA WhoseJob ==
  ASSUME TypeInv, [Next]_vars, NEW t \in Tasks, job'[t] # job[t]
  PROVE  \/ t = Batcher /\ job[t].phase = "none" /\ job'[t].phase = "complete"
         \/ t \in Workers /\ WorkerStep(t)
         \/ CompleteBatch(t)
<1>1. WorkType /\ Batcher \in Tasks /\ \A w \in Workers : w \in Tasks
  BY BatcherTask DEF TypeInv
<1>2. ASSUME NEW u \in Tasks, NEW j, SetJob(u, j) PROVE u = t /\ job'[t] = j
  BY <1>1, <1>2 DEF SetJob, WorkType
<1>3. ASSUME NEW w \in Workers, WorkerStep(w) PROVE w = t
  BY <1>1, <1>2, <1>3 DEF WorkerStep, Worker, LockReceiver, TakeBatch, ExitWorker, Delivered,
                          RetryLogPanics, Panic
<1>4. ASSUME NEW u \in Tasks, CompleteBatch(u) PROVE u = t
  BY <1>2, <1>4 DEF CompleteBatch, CompleteHandle, HandlesCompleted, RunCallback, CallbacksDone,
                    Panic
<1>5. CASE SendBatch \/ TrySendLingered
  <2>1. /\ job[Batcher].phase = "none"
        /\ job' = job \/ SetJob(Batcher, Completing(current))
    BY <1>5, SendsBatch, HandsOver DEF TrySendLingered, At
  <2> QED
    BY <1>1, <1>2, <2>1 DEF Completing
<1> QED
  BY <1>3, <1>4, <1>5, WhoWorks

\* A task that has ended stays so.
LEMMA EndedStays ==
  ASSUME TypeInv, [Next]_vars, NEW t \in Tasks, job[t].phase \in {"exited", "panicked"}
  PROVE  job'[t] = job[t]
<1>1. ~CompleteBatch(t)
  BY DEF CompleteBatch, CompleteHandle, HandlesCompleted, RunCallback, CallbacksDone
<1>2. ~WorkerStep(t)
  BY DEF WorkerStep, Worker, LockReceiver, TakeBatch, ExitWorker, Delivered, RetryLogPanics
<1> QED
  BY <1>1, <1>2, WhoseJob

\* Once the batcher task is gone nothing is added to the dispatch channel.
LEMMA GoneStays ==
  ASSUME TypeInv, [Next]_vars, BatcherGone
  PROVE  /\ BatcherGone' /\ (At("done") => At("done")')
         /\ out = <<>> => out' = <<>>
<1>1. Batcher \in Tasks /\ Batcher \notin Workers
  BY BatcherTask
<1>2. ~BatcherStep
  BY SendsBatch DEF BatcherGone, Panicked, BatcherStep, Receive, AddReceived,
                    TrySendLingered, IntakeEnds, At
<1>3. batcher' = batcher
  BY <1>2, BatcherOwns
<1>4. job[Batcher].phase \in {"none", "panicked"}
  BY DEF BatcherGone, Panicked, At
<1>5. out = <<>> => out' = <<>>
  <2>1. ASSUME NEW w \in Workers, WorkerStep(w) PROVE out = <<>> => out' = <<>>
    BY <2>1 DEF WorkerStep, Worker, LockReceiver, TakeBatch, ExitWorker, Delivered,
                RetryLogPanics, Panic
  <2>2. ASSUME NEW t \in Tasks, CompleteBatch(t) PROVE out = <<>> => out' = <<>>
    BY <2>2 DEF CompleteBatch, CompleteHandle, HandlesCompleted, RunCallback, CallbacksDone,
                Panic
  <2> QED
    BY <1>2, <2>1, <2>2, WhoWorks DEF BatcherStep
<1>6. job'[Batcher] = job[Batcher]
  <2>1. ~CompleteBatch(Batcher)
    BY <1>4 DEF CompleteBatch, CompleteHandle, HandlesCompleted, RunCallback, CallbacksDone
  <2>2. UNCHANGED <<out, job, done, called, discarded, sent>> => job'[Batcher] = job[Batcher]
    OBVIOUS
  <2>3. ASSUME NEW w \in Workers, WorkerStep(w) PROVE job'[Batcher] = job[Batcher]
    <3>1. WorkType /\ w \in Tasks /\ \E j : SetJob(w, j)
      BY <2>3, BatcherTask DEF WorkerStep, Worker, LockReceiver, TakeBatch, ExitWorker,
         Delivered, RetryLogPanics, Panic, TypeInv
    <3> QED
      BY <1>1, <3>1 DEF SetJob, WorkType
  <2>4. ASSUME NEW t \in Tasks, CompleteBatch(t) PROVE job'[Batcher] = job[Batcher]
    <3>1. WorkType /\ t # Batcher /\ \E j : SetJob(t, j)
      BY <2>1, <2>4 DEF CompleteBatch, CompleteHandle, HandlesCompleted, RunCallback,
         CallbacksDone, Panic, TypeInv
    <3> QED
      BY <1>1, <3>1 DEF SetJob, WorkType
  <2> QED
    BY <1>2, <2>2, <2>3, <2>4, WhoWorks DEF BatcherStep
<1> QED
  BY <1>3, <1>5, <1>6 DEF BatcherGone, Panicked, At

\* Only ExitWorker ends a worker without a panic.
LEMMA WhoExits ==
  ASSUME TypeInv, [Next]_vars, NEW w \in Workers,
         job[w].phase # "exited", job'[w].phase = "exited"
  PROVE  BatcherGone /\ out = <<>>
<1>1. w \in Tasks /\ w # Batcher /\ job[w] \in Job /\ WorkType
  BY BatcherTask, JobType DEF TypeInv
<1>2. ASSUME NEW j, SetJob(w, j) PROVE j.phase = "exited"
  BY <1>1, <1>2 DEF SetJob, WorkType
<1>3. CASE WorkerStep(w)
  <2> DEFINE dead == [job[w] EXCEPT !.phase = "panicked"]
             locked == [Idle EXCEPT !.phase = "receiving"]
             taken == [phase |-> "deliver", batch |-> Head(out), next |-> 0]
             delivered == [phase |-> "complete", batch |-> job[w].batch, next |-> 1]
  <2>1. /\ dead.phase = "panicked" /\ locked.phase = "receiving"
        /\ taken.phase = "deliver" /\ delivered.phase = "complete"
    BY <1>1 DEF Job, Idle
  <2>2. LockReceiver(w) \/ TakeBatch(w) \/ Delivered(w) \/ RetryLogPanics(w) =>
            SetJob(w, dead) \/ SetJob(w, locked) \/ SetJob(w, taken) \/ SetJob(w, delivered)
    BY DEF LockReceiver, TakeBatch, Delivered, RetryLogPanics, Panic
  <2> HIDE DEF dead, locked, taken, delivered
  <2>3. ~(LockReceiver(w) \/ TakeBatch(w) \/ Delivered(w) \/ RetryLogPanics(w))
    BY <1>2, <2>1, <2>2
  <2> QED
    BY <1>3, <2>3 DEF WorkerStep, Worker, ExitWorker
<1>4. ~CompleteBatch(w)
  <2> DEFINE after   == [job[w] EXCEPT !.next = @ + 1]
             calling == [job[w] EXCEPT !.phase = "callback", !.next = 1]
             dead    == [job[w] EXCEPT !.phase = "panicked"]
  <2>1. /\ after.phase = job[w].phase /\ calling.phase = "callback"
        /\ dead.phase = "panicked" /\ Idle.phase = "none"
    BY <1>1 DEF Job, Idle
  <2>2. CompleteBatch(w) =>
            SetJob(w, after) \/ SetJob(w, calling) \/ SetJob(w, dead) \/ SetJob(w, Idle)
    BY DEF CompleteBatch, CompleteHandle, HandlesCompleted, RunCallback, CallbacksDone, Panic
  <2> HIDE DEF after, calling, dead
  <2> QED
    BY <1>2, <2>1, <2>2
<1> QED
  BY <1>1, <1>3, <1>4, WhoseJob

LEMMA JoinStep == ASSUME TypeInv, JoinInv, [Next]_vars PROVE JoinInv'
<1>1. /\ closer \in [Closers -> CloserStates] /\ \A w \in Workers : w \in Tasks
  BY BatcherTask DEF TypeInv, FlagType
<1>2. ASSUME NEW w \in Workers, job'[w].phase = "exited" PROVE BatcherGone' /\ out' = <<>>
  <2>1. BatcherGone /\ out = <<>>
    BY <1>2, WhoExits DEF JoinInv
  <2> QED
    BY <2>1, GoneStays
<1>3. ASSUME NEW c \in Closers, closer'[c] \in {"awaitWorkers", "ok"}
      PROVE  /\ At("done")'
             /\ closer'[c] = "ok" => \A w \in Workers : job'[w].phase = "exited"
  <2>1. CASE closer'[c] = closer[c]
    <3>1. At("done")'
      BY <1>3, <2>1, GoneStays DEF JoinInv, BatcherGone
    <3>2. closer'[c] = "ok" => \A w \in Workers : job[w].phase = "exited"
      BY <2>1 DEF JoinInv
    <3> QED
      BY <1>1, <3>1, <3>2, EndedStays
  <2>2. CASE closer'[c] # closer[c]
    <3>1. PICK d \in Closers : CloseStep(d)
      BY <2>2, WhoCloses
    <3>2. job' = job /\ batcher' = batcher
      BY <3>1 DEF CloseStep, Close, TakeIntake, AwaitBatcher, AwaitWorkers, CancelClose,
                  CloserOnly, workVars
    <3>3. c = d
      BY <1>1, <2>2, <3>1 DEF CloseStep, Close, TakeIntake, AwaitBatcher, AwaitWorkers,
                              CancelClose, Advance
    <3>4. CASE AwaitBatcher(c)
      <4>1. closer'[c] = "awaitWorkers" /\ At("done")
        BY <1>1, <1>3, <3>4 DEF AwaitBatcher, Advance, BatcherGone
      <4> QED
        BY <3>2, <4>1 DEF At
    <3>5. CASE AwaitWorkers(c)
      <4>1. closer'[c] = "ok" /\ closer[c] = "awaitWorkers"
            /\ \A w \in Workers : job[w].phase = "exited"
        BY <1>1, <1>3, <3>5 DEF AwaitWorkers, Advance
      <4> QED
        BY <3>2, <4>1 DEF At, JoinInv
    <3>6. CASE Close(c) \/ TakeIntake(c) \/ CancelClose(c)
      BY <1>1, <1>3, <3>6 DEF Close, TakeIntake, CancelClose, Advance
    <3> QED
      BY <3>1, <3>3, <3>4, <3>5, <3>6 DEF CloseStep
  <2> QED
    BY <2>1, <2>2
<1> QED
  BY <1>2, <1>3 DEF JoinInv

\* With the last worker task goes the receiver of the dispatch channel and what
\* is queued: nothing is, unless a panic has ended that worker.
GoneInv ==
    /\ WorkersGone => out = <<>>
    /\ discarded # {} => WorkersGone /\ \E w \in Workers : Panicked(w)

LEMMA InitGone == Init => GoneInv
<1>1. ASSUME Init PROVE ~WorkersGone \/ out = <<>>
  BY <1>1 DEF Init
<1> QED
  BY <1>1 DEF Init, GoneInv

LEMMA PanicEnds ==
  ASSUME TypeInv, NEW t \in Tasks, Panic(t)
  PROVE  /\ job'[t].phase = "panicked" /\ \A u \in Tasks \ {t} : job'[u] = job[u]
         /\ LastWorker(t) => t \in Workers /\ WorkersGone'
         /\ t \in Workers /\ WorkersGone' => LastWorker(t)
<1>1. WorkType /\ OutType /\ job[t] \in Job /\ \A w \in Workers : w \in Tasks
  BY JobType, BatcherTask DEF TypeInv
<1>2. /\ job'[t].phase = "panicked" /\ \A u \in Tasks \ {t} : job'[u] = job[u]
  BY <1>1, PanicEffect DEF SetJob, WorkType, Job
<1> QED
  BY <1>1, <1>2 DEF LastWorker, WorkersGone, Ended

\* The phases a task reaches without a panic before it ends.
LEMMA GoesOn ==
  ASSUME TypeInv, NEW t \in Tasks,
         \/ LockReceiver(t) \/ TakeBatch(t) \/ Delivered(t)
         \/ CompleteBatch(t) /\ ~Panic(t)
  PROVE  /\ discarded' = discarded /\ ~Ended(t)
         /\ \A u \in Tasks : Ended(u)' => Ended(u)
         /\ TakeBatch(t) \/ out' = out
<1>1. WorkType /\ job[t] \in Job
  BY JobType DEF TypeInv
<1> DEFINE locked    == [Idle EXCEPT !.phase = "receiving"]
           taken     == [phase |-> "deliver", batch |-> Head(out), next |-> 0]
           delivered == Completing(job[t].batch)
           after     == [job[t] EXCEPT !.next = @ + 1]
           calling   == [job[t] EXCEPT !.phase = "callback", !.next = 1]
<1>2. /\ locked.phase = "receiving" /\ taken.phase = "deliver"
      /\ delivered.phase = "complete" /\ Idle.phase = "none"
      /\ after.phase = job[t].phase /\ calling.phase = "callback"
  BY <1>1 DEF Completing, Idle, Job
<1>3. /\ job[t].phase \in {"none", "receiving", "deliver", "complete", "callback"}
      /\ \/ SetJob(t, locked) \/ SetJob(t, taken) \/ SetJob(t, delivered)
         \/ SetJob(t, after) \/ SetJob(t, calling) \/ SetJob(t, Idle)
  BY DEF LockReceiver, TakeBatch, Delivered, CompleteBatch, CompleteHandle, HandlesCompleted,
         RunCallback, CallbacksDone, Completing
<1>4. discarded' = discarded /\ (TakeBatch(t) \/ out' = out)
  BY DEF LockReceiver, TakeBatch, Delivered, CompleteBatch, CompleteHandle, HandlesCompleted,
         RunCallback, CallbacksDone
<1> HIDE DEF locked, taken, delivered, after, calling
<1>5. PICK j : SetJob(t, j) /\ j.phase \notin {"exited", "panicked"}
  BY <1>2, <1>3
<1>6. job'[t] = j /\ \A u \in Tasks \ {t} : job'[u] = job[u]
  BY <1>1, <1>5 DEF SetJob, WorkType
<1> QED
  BY <1>3, <1>4, <1>5, <1>6 DEF Ended

LEMMA GoneStep == ASSUME TypeInv, GoneInv, [Next]_vars PROVE GoneInv'
<1>1. WorkType /\ OutType /\ Batcher \in Tasks /\ Batcher \notin Workers
      /\ \A w \in Workers : w \in Tasks
  BY BatcherTask DEF TypeInv
<1>2. ASSUME WorkersGone
      PROVE  /\ WorkersGone'
             /\ \A w \in Workers : Panicked(w) => Panicked(w)'
  BY <1>1, <1>2, EndedStays DEF WorkersGone, Ended, Panicked
<1>3. ASSUME NEW t \in Tasks, Panic(t) PROVE GoneInv'
  <2>1. CASE LastWorker(t)
    BY <1>3, <2>1, PanicEnds DEF GoneInv, Panic, Panicked
  <2>2. CASE ~LastWorker(t)
    <3>1. UNCHANGED <<out, discarded>>
      BY <1>3, <2>2 DEF Panic
    <3>2. WorkersGone' => WorkersGone
      BY <1>1, <1>3, <2>2, PanicEnds DEF WorkersGone, Ended
    <3> QED
      BY <1>2, <3>1, <3>2 DEF GoneInv
  <2> QED
    BY <2>1, <2>2
<1>4. ASSUME discarded' = discarded, WorkersGone' => WorkersGone \/ out' = <<>>,
             WorkersGone => out' = out
      PROVE  GoneInv'
  BY <1>2, <1>4 DEF GoneInv
<1>5. CASE UNCHANGED <<out, job, discarded>>
  BY <1>4, <1>5 DEF WorkersGone, Ended
<1>6. CASE SendBatch \/ TrySendLingered
  <2>1. \/ UNCHANGED <<out, job, discarded>>
        \/ /\ discarded' = discarded /\ (WorkersGone => out' = out)
           /\ job' = job \/ SetJob(Batcher, Completing(current))
    BY <1>6, SendsBatch, HandsOver DEF TrySendLingered
  <2>2. \A w \in Workers : job'[w] = job[w]
    BY <1>1, <2>1 DEF SetJob, WorkType
  <2> QED
    BY <1>4, <1>5, <2>1, <2>2 DEF WorkersGone, Ended
<1>7. ASSUME NEW w \in Workers, ExitWorker(w) PROVE GoneInv'
  BY <1>4, <1>7 DEF ExitWorker
<1>8. ASSUME NEW t \in Tasks,
             \/ t \in Workers /\ (LockReceiver(t) \/ TakeBatch(t) \/ Delivered(t))
             \/ CompleteBatch(t) /\ ~Panic(t)
      PROVE  GoneInv'
  <2>1. /\ discarded' = discarded /\ ~Ended(t)
        /\ \A u \in Tasks : Ended(u)' => Ended(u)
        /\ TakeBatch(t) \/ out' = out
    BY <1>8, GoesOn
  <2>2. WorkersGone' => WorkersGone
    BY <1>1, <2>1 DEF WorkersGone
  <2>3. WorkersGone => out' = out
    BY <1>8, <2>1 DEF WorkersGone, CompleteBatch, CompleteHandle, HandlesCompleted,
                      RunCallback, CallbacksDone
  <2> QED
    BY <1>4, <2>1, <2>2, <2>3
<1>9. ASSUME NEW w \in Workers, WorkerStep(w) PROVE GoneInv'
  BY <1>1, <1>3, <1>7, <1>8, <1>9 DEF WorkerStep, Worker, RetryLogPanics
<1> QED
  BY <1>3, <1>5, <1>6, <1>8, <1>9, WhoWorks

\* What close() may conclude.
LEMMA Drains ==
  ASSUME TypeInv, PipelineFIFO, KeptInv, EndInv, JoinInv, GoneInv
  PROVE  CloseDrains
<1> SUFFICES ASSUME NEW c \in Closers, closer[c] = "ok"
             PROVE  /\ ToSet(accepted) \subseteq done
                    /\ ToSet(accepted) \cap WithCallback \subseteq called
  BY DEF CloseDrains
<1>1. At("done") /\ \A w \in Workers : job[w].phase = "exited"
  BY DEF JoinInv
<1>2. chan = <<>> /\ hand = <<>> /\ current.subs = <<>>
  BY <1>1 DEF EndInv, HandInv, TypeInv, At, NoBatch
<1>3. accepted = sent
  BY <1>2, PipelineTypes, EmptyToConcat DEF PipelineFIFO
<1>4. out = <<>>
  <2>1. 1 \in Workers
    BY AsyncClientAssumption DEF Workers
  <2> QED
    BY <1>1, <2>1 DEF JoinInv
<1>5. Queued = {} /\ discarded = {}
  BY <1>1, <1>4 DEF Queued, GoneInv, Panicked
<1>6. \A t \in Tasks : job[t].phase \in {"none", "exited"}
  BY <1>1 DEF At, Tasks
<1>7. \A s, t : t \in Tasks => ~HandleIn(s, job[t]) /\ ~CallIn(s, job[t])
  BY <1>6 DEF HandleIn, CallIn
<1> QED
  BY <1>3, <1>5, <1>7 DEF KeptInv, HandleKept, CallKept

LEMMA Ends == Spec => [](EndInv /\ JoinInv /\ GoneInv)
  BY InitType, InitEnds, InitGone, TypeStep, EndStep, JoinStep, GoneStep, PTL DEF Spec

\* The submissions whose handle task t has still to complete ...
Owed(t) ==
    LET j == job[t] IN
    CASE j.phase = "deliver"  -> ToSet(j.batch.subs)
      [] j.phase = "complete" -> {j.batch.subs[i] : i \in j.next .. Len(j.batch.subs)}
      [] OTHER -> {}

\* ... and those whose callback it has still to invoke.
CallsOwed(t) ==
    LET j == job[t] IN
    IF j.phase = "callback"
    THEN {j.batch.subs[i] : i \in j.next .. Len(j.batch.subs)} \cap WithCallback
    ELSE {}

\* The batches of the tasks a panic has killed, and those that were queued when
\* it killed the last worker.
Lost == discarded \cup UNION {ToSet(job[t].batch.subs) : t \in {u \in Tasks : Panicked(u)}}

\* A submission that has left the batcher is completed, or owed by the task that
\* has its batch, or queued while there is a worker that can take it.  Otherwise
\* a panic has lost it: its own batch, or, if it was the panic of the last
\* worker, all that was queued for one.
NothingLost ==
    /\ ToSet(sent) \subseteq done \cup Queued \cup Lost \cup UNION {Owed(t) : t \in Tasks}
    /\ Queued # {} => ~WorkersGone
    /\ discarded # {} => WorkersGone /\ \E w \in Workers : Panicked(w)

\* Every submission that has left the batcher is completed, or with the task
\* that has its batch, or queued while there is a worker that can take it.
\* Only a panic loses it: the batch of the task it ends, and, when it ends the
\* last worker, all that is queued, because the receiver of the dispatch
\* channel goes with it (async_client.rs 788-1029, 1124-1151).
THEOREM NothingLostAlways == Spec => []NothingLost
<1>1. TypeInv /\ KeptInv /\ GoneInv => NothingLost
  <2> SUFFICES ASSUME TypeInv, KeptInv, GoneInv PROVE NothingLost
    OBVIOUS
  <2>1. ASSUME NEW s, NEW t \in Tasks, HandleIn(s, job[t])
        PROVE  s \in Lost \cup Owed(t)
    <3>1. CASE job[t].phase = "panicked"
      BY <2>1, <3>1 DEF HandleIn, Lost, Panicked
    <3>2. CASE job[t].phase = "deliver"
      BY <2>1, <3>2 DEF HandleIn, Owed
    <3>3. CASE job[t].phase = "complete"
      BY <2>1, <3>3 DEF HandleIn, Owed
    <3> QED
      BY <2>1, <3>1, <3>2, <3>3 DEF HandleIn
  <2>2. ToSet(sent) \subseteq done \cup Queued \cup Lost \cup UNION {Owed(t) : t \in Tasks}
    <3>1. discarded \subseteq Lost
      BY DEF Lost
    <3> QED
      BY <2>1, <3>1 DEF KeptInv, HandleKept
  <2>3. Queued # {} => ~WorkersGone
    BY DEF GoneInv, Queued
  <2>4. discarded # {} => WorkersGone /\ \E w \in Workers : Panicked(w)
    BY DEF GoneInv
  <2> QED
    BY <2>2, <2>3, <2>4 DEF NothingLost
<1> QED
  BY <1>1, Kept, Ends, PTL

\* For any number of send futures, worker tasks and calls of close(): once the
\* close() that does the work has returned Ok, every accepted handle is
\* complete and every callback has run, whichever sends and closes raced with
\* it or were dropped (async_client.rs 632-660, 788-883).
THEOREM CloseDrainsAlways == Spec => []CloseDrains
  BY Drains, Kept, Ends, PTL

-----------------------------------------------------------------------------
(* How the steps move batches.                                             *)

LEMMA Dispatches ==
  ASSUME SendBatch \/ TrySendLingered
  PROVE  /\ UNCHANGED <<done, called>>
         /\ \/ UNCHANGED <<out, job, sent>>
            \/ /\ sent' = sent \o current.subs
               /\ \/ SetJob(Batcher, Completing(current)) /\ out' = out
                  \/ out' = Append(out, current) /\ job' = job
  BY HandsOver DEF SendBatch, TrySendLingered

LEMMA QueuedOneMore ==
  ASSUME OutType, NEW b \in Batch, out' = Append(out, b)
  PROVE  /\ Queued' \subseteq Queued \cup ToSet(b.subs)
         /\ \A i \in DOMAIN out' : \/ i \in DOMAIN out /\ out'[i] = out[i]
                                   \/ i = Len(out) + 1 /\ out'[i] = b
<1>1. /\ out \in Seq(Batch) /\ Len(out) \in Nat /\ DOMAIN out = 1 .. Len(out)
      /\ out' \in Seq(Batch) /\ Len(out') = Len(out) + 1
      /\ \A i \in 1 .. Len(out) : out'[i] = out[i]
      /\ out'[Len(out) + 1] = b
  BY AppendProperties, LenProperties DEF OutType
<1>2. DOMAIN out' = 1 .. Len(out) + 1
  BY <1>1, LenProperties
<1>3. \A i \in DOMAIN out' : i = Len(out) + 1 \/ i \in DOMAIN out
  BY <1>1, <1>2
<1> QED
  BY <1>1, <1>3 DEF Queued

LEMMA QueuedOneLess ==
  ASSUME OutType, out # <<>>, out' = Tail(out)
  PROVE  /\ Queued' \subseteq Queued /\ ToSet(Head(out).subs) \subseteq Queued
         /\ 1 \in DOMAIN out /\ Head(out) = out[1]
         /\ \A i \in DOMAIN out' : i \in Nat \ {0} /\ i + 1 \in DOMAIN out /\ out'[i] = out[i + 1]
<1>1. /\ out \in Seq(Batch) /\ Len(out) \in Nat /\ DOMAIN out = 1 .. Len(out)
      /\ Head(out) = out[1] /\ out' \in Seq(Batch) /\ Len(out') = Len(out) - 1
      /\ \A i \in 1 .. Len(out') : out'[i] = out[i + 1]
  BY HeadTailProperties, LenProperties DEF OutType
<1>2. DOMAIN out' = 1 .. Len(out')
  BY <1>1, LenProperties
<1>3. /\ 1 \in DOMAIN out
      /\ \A i \in DOMAIN out' : i \in Nat \ {0} /\ i + 1 \in DOMAIN out /\ out'[i] = out[i + 1]
  BY <1>1, <1>2, EmptySeq DEF OutType
<1> QED
  BY <1>1, <1>3 DEF Queued

\* A task keeps its batch or gives it up.
LEMMA SameBatch ==
  ASSUME WorkType, NEW t \in Tasks,
         \/ LockReceiver(t) \/ ExitWorker(t) \/ Delivered(t)
         \/ RetryLogPanics(t) \/ CompleteBatch(t)
  PROVE  /\ sent' = sent /\ (out' = out \/ out' = <<>>) /\ Queued' \subseteq Queued
         /\ \E j : SetJob(t, j) /\ (j.batch = job[t].batch \/ j.batch = NoBatch)
<1> DEFINE locked    == [Idle EXCEPT !.phase = "receiving"]
           ended     == [Idle EXCEPT !.phase = "exited"]
           dead      == [job[t] EXCEPT !.phase = "panicked"]
           delivered == Completing(job[t].batch)
           after     == [job[t] EXCEPT !.next = @ + 1]
           calling   == [job[t] EXCEPT !.phase = "callback", !.next = 1]
<1>1. /\ locked.batch = NoBatch /\ ended.batch = NoBatch /\ Idle.batch = NoBatch
      /\ dead.batch = job[t].batch /\ delivered.batch = job[t].batch
      /\ after.batch = job[t].batch /\ calling.batch = job[t].batch
  BY JobType DEF Idle, Job, Completing
<1>2. \/ SetJob(t, locked) \/ SetJob(t, ended) \/ SetJob(t, dead) \/ SetJob(t, delivered)
      \/ SetJob(t, after) \/ SetJob(t, calling) \/ SetJob(t, Idle)
  BY DEF LockReceiver, ExitWorker, Delivered, RetryLogPanics, CompleteBatch, CompleteHandle,
         HandlesCompleted, RunCallback, CallbacksDone, Panic, Completing
<1>3. sent' = sent /\ (out' = out \/ out' = <<>>)
  BY DEF LockReceiver, ExitWorker, Delivered, RetryLogPanics, CompleteBatch, CompleteHandle,
         HandlesCompleted, RunCallback, CallbacksDone, Panic, WorkOnly
<1>4. Queued' \subseteq Queued
  BY <1>3 DEF Queued
<1> HIDE DEF locked, ended, dead, delivered, after, calling
<1> QED
  BY <1>1, <1>2, <1>3, <1>4

\* The steps that touch a batch that has left the batcher.
LEMMA BatchSteps ==
  ASSUME [Next]_vars
  PROVE  \/ UNCHANGED <<out, job, done, called, sent>>
         \/ SendBatch \/ TrySendLingered
         \/ \E w \in Workers : TakeBatch(w)
         \/ \E t \in Tasks : \/ LockReceiver(t) \/ ExitWorker(t) \/ Delivered(t)
                           \/ RetryLogPanics(t) \/ CompleteBatch(t)
  BY WhoWorks, BatcherTask DEF WorkerStep, Worker

-----------------------------------------------------------------------------
(* Whoever is completed has been accepted.                                 *)

\* A handle has been returned for what the intake has taken, and only for that.
CallInv == \A s \in Subs : call[s] = "accepted" <=> s \in ToSet(accepted)

\* The dispatch channel and the tasks hold only what has left the batcher.
OwnInv ==
    /\ Queued \subseteq ToSet(sent)
    /\ \A t \in Tasks : ToSet(job[t].batch.subs) \subseteq ToSet(sent)

LEMMA InitCalls == Init => CallInv /\ OwnInv
  BY NoBatchUploadable DEF Init, CallInv, OwnInv, Queued, ToSet, Idle

LEMMA CallStep == ASSUME TypeInv, CallInv, [Next]_vars PROVE CallInv'
<1>1. call \in [Subs -> CallStates] /\ accepted \in Seq(Subs)
  BY DEF TypeInv, CallerType
<1>2. CASE UNCHANGED <<call, accepted>>
  BY <1>2 DEF CallInv
<1>3. ASSUME NEW s \in Subs, SendStep(s) PROVE CallInv'
  <2>1. CASE Enqueue(s)
    <3>1. ToSet(accepted') = ToSet(accepted) \cup {s} /\ Goto(s, "accepted")
      BY <1>1, <2>1, ElementsAfterAppend DEF Enqueue
    <3> QED
      BY <1>1, <3>1 DEF CallInv, Goto
  <2>2. CASE Send(s) \/ CloneTx(s) \/ EnqueueFails(s) \/ CancelSend(s)
    <3>1. /\ accepted' = accepted /\ call[s] # "accepted"
          /\ \E state : state # "accepted" /\ Goto(s, state)
      BY <2>2 DEF Send, CloneTx, EnqueueFails, CancelSend, CallerOnly
    <3> QED
      BY <1>1, <3>1 DEF CallInv, Goto
  <2> QED
    BY <1>3, <2>1, <2>2 DEF SendStep
<1> QED
  BY <1>2, <1>3, WhoSends

LEMMA SetJobOwns ==
  ASSUME OwnInv, WorkType, NEW t \in Tasks, NEW j, SetJob(t, j),
         ToSet(sent) \subseteq ToSet(sent'),
         ToSet(j.batch.subs) \subseteq ToSet(sent')
  PROVE  \A u \in Tasks : ToSet(job'[u].batch.subs) \subseteq ToSet(sent')
  BY DEF OwnInv, WorkType, SetJob

LEMMA OwnStep == ASSUME TypeInv, OwnInv, [Next]_vars PROVE OwnInv'
<1>1. /\ WorkType /\ OutType /\ sent \in Seq(Subs) /\ current \in Batch
      /\ current.subs \in Seq(Subs)
  BY PipelineTypes DEF TypeInv, OpenType
<1>2. CASE UNCHANGED <<out, job, sent>>
  BY <1>2 DEF OwnInv, Queued
<1>3. CASE SendBatch \/ TrySendLingered
  <2> SUFFICES ASSUME sent' = sent \o current.subs PROVE OwnInv'
    BY <1>2, <1>3, Dispatches
  <2>1. /\ ToSet(sent) \subseteq ToSet(sent')
        /\ ToSet(current.subs) \subseteq ToSet(sent')
    BY <1>1, PartsOfConcat
  <2>2. CASE SetJob(Batcher, Completing(current)) /\ out' = out
    <3>1. Completing(current).batch = current /\ Queued' = Queued
      BY <2>2 DEF Completing, Queued
    <3>2. \A t \in Tasks : ToSet(job'[t].batch.subs) \subseteq ToSet(sent')
      BY <1>1, <2>1, <2>2, <3>1, SetJobOwns, BatcherTask
    <3> QED
      BY <2>1, <3>1, <3>2 DEF OwnInv
  <2>3. CASE out' = Append(out, current) /\ job' = job
    BY <1>1, <2>1, <2>3, QueuedOneMore DEF OwnInv
  <2> QED
    BY <1>2, <1>3, <2>2, <2>3, Dispatches
<1>4. ASSUME NEW w \in Workers, TakeBatch(w) PROVE OwnInv'
  <2> DEFINE j == [phase |-> "deliver", batch |-> Head(out), next |-> 0]
  <2>1. /\ w \in Tasks /\ sent' = sent
        /\ SetJob(w, j) /\ out # <<>> /\ out' = Tail(out) /\ j.batch = Head(out)
    BY <1>4, BatcherTask DEF TakeBatch, WorkOnly
  <2> HIDE DEF j
  <2>2. Queued' \subseteq Queued /\ ToSet(Head(out).subs) \subseteq Queued
    BY <1>1, <2>1, QueuedOneLess
  <2>3. \A u \in Tasks : ToSet(job'[u].batch.subs) \subseteq ToSet(sent')
    BY <1>1, <2>1, <2>2, SetJobOwns DEF OwnInv
  <2> QED
    BY <2>1, <2>2, <2>3 DEF OwnInv
<1>5. ASSUME NEW t \in Tasks,
             \/ LockReceiver(t) \/ ExitWorker(t) \/ Delivered(t)
             \/ RetryLogPanics(t) \/ CompleteBatch(t)
      PROVE  OwnInv'
  <2>1. /\ sent' = sent /\ Queued' \subseteq Queued
        /\ \E j : SetJob(t, j) /\ (j.batch = job[t].batch \/ j.batch = NoBatch)
    BY <1>1, <1>5, SameBatch
  <2>2. ToSet(NoBatch.subs) = {}
    BY NoBatchUploadable DEF ToSet
  <2>3. \A u \in Tasks : ToSet(job'[u].batch.subs) \subseteq ToSet(sent')
    BY <1>1, <2>1, <2>2, SetJobOwns DEF OwnInv
  <2> QED
    BY <2>1, <2>2, <2>3 DEF OwnInv
<1> QED
  BY <1>2, <1>3, <1>4, <1>5, BatchSteps

LEMMA SentIsAccepted ==
  ASSUME TypeInv, PipelineFIFO PROVE ToSet(sent) \subseteq ToSet(accepted)
<1>1. ToSet(sent) \subseteq ToSet(sent \o current.subs)
  BY PipelineTypes, PartsOfConcat
<1>2. ToSet(sent \o current.subs) \subseteq ToSet(sent \o current.subs \o hand)
  BY PipelineTypes, PartsOfConcat
<1>3. ToSet(sent \o current.subs \o hand) \subseteq ToSet(accepted)
  BY PipelineTypes, PartsOfConcat DEF PipelineFIFO
<1> QED
  BY <1>1, <1>2, <1>3

-----------------------------------------------------------------------------
(* The refinement.                                                         *)

\* What the proofs about the steps rest on.
ServiceInv ==
    /\ TypeInv /\ PipelineFIFO /\ KeptInv /\ EndInv /\ JoinInv /\ GoneInv
    /\ CallInv /\ OwnInv

LEMMA ServiceInvAlways == Spec => []ServiceInv
<1>1. Init => ServiceInv
  BY InitType, InitFifo, InitKept, InitEnds, InitGone, InitCalls DEF ServiceInv
<1>2. ServiceInv /\ [Next]_vars => ServiceInv'
  BY TypeStep, FifoStep, KeptStep, EndStep, JoinStep, GoneStep, CallStep, OwnStep
     DEF ServiceInv
<1> QED
  BY <1>1, <1>2, PTL DEF Spec

LEMMA ClosingOf ==
  ASSUME NEW c \in Closers
  PROVE  /\ closer[c] = "idle" => ServiceClosing(c) = "idle"
         /\ closer[c] = "ok" => ServiceClosing(c) = "drained"
         /\ closer[c] \in {"err", "second", "cancelled"} => ServiceClosing(c) = "returned"
         /\ closer[c] \in {"taking", "awaitBatcher", "awaitWorkers"} => ServiceClosing(c) = "calling"
<1>1. CASE closer[c] = "idle"
  BY <1>1 DEF ServiceClosing
<1>2. CASE closer[c] = "ok"
  BY <1>2 DEF ServiceClosing
<1>3. CASE closer[c] \in {"err", "second", "cancelled"}
  BY <1>3 DEF ServiceClosing
<1>4. CASE closer[c] \in {"taking", "awaitBatcher", "awaitWorkers"}
  BY <1>4 DEF ServiceClosing
<1> QED
  BY <1>1, <1>2, <1>3, <1>4

LEMMA InitService == Init => Service!Init
<1> SUFFICES ASSUME Init PROVE Service!Init
  OBVIOUS
<1>1. \A s \in Subs : ServiceStatus(s) = "idle"
  BY DEF Init, ServiceStatus
<1>2. \A c \in Closers : ServiceClosing(c) = "idle"
  BY DEF Init, ServiceClosing
<1>3. ~(\E c \in Closers : closer[c] = "ok")
  BY DEF Init
<1> QED
  BY <1>1, <1>2, <1>3 DEF Init, Service!Init

\* A step the callers do not see.
LEMMA Invisible ==
  ASSUME UNCHANGED <<call, closer, done>>
  PROVE  UNCHANGED Service!vars
<1>1. \A s \in Subs : ServiceStatus(s)' = ServiceStatus(s)
  BY DEF ServiceStatus
<1>2. \A c \in Closers : ServiceClosing(c)' = ServiceClosing(c)
  BY DEF ServiceClosing
<1> QED
  BY <1>1, <1>2 DEF Service!vars

LEMMA SendIsService ==
  ASSUME ServiceInv, NEW s \in Subs, SendStep(s)
  PROVE  [Service!Next]_Service!vars
<1>1. call \in [Subs -> CallStates] /\ closer' = closer /\ done' = done
  BY DEF ServiceInv, TypeInv, CallerType, SendStep, Send, CloneTx, Enqueue, EnqueueFails,
         CancelSend, CallerOnly, flagVars, workVars
<1>2. [c \in Closers |-> ServiceClosing(c)]' = [c \in Closers |-> ServiceClosing(c)]
  BY <1>1 DEF ServiceClosing
<1>3. ASSUME NEW state \in CallStates, Goto(s, state)
      PROVE  /\ ServiceStatus(s)' = IF state \in {"clone", "waiting"} THEN "calling" ELSE state
             /\ \A q \in Subs : q # s => ServiceStatus(q)' = ServiceStatus(q)
  BY <1>1, <1>3 DEF Goto, ServiceStatus
<1> DEFINE status == [q \in Subs |-> ServiceStatus(q)]
<1>4. ASSUME NEW state \in CallStates, NEW seen, Goto(s, state),
             seen = IF state \in {"clone", "waiting"} THEN "calling" ELSE state
      PROVE  status' = [status EXCEPT ![s] = seen]
  BY <1>3, <1>4
<1>5. /\ call[s] = "idle" => status[s] = "idle"
      /\ call[s] \in {"clone", "waiting"} => status[s] = "calling"
  BY DEF ServiceStatus
<1>6. CASE call[s] \in {"idle", "clone", "waiting"} /\ Goto(s, "rejected")
  <2>1. status' = [status EXCEPT ![s] = "rejected"] /\ status[s] \in {"idle", "calling"}
    BY <1>4, <1>5, <1>6 DEF CallStates
  <2>2. Service!Reject(s)
    BY <1>1, <1>2, <2>1 DEF Service!Reject
  <2> QED
    BY <2>2 DEF Service!Next
<1>7. CASE call[s] = "idle" /\ Goto(s, "clone")
  <2>1. status' = [status EXCEPT ![s] = "calling"] /\ status[s] = "idle"
    BY <1>4, <1>5, <1>7 DEF CallStates
  <2>2. Service!Call(s)
    BY <1>1, <1>2, <2>1 DEF Service!Call
  <2> QED
    BY <2>2 DEF Service!Next
<1>8. CASE call[s] = "clone" /\ Goto(s, "waiting")
  <2>1. status' = [status EXCEPT ![s] = "calling"] /\ status[s] = "calling"
    BY <1>4, <1>5, <1>8 DEF CallStates
  <2>2. status' = status
    BY <2>1
  <2> QED
    BY <1>1, <1>2, <2>2 DEF Service!vars
<1>9. CASE Enqueue(s)
  <2>1. call[s] = "waiting" /\ Goto(s, "accepted")
    BY <1>9 DEF Enqueue
  <2>2. status' = [status EXCEPT ![s] = "accepted"] /\ status[s] = "calling"
    BY <1>4, <1>5, <2>1 DEF CallStates
  \* After a close() that has drained, nobody waits at the intake.
  <2>3. ~(\E c \in Closers : closer[c] = "ok")
    <3>1. (\E c \in Closers : closer[c] = "ok") => At("done")
      BY DEF ServiceInv, JoinInv
    <3>2. At("done") => Disconnected
      BY DEF ServiceInv, EndInv, At
    <3> QED
      BY <2>1, <3>1, <3>2 DEF Disconnected
  <2>4. Service!Accept(s)
    BY <1>1, <1>2, <2>2, <2>3 DEF Service!Accept
  <2> QED
    BY <2>4 DEF Service!Next
<1> QED
  BY <1>6, <1>7, <1>8, <1>9 DEF SendStep, Send, CloneTx, EnqueueFails, CancelSend

LEMMA CompleteIsService ==
  ASSUME ServiceInv, NEW t \in Tasks, CompleteBatch(t)
  PROVE  [Service!Next]_Service!vars
<1>1. call' = call /\ closer' = closer
  BY DEF CompleteBatch, CompleteHandle, HandlesCompleted, RunCallback, CallbacksDone, WorkOnly,
         callerVars, flagVars
<1>2. CASE done' = done
  BY <1>1, <1>2, Invisible
<1>3. CASE CompleteHandle(t)
  <2> DEFINE s == job[t].batch.subs[job[t].next]
  <2>1. done' = done \cup {s} /\ job[t].phase = "complete" /\ job[t].next <= Len(job[t].batch.subs)
    BY <1>3 DEF CompleteHandle
  <2>2. s \in ToSet(job[t].batch.subs)
    <3>1. job[t].batch.subs \in Seq(Subs) /\ job[t].next >= 1 /\ job[t].next \in Nat
      BY <2>1, JobType DEF ServiceInv, TypeInv, CountsFromOne
    <3>2. job[t].next \in DOMAIN job[t].batch.subs
      BY <2>1, <3>1, LenProperties
    <3> QED
      BY <3>2 DEF ToSet
  <2>3. s \in ToSet(accepted)
    BY <2>2, SentIsAccepted DEF ServiceInv, OwnInv
  <2>4. s \in Subs
    BY <2>3, LenProperties DEF ServiceInv, TypeInv, CallerType, ToSet
  <2>5. ServiceStatus(s) = "accepted"
    BY <2>3, <2>4 DEF ServiceInv, CallInv, ServiceStatus
  <2>6. CASE s \in done
    BY <1>2, <2>1, <2>6
  <2>7. CASE s \notin done
    <3>1. [q \in Subs |-> ServiceStatus(q)]' = [q \in Subs |-> ServiceStatus(q)]
      BY <1>1 DEF ServiceStatus
    <3>2. [c \in Closers |-> ServiceClosing(c)]' = [c \in Closers |-> ServiceClosing(c)]
      BY <1>1 DEF ServiceClosing
    <3> HIDE DEF s
    <3>3. Service!Complete(s)
      BY <1>1, <2>1, <2>4, <2>5, <2>7, <3>1, <3>2 DEF Service!Complete
    <3> QED
      BY <2>4, <3>3 DEF Service!Next
  <2> QED
    BY <2>6, <2>7
<1> QED
  BY <1>2, <1>3 DEF CompleteBatch, HandlesCompleted, RunCallback, CallbacksDone

LEMMA DrainsNext == ServiceInv' => CloseDrains'
<1>1. ServiceInv => CloseDrains
  BY Drains DEF ServiceInv
<1> QED
  BY <1>1, PTL

LEMMA CloseIsService ==
  ASSUME ServiceInv, ServiceInv', NEW c \in Closers, CloseStep(c)
  PROVE  [Service!Next]_Service!vars
<1> DEFINE closing == [d \in Closers |-> ServiceClosing(d)]
           ok == \E d \in Closers : closer[d] = "ok"
<1>1. /\ closer \in [Closers -> CloserStates] /\ call' = call /\ done' = done
      /\ accepted' = accepted
  BY DEF ServiceInv, TypeInv, FlagType, CloseStep, Close, TakeIntake, AwaitBatcher,
         AwaitWorkers, CancelClose, CloserOnly, callerVars, workVars
<1>2. [q \in Subs |-> ServiceStatus(q)]' = [q \in Subs |-> ServiceStatus(q)]
  BY <1>1 DEF ServiceStatus
<1>3. ASSUME NEW state \in CloserStates, Advance(c, state)
      PROVE  /\ closer'[c] = state
             /\ \A d \in Closers : d # c => ServiceClosing(d)' = ServiceClosing(d)
             /\ closer[c] # "ok" /\ state # "ok" => ok' = ok
  <2>1. closer'[c] = state /\ \A d \in Closers : d # c => closer'[d] = closer[d]
    BY <1>1, <1>3 DEF Advance
  <2> QED
    BY <2>1 DEF ServiceClosing
<1>4. /\ closer[c] = "idle" => closing[c] = "idle"
      /\ closer[c] \in {"taking", "awaitBatcher", "awaitWorkers"} => closing[c] = "calling"
  BY ClosingOf
<1>5. /\ closer'[c] \in {"err", "second", "cancelled"} => closing'[c] = "returned"
      /\ closer'[c] = "ok" => closing'[c] = "drained"
      /\ closer'[c] \in {"taking", "awaitBatcher", "awaitWorkers"} => closing'[c] = "calling"
  <2>1. CASE closer'[c] \in {"err", "second", "cancelled"}
    BY <2>1 DEF ServiceClosing
  <2>2. CASE closer'[c] = "ok"
    BY <2>2 DEF ServiceClosing
  <2>3. CASE closer'[c] \in {"taking", "awaitBatcher", "awaitWorkers"}
    BY <2>3 DEF ServiceClosing
  <2> QED
    BY <2>1, <2>2, <2>3
<1>6. ASSUME NEW state \in CloserStates, Advance(c, state)
      PROVE  closing' = [closing EXCEPT ![c] = closing'[c]]
  BY <1>3, <1>6
<1> HIDE DEF closing, ok
<1>7. CASE /\ closer[c] \in {"idle", "taking", "awaitBatcher", "awaitWorkers"}
           /\ \E state \in {"err", "second", "cancelled"} : Advance(c, state)
  <2>1. closing[c] \in {"idle", "calling"} /\ closing' = [closing EXCEPT ![c] = "returned"]
        /\ ok' = ok
    BY <1>3, <1>4, <1>5, <1>6, <1>7 DEF CloserStates
  <2>2. Service!ReturnClose(c)
    BY <1>1, <1>2, <2>1 DEF Service!ReturnClose, closing, ok
  <2> QED
    BY <2>2 DEF Service!Next
<1>8. CASE closer[c] = "idle" /\ Advance(c, "taking")
  <2>1. closing[c] = "idle" /\ closing' = [closing EXCEPT ![c] = "calling"] /\ ok' = ok
    BY <1>3, <1>4, <1>5, <1>6, <1>8 DEF CloserStates
  <2>2. Service!StartClose(c)
    BY <1>1, <1>2, <2>1 DEF Service!StartClose, closing, ok
  <2> QED
    BY <2>2 DEF Service!Next
<1>9. CASE /\ closer[c] \in {"taking", "awaitBatcher"}
           /\ \E state \in {"awaitBatcher", "awaitWorkers"} : Advance(c, state)
  <2>1. closing[c] = "calling" /\ closing' = [closing EXCEPT ![c] = "calling"] /\ ok' = ok
    BY <1>3, <1>4, <1>5, <1>6, <1>9 DEF CloserStates
  <2>2. closing' = closing
    BY <2>1 DEF closing
  <2> QED
    BY <1>1, <1>2, <2>1, <2>2 DEF Service!vars, closing, ok
\* The close() that returns Ok: every accepted handle is complete.
<1>10. CASE closer[c] = "awaitWorkers" /\ Advance(c, "ok")
  <2>1. /\ closing[c] = "calling" /\ closing' = [closing EXCEPT ![c] = "drained"]
        /\ closer'[c] = "ok"
    BY <1>3, <1>4, <1>5, <1>6, <1>10 DEF CloserStates
  <2>2. ok'
    BY <2>1 DEF ok
  <2>3. CloseDrains'
    BY DrainsNext
  <2>4. ToSet(accepted) \subseteq done
    BY <1>1, <2>1, <2>3 DEF CloseDrains, ToSet
  <2>5. {s \in Subs : ServiceStatus(s) = "accepted"} \subseteq done
    BY <2>4 DEF ServiceInv, CallInv, ServiceStatus
  <2>6. Service!FinishClose(c)
    BY <1>1, <1>2, <2>1, <2>2, <2>5 DEF Service!FinishClose, Service!Accepted, closing, ok
  <2> QED
    BY <2>6 DEF Service!Next
<1> QED
  BY <1>7, <1>8, <1>9, <1>10 DEF CloseStep, Close, TakeIntake, AwaitBatcher, AwaitWorkers,
                                 CancelClose

LEMMA StepIsService ==
  ASSUME ServiceInv, ServiceInv', [Next]_vars
  PROVE  [Service!Next]_Service!vars
<1>1. ASSUME NEW w \in Workers, WorkerStep(w) PROVE UNCHANGED <<call, closer, done>>
  BY <1>1 DEF WorkerStep, Worker, LockReceiver, TakeBatch, ExitWorker, Delivered,
              RetryLogPanics, WorkOnly, callerVars, flagVars
<1>2. BatcherStep \/ LingerExpires \/ Drop \/ UNCHANGED vars => UNCHANGED <<call, closer, done>>
  BY DEF BatcherStep, Receive, AddReceived, SendBatch, TrySendLingered, IntakeEnds,
         LingerExpires, Drop, vars, callerVars, flagVars, workVars
<1> QED
  BY <1>1, <1>2, Steps, Invisible, SendIsService, CompleteIsService, CloseIsService

\* The tokio client implements ClientService: a handle completes once and only
\* if its send was accepted, a close() that returns Ok has drained the client,
\* and nothing is accepted after it, whatever the number of futures and tasks
\* and whichever of them are dropped or panic (async_client.rs 632-903).
THEOREM ImplementsServiceAlways == Spec => ImplementsService
  BY InitService, StepIsService, ServiceInvAlways, PTL
     DEF Spec, ImplementsService, Service!SafeSpec

-----------------------------------------------------------------------------
(* At most once.                                                           *)

\* No submission is in two of the places that hold batches.
ApartInv ==
    /\ \A t \in Tasks : /\ IsInjective(job[t].batch.subs)
                        /\ ToSet(job[t].batch.subs) \cap Queued = {}
                        /\ \A u \in Tasks \ {t} :
                              ToSet(job[t].batch.subs) \cap ToSet(job[u].batch.subs) = {}
    /\ \A i \in DOMAIN out : /\ IsInjective(out[i].subs)
                             /\ \A k \in DOMAIN out \ {i} : ToSet(out[i].subs) \cap ToSet(out[k].subs) = {}

\* What is done and called of a batch that a task works on.
UpToDate(j, handles, calls) ==
    /\ j.phase = "deliver" => ToSet(j.batch.subs) \cap handles = {}
    /\ j.phase = "complete" =>
          \A i \in DOMAIN j.batch.subs : /\ j.batch.subs[i] \in handles <=> i < j.next
                                         /\ j.batch.subs[i] \notin calls
    /\ j.phase = "callback" =>
          \A i \in DOMAIN j.batch.subs : /\ j.batch.subs[i] \in handles
                                         /\ i >= j.next => j.batch.subs[i] \notin calls

OnceInv ==
    /\ called \subseteq done /\ done \subseteq ToSet(sent)
    /\ Queued \cap done = {}
    /\ \A t \in Tasks : UpToDate(job[t], done, called)

\* A submission is accepted once: its call returns once.
LEMMA AcceptedOnceStep ==
  ASSUME TypeInv, CallInv, IsInjective(accepted), [Next]_vars
  PROVE  IsInjective(accepted)'
<1>1. call \in [Subs -> CallStates] /\ accepted \in Seq(Subs)
  BY DEF TypeInv, CallerType
<1>2. ASSUME NEW s \in Subs, Enqueue(s) PROVE IsInjective(accepted')
  <2>1. s \notin ToSet(accepted) /\ accepted' = Append(accepted, s)
    BY <1>2 DEF Enqueue, CallInv
  <2> QED
    BY <1>1, <2>1, AppendedOnce
<1>3. (\E s \in Subs : Enqueue(s)) \/ accepted' = accepted
  BY WhoSends DEF SendStep, Send, CloneTx, EnqueueFails, CancelSend, CallerOnly
<1> QED
  BY <1>2, <1>3

LEMMA CurrentOnce ==
  ASSUME TypeInv, PipelineFIFO, IsInjective(accepted)
  PROVE  IsInjective(current.subs) /\ ToSet(current.subs) \cap ToSet(sent) = {}
<1> DEFINE front == sent \o current.subs
<1>1. accepted = front \o hand \o chan
  BY DEF PipelineFIFO
<1>2. IsInjective(front \o hand)
  BY <1>1, PipelineTypes, OnceInParts
<1>3. IsInjective(front)
  BY <1>2, PipelineTypes, OnceInParts
<1> QED
  BY <1>3, PipelineTypes, OnceInParts

\* It is enough to look at the job that changes.
LEMMA JobApart ==
  ASSUME WorkType, ApartInv, NEW t \in Tasks, NEW j, SetJob(t, j), Queued' \subseteq Queued,
         IsInjective(j.batch.subs), ToSet(j.batch.subs) \cap Queued' = {},
         \A u \in Tasks \ {t} : ToSet(j.batch.subs) \cap ToSet(job[u].batch.subs) = {},
         \A i \in DOMAIN out' : /\ IsInjective(out'[i].subs)
                                /\ \A k \in DOMAIN out' \ {i} :
                                      ToSet(out'[i].subs) \cap ToSet(out'[k].subs) = {}
  PROVE  ApartInv'
<1>1. job'[t] = j /\ \A u \in Tasks \ {t} : job'[u] = job[u]
  BY DEF SetJob, WorkType
<1>2. ASSUME NEW u \in Tasks
      PROVE  /\ IsInjective(job'[u].batch.subs)
             /\ ToSet(job'[u].batch.subs) \cap Queued' = {}
             /\ \A v \in Tasks \ {u} : ToSet(job'[u].batch.subs) \cap ToSet(job'[v].batch.subs) = {}
  <2>1. CASE u = t
    BY <1>1, <2>1
  <2>2. CASE u # t
    BY <1>1, <2>2 DEF ApartInv
  <2> QED
    BY <2>1, <2>2
<1> QED
  BY <1>2 DEF ApartInv

LEMMA ApartStep ==
  ASSUME TypeInv, PipelineFIFO, OwnInv, IsInjective(accepted), ApartInv, [Next]_vars
  PROVE  ApartInv'
<1>1. WorkType /\ OutType /\ current \in Batch
  BY DEF TypeInv, OpenType
<1>2. CASE UNCHANGED <<out, job>>
  BY <1>2 DEF ApartInv, Queued
<1>3. CASE SendBatch \/ TrySendLingered
  <2>1. IsInjective(current.subs) /\ ToSet(current.subs) \cap ToSet(sent) = {}
    BY CurrentOnce
  <2>2. CASE SetJob(Batcher, Completing(current)) /\ out' = out
    <3>1. Completing(current).batch = current /\ Queued' = Queued /\ Batcher \in Tasks
      BY <2>2, BatcherTask DEF Completing, Queued
    <3>2. \A i \in DOMAIN out' : /\ IsInjective(out'[i].subs)
                                 /\ \A k \in DOMAIN out' \ {i} :
                                       ToSet(out'[i].subs) \cap ToSet(out'[k].subs) = {}
      BY <2>2 DEF ApartInv
    <3>3. /\ ToSet(current.subs) \cap Queued' = {}
          /\ \A u \in Tasks : ToSet(current.subs) \cap ToSet(job[u].batch.subs) = {}
      BY <2>1, <3>1 DEF OwnInv
    <3> QED
      BY <1>1, <2>1, <2>2, <3>1, <3>2, <3>3, JobApart
  <2>3. CASE out' = Append(out, current) /\ job' = job
    <3>1. /\ Queued' \subseteq Queued \cup ToSet(current.subs)
          /\ \A i \in DOMAIN out' : \/ i \in DOMAIN out /\ out'[i] = out[i]
                                    \/ i = Len(out) + 1 /\ out'[i] = current
      BY <1>1, <2>3, QueuedOneMore
    <3>2. \A i \in DOMAIN out : ToSet(out[i].subs) \cap ToSet(current.subs) = {}
      BY <2>1 DEF OwnInv, Queued
    <3>3. \A t \in Tasks : ToSet(job[t].batch.subs) \cap ToSet(current.subs) = {}
      BY <2>1 DEF OwnInv
    <3>4. ASSUME NEW i \in DOMAIN out', NEW k \in DOMAIN out' \ {i}
          PROVE  ToSet(out'[i].subs) \cap ToSet(out'[k].subs) = {}
      BY <3>1, <3>2 DEF ApartInv
    <3>5. \A i \in DOMAIN out' : IsInjective(out'[i].subs)
      BY <2>1, <3>1 DEF ApartInv
    <3> QED
      BY <2>3, <3>1, <3>3, <3>4, <3>5 DEF ApartInv
  <2> QED
    BY <1>2, <1>3, <2>2, <2>3, Dispatches
<1>4. ASSUME NEW w \in Workers, TakeBatch(w) PROVE ApartInv'
  <2> DEFINE j == [phase |-> "deliver", batch |-> Head(out), next |-> 0]
  <2>1. /\ w \in Tasks /\ SetJob(w, j) /\ out # <<>> /\ out' = Tail(out) /\ j.batch = Head(out)
    BY <1>4, BatcherTask DEF TakeBatch, WorkOnly
  <2> HIDE DEF j
  <2>2. /\ Queued' \subseteq Queued /\ ToSet(Head(out).subs) \subseteq Queued
        /\ 1 \in DOMAIN out /\ Head(out) = out[1]
        /\ \A i \in DOMAIN out' : i \in Nat \ {0} /\ i + 1 \in DOMAIN out /\ out'[i] = out[i + 1]
    BY <1>1, <2>1, QueuedOneLess
  <2>3. \A i \in DOMAIN out' : ToSet(Head(out).subs) \cap ToSet(out'[i].subs) = {}
    <3>1. \A i \in DOMAIN out' : i + 1 # 1
      BY <2>2
    <3> QED
      BY <2>2, <3>1 DEF ApartInv
  <2>4. ToSet(Head(out).subs) \cap Queued' = {}
    BY <2>3 DEF Queued
  <2>5. \A i \in DOMAIN out' : /\ IsInjective(out'[i].subs)
                               /\ \A k \in DOMAIN out' \ {i} :
                                     ToSet(out'[i].subs) \cap ToSet(out'[k].subs) = {}
    <3>1. \A i \in DOMAIN out', k \in DOMAIN out' : i # k => i + 1 # k + 1
      BY <2>2
    <3> QED
      BY <2>2, <3>1 DEF ApartInv
  <2>6. \A u \in Tasks : ToSet(Head(out).subs) \cap ToSet(job[u].batch.subs) = {}
    BY <2>2 DEF ApartInv
  <2>7. IsInjective(Head(out).subs)
    BY <2>2 DEF ApartInv
  <2> QED
    BY <1>1, <2>1, <2>2, <2>4, <2>5, <2>6, <2>7, JobApart
<1>5. ASSUME NEW t \in Tasks,
             \/ LockReceiver(t) \/ ExitWorker(t) \/ Delivered(t)
             \/ RetryLogPanics(t) \/ CompleteBatch(t)
      PROVE  ApartInv'
  <2>1. PICK j : SetJob(t, j) /\ (j.batch = job[t].batch \/ j.batch = NoBatch)
    BY <1>1, <1>5, SameBatch
  <2>2. (out' = out \/ out' = <<>>) /\ Queued' \subseteq Queued
    BY <1>1, <1>5, SameBatch
  <2>3. ToSet(NoBatch.subs) = {} /\ IsInjective(NoBatch.subs)
    BY NoBatchUploadable DEF ToSet, IsInjective
  <2>4. /\ IsInjective(j.batch.subs) /\ ToSet(j.batch.subs) \cap Queued' = {}
        /\ \A u \in Tasks \ {t} : ToSet(j.batch.subs) \cap ToSet(job[u].batch.subs) = {}
    BY <2>1, <2>2, <2>3 DEF ApartInv
  <2>5. \A i \in DOMAIN out' : /\ IsInjective(out'[i].subs)
                               /\ \A k \in DOMAIN out' \ {i} :
                                     ToSet(out'[i].subs) \cap ToSet(out'[k].subs) = {}
    <3>1. out' = <<>> => DOMAIN out' = {}
      OBVIOUS
    <3> QED
      BY <2>2, <3>1 DEF ApartInv
  <2> QED
    BY <1>1, <2>1, <2>2, <2>4, <2>5, JobApart
<1> QED
  BY <1>2, <1>3, <1>4, <1>5, BatchSteps

\* It is enough to look at the job that changes and at what it completes.
LEMMA JobUpToDate ==
  ASSUME WorkType, ApartInv, OnceInv, NEW t \in Tasks, NEW j, SetJob(t, j),
         done \subseteq done', called \subseteq called', called' \subseteq done',
         done' \subseteq done \cup ToSet(job[t].batch.subs),
         called' \subseteq called \cup ToSet(job[t].batch.subs),
         UpToDate(j, done', called')
  PROVE  \A u \in Tasks : UpToDate(job'[u], done', called')
<1>1. job'[t] = j /\ \A u \in Tasks \ {t} : job'[u] = job[u]
  BY DEF SetJob, WorkType
<1>2. ASSUME NEW u \in Tasks \ {t} PROVE UpToDate(job'[u], done', called')
  <2>1. UpToDate(job[u], done, called) /\ job'[u] = job[u]
    BY <1>1 DEF OnceInv
  <2>2. ToSet(job[u].batch.subs) \cap ToSet(job[t].batch.subs) = {}
    BY DEF ApartInv
  <2>3. \A s \in ToSet(job[u].batch.subs) : (s \in done' <=> s \in done) /\ (s \in called' <=> s \in called)
    BY <2>2
  <2>4. \A i \in DOMAIN job[u].batch.subs : job[u].batch.subs[i] \in ToSet(job[u].batch.subs)
    BY DEF ToSet
  <2> QED
    BY <2>1, <2>3, <2>4 DEF UpToDate
<1> QED
  <2>1. UpToDate(job'[t], done', called')
    BY <1>1 DEF UpToDate
  <2> QED
    BY <1>2, <2>1

LEMMA OnceStep ==
  ASSUME TypeInv, PipelineFIFO, OwnInv, IsInjective(accepted), ApartInv, OnceInv, [Next]_vars
  PROVE  OnceInv'
<1>1. /\ WorkType /\ OutType /\ current \in Batch /\ current.subs \in Seq(Subs)
      /\ sent \in Seq(Subs)
  BY PipelineTypes DEF TypeInv, OpenType
<1>2. CASE UNCHANGED <<out, job, done, called, sent>>
  BY <1>2 DEF OnceInv, UpToDate, Queued
<1>3. CASE SendBatch \/ TrySendLingered
  <2>1. UNCHANGED <<done, called>>
    BY <1>3, Dispatches
  <2> SUFFICES ASSUME sent' = sent \o current.subs PROVE OnceInv'
    BY <1>2, <1>3, <2>1, Dispatches
  <2>2. ToSet(sent) \subseteq ToSet(sent') /\ ToSet(current.subs) \cap ToSet(sent) = {}
    BY <1>1, PartsOfConcat, CurrentOnce
  <2>3. ToSet(current.subs) \cap done = {} /\ ToSet(current.subs) \cap called = {}
    BY <2>2 DEF OnceInv
  <2>4. CASE SetJob(Batcher, Completing(current)) /\ out' = out
    <3> DEFINE j == Completing(current)
    <3>1. j.phase = "complete" /\ j.next = 1 /\ j.batch = current
      BY DEF Completing
    <3> HIDE DEF j
    <3>2. \A i \in DOMAIN current.subs : i >= 1 /\ current.subs[i] \notin done /\ current.subs[i] \notin called
      <4>1. DOMAIN current.subs = 1 .. Len(current.subs) /\ Len(current.subs) \in Nat
        BY <1>1, LenProperties
      <4> QED
        BY <2>3, <4>1 DEF ToSet
    <3>3. \A i \in DOMAIN current.subs : ~(i < 1)
      <4>1. DOMAIN current.subs = 1 .. Len(current.subs) /\ Len(current.subs) \in Nat
        BY <1>1, LenProperties
      <4> QED
        BY <4>1
    <3>4. UpToDate(j, done', called')
      BY <2>1, <3>1, <3>2, <3>3 DEF UpToDate
    <3>5. \A u \in Tasks : UpToDate(job'[u], done', called')
      BY <1>1, <2>1, <2>4, <3>4, JobUpToDate, BatcherTask DEF OnceInv, j
    <3>6. Queued' = Queued
      BY <2>4 DEF Queued
    <3> QED
      BY <2>1, <2>2, <3>5, <3>6 DEF OnceInv
  <2>5. CASE out' = Append(out, current) /\ job' = job
    <3>1. Queued' \subseteq Queued \cup ToSet(current.subs)
      BY <1>1, <2>5, QueuedOneMore
    <3>2. \A u \in Tasks : UpToDate(job'[u], done', called')
      BY <2>1, <2>5 DEF OnceInv, UpToDate
    <3> QED
      BY <2>1, <2>2, <2>3, <3>1, <3>2 DEF OnceInv
  <2> QED
    BY <1>2, <1>3, <2>1, <2>4, <2>5, Dispatches
<1>4. ASSUME NEW w \in Workers, TakeBatch(w) PROVE OnceInv'
  <2> DEFINE j == [phase |-> "deliver", batch |-> Head(out), next |-> 0]
  <2>1. /\ w \in Tasks /\ SetJob(w, j) /\ out # <<>> /\ out' = Tail(out)
        /\ j.batch = Head(out) /\ j.phase = "deliver" /\ UNCHANGED <<done, called, sent>>
    BY <1>4, BatcherTask DEF TakeBatch, WorkOnly
  <2> HIDE DEF j
  <2>2. Queued' \subseteq Queued /\ ToSet(Head(out).subs) \subseteq Queued
    BY <1>1, <2>1, QueuedOneLess
  <2>3. ToSet(j.batch.subs) \cap done' = {}
    BY <2>1, <2>2 DEF OnceInv
  <2>4. UpToDate(j, done', called')
    BY <2>1, <2>3 DEF UpToDate
  <2>5. \A u \in Tasks : UpToDate(job'[u], done', called')
    BY <1>1, <2>1, <2>4, JobUpToDate DEF OnceInv
  <2> QED
    BY <2>1, <2>2, <2>5 DEF OnceInv
<1>5. ASSUME NEW t \in Tasks,
             \/ LockReceiver(t) \/ ExitWorker(t) \/ Delivered(t)
             \/ RetryLogPanics(t) \/ CompleteBatch(t)
      PROVE  OnceInv'
  <2> DEFINE before == job[t]
             subs == before.batch.subs
             after == [job[t] EXCEPT !.next = @ + 1]
  <2>1. /\ before \in Job /\ before.next \in Nat /\ CountsFromOne(before)
        /\ subs \in Seq(Subs) /\ Len(subs) \in Nat /\ DOMAIN subs = 1 .. Len(subs)
        /\ UpToDate(before, done, called)
    BY <1>1, JobType, LenProperties DEF OnceInv
  <2>2. after.phase = before.phase /\ after.batch = before.batch /\ after.next = before.next + 1
    BY <2>1 DEF Job
  <2>3. /\ sent' = sent /\ Queued' \subseteq Queued
        /\ ToSet(subs) \cap Queued = {} /\ ToSet(subs) \subseteq ToSet(sent)
    BY <1>1, <1>5, SameBatch DEF ApartInv, OwnInv
  <2>4. IsInjective(subs) /\ \A i \in DOMAIN subs : subs[i] \in ToSet(subs)
    BY DEF ApartInv, ToSet
  <2>5. SUFFICES ASSUME done \subseteq done', done' \subseteq done \cup ToSet(subs),
                        called \subseteq called', called' \subseteq done',
                        called' \subseteq called \cup ToSet(subs),
                        NEW j, SetJob(t, j), UpToDate(j, done', called')
                 PROVE  OnceInv'
    <3>1. CASE LockReceiver(t) \/ ExitWorker(t)
      <4> DEFINE locked == [Idle EXCEPT !.phase = "receiving"]
                 ended  == [Idle EXCEPT !.phase = "exited"]
      <4>1. /\ SetJob(t, locked) \/ SetJob(t, ended)
            /\ UNCHANGED <<done, called>> /\ locked.phase = "receiving" /\ ended.phase = "exited"
        BY <3>1 DEF LockReceiver, ExitWorker, Idle
      <4> HIDE DEF locked, ended
      <4>2. UpToDate(locked, done', called') /\ UpToDate(ended, done', called')
        BY <4>1 DEF UpToDate
      <4> QED
        BY <2>5, <4>1, <4>2 DEF OnceInv
    <3>2. CASE Delivered(t)
      <4> DEFINE j == Completing(job[t].batch)
      <4>1. /\ SetJob(t, j) /\ UNCHANGED <<done, called>> /\ before.phase = "deliver"
            /\ j.phase = "complete" /\ j.next = 1 /\ j.batch.subs = subs
        BY <3>2 DEF Delivered, Completing
      <4> HIDE DEF j
      <4>2. ToSet(subs) \cap done = {} /\ ToSet(subs) \cap called = {}
        BY <2>1, <4>1 DEF UpToDate, OnceInv
      <4>3. \A i \in DOMAIN subs : ~(i < 1) /\ subs[i] \notin done /\ subs[i] \notin called
        <5>1. \A i \in DOMAIN subs : ~(i < 1)
          BY <2>1
        <5> QED
          BY <2>4, <4>2, <5>1
      <4>4. UpToDate(j, done', called')
        BY <4>1, <4>3 DEF UpToDate
      <4> QED
        BY <2>5, <4>1, <4>4 DEF OnceInv
    <3>3. CASE RetryLogPanics(t)
      <4> DEFINE j == [job[t] EXCEPT !.phase = "panicked"]
      <4>1. SetJob(t, j) /\ UNCHANGED <<done, called>> /\ j.phase = "panicked"
        BY <2>1, <3>3 DEF RetryLogPanics, Panic, Job
      <4> HIDE DEF j
      <4>2. UpToDate(j, done', called')
        BY <4>1 DEF UpToDate
      <4> QED
        BY <2>5, <4>1, <4>2 DEF OnceInv
    <3>4. CASE CompleteHandle(t)
      <4>1. /\ SetJob(t, after) /\ called' = called /\ before.phase = "complete"
            /\ before.next \in DOMAIN subs /\ done' = done \cup {subs[before.next]}
        BY <2>1, <3>4 DEF CompleteHandle, CountsFromOne
      <4> HIDE DEF before, after, subs
      <4>2. \A i \in DOMAIN subs : i < before.next + 1 <=> i < before.next \/ i = before.next
        BY <2>1
      <4>3. \A i \in DOMAIN subs : subs[i] = subs[before.next] <=> i = before.next
        BY <2>4, <4>1 DEF IsInjective
      <4>4. \A i \in DOMAIN subs : (subs[i] \in done <=> i < before.next) /\ subs[i] \notin called
        BY <2>1, <4>1 DEF UpToDate, subs
      <4>5. \A i \in DOMAIN subs : (subs[i] \in done' <=> i < before.next + 1) /\ subs[i] \notin called'
        BY <4>1, <4>2, <4>3, <4>4
      <4>6. UpToDate(after, done', called')
        BY <2>2, <4>1, <4>5 DEF UpToDate, subs
      <4> QED
        BY <2>4, <2>5, <4>1, <4>6 DEF OnceInv
    <3>5. CASE HandlesCompleted(t)
      <4> DEFINE calling == [job[t] EXCEPT !.phase = "callback", !.next = 1]
      <4>1. /\ SetJob(t, calling) \/ SetJob(t, Idle)
            /\ UNCHANGED <<done, called>> /\ before.phase = "complete" /\ before.next > Len(subs)
        BY <3>5 DEF HandlesCompleted
      <4>2. calling.phase = "callback" /\ calling.batch.subs = subs
        BY <2>1 DEF Job
      <4>3. Idle.phase = "none"
        BY DEF Idle
      <4> HIDE DEF before, calling, subs
      <4>4. \A i \in DOMAIN subs : i < before.next
        BY <2>1, <4>1
      <4>5. \A i \in DOMAIN subs : subs[i] \in done /\ subs[i] \notin called
        BY <2>1, <4>1, <4>4 DEF UpToDate, subs
      <4>6. UpToDate(calling, done', called') /\ UpToDate(Idle, done', called')
        BY <4>1, <4>2, <4>3, <4>5 DEF UpToDate
      <4> QED
        BY <2>5, <4>1, <4>6 DEF OnceInv
    <3>6. CASE RunCallback(t)
      <4> DEFINE dead == [job[t] EXCEPT !.phase = "panicked"]
      <4>1. /\ SetJob(t, after) \/ SetJob(t, dead)
            /\ done' = done /\ before.phase = "callback"
            /\ before.next \in DOMAIN subs
            /\ called' \subseteq called \cup {subs[before.next]} /\ called \subseteq called'
        BY <2>1, <3>6 DEF RunCallback, Panic, CountsFromOne
      <4>2. dead.phase = "panicked"
        BY <2>1 DEF Job
      <4> HIDE DEF before, after, dead, subs
      <4>3. \A i \in DOMAIN subs : subs[i] \in done /\ (i >= before.next => subs[i] \notin called)
        BY <2>1, <4>1 DEF UpToDate, subs
      <4>4. \A i \in DOMAIN subs : i >= before.next + 1 => i >= before.next /\ i # before.next
        BY <2>1
      <4>5. \A i \in DOMAIN subs : i >= before.next + 1 => subs[i] \notin called'
        BY <2>4, <4>1, <4>3, <4>4 DEF IsInjective
      <4>6. UpToDate(after, done', called') /\ UpToDate(dead, done', called')
        BY <2>2, <4>1, <4>2, <4>3, <4>5 DEF UpToDate, subs
      <4>7. called' \subseteq done' /\ called' \subseteq called \cup ToSet(subs)
        BY <2>4, <4>1, <4>3 DEF OnceInv
      <4> QED
        BY <2>5, <4>1, <4>6, <4>7
    <3>7. CASE CallbacksDone(t)
      <4>1. SetJob(t, Idle) /\ UNCHANGED <<done, called>> /\ Idle.phase = "none"
        BY <3>7 DEF CallbacksDone, Idle
      <4>2. UpToDate(Idle, done', called')
        BY <4>1 DEF UpToDate
      <4> QED
        BY <2>5, <4>1, <4>2 DEF OnceInv
    <3> QED
      BY <1>5, <3>1, <3>2, <3>3, <3>4, <3>5, <3>6, <3>7 DEF CompleteBatch
  <2>6. \A u \in Tasks : UpToDate(job'[u], done', called')
    BY <1>1, <2>5, JobUpToDate
  <2> QED
    BY <2>3, <2>5, <2>6 DEF OnceInv
<1> QED
  BY <1>2, <1>3, <1>4, <1>5, BatchSteps

LEMMA InitOnce == Init => IsInjective(accepted) /\ ApartInv /\ OnceInv
<1> SUFFICES ASSUME Init PROVE IsInjective(accepted) /\ ApartInv /\ OnceInv
  OBVIOUS
<1>1. /\ accepted = <<>> /\ out = <<>> /\ done = {} /\ called = {}
      /\ \A t \in Tasks : job[t] = Idle
  BY DEF Init
<1>2. Idle.phase = "none" /\ Idle.batch.subs = <<>>
  BY NoBatchUploadable DEF Idle
<1>3. Queued = {} /\ ToSet(<<>>) = {} /\ IsInjective(<<>>)
  BY <1>1 DEF Queued, ToSet, IsInjective
<1> QED
  BY <1>1, <1>2, <1>3 DEF ApartInv, OnceInv, UpToDate

\* Every handle is completed at most once and every callback invoked at most
\* once, never before the handle: AsyncBatchCompletion::complete would silently
\* ignore a second result, a callback would not.
AtMostOnce ==
    /\ \A t \in Tasks : /\ Owed(t) \cap (done \cup Queued) = {}
                        /\ CallsOwed(t) \cap called = {}
                        /\ \A u \in Tasks \ {t} : Owed(t) \cap Owed(u) = {}
    /\ called \subseteq done

\* No handle gets a second result and no callback a second call, whatever
\* panics: a submission is accepted once, its batch is in one place at a time,
\* and that place knows how far it is (async_client.rs 1124-1151).
THEOREM AtMostOnceAlways == Spec => []AtMostOnce
<1>1. TypeInv /\ ApartInv /\ OnceInv => AtMostOnce
  <2> SUFFICES ASSUME TypeInv, ApartInv, OnceInv PROVE AtMostOnce
    OBVIOUS
  <2>1. ASSUME NEW t \in Tasks
        PROVE  /\ Owed(t) \subseteq ToSet(job[t].batch.subs) /\ Owed(t) \cap done = {}
               /\ CallsOwed(t) \cap called = {}
    <3> DEFINE j == job[t]
    <3>1. /\ CountsFromOne(j) /\ UpToDate(j, done, called) /\ j.next \in Nat /\ Len(j.batch.subs) \in Nat
          /\ DOMAIN j.batch.subs = 1 .. Len(j.batch.subs)
      BY JobType, LenProperties DEF TypeInv, OnceInv
    <3>2. j.phase \in {"complete", "callback"} =>
            \A i \in j.next .. Len(j.batch.subs) : i \in DOMAIN j.batch.subs /\ i >= j.next /\ ~(i < j.next)
      BY <3>1 DEF CountsFromOne
    <3>3. CASE j.phase = "deliver"
      BY <3>1, <3>3 DEF UpToDate, Owed, CallsOwed
    <3>4. CASE j.phase = "complete"
      <4>1. Owed(t) = {j.batch.subs[i] : i \in j.next .. Len(j.batch.subs)} /\ CallsOwed(t) = {}
        BY <3>4 DEF Owed, CallsOwed
      <4> QED
        BY <3>1, <3>2, <3>4, <4>1 DEF UpToDate, ToSet
    <3>5. CASE j.phase = "callback"
      <4>1. /\ Owed(t) = {}
            /\ CallsOwed(t) \subseteq {j.batch.subs[i] : i \in j.next .. Len(j.batch.subs)}
        BY <3>5 DEF Owed, CallsOwed
      <4> QED
        BY <3>1, <3>2, <3>5, <4>1 DEF UpToDate
    <3>6. CASE j.phase \notin {"deliver", "complete", "callback"}
      BY <3>6 DEF Owed, CallsOwed
    <3> QED
      BY <3>3, <3>4, <3>5, <3>6
  <2> QED
    BY <2>1 DEF AtMostOnce, ApartInv, OnceInv
<1>2. CallInv /\ OwnInv /\ TypeInv /\ PipelineFIFO /\ IsInjective(accepted) /\ ApartInv /\ OnceInv
        /\ [Next]_vars
      => (IsInjective(accepted) /\ ApartInv /\ OnceInv)'
  BY AcceptedOnceStep, ApartStep, OnceStep
<1> QED
  BY <1>1, <1>2, InitOnce, ServiceInvAlways, PTL DEF Spec, ServiceInv

=============================================================================

-------------------------- MODULE SyncClient_proofs --------------------------
(***************************************************************************)
(* For any number of submissions, workers and closers, any capacity of the *)
(* queues and any sizes of the records: the types of the blocking client,  *)
(* the limit on upload bodies and the order of the intake path; what has   *)
(* left the batcher is completed unless a panic loses it, and at most      *)
(* once, a close() that has returned Ok has drained the client, and the    *)
(* client implements ClientService.                                        *)
(***************************************************************************)
EXTENDS SyncClient, Batching_proofs

-----------------------------------------------------------------------------
(* Types, in parts that follow the groups of variables.                    *)

Job == [phase : Phases, batch : Batch, next : Nat]

CallerType == call \in [Subs -> CallStates] /\ accepted \in Seq(Subs)
FlagType ==
    /\ closed \in BOOLEAN /\ intakeClosed \in BOOLEAN /\ senderHeld \in BOOLEAN
    /\ closer \in [Closers -> CloserStates] /\ dropped \in BOOLEAN
IntakeType ==
    /\ chan \in Seq(Subs) /\ Len(chan) <= MaxQueueSize
    /\ pending \in Seq(Subs) /\ Len(pending) <= 1
BatchType ==
    /\ got \in Seq(Subs) /\ gotBytes \in Nat /\ room \in Nat
    /\ current \in Batch /\ lingered \in BOOLEAN
OutType == out \in Seq(Batch) /\ Len(out) <= MaxUploadQueue
\* complete_batch goes through the handles, then the callbacks, from the first.
CountsFromOne(j) == j.phase \in {"complete", "callback"} => j.next >= 1

WorkType ==
    /\ job \in [Threads -> Job]
    /\ done \subseteq Subs /\ called \subseteq Subs /\ discarded \subseteq Subs
    /\ \A t \in Threads : CountsFromOne(job[t])

\* TypeOK in parts, and a little more.
TypeInv ==
    /\ CallerType /\ FlagType /\ IntakeType /\ BatchType /\ OutType /\ WorkType
    /\ batcher \in BatcherStates /\ sent \in Seq(Subs)

LEMMA Unchanged ==
  /\ CallerType /\ UNCHANGED callerVars => CallerType'
  /\ FlagType /\ UNCHANGED flagVars => FlagType'
  /\ IntakeType /\ UNCHANGED intakeVars => IntakeType'
  /\ BatchType /\ UNCHANGED batchVars => BatchType'
  /\ OutType /\ UNCHANGED out => OutType'
  /\ WorkType /\ UNCHANGED workVars => WorkType'
  BY DEF CallerType, callerVars, FlagType, flagVars, IntakeType, intakeVars, BatchType,
         batchVars, OutType, WorkType, workVars

LEMMA InitType == Init => TypeInv
<1>1. /\ NoBatch \in Batch /\ Idle \in Job /\ Idle.phase = "none"
  BY BatchTypes DEF Idle, Job, Phases
<1> SUFFICES ASSUME Init PROVE TypeInv
  OBVIOUS
<1>2. CallerType
  BY DEF Init, CallerType, CallStates
<1>3. FlagType
  BY DEF Init, FlagType, CloserStates
<1>4. BatchType
  <2>1. <<>> \in Seq(Subs)
    OBVIOUS
  <2> QED
    BY <1>1, <2>1 DEF Init, BatchType
<1>5. IntakeType /\ OutType
  <2>1. MaxQueueSize >= 0 /\ MaxUploadQueue >= 0
    BY SyncClientAssumption
  <2>2. <<>> \in Seq(Subs) /\ <<>> \in Seq(Batch) /\ Len(<<>>) = 0
    OBVIOUS
  <2> QED
    BY <2>1, <2>2 DEF Init, IntakeType, OutType
<1>6. WorkType
  BY <1>1 DEF Init, WorkType, CountsFromOne
<1> QED
  BY <1>2, <1>3, <1>4, <1>5, <1>6 DEF Init, TypeInv, BatcherStates

LEMMA GotoType ==
  ASSUME CallerType, NEW s \in Subs, NEW state \in CallStates, Goto(s, state)
  PROVE  call' \in [Subs -> CallStates]
  BY DEF CallerType, Goto

LEMMA CallerTypes == ASSUME TypeInv, NEW s \in Subs, Caller(s) PROVE TypeInv'
<1>1. CASE Send(s)
  BY <1>1, Unchanged, GotoType DEF TypeInv, Send, CallerType, CallStates
<1>2. CASE CheckIntake(s)
  BY <1>2, Unchanged, GotoType DEF TypeInv, CheckIntake, CallerType, CallStates
<1>3. CASE CloneSender(s)
  BY <1>3, Unchanged, GotoType DEF TypeInv, CloneSender, CallerType, CallStates
<1>4. CASE Enqueue(s)
  <2>1. chan \in Seq(Subs) /\ accepted \in Seq(Subs) /\ Len(chan) < MaxQueueSize
        /\ MaxQueueSize \in Nat
    BY <1>4, SyncClientAssumption DEF TypeInv, CallerType, IntakeType, Enqueue, RoomInIntake
  <2>2. /\ chan' \in Seq(Subs) /\ accepted' \in Seq(Subs)
        /\ Len(chan') <= MaxQueueSize
    BY <1>4, <2>1, AppendProperties DEF Enqueue
  <2>3. CallerType'
    BY <1>4, <2>2, GotoType DEF Enqueue, TypeInv, CallerType, CallStates
  <2>4. IntakeType'
    BY <1>4, <2>2 DEF Enqueue, TypeInv, IntakeType
  <2> QED
    BY <1>4, <2>3, <2>4, Unchanged DEF Enqueue, TypeInv, workVars, flagVars, batchVars
<1>5. CASE EnqueueTimeout(s)
  BY <1>5, Unchanged, GotoType DEF TypeInv, EnqueueTimeout, CallerType, CallStates
<1> QED
  BY <1>1, <1>2, <1>3, <1>4, <1>5 DEF Caller

LEMMA TakeFirstType ==
  ASSUME TypeInv, NEW max \in Nat, TakeFirst(max)
  PROVE  /\ IntakeType' /\ got' \in Seq(Subs) /\ gotBytes' \in Nat /\ room' \in Nat
         /\ batcher' \in {"absorb", "collect"}
<1> DEFINE first == IF TakesPending THEN Head(pending) ELSE Head(chan)
<1>1. /\ chan \in Seq(Subs) /\ Len(chan) <= MaxQueueSize
      /\ pending \in Seq(Subs) /\ Len(pending) <= 1 /\ MaxQueueSize \in Nat
  BY SyncClientAssumption DEF TypeInv, IntakeType
<1>2. CASE TakesPending
  <2>1. pending # <<>> /\ pending' = <<>> /\ chan' = chan /\ first = Head(pending)
    BY <1>2 DEF TakeFirst, TakesPending
  <2>2. first \in Subs /\ IntakeType'
    BY <1>1, <2>1 DEF IntakeType
  <2> QED
    BY <2>2, SizesType DEF TakeFirst
<1>3. CASE ~TakesPending
  <2>1. chan # <<>> /\ pending' = pending /\ chan' = Tail(chan) /\ first = Head(chan)
    BY <1>3 DEF TakeFirst, TakesPending, Empty
  <2>2. first \in Subs /\ Tail(chan) \in Seq(Subs) /\ Len(Tail(chan)) <= MaxQueueSize
    BY <1>1, <2>1
  <2>3. IntakeType'
    BY <1>1, <2>1, <2>2 DEF IntakeType
  <2> QED
    BY <2>2, <2>3, SizesType DEF TakeFirst
<1> QED
  BY <1>2, <1>3

LEMMA RemainingType == ASSUME BatchType PROVE RemainingBytes \in Nat
<1>1. current.bytes \in Nat /\ BatchBytes \in Nat
  BY BatchingAssumption DEF BatchType, Batch
<1> QED
  BY <1>1 DEF RemainingBytes

LEMMA BatcherThread == Batcher \in Threads /\ \A w \in Workers : w \in Threads
  BY DEF Threads, Batcher

LEMMA SetJobType ==
  ASSUME WorkType, NEW t \in Threads, NEW j \in Job, CountsFromOne(j),
         SetJob(t, j), done' \subseteq Subs, called' \subseteq Subs, discarded' \subseteq Subs
  PROVE  WorkType'
  BY DEF WorkType, SetJob

LEMMA CompletingType ==
  ASSUME NEW b \in Batch
  PROVE  Completing(b) \in Job /\ CountsFromOne(Completing(b))
  BY DEF Completing, Job, Phases, CountsFromOne

LEMMA DispatchedType ==
  ASSUME TypeInv, sent' = sent \o current.subs
  PROVE  sent' \in Seq(Subs)
<1>1. current.subs \in Seq(Subs) /\ sent \in Seq(Subs)
  BY DEF TypeInv, BatchType, Batch
<1> QED
  BY <1>1, ConcatProperties

LEMMA OutAppendType ==
  ASSUME TypeInv, Len(out) < MaxUploadQueue, out' = Append(out, current)
  PROVE  OutType'
<1>1. /\ out \in Seq(Batch) /\ current \in Batch /\ MaxUploadQueue \in Nat
  BY SyncClientAssumption DEF TypeInv, OutType, BatchType
<1>2. /\ Append(out, current) \in Seq(Batch) /\ Len(Append(out, current)) = Len(out) + 1
      /\ Len(out) \in Nat
  BY <1>1, AppendProperties
<1> QED
  BY <1>1, <1>2 DEF OutType

LEMMA BatcherTypes == ASSUME TypeInv, BatcherStep PROVE TypeInv'
<1>1. CASE DequeueFirst
  <2>1. TakeFirst(BatchBytes) /\ BatchBytes \in Nat
    BY <1>1, BatchingAssumption DEF DequeueFirst
  <2>2. BatchType'
    BY <1>1, <2>1, TakeFirstType DEF DequeueFirst, BatchType, TypeInv
  <2> QED
    BY <1>1, <2>1, <2>2, TakeFirstType, Unchanged DEF DequeueFirst, TypeInv, BatcherStates
<1>2. CASE DequeueClosed
  BY <1>2, Unchanged DEF DequeueClosed, TypeInv, BatcherStates
<1>3. CASE KeepOpen
  BY <1>3, Unchanged DEF KeepOpen, TypeInv, BatcherStates
<1>4. CASE TryDispatch
  <2>1. current \in Batch /\ NoBatch \in Batch /\ WorkType /\ BatchType
    BY BatchTypes DEF TypeInv, BatchType
  <2>2. /\ CallerType' /\ FlagType' /\ IntakeType'
        /\ got' = got /\ gotBytes' = gotBytes /\ room' = room
        /\ done' = done /\ called' = called /\ discarded' = discarded
    BY <1>4, Unchanged DEF TypeInv, TryDispatch
  <2>3. CASE WorkersGone
    <3>1. /\ SetJob(Batcher, Completing(current)) /\ out' = out /\ batcher' = batcher
          /\ sent' = sent \o current.subs /\ current' = NoBatch /\ lingered' = lingered
      BY <1>4, <2>3 DEF TryDispatch, SetJob
    <3>2. WorkType'
      BY <2>1, <2>2, <3>1, SetJobType, CompletingType, BatcherThread DEF WorkType
    <3>3. BatchType'
      BY <2>1, <2>2, <3>1 DEF BatchType
    <3> QED
      BY <2>2, <3>1, <3>2, <3>3, DispatchedType, Unchanged DEF TypeInv
  <2>4. CASE /\ ~WorkersGone /\ Len(out) < MaxUploadQueue /\ out' = Append(out, current)
             /\ sent' = sent \o current.subs /\ current' = NoBatch
             /\ UNCHANGED <<batcher, lingered, job>>
    <3>1. WorkType'
      BY <2>1, <2>2, <2>4 DEF WorkType
    <3>2. BatchType'
      BY <2>1, <2>2, <2>4 DEF BatchType
    <3> QED
      BY <2>2, <2>4, <3>1, <3>2, DispatchedType, OutAppendType DEF TypeInv
  <2>5. CASE ~WorkersGone /\ lingered' = FALSE /\ batcher' = "wait"
             /\ UNCHANGED <<current, out, job, sent>>
    <3>1. WorkType'
      BY <2>1, <2>2, <2>5 DEF WorkType
    <3>2. BatchType'
      BY <2>1, <2>2, <2>5 DEF BatchType
    <3> QED
      BY <2>2, <2>5, <3>1, <3>2, Unchanged DEF TypeInv, BatcherStates
  <2> QED
    BY <1>4, <2>3, <2>4, <2>5 DEF TryDispatch
<1>5. CASE DequeueMore
  <2>1. TakeFirst(RemainingBytes) /\ RemainingBytes \in Nat
    BY <1>5, RemainingType DEF DequeueMore, TypeInv
  <2>2. BatchType'
    BY <1>5, <2>1, TakeFirstType DEF DequeueMore, BatchType, TypeInv
  <2> QED
    BY <1>5, <2>1, <2>2, TakeFirstType, Unchanged DEF DequeueMore, TypeInv, BatcherStates
<1>6. CASE DequeueTimeout
  BY <1>6, Unchanged DEF DequeueTimeout, TypeInv, BatcherStates
<1>7. CASE DequeueDisconnected
  BY <1>7, Unchanged DEF DequeueDisconnected, TypeInv, BatcherStates
<1>8. CASE Collect
  <2>1. /\ chan \in Seq(Subs) /\ Len(chan) <= MaxQueueSize /\ MaxQueueSize \in Nat
        /\ got \in Seq(Subs) /\ gotBytes \in Nat /\ BatchType /\ IntakeType
    BY SyncClientAssumption DEF TypeInv, IntakeType, BatchType
  <2>2. /\ CallerType' /\ FlagType' /\ OutType' /\ WorkType' /\ sent' = sent
        /\ room' = room /\ current' = current /\ lingered' = lingered
    BY <1>8, Unchanged DEF TypeInv, Collect
  <2>3. CASE chan = <<>> /\ batcher' = "absorb" /\ UNCHANGED <<chan, pending, got, gotBytes>>
    BY <2>1, <2>2, <2>3 DEF TypeInv, BatcherStates, IntakeType, BatchType
  <2>4. ASSUME chan # <<>>
        PROVE  /\ Head(chan) \in Subs /\ Tail(chan) \in Seq(Subs)
               /\ Len(Tail(chan)) <= MaxQueueSize /\ AppendSize(Head(chan)) \in Nat
    BY <2>1, <2>4, TakingOne, SizesType
  <2>5. CASE /\ chan # <<>> /\ chan' = Tail(chan) /\ batcher' = "absorb"
             /\ pending' = <<Head(chan)>> /\ UNCHANGED <<got, gotBytes>>
    <3>1. pending' \in Seq(Subs) /\ Len(pending') <= 1
      BY <2>4, <2>5
    <3>2. IntakeType'
      BY <2>4, <2>5, <3>1 DEF IntakeType
    <3> QED
      BY <2>1, <2>2, <2>5, <3>2 DEF TypeInv, BatcherStates, BatchType
  <2>6. CASE /\ chan # <<>> /\ chan' = Tail(chan) /\ UNCHANGED <<pending, batcher>>
             /\ got' = Append(got, Head(chan))
             /\ gotBytes' = gotBytes + AppendSize(Head(chan))
    <3>1. got' \in Seq(Subs)
      BY <2>1, <2>4, <2>6, AppendProperties
    <3>2. gotBytes' \in Nat
      BY <2>1, <2>4, <2>6
    <3>3. IntakeType'
      BY <2>1, <2>4, <2>6 DEF IntakeType
    <3> QED
      BY <2>1, <2>2, <2>6, <3>1, <3>2, <3>3 DEF TypeInv, BatchType
  <2> QED
    BY <1>8, <2>3, <2>5, <2>6 DEF Collect
<1>9. CASE Absorb
  <2>1. got \in Seq(Subs) /\ current \in Batch /\ lingered \in BOOLEAN /\ BatchType
    BY DEF TypeInv, BatchType
  <2>2. /\ CallerType' /\ FlagType' /\ IntakeType' /\ OutType' /\ WorkType' /\ sent' = sent
        /\ room' = room /\ gotBytes' = gotBytes
    BY <1>9, Unchanged DEF TypeInv, Absorb
  <2>3. CASE batcher' \in {"loop", "dispatch"} /\ UNCHANGED <<got, current, lingered>>
    BY <2>1, <2>2, <2>3 DEF TypeInv, BatcherStates, BatchType
  <2>4. CASE got # <<>> /\ current' = AddSubmission(current, Head(got)) /\ got' = Tail(got)
             /\ lingered' = (current # NoBatch /\ lingered)
             /\ batcher' \in {"dispatch", "absorb"}
    <3>1. Head(got) \in Subs /\ got' \in Seq(Subs) /\ lingered' \in BOOLEAN
      BY <2>1, <2>4
    <3>2. BatchType'
      BY <2>1, <2>2, <2>4, <3>1, BatchTypes DEF BatchType
    <3> QED
      BY <2>2, <2>4, <3>2 DEF TypeInv, BatcherStates
  <2> QED
    BY <1>9, <2>3, <2>4 DEF Absorb
<1>10. CASE Dispatch
  <2>1. current \in Batch /\ NoBatch \in Batch /\ WorkType /\ BatchType
    BY BatchTypes DEF TypeInv, BatchType
  <2>2. /\ CallerType' /\ FlagType' /\ IntakeType' /\ sent' = sent \o current.subs
        /\ got' = got /\ gotBytes' = gotBytes /\ room' = room /\ lingered' = lingered
        /\ done' = done /\ called' = called /\ discarded' = discarded
        /\ current' = NoBatch /\ batcher' \in {"absorb", "done"}
    BY <1>10, Unchanged DEF TypeInv, Dispatch
  <2>3. BatchType'
    BY <2>1, <2>2 DEF BatchType
  <2>4. CASE SetJob(Batcher, Completing(current)) /\ out' = out
    <3>1. WorkType'
      BY <2>1, <2>2, <2>4, SetJobType, CompletingType, BatcherThread DEF WorkType
    <3> QED
      BY <2>2, <2>3, <2>4, <3>1, DispatchedType, Unchanged DEF TypeInv, BatcherStates
  <2>5. CASE Len(out) < MaxUploadQueue /\ out' = Append(out, current) /\ job' = job
    <3>1. WorkType'
      BY <2>1, <2>2, <2>5 DEF WorkType
    <3> QED
      BY <2>2, <2>3, <2>5, <3>1, DispatchedType, OutAppendType DEF TypeInv, BatcherStates
  <2> QED
    BY <1>10, <2>4, <2>5 DEF Dispatch, SetJob
<1> QED
  BY <1>1, <1>2, <1>3, <1>4, <1>5, <1>6, <1>7, <1>8, <1>9, <1>10 DEF BatcherStep

LEMMA LingerTypes == ASSUME TypeInv, LingerExpires PROVE TypeInv'
  BY Unchanged DEF LingerExpires, TypeInv, BatchType

LEMMA JobType ==
  ASSUME WorkType, NEW t \in Threads
  PROVE  /\ job[t] \in Job /\ job[t].batch \in Batch /\ job[t].next \in Nat
         /\ job[t].batch.subs \in Seq(Subs)
         /\ CountsFromOne(job[t])
<1>1. job[t] \in Job
  BY DEF WorkType
<1> QED
  BY <1>1 DEF Job, Batch, WorkType

\* A panic ends the thread, and may empty the dispatch channel.
LEMMA PanicEffect ==
  ASSUME OutType, NEW t, Panic(t)
  PROVE  /\ SetJob(t, [job[t] EXCEPT !.phase = "panicked"])
         /\ \/ UNCHANGED <<out, discarded>>
            \/ /\ LastWorker(t)
               /\ out' = <<>> /\ Queued' = {} /\ discarded' = discarded \cup Queued
         /\ OutType' /\ Queued \subseteq Subs
<1>1. out \in Seq(Batch) /\ MaxUploadQueue \in Nat /\ Len(out) <= MaxUploadQueue
  BY SyncClientAssumption DEF OutType
<1>2. out' = out => OutType'
  BY DEF OutType
<1>3. ASSUME out' = <<>> PROVE OutType' /\ Queued' = {}
  <2>1. <<>> \in Seq(Batch) /\ Len(<<>>) = 0 /\ DOMAIN out' = {} /\ 0 <= MaxUploadQueue
    BY <1>1, <1>3
  <2>2. Queued' = {}
    BY <2>1 DEF Queued
  <2> QED
    BY <1>3, <2>1, <2>2 DEF OutType
<1>4. Queued \subseteq Subs
  <2>1. ASSUME NEW i \in DOMAIN out PROVE ToSet(out[i].subs) \subseteq Subs
    <3>1. out[i] \in Batch
      BY <1>1, <2>1
    <3>2. out[i].subs \in Seq(Subs)
      BY <3>1 DEF Batch
    <3> QED
      BY <3>2 DEF ToSet
  <2> QED
    BY <2>1 DEF Queued
<1> QED
  BY <1>2, <1>3, <1>4 DEF Panic

LEMMA PanicType ==
  ASSUME TypeInv, NEW t \in Threads, Panic(t), done' \subseteq Subs, called' \subseteq Subs
  PROVE  OutType' /\ WorkType'
<1> DEFINE dead == [job[t] EXCEPT !.phase = "panicked"]
<1>1. /\ WorkType /\ OutType /\ job[t] \in Job /\ discarded \subseteq Subs
  BY JobType DEF TypeInv, WorkType
<1>2. dead \in Job /\ CountsFromOne(dead)
  BY <1>1 DEF Job, Phases, CountsFromOne
<1>3. SetJob(t, dead) /\ OutType' /\ discarded' \subseteq Subs
  BY <1>1, PanicEffect
<1> HIDE DEF dead
<1> QED
  BY <1>1, <1>2, <1>3, SetJobType

LEMMA WorkerTypes == ASSUME TypeInv, NEW w \in Workers, Worker(w) PROVE TypeInv'
<1>1. WorkType /\ w \in Threads /\ OutType
  BY BatcherThread DEF TypeInv
<1>2. /\ CallerType' /\ FlagType' /\ IntakeType' /\ BatchType'
      /\ batcher' \in BatcherStates /\ sent' \in Seq(Subs)
      /\ done' \subseteq Subs /\ called' \subseteq Subs
  BY <1>1, Unchanged
     DEF Worker, TakeBatch, ExitWorker, Delivered, RetryLogPanics, TypeInv, WorkType
<1>7. TakeBatch(w) \/ ExitWorker(w) \/ Delivered(w) => discarded' \subseteq Subs
  BY <1>1 DEF TakeBatch, ExitWorker, Delivered, WorkType
<1>3. CASE TakeBatch(w)
  <2>1. /\ out # <<>> /\ out \in Seq(Batch) /\ Len(out) <= MaxUploadQueue /\ out' = Tail(out)
        /\ MaxUploadQueue \in Nat
    BY <1>1, <1>3, SyncClientAssumption DEF TakeBatch, OutType
  <2>2. Head(out) \in Batch /\ Tail(out) \in Seq(Batch) /\ Len(Tail(out)) <= MaxUploadQueue
    BY <2>1
  <2> DEFINE j == [phase |-> "deliver", batch |-> Head(out), next |-> 0]
  <2>3. j \in Job /\ CountsFromOne(j) /\ SetJob(w, j)
    BY <1>3, <2>2 DEF TakeBatch, Job, Phases, CountsFromOne
  <2> HIDE DEF j
  <2>4. WorkType'
    BY <1>1, <1>2, <1>3, <1>7, <2>3, SetJobType
  <2> QED
    BY <1>2, <2>1, <2>2, <2>4 DEF TypeInv, OutType
<1>4. CASE ExitWorker(w)
  <2> DEFINE j == [Idle EXCEPT !.phase = "exited"]
  <2>1. j \in Job /\ CountsFromOne(j) /\ SetJob(w, j)
    BY <1>4, BatchTypes DEF ExitWorker, Job, Phases, Idle, CountsFromOne
  <2> HIDE DEF j
  <2>2. WorkType'
    BY <1>1, <1>2, <1>4, <1>7, <2>1, SetJobType
  <2> QED
    BY <1>1, <1>2, <1>4, <2>2, Unchanged DEF TypeInv, ExitWorker
<1>5. CASE Delivered(w)
  <2>1. SetJob(w, Completing(job[w].batch)) /\ job[w].batch \in Batch
    BY <1>1, <1>5, JobType DEF Delivered
  <2>2. WorkType'
    BY <1>1, <1>2, <1>5, <1>7, <2>1, SetJobType, CompletingType
  <2> QED
    BY <1>1, <1>2, <1>5, <2>2, Unchanged DEF TypeInv, Delivered
<1>6. CASE RetryLogPanics(w)
  BY <1>1, <1>2, <1>6, PanicType DEF TypeInv, RetryLogPanics
<1> QED
  BY <1>3, <1>4, <1>5, <1>6 DEF Worker

LEMMA CompleteTypes == ASSUME TypeInv, NEW t \in Threads, CompleteBatch(t) PROVE TypeInv'
<1>1. WorkType
  BY DEF TypeInv
<1>2. /\ CallerType' /\ FlagType' /\ IntakeType' /\ BatchType'
      /\ batcher' \in BatcherStates /\ sent' \in Seq(Subs)
  BY Unchanged
     DEF CompleteBatch, CompleteHandle, HandlesCompleted, RunCallback, CallbacksDone, TypeInv
<1>3. /\ job[t] \in Job /\ job[t].batch.subs \in Seq(Subs) /\ job[t].next \in Nat
      /\ done \subseteq Subs /\ called \subseteq Subs /\ discarded \subseteq Subs
      /\ CountsFromOne(job[t])
  BY <1>1, JobType DEF WorkType
<1>10. CompleteHandle(t) \/ HandlesCompleted(t) \/ CallbacksDone(t)
         => discarded' = discarded /\ OutType'
  BY Unchanged DEF CompleteHandle, HandlesCompleted, CallbacksDone, TypeInv
<1> DEFINE after == [job[t] EXCEPT !.next = @ + 1]
<1>4. after \in Job /\ after.phase = job[t].phase /\ CountsFromOne(after)
  BY <1>3 DEF Job, CountsFromOne
<1>5. Idle \in Job /\ CountsFromOne(Idle)
  BY BatchTypes DEF Idle, Job, Phases, CountsFromOne
<1>6. CASE CompleteHandle(t)
  <2>1. /\ SetJob(t, after) /\ called' = called
        /\ done' = done \cup {job[t].batch.subs[job[t].next]}
        /\ job[t].next >= 1 /\ job[t].next <= Len(job[t].batch.subs)
    BY <1>3, <1>6 DEF CompleteHandle, AllCompleted, CountsFromOne
  <2>2. done' \subseteq Subs
    BY <1>3, <2>1
  <2> HIDE DEF after
  <2>3. WorkType'
    BY <1>1, <1>3, <1>4, <1>6, <1>10, <2>1, <2>2, SetJobType
  <2> QED
    BY <1>2, <1>6, <1>10, <2>3 DEF TypeInv
<1>7. CASE HandlesCompleted(t)
  <2> DEFINE j == IF HasCallback(job[t].batch)
                  THEN [job[t] EXCEPT !.phase = "callback", !.next = 1] ELSE Idle
  <2>1. SetJob(t, j) /\ called' = called /\ done' = done
    BY <1>7 DEF HandlesCompleted
  <2> DEFINE calling == [job[t] EXCEPT !.phase = "callback", !.next = 1]
  <2>2. calling \in Job /\ calling.next = 1
    BY <1>3 DEF Job, Phases
  <2>3. CountsFromOne(calling)
    BY <2>2 DEF CountsFromOne
  <2>4. j \in Job /\ CountsFromOne(j)
    <3>1. j = calling \/ j = Idle
      OBVIOUS
    <3> HIDE DEF calling, j
    <3> QED
      BY <1>5, <2>2, <2>3, <3>1
  <2> HIDE DEF j
  <2>5. WorkType'
    BY <1>1, <1>3, <1>7, <1>10, <2>1, <2>4, SetJobType
  <2> QED
    BY <1>2, <1>7, <1>10, <2>5 DEF TypeInv
<1>8. CASE RunCallback(t)
  <2>1. done' = done /\ done' \subseteq Subs /\ called' \subseteq Subs
    BY <1>3, <1>8, SyncClientAssumption DEF RunCallback
  <2>2. \/ SetJob(t, after) /\ UNCHANGED <<out, discarded>>
        \/ Panic(t)
    BY <1>8 DEF RunCallback
  <2> HIDE DEF after
  <2>3. CASE SetJob(t, after) /\ UNCHANGED <<out, discarded>>
    BY <1>1, <1>2, <1>3, <1>4, <2>1, <2>3, SetJobType, Unchanged DEF TypeInv
  <2>4. CASE Panic(t)
    BY <1>2, <2>1, <2>4, PanicType DEF TypeInv
  <2> QED
    BY <2>2, <2>3, <2>4
<1>9. CASE CallbacksDone(t)
  <2>1. SetJob(t, Idle) /\ done' = done /\ called' = called
    BY <1>9 DEF CallbacksDone
  <2>2. WorkType'
    BY <1>1, <1>3, <1>5, <1>9, <1>10, <2>1, SetJobType
  <2> QED
    BY <1>2, <1>9, <1>10, <2>2 DEF TypeInv
<1> QED
  BY <1>6, <1>7, <1>8, <1>9 DEF CompleteBatch

LEMMA CloserTypes == ASSUME TypeInv, NEW c \in Closers, Closer(c) PROVE TypeInv'
<1>1. /\ CallerType' /\ IntakeType' /\ BatchType' /\ OutType' /\ WorkType'
      /\ batcher' \in BatcherStates /\ sent' \in Seq(Subs)
  BY Unchanged
     DEF Closer, Close, CloseIntake, DropSender, JoinBatcher, JoinWorkers, TypeInv
<1>2. FlagType'
  BY DEF Closer, Close, CloseIntake, DropSender, JoinBatcher, JoinWorkers, Advance,
         TypeInv, FlagType, CloserStates
<1> QED
  BY <1>1, <1>2 DEF TypeInv

LEMMA DropTypes == ASSUME TypeInv, Drop PROVE TypeInv'
<1>1. FlagType'
  BY DEF Drop, TypeInv, FlagType
<1> QED
  BY <1>1, Unchanged DEF Drop, TypeInv

LEMMA TypeStep == TypeInv /\ [Next]_vars => TypeInv'
<1> SUFFICES ASSUME TypeInv, [Next]_vars PROVE TypeInv'
  OBVIOUS
<1>1. CASE UNCHANGED vars
  BY <1>1, Unchanged DEF vars, TypeInv
<1>2. CASE Next
  BY <1>1, <1>2, CallerTypes, BatcherTypes, LingerTypes, WorkerTypes, CompleteTypes,
     CloserTypes, DropTypes DEF Next
<1> QED
  BY <1>1, <1>2

\* The values of the blocking client's variables are what the code's types
\* say, the channels hold no more than their capacities, and a worker that
\* completes handles counts them from the first (client.rs 887-912).
THEOREM TypeCorrect == Spec => []TypeOK
<1>1. TypeInv => TypeOK
  BY DEF TypeInv, TypeOK, CallerType, FlagType, IntakeType, BatchType, OutType, WorkType, Job
<1> QED
  BY <1>1, InitType, TypeStep, PTL DEF Spec

-----------------------------------------------------------------------------
(* Who may change what.                                                    *)

LEMMA BatcherOwns ==
  ASSUME [Next]_vars, ~BatcherStep
  PROVE  UNCHANGED <<batcher, got, gotBytes, room, current, pending, sent>>
<1>1. ASSUME NEW s \in Subs, Caller(s)
      PROVE  UNCHANGED <<batcher, got, gotBytes, room, current, pending, sent>>
  BY <1>1 DEF Caller, Send, CheckIntake, CloneSender, Enqueue, EnqueueTimeout, batchVars,
              intakeVars
<1>2. ASSUME NEW w \in Workers, Worker(w)
      PROVE  UNCHANGED <<batcher, got, gotBytes, room, current, pending, sent>>
  BY <1>2 DEF Worker, TakeBatch, ExitWorker, Delivered, RetryLogPanics, batchVars, intakeVars
<1>3. ASSUME NEW t \in Threads, CompleteBatch(t)
      PROVE  UNCHANGED <<batcher, got, gotBytes, room, current, pending, sent>>
  BY <1>3 DEF CompleteBatch, CompleteHandle, HandlesCompleted, RunCallback, CallbacksDone,
              batchVars, intakeVars
<1>4. ASSUME NEW c \in Closers, Closer(c)
      PROVE  UNCHANGED <<batcher, got, gotBytes, room, current, pending, sent>>
  BY <1>4 DEF Closer, Close, CloseIntake, DropSender, JoinBatcher, JoinWorkers, batchVars,
              intakeVars
<1>5. ASSUME Drop \/ LingerExpires
      PROVE  UNCHANGED <<batcher, got, gotBytes, room, current, pending, sent>>
  BY <1>5 DEF Drop, LingerExpires, batchVars, intakeVars
<1>6. ASSUME UNCHANGED vars
      PROVE  UNCHANGED <<batcher, got, gotBytes, room, current, pending, sent>>
  BY <1>6 DEF vars, batchVars, intakeVars
<1> QED
  BY <1>1, <1>2, <1>3, <1>4, <1>5, <1>6 DEF Next

\* The handles, the callbacks and the dispatch channel.
LEMMA WhoWorks ==
  ASSUME [Next]_vars
  PROVE  \/ UNCHANGED <<out, job, done, called, discarded, sent>>
         \/ TryDispatch \/ Dispatch
         \/ \E w \in Workers : Worker(w)
         \/ \E t \in Threads : CompleteBatch(t)
<1>1. ASSUME NEW s \in Subs, Caller(s) PROVE UNCHANGED <<out, job, done, called, discarded, sent>>
  BY <1>1 DEF Caller, Send, CheckIntake, CloneSender, Enqueue, EnqueueTimeout, workVars
<1>2. ASSUME NEW c \in Closers, Closer(c)
      PROVE  UNCHANGED <<out, job, done, called, discarded, sent>>
  BY <1>2 DEF Closer, Close, CloseIntake, DropSender, JoinBatcher, JoinWorkers, workVars
<1>3. ASSUME \/ DequeueFirst \/ DequeueClosed \/ KeepOpen \/ DequeueMore \/ DequeueTimeout
             \/ DequeueDisconnected \/ Collect \/ Absorb \/ LingerExpires \/ Drop
             \/ UNCHANGED vars
      PROVE  UNCHANGED <<out, job, done, called, discarded, sent>>
  BY <1>3 DEF DequeueFirst, DequeueClosed, KeepOpen, DequeueMore, DequeueTimeout,
     DequeueDisconnected, Collect, Absorb, LingerExpires, Drop, vars, workVars
<1> QED
  BY <1>1, <1>2, <1>3 DEF Next, BatcherStep

\* The calls of send, and the intake channel.
LEMMA WhoSends ==
  ASSUME [Next]_vars
  PROVE  \/ \E s \in Subs : Caller(s)
         \/ UNCHANGED <<call, accepted>> /\ (BatcherStep \/ chan' = chan)
<1>1. BatcherStep => UNCHANGED <<call, accepted>>
  BY DEF BatcherStep, DequeueFirst, DequeueClosed, KeepOpen, TryDispatch, DequeueMore,
         DequeueTimeout, DequeueDisconnected, Collect, Absorb, Dispatch, callerVars
<1>2. ASSUME NEW w \in Workers, Worker(w) PROVE UNCHANGED <<call, accepted, chan>>
  BY <1>2 DEF Worker, TakeBatch, ExitWorker, Delivered, RetryLogPanics, callerVars, intakeVars
<1>3. ASSUME NEW t \in Threads, CompleteBatch(t) PROVE UNCHANGED <<call, accepted, chan>>
  BY <1>3 DEF CompleteBatch, CompleteHandle, HandlesCompleted, RunCallback, CallbacksDone,
              callerVars, intakeVars
<1>4. ASSUME NEW c \in Closers, Closer(c) PROVE UNCHANGED <<call, accepted, chan>>
  BY <1>4 DEF Closer, Close, CloseIntake, DropSender, JoinBatcher, JoinWorkers, callerVars,
              intakeVars
<1>5. LingerExpires \/ Drop \/ UNCHANGED vars => UNCHANGED <<call, accepted, chan>>
  BY DEF LingerExpires, Drop, vars, callerVars, intakeVars
<1> QED
  BY <1>1, <1>2, <1>3, <1>4, <1>5 DEF Next

\* The calls of close, and the queue's own sender, which is never put back.
LEMMA WhoCloses ==
  ASSUME TypeInv, [Next]_vars
  PROVE  /\ closer' = closer \/ \E c \in Closers : Closer(c)
         /\ ~senderHeld => ~senderHeld'
<1>1. ASSUME NEW s \in Subs, Caller(s) PROVE UNCHANGED flagVars
  BY <1>1 DEF Caller, Send, CheckIntake, CloneSender, Enqueue, EnqueueTimeout
<1>2. ASSUME BatcherStep \/ LingerExpires \/ UNCHANGED vars PROVE UNCHANGED flagVars
  BY <1>2 DEF BatcherStep, DequeueFirst, DequeueClosed, KeepOpen, TryDispatch, DequeueMore,
              DequeueTimeout, DequeueDisconnected, Collect, Absorb, Dispatch, LingerExpires,
              vars
<1>3. ASSUME NEW w \in Workers, Worker(w) PROVE UNCHANGED flagVars
  BY <1>3 DEF Worker, TakeBatch, ExitWorker, Delivered, RetryLogPanics
<1>4. ASSUME NEW t \in Threads, CompleteBatch(t) PROVE UNCHANGED flagVars
  BY <1>4 DEF CompleteBatch, CompleteHandle, HandlesCompleted, RunCallback, CallbacksDone
<1>5. ASSUME NEW c \in Closers, Closer(c) PROVE ~senderHeld => ~senderHeld'
  BY <1>5 DEF Closer, Close, CloseIntake, DropSender, JoinBatcher, JoinWorkers
<1>6. ASSUME Drop PROVE closer' = closer /\ (~senderHeld => ~senderHeld')
  BY <1>6 DEF Drop
<1> QED
  BY <1>1, <1>2, <1>3, <1>4, <1>5, <1>6 DEF Next, flagVars

-----------------------------------------------------------------------------
(* The limit on upload bodies.  The two sizes QueuedSubmission::new has    *)
(* computed decide everything: a submission that does not fit a body of    *)
(* its own never gets past send_batch_internal, and absorb adds to the     *)
(* open batch only what it has room for.                                   *)

\* Everything past the size check fits.
FitInv ==
    /\ \A s \in Subs : call[s] \in {"enqueue", "clone", "sending"} => s \in Fitting
    /\ chan \in Seq(Fitting) /\ pending \in Seq(Fitting) /\ got \in Seq(Fitting)

\* An open batch has room left wherever more may be taken for it.
RoomInv ==
    /\ current \in Uploadable
    /\ current.subs = <<>> => current = NoBatch
    /\ batcher \in {"loop", "wait", "collect", "absorb"} => current.bytes < BatchBytes
    /\ batcher = "collect" => room > 0

\* What has left the batcher is within the limit.
OutInv == out \in Seq(Uploadable) /\ \A t \in Threads : job[t].batch \in Uploadable

LEMMA InitFits == Init => FitInv /\ RoomInv /\ OutInv
<1> SUFFICES ASSUME Init PROVE FitInv /\ RoomInv /\ OutInv
  OBVIOUS
<1>1. FitInv
  <2>1. <<>> \in Seq(Fitting)
    OBVIOUS
  <2> QED
    BY <2>1 DEF Init, FitInv
<1>2. RoomInv
  <2>1. 0 < BatchBytes
    BY BatchingAssumption
  <2> QED
    BY <2>1, NoBatchUploadable DEF Init, RoomInv
<1>3. OutInv
  <2>1. <<>> \in Seq(Uploadable)
    OBVIOUS
  <2> QED
    BY <2>1, NoBatchUploadable DEF Init, OutInv, Idle
<1> QED
  BY <1>1, <1>2, <1>3

\* TakeFirst takes what was kept back, else the next of the channel.
LEMMA TakeFirstFits ==
  ASSUME FitInv, TypeInv, NEW max, TakeFirst(max)
  PROVE  /\ chan' \in Seq(Fitting) /\ pending' \in Seq(Fitting) /\ got' \in Seq(Fitting)
<1>1. chan \in Seq(Fitting) /\ pending \in Seq(Fitting)
  BY DEF FitInv
<1>2. CASE TakesPending
  <2>1. /\ pending # <<>> /\ pending' = <<>> /\ chan' = chan /\ got' = <<Head(pending)>>
    BY <1>2 DEF TakeFirst, TakesPending
  <2> QED
    BY <1>1, <2>1
<1>3. CASE ~TakesPending
  <2>1. /\ chan # <<>> /\ pending' = pending /\ chan' = Tail(chan) /\ got' = <<Head(chan)>>
    BY <1>3 DEF TakeFirst, TakesPending, Empty
  <2> QED
    BY <1>1, <2>1
<1> QED
  BY <1>2, <1>3

LEMMA FitStep == ASSUME TypeInv, FitInv, [Next]_vars PROVE FitInv'
<1>1. /\ chan \in Seq(Fitting) /\ pending \in Seq(Fitting) /\ got \in Seq(Fitting)
      /\ call \in [Subs -> CallStates]
  BY DEF FitInv, TypeInv, CallerType
<1>2. ASSUME NEW s \in Subs, Caller(s) PROVE FitInv'
  <2>1. pending' = pending /\ got' = got
    BY <1>2 DEF Caller, Send, CheckIntake, CloneSender, Enqueue, EnqueueTimeout, batchVars,
                intakeVars
  <2>2. CASE Enqueue(s)
    <3>1. s \in Fitting /\ chan' = Append(chan, s)
      BY <2>2 DEF Enqueue, FitInv
    <3>2. chan' \in Seq(Fitting)
      BY <1>1, <3>1, AppendProperties
    <3> QED
      BY <1>1, <2>1, <2>2, <3>2 DEF FitInv, Enqueue, Goto
  <2>3. CASE Send(s)
    <3>1. chan' = chan
      BY <2>3 DEF Send, intakeVars
    <3>2. \/ Goto(s, "rejected")
          \/ Goto(s, "enqueue") /\ ~(StandaloneSize(s) > BatchBytes)
      BY <2>3 DEF Send
    <3>3. ~(StandaloneSize(s) > BatchBytes) => s \in Fitting
      BY SizesType DEF Fitting
    <3> QED
      BY <1>1, <2>1, <3>1, <3>2, <3>3 DEF FitInv, Goto
  <2>4. CASE CheckIntake(s) \/ CloneSender(s) \/ EnqueueTimeout(s)
    <3>1. chan' = chan
      BY <2>4 DEF CheckIntake, CloneSender, EnqueueTimeout, intakeVars
    <3> QED
      BY <1>1, <2>1, <2>4, <3>1 DEF FitInv, Goto, CheckIntake, CloneSender, EnqueueTimeout
  <2> QED
    BY <1>2, <2>2, <2>3, <2>4 DEF Caller
<1>3. CASE BatcherStep /\ call' = call
  <2>1. call' = call
    BY <1>3
  <2>2. CASE DequeueFirst \/ DequeueMore
    BY <2>1, <2>2, TakeFirstFits DEF DequeueFirst, DequeueMore, FitInv
  <2>3. CASE Collect
    <3>1. CASE UNCHANGED <<chan, pending, got>>
      BY <1>1, <2>1, <3>1 DEF FitInv
    <3>2. CASE /\ chan # <<>> /\ chan' = Tail(chan)
               /\ \/ pending' = <<Head(chan)>> /\ got' = got
                  \/ got' = Append(got, Head(chan)) /\ pending' = pending
      <4>1. Head(chan) \in Fitting /\ Tail(chan) \in Seq(Fitting)
        BY <1>1, <3>2
      <4>2. <<Head(chan)>> \in Seq(Fitting) /\ Append(got, Head(chan)) \in Seq(Fitting)
        BY <1>1, <4>1, AppendProperties
      <4> QED
        BY <1>1, <2>1, <3>2, <4>1, <4>2 DEF FitInv
    <3> QED
      BY <2>3, <3>1, <3>2 DEF Collect
  <2>4. CASE Absorb
    <3>1. chan' = chan /\ pending' = pending /\ (got' = got \/ (got # <<>> /\ got' = Tail(got)))
      BY <2>4 DEF Absorb, intakeVars
    <3>2. got' \in Seq(Fitting)
      BY <1>1, <3>1
    <3> QED
      BY <2>1, <3>1, <3>2 DEF FitInv
  <2>5. CASE \/ DequeueClosed \/ KeepOpen \/ TryDispatch \/ DequeueTimeout
             \/ DequeueDisconnected \/ Dispatch
    <3>1. UNCHANGED <<chan, pending, got>>
      BY <2>5 DEF DequeueClosed, KeepOpen, TryDispatch, DequeueTimeout, DequeueDisconnected,
                  Dispatch, intakeVars, batchVars
    <3> QED
      BY <2>1, <3>1 DEF FitInv
  <2> QED
    BY <1>3, <2>2, <2>3, <2>4, <2>5 DEF BatcherStep
<1>4. CASE ~BatcherStep /\ call' = call /\ chan' = chan
  BY <1>4, BatcherOwns DEF FitInv
<1> QED
  BY <1>2, <1>3, <1>4, WhoSends

LEMMA RoomStep == ASSUME TypeInv, FitInv, RoomInv, [Next]_vars PROVE RoomInv'
<1>1. CASE ~BatcherStep
  BY <1>1, BatcherOwns DEF RoomInv
<1>2. CASE DequeueFirst \/ DequeueMore
  <2>1. current' = current /\ batcher' \in {"absorb", "collect"}
    BY <1>2, TakeFirstType, RemainingType, BatchingAssumption
       DEF DequeueFirst, DequeueMore, TypeInv
  <2>2. batcher \in {"loop", "wait"}
    BY <1>2 DEF DequeueFirst, DequeueMore, At
  <2>3. current.bytes \in Nat /\ BatchBytes \in Nat \ {0} /\ current.bytes < BatchBytes
    BY <2>2, BatchingAssumption DEF RoomInv, Uploadable, Batch
  <2>4. BatchBytes > 0 /\ RemainingBytes > 0
    BY <2>3 DEF RemainingBytes
  <2>5. room' > 0
    BY <1>2, <2>4 DEF DequeueFirst, DequeueMore, TakeFirst
  <2> QED
    BY <2>1, <2>3, <2>5 DEF RoomInv
<1>3. CASE TryDispatch \/ Dispatch
  <2>1. \/ current' = NoBatch /\ batcher' \in {"loop", "absorb", "done"}
        \/ current' = current /\ batcher' = "wait" /\ batcher = "loop"
    BY <1>3 DEF TryDispatch, Dispatch, At
  <2>2. 0 < BatchBytes
    BY BatchingAssumption
  <2> QED
    BY <2>1, <2>2, NoBatchUploadable DEF RoomInv
<1>4. CASE \/ DequeueClosed \/ KeepOpen \/ DequeueTimeout \/ DequeueDisconnected
  <2>1. /\ current' = current
        /\ \/ batcher' \in {"done", "closing"}
           \/ batcher \in {"loop", "wait"} /\ batcher' \in {"loop", "wait"}
    BY <1>4 DEF DequeueClosed, KeepOpen, DequeueTimeout, DequeueDisconnected, At, batchVars
  <2> QED
    BY <2>1 DEF RoomInv
<1>5. CASE Collect
  <2>1. /\ current' = current /\ room' = room /\ batcher = "collect"
        /\ batcher' \in {"absorb", "collect"}
    BY <1>5 DEF Collect, At
  <2> QED
    BY <2>1 DEF RoomInv
<1>6. CASE Absorb
  <2>1. batcher = "absorb"
    BY <1>6 DEF Absorb, At
  <2>2. CASE current' = current /\ batcher' \in {"loop", "dispatch"}
    BY <2>1, <2>2 DEF RoomInv
  <2>3. CASE /\ got # <<>> /\ ~Overflows(Head(got))
             /\ current' = AddSubmission(current, Head(got))
             /\ batcher' = IF Fills(current') THEN "dispatch" ELSE "absorb"
    <3> DEFINE s == Head(got)
    <3>1. s \in Subs /\ StandaloneSize(s) <= BatchBytes
      BY <2>3 DEF FitInv, Fitting
    <3>2. current \in Batch /\ current.subs \in Seq(Subs) /\ BatchBytes \in Nat
      BY BatchingAssumption DEF RoomInv, Uploadable, Batch
    <3>3. current' \in Batch /\ current'.bytes \in Nat
      BY <2>3, <3>1, <3>2, BatchTypes DEF Batch
    <3>4. current'.subs = Append(current.subs, s)
      BY <2>3 DEF AddSubmission
    <3>5. current'.subs # <<>>
      BY <3>2, <3>4
    <3>6. Exact(current')
      BY <2>3, <3>1, <3>2, AddExact DEF RoomInv, Uploadable
    <3>7. CASE current.subs = <<>>
      <4>1. current'.bytes = StandaloneSize(s)
        BY <2>3, <3>7 DEF AddSubmission
      <4> QED
        BY <2>3, <3>1, <3>2, <3>3, <3>5, <3>6, <4>1 DEF RoomInv, Uploadable, Fills
    <3>8. CASE current.subs # <<>>
      <4>1. current # NoBatch
        BY <3>8 DEF NoBatch
      <4>2. /\ current'.bytes = current.bytes + AppendSize(s)
            /\ ~(current.bytes + AppendSize(s) > BatchBytes)
        BY <2>3, <3>8, <4>1 DEF AddSubmission, Overflows
      <4>3. current'.bytes <= BatchBytes
        BY <3>2, <3>3, <4>2
      <4> QED
        BY <2>3, <3>2, <3>3, <3>5, <3>6, <4>3 DEF RoomInv, Uploadable, Fills
    <3> QED
      BY <3>7, <3>8
  <2> QED
    BY <1>6, <2>2, <2>3 DEF Absorb
<1> QED
  BY <1>1, <1>2, <1>3, <1>4, <1>5, <1>6 DEF BatcherStep

LEMMA SetJobUploadable ==
  ASSUME OutInv, WorkType, NEW t \in Threads, NEW j, j.batch \in Uploadable, SetJob(t, j)
  PROVE  \A u \in Threads : job'[u].batch \in Uploadable
  BY DEF OutInv, WorkType, SetJob

LEMMA OutStep == ASSUME TypeInv, RoomInv, OutInv, [Next]_vars PROVE OutInv'
<1>1. /\ out \in Seq(Uploadable) /\ current \in Uploadable /\ NoBatch \in Uploadable /\ WorkType
      /\ \A t \in Threads : job[t].batch \in Uploadable /\ job[t] \in Job
  BY NoBatchUploadable, JobType DEF OutInv, RoomInv, TypeInv
<1>2. CASE TryDispatch \/ Dispatch
  <2>1. \/ out' = out /\ (job' = job \/ SetJob(Batcher, Completing(current)))
        \/ out' = Append(out, current) /\ job' = job
    BY <1>2 DEF TryDispatch, Dispatch, SetJob
  <2>2. out' \in Seq(Uploadable)
    BY <1>1, <2>1, AppendProperties
  <2>3. Completing(current).batch \in Uploadable
    BY <1>1 DEF Completing
  <2>4. \A t \in Threads : job'[t].batch \in Uploadable
    BY <1>1, <2>1, <2>3, SetJobUploadable, BatcherThread
  <2> QED
    BY <2>2, <2>4 DEF OutInv
<1>3. ASSUME NEW w \in Workers, Worker(w) PROVE OutInv'
  <2>1. w \in Threads
    BY BatcherThread
  <2>2. CASE TakeBatch(w)
    <3>1. /\ out # <<>> /\ out' = Tail(out)
          /\ SetJob(w, [phase |-> "deliver", batch |-> Head(out), next |-> 0])
      BY <2>2 DEF TakeBatch
    <3>2. Head(out) \in Uploadable /\ out' \in Seq(Uploadable)
      BY <1>1, <3>1
    <3> QED
      BY <1>1, <2>1, <3>1, <3>2, SetJobUploadable DEF OutInv
  <2>3. CASE ExitWorker(w) \/ Delivered(w) \/ RetryLogPanics(w)
    <3>1. out' = out \/ out' = <<>>
      BY <2>3 DEF ExitWorker, Delivered, RetryLogPanics, Panic
    <3>2. \E j : j.batch \in Uploadable /\ SetJob(w, j)
      BY <1>1, <2>1, <2>3
         DEF ExitWorker, Delivered, RetryLogPanics, Panic, Idle, Completing, Job
    <3>3. out' \in Seq(Uploadable)
      <4>1. <<>> \in Seq(Uploadable)
        OBVIOUS
      <4> QED
        BY <1>1, <3>1, <4>1
    <3> QED
      BY <1>1, <2>1, <3>2, <3>3, SetJobUploadable DEF OutInv
  <2> QED
    BY <1>3, <2>2, <2>3 DEF Worker
<1>4. ASSUME NEW t \in Threads, CompleteBatch(t) PROVE OutInv'
  <2>1. out' = out \/ out' = <<>>
    BY <1>4 DEF CompleteBatch, CompleteHandle, HandlesCompleted, RunCallback, CallbacksDone,
                Panic
  <2>2. \E j : j.batch \in Uploadable /\ SetJob(t, j)
    BY <1>1, <1>4 DEF CompleteBatch, CompleteHandle, HandlesCompleted, RunCallback,
                      CallbacksDone, Panic, Idle, Job
  <2>3. out' \in Seq(Uploadable)
    <3>1. <<>> \in Seq(Uploadable)
      OBVIOUS
    <3> QED
      BY <1>1, <2>1, <3>1
  <2> QED
    BY <1>1, <2>2, <2>3, SetJobUploadable DEF OutInv
<1>5. CASE UNCHANGED <<out, job, done, called, discarded, sent>>
  BY <1>5 DEF OutInv
<1> QED
  BY <1>2, <1>3, <1>4, <1>5, WhoWorks

LEMMA Fits == Spec => [](TypeInv /\ FitInv /\ RoomInv /\ OutInv)
  BY InitType, InitFits, TypeStep, FitStep, RoomStep, OutStep, PTL DEF Spec

\* Whatever the sizes of the records, in both formats, no upload body exceeds
\* batch_bytes: not the open batch, not one that waits in the dispatch
\* channel, not one a worker has (queue.rs 22-56, client.rs 573-603).
THEOREM BatchWithinLimitAlways == Spec => []BatchWithinLimit
<1>1. RoomInv /\ OutInv => BatchWithinLimit
  BY DEF RoomInv, OutInv, BatchWithinLimit, Batches, Uploadable
<1> QED
  BY <1>1, Fits, PTL

\* The byte_size on which every decision is taken is the length of the body
\* that encode_body writes, for every batch and in both formats
\* (queue.rs 22-137).
THEOREM ByteSizeExactAlways == Spec => []ByteSizeExact
<1>1. RoomInv /\ OutInv => ByteSizeExact
  <2> SUFFICES ASSUME RoomInv, OutInv, NEW b \in Batches PROVE Exact(b)
    BY DEF ByteSizeExact, Exact
  <2> QED
    BY DEF RoomInv, OutInv, Batches, Uploadable
<1> QED
  BY <1>1, Fits, PTL

\* collect_batch is never given a limit of zero, which would mean no limit:
\* dequeue_batch_wait is only called for a batch that has room left
\* (client.rs 595-603, queue.rs 280-308).
THEOREM NeverUnlimitedAlways == Spec => []NeverUnlimited
<1>1. RoomInv => NeverUnlimited
  BY DEF RoomInv, NeverUnlimited
<1> QED
  BY <1>1, Fits, PTL

\* The batcher waits for room in the dispatch channel only with a batch that is
\* full or cannot take the next submission, or with the last one
\* (client.rs 573-614).
THEOREM OnlyFullBatchesBlockAlways == Spec => []OnlyFullBatchesBlock
<1>1. Init => OnlyFullBatchesBlock
  BY DEF Init, OnlyFullBatchesBlock
<1>2. OnlyFullBatchesBlock /\ [Next]_vars => OnlyFullBatchesBlock'
  <2> SUFFICES ASSUME OnlyFullBatchesBlock, [Next]_vars, batcher' = "dispatch"
               PROVE  (Fills(current) \/ (got # <<>> /\ Overflows(Head(got))))'
    BY DEF OnlyFullBatchesBlock
  <2>1. CASE ~BatcherStep
    BY <2>1, BatcherOwns DEF OnlyFullBatchesBlock, Fills, Overflows
  <2>2. CASE Absorb
    BY <2>2 DEF Absorb, Fills, Overflows
  <2>3. CASE BatcherStep /\ ~Absorb
    <3>1. batcher' # "dispatch"
      BY <2>3 DEF BatcherStep, DequeueFirst, DequeueClosed, KeepOpen, TryDispatch, TakeFirst,
         DequeueMore, DequeueTimeout, DequeueDisconnected, Collect, Dispatch, At
    <3> QED
      BY <3>1
  <2> QED
    BY <2>1, <2>2, <2>3
<1> QED
  BY <1>1, <1>2, PTL DEF Spec

-----------------------------------------------------------------------------
(* The order of the intake path.                                           *)

\* Where got and pending are empty when the next submissions are taken.
FifoInv ==
    /\ PipelineFIFO
    /\ batcher \in {"loop", "wait", "closing", "done"} => got = <<>>
    /\ batcher = "collect" => pending = <<>>

LEMMA PipelineTypes ==
  ASSUME TypeInv
  PROVE  /\ sent \in Seq(Subs) /\ current.subs \in Seq(Subs) /\ got \in Seq(Subs)
         /\ pending \in Seq(Subs) /\ Len(pending) <= 1 /\ chan \in Seq(Subs)
         /\ sent \o current.subs \in Seq(Subs)
         /\ sent \o current.subs \o got \in Seq(Subs)
         /\ sent \o current.subs \o got \o pending \in Seq(Subs)
<1>1. /\ sent \in Seq(Subs) /\ current.subs \in Seq(Subs) /\ got \in Seq(Subs)
      /\ pending \in Seq(Subs) /\ Len(pending) <= 1 /\ chan \in Seq(Subs)
  BY DEF TypeInv, BatchType, Batch, IntakeType
<1>2. sent \o current.subs \in Seq(Subs)
  BY <1>1, ConcatProperties
<1>3. sent \o current.subs \o got \in Seq(Subs)
  BY <1>1, <1>2, ConcatProperties
<1>4. sent \o current.subs \o got \o pending \in Seq(Subs)
  BY <1>1, <1>3, ConcatProperties
<1> QED
  BY <1>1, <1>2, <1>3, <1>4

LEMMA TakeFirstInOrder ==
  ASSUME TypeInv, got = <<>>, NEW max, TakeFirst(max)
  PROVE  sent \o current.subs \o got' \o pending' \o chan'
         = sent \o current.subs \o got \o pending \o chan
<1> DEFINE front == sent \o current.subs
<1>1. /\ front \in Seq(Subs) /\ pending \in Seq(Subs) /\ Len(pending) <= 1
      /\ chan \in Seq(Subs)
  BY PipelineTypes
<1> HIDE DEF front
<1>2. \A s \in Subs : front \o <<s>> = Append(front, s) /\ Append(front, s) \in Seq(Subs)
  BY <1>1, AppendIsConcat, AppendProperties
<1>3. CASE TakesPending
  <2>1. pending # <<>> /\ pending' = <<>> /\ chan' = chan /\ got' = <<Head(pending)>>
    BY <1>3 DEF TakeFirst, TakesPending
  <2>2. Head(pending) \in Subs /\ Tail(pending) = <<>>
    BY <1>1, <2>1
  <2>3. front \o pending = Append(front, Head(pending))
    BY <1>1, <1>2, <2>1, <2>2, MoveOne, EmptyToConcat
  <2>4. front \o got' \o pending' = front \o pending
    BY <1>2, <2>1, <2>2, <2>3, EmptyToConcat
  <2>5. front \o got = front
    BY <1>1, EmptyToConcat
  <2> QED
    BY <2>1, <2>4, <2>5 DEF front
<1>4. CASE ~TakesPending
  <2>1. /\ chan # <<>> /\ pending = <<>> /\ pending' = <<>> /\ chan' = Tail(chan)
        /\ got' = <<Head(chan)>>
    BY <1>4 DEF TakeFirst, TakesPending, Empty
  <2>2. Head(chan) \in Subs
    BY <1>1, <2>1
  <2>3. front \o chan = Append(front, Head(chan)) \o Tail(chan)
    BY <1>1, <2>1, MoveOne
  <2>4. front \o got' \o pending' = Append(front, Head(chan))
    BY <1>2, <2>1, <2>2, EmptyToConcat
  <2>5. front \o got \o pending = front
    BY <1>1, <2>1, EmptyToConcat
  <2> QED
    BY <2>1, <2>3, <2>4, <2>5 DEF front
<1> QED
  BY <1>3, <1>4

LEMMA InitFifo == Init => FifoInv
<1> SUFFICES ASSUME Init PROVE FifoInv
  OBVIOUS
<1>1. <<>> \o <<>> \o <<>> \o <<>> \o <<>> = <<>>
  BY ConcatEmptySeq, EmptySeq
<1> QED
  BY <1>1, NoBatchUploadable DEF Init, FifoInv, PipelineFIFO

LEMMA FifoStep == ASSUME TypeInv, FifoInv, [Next]_vars PROVE FifoInv'
<1> DEFINE front == sent \o current.subs
<1>1. /\ sent \in Seq(Subs) /\ current.subs \in Seq(Subs) /\ got \in Seq(Subs)
      /\ pending \in Seq(Subs) /\ chan \in Seq(Subs) /\ front \in Seq(Subs)
      /\ front \o got \in Seq(Subs) /\ front \o got \o pending \in Seq(Subs)
  BY PipelineTypes
<1>2. ASSUME NEW s \in Subs, Enqueue(s) PROVE FifoInv'
  <2>1. /\ accepted' = Append(accepted, s) /\ chan' = Append(chan, s)
        /\ UNCHANGED <<batcher, got, current, pending, sent>>
    BY <1>2 DEF Enqueue, batchVars
  <2>2. accepted' = front \o got \o pending \o chan'
    <3> DEFINE ahead == front \o got \o pending
    <3>1. ahead \in Seq(Subs) /\ accepted = ahead \o chan
      BY <1>1 DEF FifoInv, PipelineFIFO
    <3> HIDE DEF ahead
    <3>2. ahead \o Append(chan, s) = Append(ahead \o chan, s)
      BY <1>1, <3>1, AppendToConcat
    <3> QED
      BY <2>1, <3>1, <3>2 DEF ahead
  <2> QED
    BY <2>1, <2>2 DEF FifoInv, PipelineFIFO
<1>3. CASE DequeueFirst \/ DequeueMore
  <2>1. /\ accepted' = accepted /\ sent' = sent /\ current' = current
        /\ batcher \in {"loop", "wait"} /\ batcher' \in {"absorb", "collect"}
    BY <1>3, TakeFirstType, RemainingType, BatchingAssumption
       DEF DequeueFirst, DequeueMore, TypeInv, callerVars, At
  <2>2. got = <<>> /\ accepted = front \o got \o pending \o chan
    BY <2>1 DEF FifoInv, PipelineFIFO
  <2>3. accepted = front \o got' \o pending' \o chan'
    BY <1>3, <2>2, TakeFirstInOrder DEF DequeueFirst, DequeueMore
  <2>4. batcher' = "collect" => pending' = <<>>
    BY <1>3 DEF DequeueFirst, DequeueMore, TakeFirst, TakesPending
  <2> QED
    BY <2>1, <2>3, <2>4 DEF FifoInv, PipelineFIFO
<1>4. CASE Collect
  <2>1. /\ accepted' = accepted /\ sent' = sent /\ current' = current /\ batcher = "collect"
        /\ pending = <<>> /\ accepted = front \o got \o pending \o chan
    BY <1>4 DEF Collect, callerVars, At, FifoInv, PipelineFIFO
  <2>2. CASE batcher' = "absorb" /\ UNCHANGED <<chan, pending, got>>
    BY <2>1, <2>2 DEF FifoInv, PipelineFIFO
  <2>3. CASE /\ chan # <<>> /\ pending' = <<Head(chan)>> /\ chan' = Tail(chan)
             /\ batcher' = "absorb" /\ got' = got
    <3>1. Head(chan) \in Subs /\ front \o got \o pending = front \o got
      BY <1>1, <2>1, <2>3, EmptyToConcat
    <3>2. front \o got \o chan = Append(front \o got, Head(chan)) \o Tail(chan)
      BY <1>1, <2>3, MoveOne
    <3>3. front \o got \o <<Head(chan)>> = Append(front \o got, Head(chan))
      BY <1>1, <3>1, AppendIsConcat
    <3> QED
      BY <2>1, <2>3, <3>1, <3>2, <3>3 DEF FifoInv, PipelineFIFO
  <2>4. CASE /\ chan # <<>> /\ got' = Append(got, Head(chan)) /\ chan' = Tail(chan)
             /\ UNCHANGED <<batcher, pending>>
    <3>1. Head(chan) \in Subs /\ front \o got \o pending = front \o got
      BY <1>1, <2>1, <2>4, EmptyToConcat
    <3>2. front \o got \o chan = Append(front \o got, Head(chan)) \o Tail(chan)
      BY <1>1, <2>4, MoveOne
    <3>3. front \o Append(got, Head(chan)) = Append(front \o got, Head(chan))
      <4>1. front \in Seq(Subs) /\ got \in Seq(Subs) /\ Head(chan) \in Subs
        BY <1>1, <3>1
      <4> HIDE DEF front
      <4> QED
        BY <4>1, AppendToConcat
    <3>4. Append(front \o got, Head(chan)) \in Seq(Subs)
      BY <1>1, <3>1, AppendProperties
    <3>5. front \o got' \o pending' = Append(front \o got, Head(chan))
      BY <2>1, <2>4, <3>3, <3>4, EmptyToConcat
    <3> QED
      BY <2>1, <2>4, <3>1, <3>2, <3>5 DEF FifoInv, PipelineFIFO
  <2> QED
    BY <1>4, <2>2, <2>3, <2>4 DEF Collect
<1>5. CASE Absorb
  <2>1. /\ accepted' = accepted /\ sent' = sent /\ pending' = pending /\ chan' = chan
        /\ batcher = "absorb" /\ accepted = front \o got \o pending \o chan
    BY <1>5 DEF Absorb, callerVars, intakeVars, At, FifoInv, PipelineFIFO
  <2>2. CASE /\ got' = got /\ current' = current
             /\ batcher' = "dispatch" \/ (batcher' = "loop" /\ got = <<>>)
    BY <2>1, <2>2 DEF FifoInv, PipelineFIFO
  <2>3. CASE /\ got # <<>> /\ current' = AddSubmission(current, Head(got)) /\ got' = Tail(got)
             /\ batcher' \in {"dispatch", "absorb"}
    <3>1. Head(got) \in Subs /\ current'.subs = Append(current.subs, Head(got))
      BY <1>1, <2>3 DEF AddSubmission
    <3>2. sent \o current'.subs = Append(front, Head(got))
      BY <1>1, <3>1, AppendToConcat
    <3>3. sent \o current'.subs \o got' = front \o got
      BY <1>1, <2>3, <3>2, MoveOne
    <3> QED
      BY <2>1, <2>3, <3>3 DEF FifoInv, PipelineFIFO
  <2> QED
    BY <1>5, <2>2, <2>3 DEF Absorb
<1>6. CASE TryDispatch \/ Dispatch
  <2>1. /\ UNCHANGED <<accepted, got, pending, chan>>
        /\ accepted = front \o got \o pending \o chan
        /\ \/ /\ current' = NoBatch /\ sent' = front
              /\ \/ batcher' \in {"loop", "absorb"} /\ batcher \in {"loop", "dispatch"}
                 \/ batcher' = "done" /\ batcher = "closing"
           \/ current' = current /\ sent' = sent /\ batcher' = "wait" /\ batcher = "loop"
    BY <1>6 DEF TryDispatch, Dispatch, callerVars, intakeVars, At, FifoInv, PipelineFIFO
  <2>2. sent' \o current'.subs = front
    BY <1>1, <2>1, NoBatchUploadable, EmptyToConcat
  <2>3. PipelineFIFO'
    BY <2>1, <2>2 DEF PipelineFIFO
  <2>4. batcher' = "loop" => batcher = "loop"
    BY <1>6 DEF TryDispatch, Dispatch, At
  <2> QED
    BY <2>1, <2>3, <2>4 DEF FifoInv
<1>7. CASE DequeueClosed \/ KeepOpen \/ DequeueTimeout \/ DequeueDisconnected
  <2>1. /\ UNCHANGED <<accepted, got, pending, chan, current, sent>>
        /\ batcher \in {"loop", "wait"} /\ batcher' \in BatcherStates \ {"collect"}
    BY <1>7 DEF DequeueClosed, KeepOpen, DequeueTimeout, DequeueDisconnected, At,
                callerVars, intakeVars, batchVars, BatcherStates
  <2> QED
    BY <2>1 DEF FifoInv, PipelineFIFO
<1>8. CASE ~BatcherStep /\ UNCHANGED <<accepted, chan>>
  BY <1>8, BatcherOwns DEF FifoInv, PipelineFIFO
<1>9. ASSUME NEW s \in Subs, Caller(s), ~Enqueue(s) PROVE UNCHANGED <<accepted, chan>>
  BY <1>9 DEF Caller, Send, CheckIntake, CloneSender, EnqueueTimeout, intakeVars
<1> QED
  BY <1>2, <1>3, <1>4, <1>5, <1>6, <1>7, <1>8, <1>9, WhoSends DEF BatcherStep

\* Submissions leave the batcher in the order in which the intake accepted
\* them, none is lost, duplicated or overtaken on the way through the channel,
\* the pending slot, the collected group and the open batch (queue.rs 162-308,
\* client.rs 507-650).
THEOREM PipelineFIFOAlways == Spec => []PipelineFIFO
<1>1. FifoInv => PipelineFIFO
  BY DEF FifoInv
<1> QED
  BY <1>1, InitType, TypeStep, InitFifo, FifoStep, PTL DEF Spec

-----------------------------------------------------------------------------
(* Nothing is lost on the way to the workers.                              *)

\* The handle, or the callback, of s is still to be dealt with in job j.
HandleIn(s, j) ==
    \/ j.phase \in {"deliver", "panicked"} /\ s \in ToSet(j.batch.subs)
    \/ j.phase = "complete" /\ \E i \in j.next .. Len(j.batch.subs) : j.batch.subs[i] = s
CallIn(s, j) ==
    \/ j.phase \in {"deliver", "complete", "panicked"} /\ s \in ToSet(j.batch.subs)
    \/ j.phase = "callback" /\ \E i \in j.next .. Len(j.batch.subs) : j.batch.subs[i] = s

HandleKept(s) ==
    s \in done \/ s \in Queued \/ s \in discarded \/ \E t \in Threads : HandleIn(s, job[t])
CallKept(s) ==
    s \in WithCallback =>
        s \in called \/ s \in Queued \/ s \in discarded \/ \E t \in Threads : CallIn(s, job[t])

\* What has left the batcher is not forgotten.
KeptInv == \A s \in ToSet(sent) : HandleKept(s) /\ CallKept(s)

LEMMA QueuedAfterAppend ==
  ASSUME OutType, NEW b \in Batch, out' = Append(out, b)
  PROVE  Queued \cup ToSet(b.subs) \subseteq Queued'
<1>1. /\ out \in Seq(Batch) /\ Len(out) \in Nat /\ DOMAIN out = 1 .. Len(out)
  BY LenProperties DEF OutType
<1>2. /\ out' \in Seq(Batch) /\ Len(out') = Len(out) + 1
      /\ \A i \in 1 .. Len(out) : out'[i] = out[i]
      /\ out'[Len(out) + 1] = b
  BY <1>1, AppendProperties
<1>3. DOMAIN out' = 1 .. Len(out) + 1
  BY <1>2, LenProperties
<1>4. /\ \A i \in DOMAIN out : i \in DOMAIN out' /\ out'[i] = out[i]
      /\ Len(out) + 1 \in DOMAIN out'
  BY <1>1, <1>2, <1>3
<1> QED
  BY <1>2, <1>4 DEF Queued

LEMMA QueuedAfterTail ==
  ASSUME OutType, out # <<>>, out' = Tail(out)
  PROVE  Queued \subseteq Queued' \cup ToSet(Head(out).subs)
<1>1. /\ out \in Seq(Batch) /\ Len(out) \in Nat /\ DOMAIN out = 1 .. Len(out)
      /\ Head(out) = out[1]
  BY LenProperties DEF OutType
<1>2. /\ out' \in Seq(Batch) /\ Len(out') = Len(out) - 1
      /\ \A i \in 1 .. Len(out') : out'[i] = out[i + 1]
  BY <1>1, HeadTailProperties
<1>3. DOMAIN out' = 1 .. Len(out')
  BY <1>2, LenProperties
<1>4. ASSUME NEW i \in DOMAIN out, i # 1
      PROVE  i - 1 \in DOMAIN out' /\ out'[i - 1] = out[i]
  <2>1. i - 1 \in 1 .. Len(out') /\ (i - 1) + 1 = i
    BY <1>1, <1>2, <1>4
  <2> QED
    BY <1>2, <1>3, <2>1
<1> QED
  BY <1>1, <1>4 DEF Queued

\* It is enough to look at the job that changes.
LEMMA JobKeeps ==
  ASSUME WorkType, NEW t \in Threads, NEW j, SetJob(t, j), NEW s,
         done \subseteq done', called \subseteq called', discarded \subseteq discarded',
         s \in Queued => s \in Queued' \cup discarded' \/ (HandleIn(s, j) /\ CallIn(s, j)),
         HandleIn(s, job[t]) => HandleIn(s, j) \/ s \in done',
         s \in WithCallback /\ CallIn(s, job[t]) => CallIn(s, j) \/ s \in called',
         HandleKept(s), CallKept(s)
  PROVE  HandleKept(s)' /\ CallKept(s)'
<1>1. job'[t] = j /\ \A u \in Threads : u # t => job'[u] = job[u]
  BY DEF SetJob, WorkType
<1>2. HandleKept(s)'
  BY <1>1 DEF HandleKept
<1>3. CallKept(s)'
  BY <1>1 DEF CallKept
<1> QED
  BY <1>2, <1>3

LEMMA KeptStep == ASSUME TypeInv, KeptInv, [Next]_vars PROVE KeptInv'
<1>1. /\ WorkType /\ OutType /\ sent \in Seq(Subs) /\ current \in Batch
      /\ current.subs \in Seq(Subs)
  BY PipelineTypes DEF TypeInv, BatchType
<1>2. ASSUME UNCHANGED <<sent, out, job, done, called, discarded>> PROVE KeptInv'
  <2>1. Queued' = Queued
    BY <1>2 DEF Queued
  <2> QED
    BY <1>2, <2>1 DEF KeptInv, HandleKept, CallKept
<1>3. CASE TryDispatch \/ Dispatch
  <2>1. CASE UNCHANGED <<sent, out, job>>
    <3>1. UNCHANGED <<done, called, discarded>>
      BY <1>3 DEF TryDispatch, Dispatch
    <3> QED
      BY <1>2, <2>1, <3>1
  <2>2. CASE sent' = sent \o current.subs
    <3>1. ToSet(sent') \subseteq ToSet(sent) \cup ToSet(current.subs)
      BY <1>1, <2>2, ElementsOfConcat
    <3>2. /\ done' = done /\ called' = called /\ discarded' = discarded
          /\ job[Batcher].phase = "none"
          /\ \/ SetJob(Batcher, Completing(current)) /\ out' = out
             \/ out' = Append(out, current) /\ job' = job
             \/ UNCHANGED <<sent, out, job>>
      BY <1>3 DEF TryDispatch, Dispatch, SetJob, At
    <3>3. CASE SetJob(Batcher, Completing(current)) /\ out' = out
      <4> DEFINE j == Completing(current)
      <4>1. job'[Batcher] = j /\ Batcher \in Threads
        BY <1>1, <3>3, BatcherThread DEF SetJob, WorkType
      <4>2. Queued' = Queued
        BY <3>3 DEF Queued
      <4>3. ASSUME NEW s \in ToSet(sent) PROVE HandleKept(s)' /\ CallKept(s)'
        <5>1. ~HandleIn(s, job[Batcher]) /\ ~CallIn(s, job[Batcher])
          BY <3>2 DEF HandleIn, CallIn
        <5> HIDE DEF j
        <5> QED
          BY <1>1, <3>2, <3>3, <4>1, <4>2, <5>1, JobKeeps DEF KeptInv, j
      <4>4. ASSUME NEW s \in ToSet(current.subs) PROVE HandleKept(s)' /\ CallKept(s)'
        <5>1. DOMAIN current.subs = 1 .. Len(current.subs)
          BY <1>1, LenProperties
        <5>2. HandleIn(s, j) /\ CallIn(s, j)
          BY <5>1 DEF HandleIn, CallIn, Completing, ToSet
        <5> QED
          BY <4>1, <5>2 DEF HandleKept, CallKept
      <4> QED
        BY <3>1, <4>3, <4>4 DEF KeptInv
    <3>4. CASE out' = Append(out, current) /\ job' = job
      <4>1. Queued \cup ToSet(current.subs) \subseteq Queued'
        BY <1>1, <3>4, QueuedAfterAppend
      <4> QED
        BY <3>1, <3>2, <3>4, <4>1 DEF KeptInv, HandleKept, CallKept
    <3> QED
      BY <1>2, <3>2, <3>3, <3>4
  <2> QED
    BY <1>3, <2>1, <2>2 DEF TryDispatch, Dispatch
<1>4. ASSUME NEW w \in Workers, Worker(w) PROVE KeptInv'
  <2>1. /\ w \in Threads /\ sent' = sent /\ done' = done /\ called' = called
        /\ discarded \subseteq discarded'
    BY <1>4, BatcherThread
       DEF Worker, TakeBatch, ExitWorker, Delivered, RetryLogPanics, Panic
  <2> SUFFICES ASSUME NEW s \in ToSet(sent), HandleKept(s), CallKept(s)
               PROVE  HandleKept(s)' /\ CallKept(s)'
    BY <2>1 DEF KeptInv
  <2>2. CASE TakeBatch(w)
    <3> DEFINE j == [phase |-> "deliver", batch |-> Head(out), next |-> 0]
    <3>1. SetJob(w, j) /\ out # <<>> /\ out' = Tail(out) /\ job[w].phase = "none"
      BY <2>2 DEF TakeBatch
    <3>2. ~HandleIn(s, job[w]) /\ ~CallIn(s, job[w])
      BY <3>1 DEF HandleIn, CallIn
    <3>3. s \in Queued => s \in Queued' \/ s \in ToSet(Head(out).subs)
      BY <1>1, <3>1, QueuedAfterTail
    <3>4. s \in Queued => s \in Queued' \/ (HandleIn(s, j) /\ CallIn(s, j))
      BY <3>3 DEF HandleIn, CallIn
    <3> HIDE DEF j
    <3> QED
      BY <1>1, <2>1, <3>1, <3>2, <3>4, JobKeeps
  <2>3. CASE ExitWorker(w) \/ Delivered(w) \/ RetryLogPanics(w)
    <3>1. Queued \subseteq Queued' \cup discarded'
      BY <2>3 DEF ExitWorker, Delivered, RetryLogPanics, Panic, Queued
    <3>2. job[w] \in Job /\ DOMAIN job[w].batch.subs = 1 .. Len(job[w].batch.subs)
      BY <1>1, <2>1, JobType, LenProperties
    <3>3. CASE ExitWorker(w)
      <4>1. ~HandleIn(s, job[w]) /\ ~CallIn(s, job[w])
        BY <3>3 DEF ExitWorker, HandleIn, CallIn
      <4> QED
        BY <1>1, <2>1, <3>1, <3>3, <4>1, JobKeeps DEF ExitWorker
    <3>4. CASE Delivered(w)
      <4> DEFINE j == Completing(job[w].batch)
      <4>1. SetJob(w, j) /\ job[w].phase = "deliver"
        BY <3>4 DEF Delivered
      <4>2. HandleIn(s, job[w]) => HandleIn(s, j)
        BY <3>2, <4>1 DEF HandleIn, Completing, ToSet
      <4>3. CallIn(s, job[w]) => CallIn(s, j)
        BY <4>1 DEF CallIn, Completing
      <4> HIDE DEF j
      <4> QED
        BY <1>1, <2>1, <3>1, <4>1, <4>2, <4>3, JobKeeps
    <3>5. CASE RetryLogPanics(w)
      <4> DEFINE j == [job[w] EXCEPT !.phase = "panicked"]
      <4>1. SetJob(w, j) /\ job[w].phase = "deliver"
        BY <3>5 DEF RetryLogPanics, Panic
      <4>2. j.phase = "panicked" /\ j.batch = job[w].batch
        BY <3>2 DEF Job
      <4> HIDE DEF j
      <4>3. /\ HandleIn(s, job[w]) => HandleIn(s, j)
            /\ CallIn(s, job[w]) => CallIn(s, j)
        BY <4>1, <4>2 DEF HandleIn, CallIn
      <4> QED
        BY <1>1, <2>1, <3>1, <4>1, <4>3, JobKeeps
    <3> QED
      BY <2>3, <3>3, <3>4, <3>5
  <2> QED
    BY <1>4, <2>2, <2>3 DEF Worker
<1>5. ASSUME NEW t \in Threads, CompleteBatch(t) PROVE KeptInv'
  <2>1. /\ sent' = sent /\ done \subseteq done' /\ called \subseteq called'
        /\ discarded \subseteq discarded'
    BY <1>5 DEF CompleteBatch, CompleteHandle, HandlesCompleted, RunCallback, CallbacksDone,
                Panic
  <2>2. Queued \subseteq Queued' \cup discarded'
    BY <1>5 DEF CompleteBatch, CompleteHandle, HandlesCompleted, RunCallback, CallbacksDone,
                Panic, Queued
  <2> SUFFICES ASSUME NEW s \in ToSet(sent), HandleKept(s), CallKept(s)
               PROVE  HandleKept(s)' /\ CallKept(s)'
    BY <2>1 DEF KeptInv
  <2> DEFINE before == job[t]
             after == [job[t] EXCEPT !.next = @ + 1]
  <2>3. /\ before \in Job /\ before.next \in Nat /\ CountsFromOne(before)
        /\ before.batch.subs \in Seq(Subs)
        /\ Len(before.batch.subs) \in Nat
        /\ DOMAIN before.batch.subs = 1 .. Len(before.batch.subs)
    BY <1>1, JobType, LenProperties
  <2>4. /\ after.phase = before.phase /\ after.batch = before.batch
        /\ after.next = before.next + 1
    BY <2>3 DEF Job
  <2>5. \A i \in before.next .. Len(before.batch.subs) :
            i = before.next \/ i \in after.next .. Len(before.batch.subs)
    BY <2>3, <2>4
  <2>6. CASE CompleteHandle(t)
    <3>1. /\ SetJob(t, after) /\ before.phase = "complete"
          /\ before.batch.subs[before.next] \in done'
      BY <2>6 DEF CompleteHandle
    <3> HIDE DEF before, after
    <3>2. HandleIn(s, before) => HandleIn(s, after) \/ s \in done'
      BY <2>4, <2>5, <3>1 DEF HandleIn
    <3>3. CallIn(s, before) => CallIn(s, after)
      BY <2>4, <3>1 DEF CallIn
    <3> QED
      BY <1>1, <2>1, <2>2, <3>1, <3>2, <3>3, JobKeeps DEF before
  <2>7. CASE HandlesCompleted(t)
    <3> DEFINE j == IF HasCallback(before.batch)
                    THEN [before EXCEPT !.phase = "callback", !.next = 1] ELSE Idle
    <3>1. SetJob(t, j) /\ before.phase = "complete" /\ before.next > Len(before.batch.subs)
      BY <2>7 DEF HandlesCompleted, AllCompleted
    <3>2. ~HandleIn(s, before)
      <4> HIDE DEF before
      <4> QED
        BY <2>3, <3>1 DEF HandleIn
    <3>3. s \in WithCallback /\ CallIn(s, before) => CallIn(s, j)
      <4> SUFFICES ASSUME s \in WithCallback, CallIn(s, before) PROVE CallIn(s, j)
        OBVIOUS
      <4>1. PICK i \in 1 .. Len(before.batch.subs) : before.batch.subs[i] = s
        BY <2>3, <3>1 DEF CallIn, ToSet
      <4>2. HasCallback(before.batch)
        BY <2>3, <4>1 DEF HasCallback
      <4>3. j.phase = "callback" /\ j.next = 1 /\ j.batch = before.batch
        BY <2>3, <4>2 DEF Job
      <4> HIDE DEF before, j
      <4> QED
        BY <4>1, <4>3 DEF CallIn
    <3> HIDE DEF j
    <3> QED
      BY <1>1, <2>1, <2>2, <3>1, <3>2, <3>3, JobKeeps
  <2>8. CASE RunCallback(t)
    <3> DEFINE dead == [before EXCEPT !.phase = "panicked"]
    <3>1. /\ SetJob(t, after) \/ SetJob(t, dead)
          /\ before.phase = "callback" /\ before.next <= Len(before.batch.subs)
          /\ before.batch.subs[before.next] \in WithCallback
               => before.batch.subs[before.next] \in called'
      BY <2>8 DEF RunCallback, Panic
    <3>2. dead.phase = "panicked" /\ dead.batch = before.batch
      BY <2>3 DEF Job
    <3> HIDE DEF before, after, dead
    <3>3. ~HandleIn(s, before)
      BY <3>1 DEF HandleIn
    <3>4. s \in WithCallback /\ CallIn(s, before) => CallIn(s, after) \/ s \in called'
      BY <2>4, <2>5, <3>1 DEF CallIn
    <3>5. s \in WithCallback /\ CallIn(s, before) => CallIn(s, dead) \/ s \in called'
      <4> SUFFICES ASSUME CallIn(s, before) PROVE CallIn(s, dead) \/ s \in called'
        OBVIOUS
      <4>1. PICK i \in before.next .. Len(before.batch.subs) : before.batch.subs[i] = s
        BY <3>1 DEF CallIn
      <4>2. i \in DOMAIN before.batch.subs
        BY <2>3, <3>1, <4>1 DEF CountsFromOne
      <4> QED
        BY <3>2, <4>1, <4>2 DEF CallIn, ToSet
    <3> QED
      BY <1>1, <2>1, <2>2, <3>1, <3>3, <3>4, <3>5, JobKeeps DEF before
  <2>9. CASE CallbacksDone(t)
    <3>1. SetJob(t, Idle) /\ before.phase = "callback" /\ before.next > Len(before.batch.subs)
      BY <2>9 DEF CallbacksDone
    <3> HIDE DEF before
    <3>2. ~HandleIn(s, before) /\ ~CallIn(s, before)
      BY <2>3, <3>1 DEF HandleIn, CallIn
    <3> QED
      BY <1>1, <2>1, <2>2, <3>1, <3>2, JobKeeps DEF before
  <2> QED
    BY <1>5, <2>6, <2>7, <2>8, <2>9 DEF CompleteBatch
<1> QED
  BY <1>2, <1>3, <1>4, <1>5, WhoWorks

LEMMA InitKept == Init => KeptInv
  BY DEF Init, KeptInv, ToSet

LEMMA Kept == Spec => [](TypeInv /\ FifoInv /\ KeptInv)
  BY InitType, InitFifo, InitKept, TypeStep, FifoStep, KeptStep, PTL DEF Spec

-----------------------------------------------------------------------------
(* What close() waits for.                                                 *)

\* The batcher ends only when nothing is queued and nobody can queue any more.
EndInv ==
    /\ batcher \in {"closing", "done"} => Empty /\ Disconnected
    /\ batcher = "done" => current = NoBatch

\* The workers end only after it, when the dispatch channel is empty; close()
\* has joined whom it says it has.
JoinInv ==
    /\ \A w \in Workers : job[w].phase = "exited" => BatcherGone /\ out = <<>>
    /\ \A c \in Closers : closer[c] \in {"joinWorkers", "ok"} => At("done")
    /\ \A c \in Closers : closer[c] = "ok" => \A w \in Workers : job[w].phase = "exited"

LEMMA InitEnds == Init => EndInv /\ JoinInv
  BY BatcherThread DEF Init, EndInv, JoinInv, Idle, Threads

LEMMA EndStep == ASSUME TypeInv, EndInv, [Next]_vars PROVE EndInv'
<1>1. call \in [Subs -> CallStates]
  BY DEF TypeInv, CallerType
<1>2. ASSUME NEW s \in Subs, Caller(s) PROVE EndInv'
  <2>1. UNCHANGED <<batcher, current, pending, senderHeld>>
    BY <1>2 DEF Caller, Send, CheckIntake, CloneSender, Enqueue, EnqueueTimeout, flagVars,
                batchVars, intakeVars
  <2>2. CASE batcher \in {"closing", "done"}
    <3>1. Empty /\ ~senderHeld /\ \A q \in Subs : call[q] # "sending"
      BY <2>2 DEF EndInv, Disconnected
    <3>2. ~Enqueue(s) /\ ~EnqueueTimeout(s)
      BY <3>1 DEF Enqueue, EnqueueTimeout
    <3>3. chan' = chan /\ \E state : state # "sending" /\ Goto(s, state)
      BY <1>2, <3>1, <3>2 DEF Caller, Send, CheckIntake, CloneSender, intakeVars
    <3>4. \A q \in Subs : call'[q] # "sending"
      BY <1>1, <3>1, <3>3 DEF Goto
    <3> QED
      BY <2>1, <3>1, <3>3, <3>4 DEF EndInv, Empty, Disconnected
  <2>3. CASE batcher \notin {"closing", "done"}
    BY <2>1, <2>3 DEF EndInv
  <2> QED
    BY <2>2, <2>3
<1>3. CASE BatcherStep /\ call' = call
  <2>1. call' = call /\ (~senderHeld => ~senderHeld')
    BY <1>3, WhoCloses
  <2>2. CASE DequeueClosed \/ DequeueDisconnected
    <3>1. /\ UNCHANGED <<chan, pending, current>> /\ Empty /\ Disconnected
          /\ batcher' = "done" => current = NoBatch
      BY <2>2 DEF DequeueClosed, DequeueDisconnected, intakeVars, batchVars
    <3> QED
      BY <2>1, <3>1 DEF EndInv, Empty, Disconnected
  <2>3. CASE Dispatch
    <3>1. /\ UNCHANGED <<chan, pending>> /\ current' = NoBatch
          /\ batcher' \in {"closing", "done"} => batcher = "closing"
      BY <2>3 DEF Dispatch, At, intakeVars
    <3> QED
      BY <2>1, <3>1 DEF EndInv, Empty, Disconnected
  <2>4. CASE \/ DequeueFirst \/ KeepOpen \/ TryDispatch \/ DequeueMore
             \/ DequeueTimeout \/ Collect \/ Absorb
    <3>1. batcher' \notin {"closing", "done"}
      BY <2>4 DEF DequeueFirst, KeepOpen, TryDispatch, DequeueMore, DequeueTimeout, Collect,
                  Absorb, TakeFirst, At
    <3> QED
      BY <3>1 DEF EndInv
  <2> QED
    BY <1>3, <2>2, <2>3, <2>4 DEF BatcherStep
<1>4. CASE ~BatcherStep /\ call' = call /\ chan' = chan
  BY <1>4, BatcherOwns, WhoCloses DEF EndInv, Empty, Disconnected
<1> QED
  BY <1>2, <1>3, <1>4, WhoSends

\* A thread that has ended stays so.
LEMMA EndedStays ==
  ASSUME TypeInv, [Next]_vars, NEW t \in Threads, job[t].phase \in {"exited", "panicked"}
  PROVE  job'[t] = job[t]
<1>1. WorkType /\ Batcher \in Threads
  BY BatcherThread DEF TypeInv
<1>2. ASSUME NEW u \in Threads, NEW j, SetJob(u, j), u # t PROVE job'[t] = job[t]
  BY <1>1, <1>2 DEF SetJob, WorkType
<1>3. ASSUME NEW w \in Workers, Worker(w) PROVE job'[t] = job[t]
  BY <1>2, <1>3, BatcherThread
     DEF Worker, TakeBatch, ExitWorker, Delivered, RetryLogPanics, Panic
<1>4. ASSUME NEW u \in Threads, CompleteBatch(u) PROVE job'[t] = job[t]
  BY <1>2, <1>4 DEF CompleteBatch, CompleteHandle, HandlesCompleted, RunCallback, CallbacksDone,
                    Panic
<1>5. CASE TryDispatch \/ Dispatch
  <2>1. /\ job[Batcher].phase = "none"
        /\ job' = job \/ SetJob(Batcher, Completing(current))
    BY <1>5 DEF TryDispatch, Dispatch, SetJob, At
  <2> QED
    BY <1>1, <1>2, <2>1
<1> QED
  BY <1>3, <1>4, <1>5, WhoWorks

\* Once the batcher is gone nothing is added to the dispatch channel.
LEMMA GoneStays ==
  ASSUME TypeInv, [Next]_vars, BatcherGone
  PROVE  /\ BatcherGone' /\ (At("done") => At("done")')
         /\ out = <<>> => out' = <<>>
<1>1. WorkType /\ Batcher \in Threads /\ Batcher \notin Workers
  BY BatcherThread DEF TypeInv, Batcher, Workers
<1>2. ~BatcherStep
  BY DEF BatcherGone, BatcherStep, DequeueFirst, DequeueClosed, KeepOpen, TryDispatch,
         DequeueMore, DequeueTimeout, DequeueDisconnected, Collect, Absorb, Dispatch, At
<1>3. batcher' = batcher
  BY <1>2, BatcherOwns
<1>4. job[Batcher].phase \in {"none", "panicked"}
  BY DEF BatcherGone, At
<1>5. ASSUME NEW w \in Workers, Worker(w)
      PROVE  job'[Batcher] = job[Batcher] /\ (out = <<>> => out' = <<>>)
  <2>1. \E j : SetJob(w, j)
    BY <1>5 DEF Worker, TakeBatch, ExitWorker, Delivered, RetryLogPanics, Panic
  <2>2. out = <<>> => out' = <<>>
    BY <1>5 DEF Worker, TakeBatch, ExitWorker, Delivered, RetryLogPanics, Panic
  <2> QED
    BY <1>1, <2>1, <2>2 DEF SetJob, WorkType
<1>6. ASSUME NEW t \in Threads, CompleteBatch(t)
      PROVE  job'[Batcher] = job[Batcher] /\ (out = <<>> => out' = <<>>)
  <2>1. t # Batcher
    BY <1>4, <1>6 DEF CompleteBatch, CompleteHandle, HandlesCompleted, RunCallback,
                      CallbacksDone
  <2>2. (out = <<>> => out' = <<>>) /\ \E j : SetJob(t, j)
    BY <1>6 DEF CompleteBatch, CompleteHandle, HandlesCompleted, RunCallback, CallbacksDone,
                Panic
  <2> QED
    BY <1>1, <2>1, <2>2 DEF SetJob, WorkType
<1>7. job'[Batcher] = job[Batcher] /\ (out = <<>> => out' = <<>>)
  BY <1>2, <1>5, <1>6, WhoWorks DEF BatcherStep
<1> QED
  BY <1>3, <1>7 DEF BatcherGone, At

LEMMA JoinStep == ASSUME TypeInv, JoinInv, [Next]_vars PROVE JoinInv'
<1>1. /\ closer \in [Closers -> CloserStates] /\ WorkType
      /\ \A w \in Workers : w \in Threads
  BY BatcherThread DEF TypeInv, FlagType
<1>2. ASSUME NEW w \in Workers, job'[w].phase = "exited" PROVE BatcherGone' /\ out' = <<>>
  <2>1. CASE job[w].phase = "exited"
    BY <2>1, GoneStays DEF JoinInv
  <2>2. CASE job[w].phase # "exited"
    <3>1. ExitWorker(w)
      <4>1. ASSUME NEW u \in Threads, NEW j, SetJob(u, j), j.phase # "exited" PROVE FALSE
        BY <1>1, <1>2, <2>2, <4>1 DEF SetJob, WorkType
      <4>2. ASSUME NEW v \in Workers, Worker(v) PROVE ExitWorker(w)
        <5>1. CASE ExitWorker(v)
          <6>1. v = w
            BY <1>1, <1>2, <2>2, <5>1 DEF ExitWorker, SetJob, WorkType
          <6> QED
            BY <5>1, <6>1
        <5>2. CASE TakeBatch(v) \/ Delivered(v)
          BY <1>1, <4>1, <5>2 DEF TakeBatch, Delivered, Completing
        <5>3. CASE RetryLogPanics(v)
          <6>1. [job[v] EXCEPT !.phase = "panicked"].phase # "exited"
            BY <1>1, JobType DEF Job
          <6> QED
            BY <1>1, <4>1, <5>3, <6>1 DEF RetryLogPanics, Panic
        <5> QED
          BY <4>2, <5>1, <5>2, <5>3 DEF Worker
      <4>3. ASSUME NEW t \in Threads, CompleteBatch(t) PROVE FALSE
        <5>1. job[t] \in Job
          BY <1>1, JobType
        <5> DEFINE after   == [job[t] EXCEPT !.next = @ + 1]
                   calling == [job[t] EXCEPT !.phase = "callback", !.next = 1]
                   dead    == [job[t] EXCEPT !.phase = "panicked"]
        <5>2. /\ after.phase = job[t].phase /\ calling.phase = "callback"
              /\ dead.phase = "panicked" /\ Idle.phase = "none"
          BY <5>1 DEF Job, Idle
        <5>3. /\ job[t].phase # "exited"
              /\ SetJob(t, after) \/ SetJob(t, calling) \/ SetJob(t, dead) \/ SetJob(t, Idle)
          BY <4>3 DEF CompleteBatch, CompleteHandle, HandlesCompleted, RunCallback,
                      CallbacksDone, Panic
        <5> HIDE DEF after, calling, dead
        <5>4. \E j : SetJob(t, j) /\ j.phase # "exited"
          BY <5>2, <5>3
        <5> QED
          BY <4>1, <5>4
      <4>4. ~TryDispatch /\ ~Dispatch
        <5>1. SUFFICES ASSUME TryDispatch \/ Dispatch PROVE FALSE
          OBVIOUS
        <5>2. job' = job \/ SetJob(Batcher, Completing(current))
          BY <5>1 DEF TryDispatch, Dispatch, SetJob
        <5> QED
          BY <1>2, <2>2, <4>1, <5>2, BatcherThread DEF Completing
      <4>5. job' # job
        BY <1>2, <2>2
      <4> QED
        BY <4>2, <4>3, <4>4, <4>5, WhoWorks
    <3>2. BatcherGone /\ out = <<>>
      BY <3>1 DEF ExitWorker
    <3> QED
      BY <3>2, GoneStays
  <2> QED
    BY <2>1, <2>2
<1>3. ASSUME NEW c \in Closers, closer'[c] \in {"joinWorkers", "ok"}
      PROVE  /\ At("done")'
             /\ closer'[c] = "ok" => \A w \in Workers : job'[w].phase = "exited"
  <2>1. CASE closer'[c] = closer[c]
    <3>1. At("done")
      BY <1>3, <2>1 DEF JoinInv
    <3>2. At("done")'
      BY <3>1, GoneStays DEF BatcherGone
    <3>3. closer'[c] = "ok" => \A w \in Workers : job[w].phase = "exited"
      BY <2>1 DEF JoinInv
    <3> QED
      BY <1>1, <3>2, <3>3, EndedStays
  <2>2. CASE closer'[c] # closer[c]
    <3>1. closer' # closer
      BY <2>2
    <3>2. PICK d \in Closers : Closer(d)
      BY <3>1, WhoCloses
    <3>3. job' = job /\ batcher' = batcher
      BY <3>2 DEF Closer, Close, CloseIntake, DropSender, JoinBatcher, JoinWorkers, workVars
    <3>4. c = d
      BY <1>1, <2>2, <3>2 DEF Closer, Close, CloseIntake, DropSender, JoinBatcher,
                              JoinWorkers, Advance
    <3>5. CASE JoinBatcher(c)
      <4>1. closer'[c] = "joinWorkers" /\ At("done")
        BY <1>1, <1>3, <3>5 DEF JoinBatcher, Advance, BatcherGone
      <4> QED
        BY <3>3, <4>1 DEF At
    <3>6. CASE JoinWorkers(c)
      <4>1. closer'[c] = "ok" /\ closer[c] = "joinWorkers"
            /\ \A w \in Workers : job[w].phase = "exited"
        BY <1>1, <1>3, <3>6 DEF JoinWorkers, Advance
      <4> QED
        BY <3>3, <4>1 DEF At, JoinInv
    <3>7. CASE Close(c) \/ CloseIntake(c) \/ DropSender(c)
      BY <1>1, <1>3, <3>7 DEF Close, CloseIntake, DropSender, Advance
    <3> QED
      BY <3>2, <3>4, <3>5, <3>6, <3>7 DEF Closer
  <2> QED
    BY <2>1, <2>2
<1> QED
  BY <1>2, <1>3 DEF JoinInv

\* With the last worker goes the dispatch channel and what is queued in it:
\* nothing is, unless a panic has ended that worker.
GoneInv ==
    /\ WorkersGone => out = <<>>
    /\ discarded # {} => WorkersGone /\ \E w \in Workers : job[w].phase = "panicked"

LEMMA InitGone == Init => GoneInv
  BY DEF Init, GoneInv

LEMMA PanicEnds ==
  ASSUME TypeInv, NEW t \in Threads, Panic(t)
  PROVE  /\ job'[t].phase = "panicked" /\ \A u \in Threads \ {t} : job'[u] = job[u]
         /\ LastWorker(t) => t \in Workers /\ WorkersGone'
         /\ t \in Workers /\ WorkersGone' => LastWorker(t)
<1>1. WorkType /\ OutType /\ job[t] \in Job /\ \A w \in Workers : w \in Threads
  BY JobType, BatcherThread DEF TypeInv
<1>2. /\ job'[t].phase = "panicked" /\ \A u \in Threads \ {t} : job'[u] = job[u]
  BY <1>1, PanicEffect DEF SetJob, WorkType, Job
<1> QED
  BY <1>1, <1>2 DEF LastWorker, WorkersGone

\* The phases a thread reaches without a panic and without exit_worker.
LEMMA GoesOn ==
  ASSUME TypeInv, NEW t \in Threads,
         \/ TakeBatch(t) \/ Delivered(t)
         \/ CompleteBatch(t) /\ ~Panic(t)
  PROVE  /\ discarded' = discarded /\ (WorkersGone /\ t \in Workers => FALSE)
         /\ \A u \in Threads : job'[u].phase \in {"exited", "panicked"}
                                => job[u].phase \in {"exited", "panicked"}
         /\ TakeBatch(t) \/ out' = out
<1>1. WorkType /\ job[t] \in Job
  BY JobType DEF TypeInv
<1> DEFINE taken     == [phase |-> "deliver", batch |-> Head(out), next |-> 0]
           delivered == Completing(job[t].batch)
           after     == [job[t] EXCEPT !.next = @ + 1]
           calling   == [job[t] EXCEPT !.phase = "callback", !.next = 1]
<1>2. /\ taken.phase = "deliver" /\ delivered.phase = "complete" /\ Idle.phase = "none"
      /\ after.phase = job[t].phase /\ calling.phase = "callback"
  BY <1>1 DEF Completing, Idle, Job
<1>3. /\ job[t].phase \in {"none", "deliver", "complete", "callback"}
      /\ \/ SetJob(t, taken) \/ SetJob(t, delivered) \/ SetJob(t, after)
         \/ SetJob(t, calling) \/ SetJob(t, Idle)
  BY DEF TakeBatch, Delivered, CompleteBatch, CompleteHandle, HandlesCompleted, RunCallback,
         CallbacksDone
<1>4. discarded' = discarded /\ (TakeBatch(t) \/ out' = out)
  BY DEF TakeBatch, Delivered, CompleteBatch, CompleteHandle, HandlesCompleted, RunCallback,
         CallbacksDone
<1> HIDE DEF taken, delivered, after, calling
<1>5. PICK j : SetJob(t, j) /\ j.phase \notin {"exited", "panicked"}
  BY <1>2, <1>3
<1>6. job'[t] = j /\ \A u \in Threads \ {t} : job'[u] = job[u]
  BY <1>1, <1>5 DEF SetJob, WorkType
<1>7. WorkersGone /\ t \in Workers => FALSE
  BY <1>3 DEF WorkersGone
<1> QED
  BY <1>4, <1>5, <1>6, <1>7

LEMMA GoneStep == ASSUME TypeInv, GoneInv, [Next]_vars PROVE GoneInv'
<1>1. WorkType /\ OutType /\ Batcher \in Threads /\ Batcher \notin Workers
      /\ \A w \in Workers : w \in Threads
  BY BatcherThread DEF TypeInv, Batcher, Workers
<1>2. ASSUME WorkersGone
      PROVE  /\ WorkersGone'
             /\ \A w \in Workers : job[w].phase = "panicked" => job'[w].phase = "panicked"
  BY <1>1, <1>2, EndedStays DEF WorkersGone
<1>3. ASSUME NEW t \in Threads, Panic(t) PROVE GoneInv'
  <2>1. CASE LastWorker(t)
    BY <1>3, <2>1, PanicEnds DEF GoneInv, Panic
  <2>2. CASE ~LastWorker(t)
    <3>1. UNCHANGED <<out, discarded>>
      BY <1>3, <2>2 DEF Panic
    <3>2. WorkersGone' => WorkersGone
      BY <1>1, <1>3, <2>2, PanicEnds DEF WorkersGone
    <3> QED
      BY <1>2, <3>1, <3>2 DEF GoneInv
  <2> QED
    BY <2>1, <2>2
<1>4. ASSUME discarded' = discarded, WorkersGone' => WorkersGone \/ out' = <<>>,
             WorkersGone => out' = out
      PROVE  GoneInv'
  BY <1>2, <1>4 DEF GoneInv
<1>5. CASE UNCHANGED <<out, job, discarded>>
  BY <1>4, <1>5 DEF WorkersGone
<1>6. CASE TryDispatch \/ Dispatch
  <2>1. /\ discarded' = discarded /\ (WorkersGone => out' = out)
        /\ job' = job \/ SetJob(Batcher, Completing(current))
    BY <1>6 DEF TryDispatch, Dispatch, SetJob
  <2>2. \A w \in Workers : job'[w] = job[w]
    BY <1>1, <2>1 DEF SetJob, WorkType
  <2> QED
    BY <1>4, <2>1, <2>2 DEF WorkersGone
<1>7. ASSUME NEW w \in Workers, ExitWorker(w) PROVE GoneInv'
  BY <1>4, <1>7 DEF ExitWorker
<1>8. ASSUME NEW t \in Threads,
             \/ t \in Workers /\ (TakeBatch(t) \/ Delivered(t))
             \/ CompleteBatch(t) /\ ~Panic(t)
      PROVE  GoneInv'
  <2>1. /\ discarded' = discarded /\ (WorkersGone /\ t \in Workers => FALSE)
        /\ \A u \in Threads : job'[u].phase \in {"exited", "panicked"}
                               => job[u].phase \in {"exited", "panicked"}
        /\ TakeBatch(t) \/ out' = out
    BY <1>8, GoesOn
  <2>2. WorkersGone' => WorkersGone
    BY <1>1, <2>1 DEF WorkersGone
  <2>3. WorkersGone => out' = out
    BY <1>8, <2>1 DEF CompleteBatch, CompleteHandle, HandlesCompleted, RunCallback,
                      CallbacksDone
  <2> QED
    BY <1>4, <2>1, <2>2, <2>3
<1>9. ASSUME NEW w \in Workers, Worker(w) PROVE GoneInv'
  BY <1>1, <1>3, <1>7, <1>8, <1>9 DEF Worker, RetryLogPanics
<1> QED
  BY <1>3, <1>5, <1>6, <1>8, <1>9, WhoWorks

\* What close() may conclude.
LEMMA Drains ==
  ASSUME TypeInv, FifoInv, KeptInv, EndInv, JoinInv, GoneInv
  PROVE  CloseDrains
<1> SUFFICES ASSUME NEW c \in Closers, closer[c] = "ok"
             PROVE  /\ ToSet(accepted) \subseteq done
                    /\ ToSet(accepted) \cap WithCallback \subseteq called
  BY DEF CloseDrains
<1>1. At("done") /\ \A w \in Workers : job[w].phase = "exited"
  BY DEF JoinInv
<1>2. /\ pending = <<>> /\ chan = <<>> /\ got = <<>> /\ current.subs = <<>>
  BY <1>1 DEF EndInv, FifoInv, At, Empty, NoBatch
<1>3. accepted = sent
  BY <1>2, PipelineTypes, EmptyToConcat DEF FifoInv, PipelineFIFO
<1>4. out = <<>>
  <2>1. 1 \in Workers
    BY SyncClientAssumption DEF Workers
  <2> QED
    BY <1>1, <2>1 DEF JoinInv
<1>5. Queued = {} /\ discarded = {}
  BY <1>1, <1>4 DEF Queued, GoneInv
<1>6. \A t \in Threads : job[t].phase \in {"none", "exited"}
  BY <1>1 DEF At, Threads
<1>7. \A s, t : t \in Threads => ~HandleIn(s, job[t]) /\ ~CallIn(s, job[t])
  BY <1>6 DEF HandleIn, CallIn
<1> QED
  BY <1>3, <1>5, <1>7 DEF KeptInv, HandleKept, CallKept

LEMMA Ends == Spec => [](EndInv /\ JoinInv /\ GoneInv)
  BY InitType, InitEnds, InitGone, TypeStep, EndStep, JoinStep, GoneStep, PTL DEF Spec

\* Every submission that has left the batcher is completed, or with the thread
\* that has its batch, or queued while there is a worker that can take it.
\* Only a panic loses it: the batch of the thread it ends, and, when it ends the
\* last worker, all that is queued, because the receiver of the dispatch
\* channel goes with it (client.rs 605-664, 887-912).
THEOREM NothingLostAlways == Spec => []NothingLost
<1>1. TypeInv /\ KeptInv /\ GoneInv => NothingLost
  <2> SUFFICES ASSUME TypeInv, KeptInv, GoneInv PROVE NothingLost
    OBVIOUS
  <2>1. ASSUME NEW s, NEW t \in Threads, HandleIn(s, job[t])
        PROVE  s \in Lost \cup Owed(t)
    <3>1. CASE job[t].phase = "panicked"
      BY <2>1, <3>1 DEF HandleIn, Lost, Panicked
    <3>2. CASE job[t].phase = "deliver"
      BY <2>1, <3>2 DEF HandleIn, Owed
    <3>3. CASE job[t].phase = "complete"
      BY <2>1, <3>3 DEF HandleIn, Owed
    <3> QED
      BY <2>1, <3>1, <3>2, <3>3 DEF HandleIn
  <2>2. ToSet(sent) \subseteq done \cup Queued \cup Lost \cup UNION {Owed(t) : t \in Threads}
    <3>1. discarded \subseteq Lost
      BY DEF Lost
    <3> QED
      BY <2>1, <3>1 DEF KeptInv, HandleKept
  <2>3. Queued # {} => ~WorkersGone
    BY DEF GoneInv, Queued
  <2>4. discarded # {} => WorkersGone /\ Panicked \cap Workers # {}
    BY BatcherThread DEF GoneInv, Panicked
  <2> QED
    BY <2>2, <2>3, <2>4 DEF NothingLost
<1> QED
  BY <1>1, Kept, Ends, PTL

\* For any number of callers, workers and calls of close(): once the close()
\* that does the work has returned Ok, every accepted handle is complete and
\* every callback has run, also those of senders it has raced with, and
\* nothing is accepted any more (client.rs 154-175, 507-558, queue.rs 186-215, 250-256).
THEOREM CloseDrainsAlways == Spec => []CloseDrains
  BY Drains, Kept, Ends, PTL

-----------------------------------------------------------------------------
(* How the steps move batches.                                             *)

LEMMA Dispatches ==
  ASSUME TryDispatch \/ Dispatch
  PROVE  /\ UNCHANGED <<done, called>>
         /\ \/ UNCHANGED <<out, job, sent>>
            \/ /\ sent' = sent \o current.subs
               /\ \/ SetJob(Batcher, Completing(current)) /\ out' = out
                  \/ out' = Append(out, current) /\ job' = job
  BY DEF TryDispatch, Dispatch, SetJob

LEMMA QueuedOneMore ==
  ASSUME OutType, NEW b \in Batch, out' = Append(out, b)
  PROVE  /\ Queued' \subseteq Queued \cup ToSet(b.subs)
         /\ \A i \in DOMAIN out' : \/ i \in DOMAIN out /\ out'[i] = out[i]
                                   \/ i = Len(out) + 1 /\ out'[i] = b
<1>1. /\ out \in Seq(Batch) /\ Len(out) \in Nat /\ DOMAIN out = 1 .. Len(out)
      /\ out' \in Seq(Batch) /\ Len(out') = Len(out) + 1
      /\ \A i \in 1 .. Len(out) : out'[i] = out[i]
      /\ out'[Len(out) + 1] = b
  BY AppendProperties, LenProperties DEF OutType
<1>2. DOMAIN out' = 1 .. Len(out) + 1
  BY <1>1, LenProperties
<1>3. \A i \in DOMAIN out' : i = Len(out) + 1 \/ i \in DOMAIN out
  BY <1>1, <1>2
<1> QED
  BY <1>1, <1>3 DEF Queued

LEMMA QueuedOneLess ==
  ASSUME OutType, out # <<>>, out' = Tail(out)
  PROVE  /\ Queued' \subseteq Queued /\ ToSet(Head(out).subs) \subseteq Queued
         /\ 1 \in DOMAIN out /\ Head(out) = out[1]
         /\ \A i \in DOMAIN out' : i \in Nat \ {0} /\ i + 1 \in DOMAIN out /\ out'[i] = out[i + 1]
<1>1. /\ out \in Seq(Batch) /\ Len(out) \in Nat /\ DOMAIN out = 1 .. Len(out)
      /\ Head(out) = out[1] /\ out' \in Seq(Batch) /\ Len(out') = Len(out) - 1
      /\ \A i \in 1 .. Len(out') : out'[i] = out[i + 1]
  BY HeadTailProperties, LenProperties DEF OutType
<1>2. DOMAIN out' = 1 .. Len(out')
  BY <1>1, LenProperties
<1>3. /\ 1 \in DOMAIN out
      /\ \A i \in DOMAIN out' : i \in Nat \ {0} /\ i + 1 \in DOMAIN out /\ out'[i] = out[i + 1]
  BY <1>1, <1>2, EmptySeq DEF OutType
<1> QED
  BY <1>1, <1>3 DEF Queued

\* A thread keeps its batch or gives it up.
LEMMA SameBatch ==
  ASSUME WorkType, NEW t \in Threads,
         ExitWorker(t) \/ Delivered(t) \/ RetryLogPanics(t) \/ CompleteBatch(t)
  PROVE  /\ sent' = sent /\ (out' = out \/ out' = <<>>) /\ Queued' \subseteq Queued
         /\ \E j : SetJob(t, j) /\ (j.batch = job[t].batch \/ j.batch = NoBatch)
<1> DEFINE ended     == [Idle EXCEPT !.phase = "exited"]
           dead      == [job[t] EXCEPT !.phase = "panicked"]
           delivered == Completing(job[t].batch)
           after     == [job[t] EXCEPT !.next = @ + 1]
           calling   == [job[t] EXCEPT !.phase = "callback", !.next = 1]
<1>1. /\ ended.batch = NoBatch /\ Idle.batch = NoBatch
      /\ dead.batch = job[t].batch /\ delivered.batch = job[t].batch
      /\ after.batch = job[t].batch /\ calling.batch = job[t].batch
  BY JobType DEF Idle, Job, Completing
<1>2. \/ SetJob(t, ended) \/ SetJob(t, dead) \/ SetJob(t, delivered)
      \/ SetJob(t, after) \/ SetJob(t, calling) \/ SetJob(t, Idle)
  BY DEF ExitWorker, Delivered, RetryLogPanics, CompleteBatch, CompleteHandle,
         HandlesCompleted, RunCallback, CallbacksDone, Panic
<1>3. sent' = sent /\ (out' = out \/ out' = <<>>)
  BY DEF ExitWorker, Delivered, RetryLogPanics, CompleteBatch, CompleteHandle,
         HandlesCompleted, RunCallback, CallbacksDone, Panic
<1>4. Queued' \subseteq Queued
  BY <1>3 DEF Queued
<1> HIDE DEF ended, dead, delivered, after, calling
<1> QED
  BY <1>1, <1>2, <1>3, <1>4

\* The steps that touch a batch that has left the batcher.
LEMMA BatchSteps ==
  ASSUME [Next]_vars
  PROVE  \/ UNCHANGED <<out, job, done, called, sent>>
         \/ TryDispatch \/ Dispatch
         \/ \E w \in Workers : TakeBatch(w)
         \/ \E t \in Threads :
               ExitWorker(t) \/ Delivered(t) \/ RetryLogPanics(t) \/ CompleteBatch(t)
  BY WhoWorks, BatcherThread DEF Worker

-----------------------------------------------------------------------------
(* Whoever is completed has been accepted.                                 *)

\* A handle has been returned for what the intake has taken, and only for that.
CallInv == \A s \in Subs : call[s] = "accepted" <=> s \in ToSet(accepted)

\* The dispatch channel and the threads hold only what has left the batcher.
OwnInv ==
    /\ Queued \subseteq ToSet(sent)
    /\ \A t \in Threads : ToSet(job[t].batch.subs) \subseteq ToSet(sent)

LEMMA InitCalls == Init => CallInv /\ OwnInv
  BY NoBatchUploadable DEF Init, CallInv, OwnInv, Queued, ToSet, Idle

LEMMA CallStep == ASSUME TypeInv, CallInv, [Next]_vars PROVE CallInv'
<1>1. call \in [Subs -> CallStates] /\ accepted \in Seq(Subs)
  BY DEF TypeInv, CallerType
<1>2. CASE UNCHANGED <<call, accepted>>
  BY <1>2 DEF CallInv
<1>3. ASSUME NEW s \in Subs, Caller(s) PROVE CallInv'
  <2>1. CASE Enqueue(s)
    <3>1. ToSet(accepted') = ToSet(accepted) \cup {s} /\ Goto(s, "accepted")
      BY <1>1, <2>1, ElementsAfterAppend DEF Enqueue
    <3> QED
      BY <1>1, <3>1 DEF CallInv, Goto
  <2>2. CASE Send(s) \/ CheckIntake(s) \/ CloneSender(s) \/ EnqueueTimeout(s)
    <3>1. /\ accepted' = accepted /\ call[s] # "accepted"
          /\ \E state : state # "accepted" /\ Goto(s, state)
      BY <2>2 DEF Send, CheckIntake, CloneSender, EnqueueTimeout
    <3> QED
      BY <1>1, <3>1 DEF CallInv, Goto
  <2> QED
    BY <1>3, <2>1, <2>2 DEF Caller
<1> QED
  BY <1>2, <1>3, WhoSends

LEMMA SetJobOwns ==
  ASSUME OwnInv, WorkType, NEW t \in Threads, NEW j, SetJob(t, j),
         ToSet(sent) \subseteq ToSet(sent'),
         ToSet(j.batch.subs) \subseteq ToSet(sent')
  PROVE  \A u \in Threads : ToSet(job'[u].batch.subs) \subseteq ToSet(sent')
  BY DEF OwnInv, WorkType, SetJob

LEMMA OwnStep == ASSUME TypeInv, OwnInv, [Next]_vars PROVE OwnInv'
<1>1. /\ WorkType /\ OutType /\ sent \in Seq(Subs) /\ current \in Batch
      /\ current.subs \in Seq(Subs)
  BY PipelineTypes DEF TypeInv, BatchType
<1>2. CASE UNCHANGED <<out, job, sent>>
  BY <1>2 DEF OwnInv, Queued
<1>3. CASE TryDispatch \/ Dispatch
  <2> SUFFICES ASSUME sent' = sent \o current.subs PROVE OwnInv'
    BY <1>2, <1>3, Dispatches
  <2>1. /\ ToSet(sent) \subseteq ToSet(sent')
        /\ ToSet(current.subs) \subseteq ToSet(sent')
    BY <1>1, PartsOfConcat
  <2>2. CASE SetJob(Batcher, Completing(current)) /\ out' = out
    <3>1. Completing(current).batch = current /\ Queued' = Queued
      BY <2>2 DEF Completing, Queued
    <3>2. \A t \in Threads : ToSet(job'[t].batch.subs) \subseteq ToSet(sent')
      BY <1>1, <2>1, <2>2, <3>1, SetJobOwns, BatcherThread
    <3> QED
      BY <2>1, <3>1, <3>2 DEF OwnInv
  <2>3. CASE out' = Append(out, current) /\ job' = job
    BY <1>1, <2>1, <2>3, QueuedOneMore DEF OwnInv
  <2> QED
    BY <1>2, <1>3, <2>2, <2>3, Dispatches
<1>4. ASSUME NEW w \in Workers, TakeBatch(w) PROVE OwnInv'
  <2> DEFINE j == [phase |-> "deliver", batch |-> Head(out), next |-> 0]
  <2>1. /\ w \in Threads /\ sent' = sent
        /\ SetJob(w, j) /\ out # <<>> /\ out' = Tail(out) /\ j.batch = Head(out)
    BY <1>4, BatcherThread DEF TakeBatch
  <2> HIDE DEF j
  <2>2. Queued' \subseteq Queued /\ ToSet(Head(out).subs) \subseteq Queued
    BY <1>1, <2>1, QueuedOneLess
  <2>3. \A u \in Threads : ToSet(job'[u].batch.subs) \subseteq ToSet(sent')
    BY <1>1, <2>1, <2>2, SetJobOwns DEF OwnInv
  <2> QED
    BY <2>1, <2>2, <2>3 DEF OwnInv
<1>5. ASSUME NEW t \in Threads,
             ExitWorker(t) \/ Delivered(t) \/ RetryLogPanics(t) \/ CompleteBatch(t)
      PROVE  OwnInv'
  <2>1. /\ sent' = sent /\ Queued' \subseteq Queued
        /\ \E j : SetJob(t, j) /\ (j.batch = job[t].batch \/ j.batch = NoBatch)
    BY <1>1, <1>5, SameBatch
  <2>2. ToSet(NoBatch.subs) = {}
    BY NoBatchUploadable DEF ToSet
  <2>3. \A u \in Threads : ToSet(job'[u].batch.subs) \subseteq ToSet(sent')
    BY <1>1, <2>1, <2>2, SetJobOwns DEF OwnInv
  <2> QED
    BY <2>1, <2>2, <2>3 DEF OwnInv
<1> QED
  BY <1>2, <1>3, <1>4, <1>5, BatchSteps

LEMMA SentIsAccepted ==
  ASSUME TypeInv, FifoInv PROVE ToSet(sent) \subseteq ToSet(accepted)
<1> DEFINE front == sent \o current.subs
<1>1. ToSet(sent) \subseteq ToSet(front)
  BY PipelineTypes, PartsOfConcat
<1>2. ToSet(front) \subseteq ToSet(front \o got)
  BY PipelineTypes, PartsOfConcat
<1>3. ToSet(front \o got) \subseteq ToSet(front \o got \o pending)
  BY PipelineTypes, PartsOfConcat
<1>4. ToSet(front \o got \o pending) \subseteq ToSet(accepted)
  BY PipelineTypes, PartsOfConcat DEF FifoInv, PipelineFIFO
<1> QED
  BY <1>1, <1>2, <1>3, <1>4

-----------------------------------------------------------------------------
(* The refinement.                                                         *)

\* What the proofs about the steps rest on.
ServiceInv ==
    /\ TypeInv /\ FifoInv /\ KeptInv /\ EndInv /\ JoinInv /\ GoneInv
    /\ CallInv /\ OwnInv

LEMMA ServiceInvAlways == Spec => []ServiceInv
<1>1. Init => ServiceInv
  BY InitType, InitFifo, InitKept, InitEnds, InitGone, InitCalls DEF ServiceInv
<1>2. ServiceInv /\ [Next]_vars => ServiceInv'
  BY TypeStep, FifoStep, KeptStep, EndStep, JoinStep, GoneStep, CallStep, OwnStep
     DEF ServiceInv
<1> QED
  BY <1>1, <1>2, PTL DEF Spec

LEMMA ClosingOf ==
  ASSUME NEW c \in Closers
  PROVE  /\ closer[c] = "idle" => ServiceClosing(c) = "idle"
         /\ closer[c] = "ok" => ServiceClosing(c) = "drained"
         /\ closer[c] \in {"err", "second"} => ServiceClosing(c) = "returned"
         /\ closer[c] \in {"flag", "sender", "joinBatcher", "joinWorkers"} => ServiceClosing(c) = "calling"
<1>1. CASE closer[c] = "idle"
  BY <1>1 DEF ServiceClosing
<1>2. CASE closer[c] = "ok"
  BY <1>2 DEF ServiceClosing
<1>3. CASE closer[c] \in {"err", "second"}
  BY <1>3 DEF ServiceClosing
<1>4. CASE closer[c] \in {"flag", "sender", "joinBatcher", "joinWorkers"}
  BY <1>4 DEF ServiceClosing
<1> QED
  BY <1>1, <1>2, <1>3, <1>4

LEMMA InitService == Init => Service!Init
<1> SUFFICES ASSUME Init PROVE Service!Init
  OBVIOUS
<1>1. \A s \in Subs : ServiceStatus(s) = "idle"
  BY DEF Init, ServiceStatus
<1>2. \A c \in Closers : ServiceClosing(c) = "idle"
  BY DEF Init, ServiceClosing
<1>3. ~(\E c \in Closers : closer[c] = "ok")
  BY DEF Init
<1> QED
  BY <1>1, <1>2, <1>3 DEF Init, Service!Init

\* A step the callers do not see.
LEMMA Invisible ==
  ASSUME UNCHANGED <<call, closer, done>>
  PROVE  UNCHANGED Service!vars
<1>1. \A s \in Subs : ServiceStatus(s)' = ServiceStatus(s)
  BY DEF ServiceStatus
<1>2. \A c \in Closers : ServiceClosing(c)' = ServiceClosing(c)
  BY DEF ServiceClosing
<1> QED
  BY <1>1, <1>2 DEF Service!vars

LEMMA SendIsService ==
  ASSUME ServiceInv, NEW s \in Subs, Caller(s)
  PROVE  [Service!Next]_Service!vars
<1>1. call \in [Subs -> CallStates] /\ closer' = closer /\ done' = done
  BY DEF ServiceInv, TypeInv, CallerType, Caller, Send, CheckIntake, CloneSender, Enqueue,
         EnqueueTimeout, flagVars, workVars
<1>2. [c \in Closers |-> ServiceClosing(c)]' = [c \in Closers |-> ServiceClosing(c)]
  BY <1>1 DEF ServiceClosing
<1>3. ASSUME NEW state \in CallStates, Goto(s, state)
      PROVE  /\ ServiceStatus(s)' =
                     IF state \in {"enqueue", "clone", "sending"} THEN "calling" ELSE state
             /\ \A q \in Subs : q # s => ServiceStatus(q)' = ServiceStatus(q)
  BY <1>1, <1>3 DEF Goto, ServiceStatus
<1> DEFINE status == [q \in Subs |-> ServiceStatus(q)]
<1>4. ASSUME NEW state \in CallStates, NEW seen, Goto(s, state),
             seen = IF state \in {"enqueue", "clone", "sending"} THEN "calling" ELSE state
      PROVE  status' = [status EXCEPT ![s] = seen]
  BY <1>3, <1>4
<1>5. /\ call[s] = "idle" => status[s] = "idle"
      /\ call[s] \in {"enqueue", "clone", "sending"} => status[s] = "calling"
  BY DEF ServiceStatus
<1>6. CASE call[s] \in {"idle", "enqueue", "clone", "sending"} /\ Goto(s, "rejected")
  <2>1. status' = [status EXCEPT ![s] = "rejected"] /\ status[s] \in {"idle", "calling"}
    BY <1>4, <1>5, <1>6 DEF CallStates
  <2>2. Service!Reject(s)
    BY <1>1, <1>2, <2>1 DEF Service!Reject
  <2> QED
    BY <2>2 DEF Service!Next
<1>7. CASE call[s] = "idle" /\ Goto(s, "enqueue")
  <2>1. status' = [status EXCEPT ![s] = "calling"] /\ status[s] = "idle"
    BY <1>4, <1>5, <1>7 DEF CallStates
  <2>2. Service!Call(s)
    BY <1>1, <1>2, <2>1 DEF Service!Call
  <2> QED
    BY <2>2 DEF Service!Next
<1>8. CASE \/ (call[s] = "enqueue" /\ Goto(s, "clone"))
         \/ (call[s] = "clone" /\ Goto(s, "sending"))
  <2>1. status' = [status EXCEPT ![s] = "calling"] /\ status[s] = "calling"
    BY <1>4, <1>5, <1>8 DEF CallStates
  <2>2. status' = status
    BY <2>1
  <2> QED
    BY <1>1, <1>2, <2>2 DEF Service!vars
<1>9. CASE Enqueue(s)
  <2>1. call[s] = "sending" /\ Goto(s, "accepted")
    BY <1>9 DEF Enqueue
  <2>2. status' = [status EXCEPT ![s] = "accepted"] /\ status[s] = "calling"
    BY <1>4, <1>5, <2>1 DEF CallStates
  \* After a close() that has drained, nobody has a sender.
  <2>3. ~(\E c \in Closers : closer[c] = "ok")
    <3>1. (\E c \in Closers : closer[c] = "ok") => At("done")
      BY DEF ServiceInv, JoinInv
    <3>2. At("done") => Disconnected
      BY DEF ServiceInv, EndInv, At
    <3> QED
      BY <2>1, <3>1, <3>2 DEF Disconnected
  <2>4. Service!Accept(s)
    BY <1>1, <1>2, <2>2, <2>3 DEF Service!Accept
  <2> QED
    BY <2>4 DEF Service!Next
<1>10. CASE Send(s)
  BY <1>6, <1>7, <1>10 DEF Send
<1>11. CASE CheckIntake(s)
  BY <1>6, <1>8, <1>11 DEF CheckIntake
<1>12. CASE CloneSender(s)
  BY <1>6, <1>8, <1>12 DEF CloneSender
<1>13. CASE EnqueueTimeout(s)
  BY <1>6, <1>13 DEF EnqueueTimeout
<1> QED
  BY <1>9, <1>10, <1>11, <1>12, <1>13 DEF Caller

LEMMA CompleteIsService ==
  ASSUME ServiceInv, NEW t \in Threads, CompleteBatch(t)
  PROVE  [Service!Next]_Service!vars
<1>1. call' = call /\ closer' = closer
  BY DEF CompleteBatch, CompleteHandle, HandlesCompleted, RunCallback, CallbacksDone,
         callerVars, flagVars
<1>2. CASE done' = done
  BY <1>1, <1>2, Invisible
<1>3. CASE CompleteHandle(t)
  <2> DEFINE s == job[t].batch.subs[job[t].next]
  <2>1. done' = done \cup {s} /\ job[t].phase = "complete"
    BY <1>3 DEF CompleteHandle
  <2>2. s \in ToSet(job[t].batch.subs)
    <3>1. /\ job[t].batch.subs \in Seq(Subs) /\ job[t].next >= 1 /\ job[t].next \in Nat
          /\ Len(job[t].batch.subs) \in Nat
          /\ DOMAIN job[t].batch.subs = 1 .. Len(job[t].batch.subs)
      BY <2>1, JobType, LenProperties DEF ServiceInv, TypeInv, CountsFromOne
    <3>2. ~(job[t].next > Len(job[t].batch.subs))
      BY <1>3 DEF CompleteHandle, AllCompleted
    <3>3. job[t].next \in DOMAIN job[t].batch.subs
      BY <3>1, <3>2
    <3> QED
      BY <3>3 DEF ToSet
  <2>3. s \in ToSet(accepted)
    BY <2>2, SentIsAccepted DEF ServiceInv, OwnInv
  <2>4. s \in Subs
    BY <2>3, LenProperties DEF ServiceInv, TypeInv, CallerType, ToSet
  <2>5. ServiceStatus(s) = "accepted"
    BY <2>3, <2>4 DEF ServiceInv, CallInv, ServiceStatus
  <2>6. CASE s \in done
    BY <1>2, <2>1, <2>6
  <2>7. CASE s \notin done
    <3>1. [q \in Subs |-> ServiceStatus(q)]' = [q \in Subs |-> ServiceStatus(q)]
      BY <1>1 DEF ServiceStatus
    <3>2. [c \in Closers |-> ServiceClosing(c)]' = [c \in Closers |-> ServiceClosing(c)]
      BY <1>1 DEF ServiceClosing
    <3> HIDE DEF s
    <3>3. Service!Complete(s)
      BY <1>1, <2>1, <2>4, <2>5, <2>7, <3>1, <3>2 DEF Service!Complete
    <3> QED
      BY <2>4, <3>3 DEF Service!Next
  <2> QED
    BY <2>6, <2>7
<1> QED
  BY <1>2, <1>3 DEF CompleteBatch, HandlesCompleted, RunCallback, CallbacksDone

LEMMA DrainsNext == ServiceInv' => CloseDrains'
<1>1. ServiceInv => CloseDrains
  BY Drains DEF ServiceInv
<1> QED
  BY <1>1, PTL

LEMMA CloseIsService ==
  ASSUME ServiceInv, ServiceInv', NEW c \in Closers, Closer(c)
  PROVE  [Service!Next]_Service!vars
<1> DEFINE closing == [d \in Closers |-> ServiceClosing(d)]
           ok == \E d \in Closers : closer[d] = "ok"
<1>1. /\ closer \in [Closers -> CloserStates] /\ call' = call /\ done' = done
      /\ accepted' = accepted
  BY DEF ServiceInv, TypeInv, FlagType, Closer, Close, CloseIntake, DropSender,
         JoinBatcher, JoinWorkers, callerVars, workVars
<1>2. [q \in Subs |-> ServiceStatus(q)]' = [q \in Subs |-> ServiceStatus(q)]
  BY <1>1 DEF ServiceStatus
<1>3. ASSUME NEW state \in CloserStates, Advance(c, state)
      PROVE  /\ closer'[c] = state
             /\ \A d \in Closers : d # c => ServiceClosing(d)' = ServiceClosing(d)
             /\ closer[c] # "ok" /\ state # "ok" => ok' = ok
  <2>1. closer'[c] = state /\ \A d \in Closers : d # c => closer'[d] = closer[d]
    BY <1>1, <1>3 DEF Advance
  <2> QED
    BY <2>1 DEF ServiceClosing
<1>4. /\ closer[c] = "idle" => closing[c] = "idle"
      /\ closer[c] \in {"flag", "sender", "joinBatcher", "joinWorkers"} => closing[c] = "calling"
  BY ClosingOf
<1>5. /\ closer'[c] \in {"err", "second"} => closing'[c] = "returned"
      /\ closer'[c] = "ok" => closing'[c] = "drained"
      /\ closer'[c] \in {"flag", "sender", "joinBatcher", "joinWorkers"} => closing'[c] = "calling"
  <2>1. CASE closer'[c] \in {"err", "second"}
    BY <2>1 DEF ServiceClosing
  <2>2. CASE closer'[c] = "ok"
    BY <2>2 DEF ServiceClosing
  <2>3. CASE closer'[c] \in {"flag", "sender", "joinBatcher", "joinWorkers"}
    BY <2>3 DEF ServiceClosing
  <2> QED
    BY <2>1, <2>2, <2>3
<1>6. ASSUME NEW state \in CloserStates, Advance(c, state)
      PROVE  closing' = [closing EXCEPT ![c] = closing'[c]]
  BY <1>3, <1>6
<1> HIDE DEF closing, ok
<1>7. CASE /\ closer[c] \in {"idle", "flag", "sender", "joinBatcher", "joinWorkers"}
           /\ \E state \in {"err", "second"} : Advance(c, state)
  <2>1. closing[c] \in {"idle", "calling"} /\ closing' = [closing EXCEPT ![c] = "returned"]
        /\ ok' = ok
    BY <1>3, <1>4, <1>5, <1>6, <1>7 DEF CloserStates
  <2>2. Service!ReturnClose(c)
    BY <1>1, <1>2, <2>1 DEF Service!ReturnClose, closing, ok
  <2> QED
    BY <2>2 DEF Service!Next
<1>8. CASE closer[c] = "idle" /\ Advance(c, "flag")
  <2>1. closing[c] = "idle" /\ closing' = [closing EXCEPT ![c] = "calling"] /\ ok' = ok
    BY <1>3, <1>4, <1>5, <1>6, <1>8 DEF CloserStates
  <2>2. Service!StartClose(c)
    BY <1>1, <1>2, <2>1 DEF Service!StartClose, closing, ok
  <2> QED
    BY <2>2 DEF Service!Next
<1>9. CASE /\ closer[c] \in {"flag", "sender", "joinBatcher"}
           /\ \E state \in {"sender", "joinBatcher", "joinWorkers"} : Advance(c, state)
  <2>1. closing[c] = "calling" /\ closing' = [closing EXCEPT ![c] = "calling"] /\ ok' = ok
    BY <1>3, <1>4, <1>5, <1>6, <1>9 DEF CloserStates
  <2>2. closing' = closing
    BY <2>1 DEF closing
  <2> QED
    BY <1>1, <1>2, <2>1, <2>2 DEF Service!vars, closing, ok
\* The close() that returns Ok: every accepted handle is complete.
<1>10. CASE closer[c] = "joinWorkers" /\ Advance(c, "ok")
  <2>1. /\ closing[c] = "calling" /\ closing' = [closing EXCEPT ![c] = "drained"]
        /\ closer'[c] = "ok"
    BY <1>3, <1>4, <1>5, <1>6, <1>10 DEF CloserStates
  <2>2. ok'
    BY <2>1 DEF ok
  <2>3. CloseDrains'
    BY DrainsNext
  <2>4. ToSet(accepted) \subseteq done
    BY <1>1, <2>1, <2>3 DEF CloseDrains, ToSet
  <2>5. {s \in Subs : ServiceStatus(s) = "accepted"} \subseteq done
    BY <2>4 DEF ServiceInv, CallInv, ServiceStatus
  <2>6. Service!FinishClose(c)
    BY <1>1, <1>2, <2>1, <2>2, <2>5 DEF Service!FinishClose, Service!Accepted, closing, ok
  <2> QED
    BY <2>6 DEF Service!Next
<1> QED
  BY <1>7, <1>8, <1>9, <1>10 DEF Closer, Close, CloseIntake, DropSender, JoinBatcher,
                                 JoinWorkers

LEMMA StepIsService ==
  ASSUME ServiceInv, ServiceInv', [Next]_vars
  PROVE  [Service!Next]_Service!vars
<1>1. ASSUME NEW w \in Workers, Worker(w) PROVE UNCHANGED <<call, closer, done>>
  BY <1>1 DEF Worker, TakeBatch, ExitWorker, Delivered, RetryLogPanics, callerVars, flagVars
<1>2. BatcherStep \/ LingerExpires \/ Drop \/ UNCHANGED vars => UNCHANGED <<call, closer, done>>
  BY DEF BatcherStep, DequeueFirst, DequeueClosed, KeepOpen, TryDispatch, DequeueMore,
         DequeueTimeout, DequeueDisconnected, Collect, Absorb, Dispatch, LingerExpires, Drop,
         vars, callerVars, flagVars, workVars
<1> QED
  BY <1>1, <1>2, Invisible, SendIsService, CompleteIsService, CloseIsService DEF Next

\* The blocking client implements ClientService: a handle completes once and
\* only if its send was accepted, a close() that returns Ok has drained the
\* client, and nothing is accepted after it, whatever the number of threads
\* and whichever of them panic (client.rs 154-175, 507-664, 887-912).
THEOREM ImplementsServiceAlways == Spec => ImplementsService
  BY InitService, StepIsService, ServiceInvAlways, PTL
     DEF Spec, ImplementsService, Service!SafeSpec

-----------------------------------------------------------------------------
(* At most once.                                                           *)

\* No submission is in two of the places that hold batches.
ApartInv ==
    /\ \A t \in Threads : /\ IsInjective(job[t].batch.subs)
                          /\ ToSet(job[t].batch.subs) \cap Queued = {}
                          /\ \A u \in Threads \ {t} :
                                ToSet(job[t].batch.subs) \cap ToSet(job[u].batch.subs) = {}
    /\ \A i \in DOMAIN out : /\ IsInjective(out[i].subs)
                             /\ \A k \in DOMAIN out \ {i} : ToSet(out[i].subs) \cap ToSet(out[k].subs) = {}

\* What is done and called of a batch that a thread works on.
UpToDate(j, handles, calls) ==
    /\ j.phase = "deliver" => ToSet(j.batch.subs) \cap handles = {}
    /\ j.phase = "complete" =>
          \A i \in DOMAIN j.batch.subs : /\ j.batch.subs[i] \in handles <=> i < j.next
                                         /\ j.batch.subs[i] \notin calls
    /\ j.phase = "callback" =>
          \A i \in DOMAIN j.batch.subs : /\ j.batch.subs[i] \in handles
                                         /\ i >= j.next => j.batch.subs[i] \notin calls

OnceInv ==
    /\ called \subseteq done /\ done \subseteq ToSet(sent)
    /\ Queued \cap done = {}
    /\ \A t \in Threads : UpToDate(job[t], done, called)

\* A submission is accepted once: its call returns once.
LEMMA AcceptedOnceStep ==
  ASSUME TypeInv, CallInv, IsInjective(accepted), [Next]_vars
  PROVE  IsInjective(accepted)'
<1>1. call \in [Subs -> CallStates] /\ accepted \in Seq(Subs)
  BY DEF TypeInv, CallerType
<1>2. ASSUME NEW s \in Subs, Enqueue(s) PROVE IsInjective(accepted')
  <2>1. s \notin ToSet(accepted) /\ accepted' = Append(accepted, s)
    BY <1>2 DEF Enqueue, CallInv
  <2> QED
    BY <1>1, <2>1, AppendedOnce
<1>3. (\E s \in Subs : Enqueue(s)) \/ accepted' = accepted
  BY WhoSends DEF Caller, Send, CheckIntake, CloneSender, EnqueueTimeout
<1> QED
  BY <1>2, <1>3

LEMMA CurrentOnce ==
  ASSUME TypeInv, FifoInv, IsInjective(accepted)
  PROVE  IsInjective(current.subs) /\ ToSet(current.subs) \cap ToSet(sent) = {}
<1> DEFINE front == sent \o current.subs
<1>1. accepted = front \o got \o pending \o chan
  BY DEF FifoInv, PipelineFIFO
<1>2. IsInjective(front \o got \o pending)
  BY <1>1, PipelineTypes, OnceInParts
<1>3. IsInjective(front \o got)
  BY <1>2, PipelineTypes, OnceInParts
<1>4. IsInjective(front)
  BY <1>3, PipelineTypes, OnceInParts
<1> QED
  BY <1>4, PipelineTypes, OnceInParts

\* It is enough to look at the job that changes.
LEMMA JobApart ==
  ASSUME WorkType, ApartInv, NEW t \in Threads, NEW j, SetJob(t, j), Queued' \subseteq Queued,
         IsInjective(j.batch.subs), ToSet(j.batch.subs) \cap Queued' = {},
         \A u \in Threads \ {t} : ToSet(j.batch.subs) \cap ToSet(job[u].batch.subs) = {},
         \A i \in DOMAIN out' : /\ IsInjective(out'[i].subs)
                                /\ \A k \in DOMAIN out' \ {i} :
                                      ToSet(out'[i].subs) \cap ToSet(out'[k].subs) = {}
  PROVE  ApartInv'
<1>1. job'[t] = j /\ \A u \in Threads \ {t} : job'[u] = job[u]
  BY DEF SetJob, WorkType
<1>2. ASSUME NEW u \in Threads
      PROVE  /\ IsInjective(job'[u].batch.subs)
             /\ ToSet(job'[u].batch.subs) \cap Queued' = {}
             /\ \A v \in Threads \ {u} : ToSet(job'[u].batch.subs) \cap ToSet(job'[v].batch.subs) = {}
  <2>1. CASE u = t
    BY <1>1, <2>1
  <2>2. CASE u # t
    BY <1>1, <2>2 DEF ApartInv
  <2> QED
    BY <2>1, <2>2
<1> QED
  BY <1>2 DEF ApartInv

LEMMA ApartStep ==
  ASSUME TypeInv, FifoInv, OwnInv, IsInjective(accepted), ApartInv, [Next]_vars
  PROVE  ApartInv'
<1>1. WorkType /\ OutType /\ current \in Batch
  BY DEF TypeInv, BatchType
<1>2. CASE UNCHANGED <<out, job>>
  BY <1>2 DEF ApartInv, Queued
<1>3. CASE TryDispatch \/ Dispatch
  <2>1. IsInjective(current.subs) /\ ToSet(current.subs) \cap ToSet(sent) = {}
    BY CurrentOnce
  <2>2. CASE SetJob(Batcher, Completing(current)) /\ out' = out
    <3>1. Completing(current).batch = current /\ Queued' = Queued /\ Batcher \in Threads
      BY <2>2, BatcherThread DEF Completing, Queued
    <3>2. \A i \in DOMAIN out' : /\ IsInjective(out'[i].subs)
                                 /\ \A k \in DOMAIN out' \ {i} :
                                       ToSet(out'[i].subs) \cap ToSet(out'[k].subs) = {}
      BY <2>2 DEF ApartInv
    <3>3. /\ ToSet(current.subs) \cap Queued' = {}
          /\ \A u \in Threads : ToSet(current.subs) \cap ToSet(job[u].batch.subs) = {}
      BY <2>1, <3>1 DEF OwnInv
    <3> QED
      BY <1>1, <2>1, <2>2, <3>1, <3>2, <3>3, JobApart
  <2>3. CASE out' = Append(out, current) /\ job' = job
    <3>1. /\ Queued' \subseteq Queued \cup ToSet(current.subs)
          /\ \A i \in DOMAIN out' : \/ i \in DOMAIN out /\ out'[i] = out[i]
                                    \/ i = Len(out) + 1 /\ out'[i] = current
      BY <1>1, <2>3, QueuedOneMore
    <3>2. \A i \in DOMAIN out : ToSet(out[i].subs) \cap ToSet(current.subs) = {}
      BY <2>1 DEF OwnInv, Queued
    <3>3. \A t \in Threads : ToSet(job[t].batch.subs) \cap ToSet(current.subs) = {}
      BY <2>1 DEF OwnInv
    <3>4. ASSUME NEW i \in DOMAIN out', NEW k \in DOMAIN out' \ {i}
          PROVE  ToSet(out'[i].subs) \cap ToSet(out'[k].subs) = {}
      BY <3>1, <3>2 DEF ApartInv
    <3>5. \A i \in DOMAIN out' : IsInjective(out'[i].subs)
      BY <2>1, <3>1 DEF ApartInv
    <3> QED
      BY <2>3, <3>1, <3>3, <3>4, <3>5 DEF ApartInv
  <2> QED
    BY <1>2, <1>3, <2>2, <2>3, Dispatches
<1>4. ASSUME NEW w \in Workers, TakeBatch(w) PROVE ApartInv'
  <2> DEFINE j == [phase |-> "deliver", batch |-> Head(out), next |-> 0]
  <2>1. /\ w \in Threads /\ SetJob(w, j) /\ out # <<>> /\ out' = Tail(out) /\ j.batch = Head(out)
    BY <1>4, BatcherThread DEF TakeBatch
  <2> HIDE DEF j
  <2>2. /\ Queued' \subseteq Queued /\ ToSet(Head(out).subs) \subseteq Queued
        /\ 1 \in DOMAIN out /\ Head(out) = out[1]
        /\ \A i \in DOMAIN out' : i \in Nat \ {0} /\ i + 1 \in DOMAIN out /\ out'[i] = out[i + 1]
    BY <1>1, <2>1, QueuedOneLess
  <2>3. \A i \in DOMAIN out' : ToSet(Head(out).subs) \cap ToSet(out'[i].subs) = {}
    <3>1. \A i \in DOMAIN out' : i + 1 # 1
      BY <2>2
    <3> QED
      BY <2>2, <3>1 DEF ApartInv
  <2>4. ToSet(Head(out).subs) \cap Queued' = {}
    BY <2>3 DEF Queued
  <2>5. \A i \in DOMAIN out' : /\ IsInjective(out'[i].subs)
                               /\ \A k \in DOMAIN out' \ {i} :
                                     ToSet(out'[i].subs) \cap ToSet(out'[k].subs) = {}
    <3>1. \A i \in DOMAIN out', k \in DOMAIN out' : i # k => i + 1 # k + 1
      BY <2>2
    <3> QED
      BY <2>2, <3>1 DEF ApartInv
  <2>6. \A u \in Threads : ToSet(Head(out).subs) \cap ToSet(job[u].batch.subs) = {}
    BY <2>2 DEF ApartInv
  <2>7. IsInjective(Head(out).subs)
    BY <2>2 DEF ApartInv
  <2> QED
    BY <1>1, <2>1, <2>2, <2>4, <2>5, <2>6, <2>7, JobApart
<1>5. ASSUME NEW t \in Threads,
             ExitWorker(t) \/ Delivered(t) \/ RetryLogPanics(t) \/ CompleteBatch(t)
      PROVE  ApartInv'
  <2>1. PICK j : SetJob(t, j) /\ (j.batch = job[t].batch \/ j.batch = NoBatch)
    BY <1>1, <1>5, SameBatch
  <2>2. (out' = out \/ out' = <<>>) /\ Queued' \subseteq Queued
    BY <1>1, <1>5, SameBatch
  <2>3. ToSet(NoBatch.subs) = {} /\ IsInjective(NoBatch.subs)
    BY NoBatchUploadable DEF ToSet, IsInjective
  <2>4. /\ IsInjective(j.batch.subs) /\ ToSet(j.batch.subs) \cap Queued' = {}
        /\ \A u \in Threads \ {t} : ToSet(j.batch.subs) \cap ToSet(job[u].batch.subs) = {}
    BY <2>1, <2>2, <2>3 DEF ApartInv
  <2>5. \A i \in DOMAIN out' : /\ IsInjective(out'[i].subs)
                               /\ \A k \in DOMAIN out' \ {i} :
                                     ToSet(out'[i].subs) \cap ToSet(out'[k].subs) = {}
    <3>1. out' = <<>> => DOMAIN out' = {}
      OBVIOUS
    <3> QED
      BY <2>2, <3>1 DEF ApartInv
  <2> QED
    BY <1>1, <2>1, <2>2, <2>4, <2>5, JobApart
<1> QED
  BY <1>2, <1>3, <1>4, <1>5, BatchSteps

\* It is enough to look at the job that changes and at what it completes.
LEMMA JobUpToDate ==
  ASSUME WorkType, ApartInv, OnceInv, NEW t \in Threads, NEW j, SetJob(t, j),
         done \subseteq done', called \subseteq called', called' \subseteq done',
         done' \subseteq done \cup ToSet(job[t].batch.subs),
         called' \subseteq called \cup ToSet(job[t].batch.subs),
         UpToDate(j, done', called')
  PROVE  \A u \in Threads : UpToDate(job'[u], done', called')
<1>1. job'[t] = j /\ \A u \in Threads \ {t} : job'[u] = job[u]
  BY DEF SetJob, WorkType
<1>2. ASSUME NEW u \in Threads \ {t} PROVE UpToDate(job'[u], done', called')
  <2>1. UpToDate(job[u], done, called) /\ job'[u] = job[u]
    BY <1>1 DEF OnceInv
  <2>2. ToSet(job[u].batch.subs) \cap ToSet(job[t].batch.subs) = {}
    BY DEF ApartInv
  <2>3. \A s \in ToSet(job[u].batch.subs) : (s \in done' <=> s \in done) /\ (s \in called' <=> s \in called)
    BY <2>2
  <2>4. \A i \in DOMAIN job[u].batch.subs : job[u].batch.subs[i] \in ToSet(job[u].batch.subs)
    BY DEF ToSet
  <2> QED
    BY <2>1, <2>3, <2>4 DEF UpToDate
<1> QED
  <2>1. UpToDate(job'[t], done', called')
    BY <1>1 DEF UpToDate
  <2> QED
    BY <1>2, <2>1

LEMMA OnceStep ==
  ASSUME TypeInv, FifoInv, OwnInv, IsInjective(accepted), ApartInv, OnceInv, [Next]_vars
  PROVE  OnceInv'
<1>1. /\ WorkType /\ OutType /\ current \in Batch /\ current.subs \in Seq(Subs)
      /\ sent \in Seq(Subs)
  BY PipelineTypes DEF TypeInv, BatchType
<1>2. CASE UNCHANGED <<out, job, done, called, sent>>
  BY <1>2 DEF OnceInv, UpToDate, Queued
<1>3. CASE TryDispatch \/ Dispatch
  <2>1. UNCHANGED <<done, called>>
    BY <1>3, Dispatches
  <2> SUFFICES ASSUME sent' = sent \o current.subs PROVE OnceInv'
    BY <1>2, <1>3, <2>1, Dispatches
  <2>2. ToSet(sent) \subseteq ToSet(sent') /\ ToSet(current.subs) \cap ToSet(sent) = {}
    BY <1>1, PartsOfConcat, CurrentOnce
  <2>3. ToSet(current.subs) \cap done = {} /\ ToSet(current.subs) \cap called = {}
    BY <2>2 DEF OnceInv
  <2>4. CASE SetJob(Batcher, Completing(current)) /\ out' = out
    <3> DEFINE j == Completing(current)
    <3>1. j.phase = "complete" /\ j.next = 1 /\ j.batch = current
      BY DEF Completing
    <3> HIDE DEF j
    <3>2. \A i \in DOMAIN current.subs : i >= 1 /\ current.subs[i] \notin done /\ current.subs[i] \notin called
      <4>1. DOMAIN current.subs = 1 .. Len(current.subs) /\ Len(current.subs) \in Nat
        BY <1>1, LenProperties
      <4> QED
        BY <2>3, <4>1 DEF ToSet
    <3>3. \A i \in DOMAIN current.subs : ~(i < 1)
      <4>1. DOMAIN current.subs = 1 .. Len(current.subs) /\ Len(current.subs) \in Nat
        BY <1>1, LenProperties
      <4> QED
        BY <4>1
    <3>4. UpToDate(j, done', called')
      BY <2>1, <3>1, <3>2, <3>3 DEF UpToDate
    <3>5. \A u \in Threads : UpToDate(job'[u], done', called')
      BY <1>1, <2>1, <2>4, <3>4, JobUpToDate, BatcherThread DEF OnceInv, j
    <3>6. Queued' = Queued
      BY <2>4 DEF Queued
    <3> QED
      BY <2>1, <2>2, <3>5, <3>6 DEF OnceInv
  <2>5. CASE out' = Append(out, current) /\ job' = job
    <3>1. Queued' \subseteq Queued \cup ToSet(current.subs)
      BY <1>1, <2>5, QueuedOneMore
    <3>2. \A u \in Threads : UpToDate(job'[u], done', called')
      BY <2>1, <2>5 DEF OnceInv, UpToDate
    <3> QED
      BY <2>1, <2>2, <2>3, <3>1, <3>2 DEF OnceInv
  <2> QED
    BY <1>2, <1>3, <2>1, <2>4, <2>5, Dispatches
<1>4. ASSUME NEW w \in Workers, TakeBatch(w) PROVE OnceInv'
  <2> DEFINE j == [phase |-> "deliver", batch |-> Head(out), next |-> 0]
  <2>1. /\ w \in Threads /\ SetJob(w, j) /\ out # <<>> /\ out' = Tail(out)
        /\ j.batch = Head(out) /\ j.phase = "deliver" /\ UNCHANGED <<done, called, sent>>
    BY <1>4, BatcherThread DEF TakeBatch
  <2> HIDE DEF j
  <2>2. Queued' \subseteq Queued /\ ToSet(Head(out).subs) \subseteq Queued
    BY <1>1, <2>1, QueuedOneLess
  <2>3. ToSet(j.batch.subs) \cap done' = {}
    BY <2>1, <2>2 DEF OnceInv
  <2>4. UpToDate(j, done', called')
    BY <2>1, <2>3 DEF UpToDate
  <2>5. \A u \in Threads : UpToDate(job'[u], done', called')
    BY <1>1, <2>1, <2>4, JobUpToDate DEF OnceInv
  <2> QED
    BY <2>1, <2>2, <2>5 DEF OnceInv
<1>5. ASSUME NEW t \in Threads,
             ExitWorker(t) \/ Delivered(t) \/ RetryLogPanics(t) \/ CompleteBatch(t)
      PROVE  OnceInv'
  <2> DEFINE before == job[t]
             subs == before.batch.subs
             after == [job[t] EXCEPT !.next = @ + 1]
  <2>1. /\ before \in Job /\ before.next \in Nat /\ CountsFromOne(before)
        /\ subs \in Seq(Subs) /\ Len(subs) \in Nat /\ DOMAIN subs = 1 .. Len(subs)
        /\ UpToDate(before, done, called)
    BY <1>1, JobType, LenProperties DEF OnceInv
  <2>2. after.phase = before.phase /\ after.batch = before.batch /\ after.next = before.next + 1
    BY <2>1 DEF Job
  <2>3. /\ sent' = sent /\ Queued' \subseteq Queued
        /\ ToSet(subs) \cap Queued = {} /\ ToSet(subs) \subseteq ToSet(sent)
    BY <1>1, <1>5, SameBatch DEF ApartInv, OwnInv
  <2>4. IsInjective(subs) /\ \A i \in DOMAIN subs : subs[i] \in ToSet(subs)
    BY DEF ApartInv, ToSet
  <2>5. SUFFICES ASSUME done \subseteq done', done' \subseteq done \cup ToSet(subs),
                        called \subseteq called', called' \subseteq done',
                        called' \subseteq called \cup ToSet(subs),
                        NEW j, SetJob(t, j), UpToDate(j, done', called')
                 PROVE  OnceInv'
    <3>1. CASE ExitWorker(t)
      <4> DEFINE j == [Idle EXCEPT !.phase = "exited"]
      <4>1. SetJob(t, j) /\ UNCHANGED <<done, called>> /\ j.phase = "exited"
        BY <3>1 DEF ExitWorker, Idle
      <4> HIDE DEF j
      <4>2. UpToDate(j, done', called')
        BY <4>1 DEF UpToDate
      <4> QED
        BY <2>5, <4>1, <4>2 DEF OnceInv
    <3>2. CASE Delivered(t)
      <4> DEFINE j == Completing(job[t].batch)
      <4>1. /\ SetJob(t, j) /\ UNCHANGED <<done, called>> /\ before.phase = "deliver"
            /\ j.phase = "complete" /\ j.next = 1 /\ j.batch.subs = subs
        BY <3>2 DEF Delivered, Completing
      <4> HIDE DEF j
      <4>2. ToSet(subs) \cap done = {} /\ ToSet(subs) \cap called = {}
        BY <2>1, <4>1 DEF UpToDate, OnceInv
      <4>3. \A i \in DOMAIN subs : ~(i < 1) /\ subs[i] \notin done /\ subs[i] \notin called
        <5>1. \A i \in DOMAIN subs : ~(i < 1)
          BY <2>1
        <5> QED
          BY <2>4, <4>2, <5>1
      <4>4. UpToDate(j, done', called')
        BY <4>1, <4>3 DEF UpToDate
      <4> QED
        BY <2>5, <4>1, <4>4 DEF OnceInv
    <3>3. CASE RetryLogPanics(t)
      <4> DEFINE j == [job[t] EXCEPT !.phase = "panicked"]
      <4>1. SetJob(t, j) /\ UNCHANGED <<done, called>> /\ j.phase = "panicked"
        BY <2>1, <3>3 DEF RetryLogPanics, Panic, Job
      <4> HIDE DEF j
      <4>2. UpToDate(j, done', called')
        BY <4>1 DEF UpToDate
      <4> QED
        BY <2>5, <4>1, <4>2 DEF OnceInv
    <3>4. CASE CompleteHandle(t)
      <4>1. /\ SetJob(t, after) /\ called' = called /\ before.phase = "complete"
            /\ before.next \in DOMAIN subs /\ done' = done \cup {subs[before.next]}
        BY <2>1, <3>4 DEF CompleteHandle, AllCompleted, CountsFromOne
      <4> HIDE DEF before, after, subs
      <4>2. \A i \in DOMAIN subs : i < before.next + 1 <=> i < before.next \/ i = before.next
        BY <2>1
      <4>3. \A i \in DOMAIN subs : subs[i] = subs[before.next] <=> i = before.next
        BY <2>4, <4>1 DEF IsInjective
      <4>4. \A i \in DOMAIN subs : (subs[i] \in done <=> i < before.next) /\ subs[i] \notin called
        BY <2>1, <4>1 DEF UpToDate, subs
      <4>5. \A i \in DOMAIN subs : (subs[i] \in done' <=> i < before.next + 1) /\ subs[i] \notin called'
        BY <4>1, <4>2, <4>3, <4>4
      <4>6. UpToDate(after, done', called')
        BY <2>2, <4>1, <4>5 DEF UpToDate, subs
      <4> QED
        BY <2>4, <2>5, <4>1, <4>6 DEF OnceInv
    <3>5. CASE HandlesCompleted(t)
      <4> DEFINE calling == [job[t] EXCEPT !.phase = "callback", !.next = 1]
      <4>1. /\ SetJob(t, calling) \/ SetJob(t, Idle)
            /\ UNCHANGED <<done, called>> /\ before.phase = "complete" /\ before.next > Len(subs)
        BY <3>5 DEF HandlesCompleted, AllCompleted
      <4>2. calling.phase = "callback" /\ calling.batch.subs = subs
        BY <2>1 DEF Job
      <4>3. Idle.phase = "none"
        BY DEF Idle
      <4> HIDE DEF before, calling, subs
      <4>4. \A i \in DOMAIN subs : i < before.next
        BY <2>1, <4>1
      <4>5. \A i \in DOMAIN subs : subs[i] \in done /\ subs[i] \notin called
        BY <2>1, <4>1, <4>4 DEF UpToDate, subs
      <4>6. UpToDate(calling, done', called') /\ UpToDate(Idle, done', called')
        BY <4>1, <4>2, <4>3, <4>5 DEF UpToDate
      <4> QED
        BY <2>5, <4>1, <4>6 DEF OnceInv
    <3>6. CASE RunCallback(t)
      <4> DEFINE dead == [job[t] EXCEPT !.phase = "panicked"]
      <4>1. /\ SetJob(t, after) \/ SetJob(t, dead)
            /\ done' = done /\ before.phase = "callback"
            /\ before.next \in DOMAIN subs
            /\ called' \subseteq called \cup {subs[before.next]} /\ called \subseteq called'
        BY <2>1, <3>6 DEF RunCallback, Panic, CountsFromOne
      <4>2. dead.phase = "panicked"
        BY <2>1 DEF Job
      <4> HIDE DEF before, after, dead, subs
      <4>3. \A i \in DOMAIN subs : subs[i] \in done /\ (i >= before.next => subs[i] \notin called)
        BY <2>1, <4>1 DEF UpToDate, subs
      <4>4. \A i \in DOMAIN subs : i >= before.next + 1 => i >= before.next /\ i # before.next
        BY <2>1
      <4>5. \A i \in DOMAIN subs : i >= before.next + 1 => subs[i] \notin called'
        BY <2>4, <4>1, <4>3, <4>4 DEF IsInjective
      <4>6. UpToDate(after, done', called') /\ UpToDate(dead, done', called')
        BY <2>2, <4>1, <4>2, <4>3, <4>5 DEF UpToDate, subs
      <4>7. called' \subseteq done' /\ called' \subseteq called \cup ToSet(subs)
        BY <2>4, <4>1, <4>3 DEF OnceInv
      <4> QED
        BY <2>5, <4>1, <4>6, <4>7
    <3>7. CASE CallbacksDone(t)
      <4>1. SetJob(t, Idle) /\ UNCHANGED <<done, called>> /\ Idle.phase = "none"
        BY <3>7 DEF CallbacksDone, Idle
      <4>2. UpToDate(Idle, done', called')
        BY <4>1 DEF UpToDate
      <4> QED
        BY <2>5, <4>1, <4>2 DEF OnceInv
    <3> QED
      BY <1>5, <3>1, <3>2, <3>3, <3>4, <3>5, <3>6, <3>7 DEF CompleteBatch
  <2>6. \A u \in Threads : UpToDate(job'[u], done', called')
    BY <1>1, <2>5, JobUpToDate
  <2> QED
    BY <2>3, <2>5, <2>6 DEF OnceInv
<1> QED
  BY <1>2, <1>3, <1>4, <1>5, BatchSteps

LEMMA InitOnce == Init => IsInjective(accepted) /\ ApartInv /\ OnceInv
<1> SUFFICES ASSUME Init PROVE IsInjective(accepted) /\ ApartInv /\ OnceInv
  OBVIOUS
<1>1. /\ accepted = <<>> /\ out = <<>> /\ done = {} /\ called = {}
      /\ \A t \in Threads : job[t] = Idle
  BY DEF Init
<1>2. Idle.phase = "none" /\ Idle.batch.subs = <<>>
  BY NoBatchUploadable DEF Idle
<1>3. Queued = {} /\ ToSet(<<>>) = {} /\ IsInjective(<<>>)
  BY <1>1 DEF Queued, ToSet, IsInjective
<1> QED
  BY <1>1, <1>2, <1>3 DEF ApartInv, OnceInv, UpToDate

\* No handle gets a second result and no callback a second call, whatever
\* panics: a submission is accepted once, its batch is in one place at a time,
\* and that place knows how far it is (client.rs 887-912).
THEOREM AtMostOnceAlways == Spec => []AtMostOnce
<1>1. TypeInv /\ ApartInv /\ OnceInv => AtMostOnce
  <2> SUFFICES ASSUME TypeInv, ApartInv, OnceInv PROVE AtMostOnce
    OBVIOUS
  <2>1. ASSUME NEW t \in Threads
        PROVE  /\ Owed(t) \subseteq ToSet(job[t].batch.subs) /\ Owed(t) \cap done = {}
               /\ CallsOwed(t) \cap called = {}
    <3> DEFINE j == job[t]
    <3>1. /\ CountsFromOne(j) /\ UpToDate(j, done, called) /\ j.next \in Nat /\ Len(j.batch.subs) \in Nat
          /\ DOMAIN j.batch.subs = 1 .. Len(j.batch.subs)
      BY JobType, LenProperties DEF TypeInv, OnceInv
    <3>2. j.phase \in {"complete", "callback"} =>
            \A i \in j.next .. Len(j.batch.subs) : i \in DOMAIN j.batch.subs /\ i >= j.next /\ ~(i < j.next)
      BY <3>1 DEF CountsFromOne
    <3>3. CASE j.phase = "deliver"
      BY <3>1, <3>3 DEF UpToDate, Owed, CallsOwed
    <3>4. CASE j.phase = "complete"
      <4>1. Owed(t) = {j.batch.subs[i] : i \in j.next .. Len(j.batch.subs)} /\ CallsOwed(t) = {}
        BY <3>4 DEF Owed, CallsOwed
      <4> QED
        BY <3>1, <3>2, <3>4, <4>1 DEF UpToDate, ToSet
    <3>5. CASE j.phase = "callback"
      <4>1. /\ Owed(t) = {}
            /\ CallsOwed(t) \subseteq {j.batch.subs[i] : i \in j.next .. Len(j.batch.subs)}
        BY <3>5 DEF Owed, CallsOwed
      <4> QED
        BY <3>1, <3>2, <3>5, <4>1 DEF UpToDate
    <3>6. CASE j.phase \notin {"deliver", "complete", "callback"}
      BY <3>6 DEF Owed, CallsOwed
    <3> QED
      BY <3>3, <3>4, <3>5, <3>6
  <2> QED
    BY <2>1 DEF AtMostOnce, ApartInv, OnceInv
<1>2. CallInv /\ OwnInv /\ TypeInv /\ FifoInv /\ IsInjective(accepted) /\ ApartInv /\ OnceInv
        /\ [Next]_vars
      => (IsInjective(accepted) /\ ApartInv /\ OnceInv)'
  BY AcceptedOnceStep, ApartStep, OnceStep
<1> QED
  BY <1>1, <1>2, InitOnce, ServiceInvAlways, PTL DEF Spec, ServiceInv

=============================================================================

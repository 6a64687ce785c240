------------------------- MODULE Completion_proofs -------------------------
(***************************************************************************)
(* Proofs about Completion: what the atomics of the stats collector hold   *)
(* at every moment, in terms of how far each task is with its batch, and   *)
(* what follows for a stats() that reads them one by one and for the end   *)
(* of the work.                                                            *)
(***************************************************************************)
EXTENDS Completion, Sums_proofs

-----------------------------------------------------------------------------
(* The inductive invariant.                                                *)

Busy(t) == job[t] # Idle

\* The batch has no result yet while the task is at one of these.
Unfinished == {"attempts", "bytes", "upload", "jobs", "errors", "retries", "complete"}

\* A batch is in one place: it waits in the channel, or one task has it.
Apart ==
    /\ \A i, k \in DOMAIN queue : queue[i] = queue[k] => i = k
    /\ \A t \in Tasks, i \in DOMAIN queue : Busy(t) => queue[i] # job[t].batch
    /\ \A t, u \in Tasks : t # u /\ Busy(t) /\ Busy(u) => job[t].batch # job[u].batch

\* A handle gets its result in the step "complete" of the task that has it.
Pending ==
    /\ \A i \in DOMAIN queue : result[queue[i]] = "none"
    /\ \A t \in Tasks : job[t].phase \in Unfinished => result[job[t].batch] = "none"
    /\ \A t \in Tasks : job[t].phase = "callbacks" => result[job[t].batch] # "none"

\* A worker has made an upload, the batcher never has one.
Uploads ==
    /\ \A w \in Workers : Busy(w) => job[w].attempts >= 1
    /\ Busy(Batcher) =>
          /\ job[Batcher].attempts = 0 /\ job[Batcher].failed
          /\ job[Batcher].phase \in {"jobs", "errors", "complete", "callbacks", "panicked"}
    /\ \A t \in Tasks : /\ job[t].phase = "retries" => job[t].attempts > 1
                        /\ job[t].phase = "errors" => job[t].failed

BusyWorkers == {w \in Workers : Busy(w)}

\* The job j of a task is counted for its batch b: as a job, as one that failed,
\* as one without an upload.
JobCounted(j, b) == j.phase \in {"errors", "retries", "complete"} /\ j.batch = b
ErrorCounted(j, b) == j.phase \in {"retries", "complete"} /\ j.batch = b /\ j.failed
ClosedCounted(j, b) == j.phase \in {"errors", "complete"} /\ j.batch = b

\* The batches whose job, whose error and whose missing upload is counted.
JobsOf == {b \in Batches : result[b] # "none" \/ \E t \in Tasks : JobCounted(job[t], b)}
ErrorsOf == {b \in Batches :
    result[b] \in {"failed", "closed"} \/ \E t \in Tasks : ErrorCounted(job[t], b)}
ClosedOf == {b \in Batches : result[b] = "closed" \/ ClosedCounted(job[Batcher], b)}

\* The uploads of a job j, whose batch has the result r, that are counted as
\* attempts, but neither as the first of a job nor as a retry.
OpenOf(j, r) ==
    CASE j.phase \in {"attempts", "errors", "retries"} -> j.attempts - 1
      [] j.phase \in {"bytes", "upload", "jobs"} -> j.attempts
      [] j.phase = "panicked" /\ r = "none" -> j.attempts
      [] OTHER -> 0

Open == [w \in Workers |-> OpenOf(job[w], result[job[w].batch])]

OpenUploads == Cells(Open, Workers)

\* The workers between the two counters of record_upload_attempt.
InBytes == {w \in Workers : job[w].phase = "bytes"}

Biggest == CHOOSE b \in Batches : \A c \in Batches : Bytes[c] <= Bytes[b]

BusyInv == counter["busy"] = Cardinality(BusyWorkers)

JobInv == /\ counter["jobs"] = Cardinality(JobsOf)
          /\ counter["errors"] = Cardinality(ErrorsOf)

SumInv ==
    counter["attempts"] + Cardinality(ClosedOf)
       = counter["jobs"] + counter["retries"] + Cardinality(OpenUploads)

BytesInv ==
    /\ counter["attempts"] >= Cardinality(InBytes)
    /\ counter["bytes"] <= (counter["attempts"] - Cardinality(InBytes)) * Bytes[Biggest]

\* What stats() has read by now.
SnapInv ==
    /\ seen \subseteq Completed
    /\ reader >= 1 => snap["jobs"] >= Cardinality(seen)
    /\ reader >= 2 => snap["errors"] >= Cardinality(Failed(seen))
    /\ reader >= 3 => snap["busy"] <= NumWorkers
    /\ reader >= 4 => snap["bytes"] <= counter["attempts"] * Bytes[Biggest]
    /\ reader >= 5 => /\ snap["attempts"] >= Cardinality(seen \ Undelivered(seen))
                      /\ snap["bytes"] <= snap["attempts"] * Bytes[Biggest]

PlaceAndType == TypeOK /\ Apart /\ Pending /\ Uploads /\ BusyInv

CountsInv == JobInv /\ SumInv /\ BytesInv /\ SnapInv

IInv == PlaceAndType /\ CountsInv

-----------------------------------------------------------------------------
(* What a step of a task changes.                                          *)

TaskStep(t) ==
    \/ t \in Workers /\ Deliver(t)
    \/ t = Batcher /\ FailDispatch
    \/ CompleteBatch(t) \/ LogPanics(t)

LEMMA WhoSteps == ASSUME [Next]_vars, ~UNCHANGED workVars PROVE \E t \in Tasks : TaskStep(t)
<1>1. ASSUME NEW c \in Waiters,
             Look(c) \/ WakeSpuriously(c) \/ TimeUp(c) \/ TimedOut(c) \/ SenderGone(c)
      PROVE  UNCHANGED workVars
  BY <1>1 DEF Look, WakeSpuriously, TimeUp, TimedOut, SenderGone, WaiterOnly
<1>2. ASSUME StartSnapshot \/ Read PROVE UNCHANGED workVars
  BY <1>2 DEF StartSnapshot, Read
<1>3. UNCHANGED vars => UNCHANGED workVars
  BY DEF vars
<1> QED
  BY <1>1, <1>2, <1>3 DEF Next, TaskStep, Tasks

LEMMA TasksAre == /\ Batcher \in Tasks /\ Workers \subseteq Tasks /\ Batcher \notin Workers
                  /\ Tasks = {Batcher} \cup Workers
  BY CompletionAssumption DEF Tasks, Workers, Batcher

\* A task that has a batch has a job record.
LEMMA JobRecord ==
  ASSUME TypeOK, NEW t \in Tasks
  PROVE  /\ Idle.phase = "idle" /\ "idle" \notin Phases
         /\ Busy(t) <=> job[t] \in Job
         /\ Busy(t) <=> job[t].phase # "idle"
         /\ Busy(t) <=> job[t].phase \in Phases
         /\ Busy(t) => /\ job[t].batch \in Batches /\ job[t].attempts \in Nat
                       /\ job[t].failed \in BOOLEAN
  BY DEF TypeOK, Busy, Job, Idle, Phases

\* The step of a task that has a batch moves it to another phase of it, or
\* makes it idle.
Moves(t, p, a, f) ==
    /\ job'[t] \in Job
    /\ job'[t].phase = p /\ job'[t].batch = job[t].batch
    /\ job'[t].attempts = a /\ job'[t].failed = f

Others(t) == \A u \in Tasks \ {t} : job'[u] = job[u]

LEMMA SetsJob ==
  ASSUME TypeOK, NEW t \in Tasks, NEW j, SetJob(t, j)
  PROVE  /\ job'[t] = j /\ Others(t)
         /\ j \in Job \cup {Idle} => job' \in [Tasks -> Job \cup {Idle}]
  BY DEF TypeOK, SetJob, Others

LEMMA StartEffect ==
  ASSUME TypeOK, NEW t \in Tasks,
         \/ t \in Workers /\ Start(t)
         \/ t = Batcher /\ FailDispatch
  PROVE  /\ ~Busy(t) /\ job[t] = Idle /\ queue # <<>> /\ queue' = Tail(queue)
         /\ Head(queue) \in Batches
         /\ job'[t] \in Job /\ Others(t) /\ job'[t].batch = Head(queue)
         /\ \/ /\ t \in Workers /\ job'[t].phase = "attempts"
               /\ job'[t].attempts = 1 /\ Bump("busy", 1)
            \/ /\ t = Batcher /\ job'[t].phase = "jobs"
               /\ job'[t].attempts = 0 /\ job'[t].failed /\ counter' = counter
         /\ result' = result
<1> DEFINE b == Head(queue)
           j == IF t = Batcher
                THEN [phase |-> "jobs", batch |-> b, attempts |-> 0, failed |-> TRUE]
                ELSE [phase |-> "attempts", batch |-> b, attempts |-> 1, failed |-> FALSE]
<1>1. queue \in Seq(Batches) /\ queue # <<>> /\ b \in Batches
  BY DEF TypeOK, Start, FailDispatch
<1>2. j \in Job
  BY <1>1 DEF Job, Phases
<1>3. SetJob(t, j)
  BY TasksAre DEF Start, FailDispatch
<1>4. job'[t] = j /\ Others(t)
  BY <1>3, SetsJob
<1> QED
  BY <1>1, <1>2, <1>4, TasksAre DEF Start, FailDispatch, Busy, SetJob

LEMMA RetryEffect ==
  ASSUME TypeOK, NEW w \in Workers, Retry(w)
  PROVE  /\ Busy(w) /\ job[w].phase = "upload" /\ Others(w)
         /\ Moves(w, "attempts", job[w].attempts + 1, job[w].failed)
         /\ UNCHANGED <<queue, counter, result>>
<1>1. w \in Tasks /\ job[w] \in Job
  BY TasksAre, JobRecord DEF Retry, Phases
<1> DEFINE a == job[w].attempts + 1
           j == [job[w] EXCEPT !.phase = "attempts", !.attempts = a]
<1>2. SetJob(w, j)
  BY DEF Retry
<1>3. a \in Nat
  BY <1>1 DEF Job
<1> HIDE DEF a
<1>4. j \in Job /\ j.phase = "attempts" /\ j.batch = job[w].batch
      /\ j.attempts = a /\ j.failed = job[w].failed
  BY <1>1, <1>3 DEF Job, Phases
<1> HIDE DEF j
<1> USE DEF a
<1> QED
  BY <1>1, <1>2, <1>4, SetsJob, JobRecord DEF Retry, Moves

LEMMA ConcludeEffect ==
  ASSUME TypeOK, NEW w \in Workers, NEW failed \in BOOLEAN, Conclude(w, failed)
  PROVE  /\ Busy(w) /\ job[w].phase = "upload" /\ Others(w)
         /\ Moves(w, "jobs", job[w].attempts, failed)
         /\ UNCHANGED <<queue, counter, result>>
<1>1. w \in Tasks /\ job[w] \in Job
  BY TasksAre, JobRecord DEF Conclude, Phases
<1>2. job[w].phase = "upload" /\ After(job[w]) = "jobs"
  BY DEF Conclude, After
<1> DEFINE j == [job[w] EXCEPT !.phase = "jobs", !.failed = failed]
<1>3. j \in Job /\ j.phase = "jobs" /\ j.batch = job[w].batch
      /\ j.attempts = job[w].attempts /\ j.failed = failed
  BY <1>1, <1>2 DEF Job, Phases
<1>4. SetJob(w, j)
  BY <1>1, <1>2 DEF Conclude
<1> HIDE DEF j
<1> QED
  BY <1>1, <1>3, <1>2, <1>4, SetsJob, JobRecord DEF Conclude, Moves

LEMMA CountEffect ==
  ASSUME TypeOK, NEW t \in Tasks, Count(t)
  PROVE  /\ Busy(t) /\ job[t].phase \in {"attempts", "bytes", "jobs", "errors", "retries"}
         /\ Others(t)
         /\ Moves(t, After(job[t]), job[t].attempts, job[t].failed)
         /\ Bump(job[t].phase, Amount(job[t]))
         /\ UNCHANGED <<queue, result>>
<1>1. job[t] \in Job /\ job[t].phase \in {"attempts", "bytes", "jobs", "errors", "retries"}
  BY JobRecord DEF Count, Counters, Phases
<1>2. After(job[t]) \in Phases
  BY <1>1 DEF After, Phases
<1> DEFINE j == [job[t] EXCEPT !.phase = After(job[t])]
<1>3. j \in Job /\ j.phase = After(job[t]) /\ j.batch = job[t].batch
      /\ j.attempts = job[t].attempts /\ j.failed = job[t].failed
  BY <1>1, <1>2 DEF Job, Phases
<1>4. SetJob(t, j)
  BY <1>1, <1>2 DEF Count
<1> HIDE DEF j
<1> QED
  BY <1>1, <1>2, <1>3, <1>4, SetsJob, JobRecord DEF Count, Moves

LEMMA CompleteEffect ==
  ASSUME TypeOK, Pending, NEW t \in Tasks, Complete(t)
  PROVE  /\ Busy(t) /\ job[t].phase = "complete" /\ Others(t)
         /\ Moves(t, "callbacks", job[t].attempts, job[t].failed)
         /\ result[job[t].batch] = "none"
         /\ result' = [result EXCEPT ![job[t].batch] = ResultOf(job[t])]
         /\ UNCHANGED <<queue, counter>>
<1>1. job[t] \in Job /\ job[t].phase = "complete"
  BY JobRecord DEF Complete, Phases
<1>2. After(job[t]) = "callbacks"
  BY <1>1 DEF After
<1> DEFINE j == [job[t] EXCEPT !.phase = "callbacks"]
<1>3. j \in Job /\ j.phase = "callbacks" /\ j.batch = job[t].batch
      /\ j.attempts = job[t].attempts /\ j.failed = job[t].failed
  BY <1>1, <1>2 DEF Job, Phases
<1>4. SetJob(t, j)
  BY <1>1, <1>2 DEF Complete
<1> HIDE DEF j
<1>5. result[job[t].batch] = "none"
  BY <1>1 DEF Pending, Unfinished
<1> QED
  BY <1>1, <1>2, <1>3, <1>5, <1>4, SetsJob, JobRecord DEF Complete, Moves

LEMMA FinishEffect ==
  ASSUME TypeOK, NEW t \in Tasks, Finish(t)
  PROVE  /\ Busy(t) /\ job[t].phase = "callbacks" /\ Others(t)
         /\ job'[t] = Idle
         /\ IF t \in Workers THEN Bump("busy", -1) ELSE counter' = counter
         /\ UNCHANGED <<queue, result>>
<1>1. Busy(t) /\ job[t].phase = "callbacks"
  BY JobRecord DEF Finish, Phases
<1> QED
  BY <1>1, SetsJob DEF Finish

LEMMA PanicEffect ==
  ASSUME TypeOK, NEW t \in Tasks, LogPanics(t)
  PROVE  /\ Busy(t) /\ job[t].phase \in {"upload", "callbacks"} /\ Others(t)
         /\ Moves(t, "panicked", job[t].attempts, job[t].failed)
         /\ \E n \in 0 .. Len(queue) : queue' = SubSeq(queue, n + 1, Len(queue))
         /\ UNCHANGED <<counter, result>>
<1>1. job[t] \in Job /\ job[t].phase \in {"upload", "callbacks"}
  BY JobRecord DEF LogPanics, Phases
<1> DEFINE j == [job[t] EXCEPT !.phase = "panicked"]
<1>2. j \in Job /\ j.phase = "panicked" /\ j.batch = job[t].batch
      /\ j.attempts = job[t].attempts /\ j.failed = job[t].failed
  BY <1>1 DEF Job, Phases
<1>3. SetJob(t, j)
  BY <1>1 DEF LogPanics
<1> HIDE DEF j
<1>4. \E n \in 0 .. Len(queue) : queue' = SubSeq(queue, n + 1, Len(queue))
  BY DEF LogPanics
<1> QED
  BY <1>1, <1>2, <1>4, <1>3, SetsJob, JobRecord DEF LogPanics, Moves

\* The cases of a step of a task.
LEMMA TaskCases ==
  ASSUME NEW t \in Tasks, TaskStep(t)
  PROVE  \/ (t \in Workers /\ Start(t)) \/ (t = Batcher /\ FailDispatch)
         \/ t \in Workers /\ Retry(t)
         \/ t \in Workers /\ \E failed \in BOOLEAN : Conclude(t, failed)
         \/ Count(t) \/ Complete(t) \/ Finish(t) \/ LogPanics(t)
  BY DEF TaskStep, Deliver, CompleteBatch

-----------------------------------------------------------------------------
(* Where the batches are.                                                  *)

\* The channel has lost its first n batches.
Lost(n) ==
    /\ queue' \in Seq(Batches)
    /\ \A i \in DOMAIN queue' : i + n \in DOMAIN queue /\ queue'[i] = queue[i + n]

LEMMA LosesSome ==
  ASSUME TypeOK, NEW n \in 0 .. Len(queue), queue' = SubSeq(queue, n + 1, Len(queue))
  PROVE  Lost(n)
<1>1. queue \in Seq(Batches) /\ Len(queue) \in Nat
  BY DEF TypeOK
<1> QED
  BY <1>1 DEF Lost

LEMMA LosesOne ==
  ASSUME TypeOK, queue # <<>>, queue' = Tail(queue)
  PROVE  Lost(1) /\ 1 \in DOMAIN queue /\ Head(queue) = queue[1]
<1>1. queue \in Seq(Batches) /\ Len(queue) \in Nat
  BY DEF TypeOK
<1> QED
  BY <1>1 DEF Lost

LEMMA LosesNone == ASSUME TypeOK, queue' = queue PROVE Lost(0)
<1>1. queue \in Seq(Batches) /\ Len(queue) \in Nat
  BY DEF TypeOK
<1>2. \A i \in DOMAIN queue : i \in Nat /\ i + 0 = i
  BY <1>1
<1> QED
  BY <1>1, <1>2 DEF Lost

\* A task takes the first batch.
Takes(t) ==
    /\ ~Busy(t) /\ Others(t) /\ queue # <<>> /\ queue' = Tail(queue)
    /\ job'[t] \in Job /\ job'[t].batch = Head(queue)

\* A step of a task that has a batch.
Goes(t) ==
    /\ Busy(t) /\ Others(t) /\ \E n \in Nat : Lost(n)
    /\ \/ job'[t] = Idle
       \/ job'[t] \in Job /\ job'[t].batch = job[t].batch

LEMMA ApartGoes == ASSUME TypeOK, Apart, NEW t \in Tasks, Goes(t) PROVE Apart'
<1>1. PICK n \in Nat : Lost(n)
  BY DEF Goes
<1>2. \A u \in Tasks : Busy(u)' => Busy(u) /\ job'[u].batch = job[u].batch
  BY DEF Goes, Others, Busy
<1>3. \A i, k \in DOMAIN queue' : i \in Nat /\ k \in Nat /\ (i + n = k + n => i = k)
  BY <1>1 DEF Lost
<1>4. \A i, k \in DOMAIN queue' : queue'[i] = queue'[k] => i = k
  BY <1>1, <1>3 DEF Apart, Lost
<1>5. \A u \in Tasks, i \in DOMAIN queue' : Busy(u)' => queue'[i] # job'[u].batch
  BY <1>1, <1>2 DEF Apart, Lost
<1>6. \A u, v \in Tasks : u # v /\ Busy(u)' /\ Busy(v)' => job'[u].batch # job'[v].batch
  BY <1>2 DEF Apart
<1> QED
  BY <1>4, <1>5, <1>6 DEF Apart

LEMMA ApartTakes == ASSUME TypeOK, Apart, NEW t \in Tasks, Takes(t) PROVE Apart'
<1> DEFINE b == Head(queue)
<1>1. Lost(1) /\ 1 \in DOMAIN queue /\ b = queue[1]
  BY LosesOne DEF Takes
<1> HIDE DEF b
<1>2. job'[t].batch = b
  BY DEF Takes, b
<1>3. \A u \in Tasks \ {t} : job'[u] = job[u] /\ (Busy(u)' <=> Busy(u))
  BY DEF Takes, Others, Busy
<1>4. \A i \in DOMAIN queue' : i \in Nat /\ i + 1 # 1 /\ i >= 1
  BY <1>1 DEF Lost
<1>5. \A i, k \in DOMAIN queue' : i + 1 = k + 1 => i = k
  BY <1>4
<1>6. \A i, k \in DOMAIN queue' : queue'[i] = queue'[k] => i = k
  BY <1>1, <1>5 DEF Apart, Lost
<1>7. \A i \in DOMAIN queue' : queue'[i] # b
  BY <1>1, <1>4 DEF Apart, Lost
<1>8. \A u \in Tasks \ {t} : Busy(u) => job[u].batch # b
  BY <1>1 DEF Apart
<1>9. \A u \in Tasks, i \in DOMAIN queue' : Busy(u)' => queue'[i] # job'[u].batch
  BY <1>1, <1>2, <1>3, <1>7 DEF Apart, Lost
<1>10. \A u, v \in Tasks : u # v /\ Busy(u)' /\ Busy(v)' => job'[u].batch # job'[v].batch
  BY <1>2, <1>3, <1>8 DEF Apart
<1> QED
  BY <1>6, <1>9, <1>10 DEF Apart

LEMMA TakesOrGoes ==
  ASSUME TypeOK, Pending, NEW t \in Tasks, TaskStep(t)
  PROVE  Takes(t) \/ Goes(t)
<1>1. queue' = queue => \E n \in Nat : Lost(n)
  BY LosesNone
<1>2. CASE (t \in Workers /\ Start(t)) \/ (t = Batcher /\ FailDispatch)
  BY <1>2, StartEffect DEF Takes
<1>3. CASE t \in Workers /\ Retry(t)
  BY <1>1, <1>3, RetryEffect DEF Goes, Moves
<1>4. CASE t \in Workers /\ \E failed \in BOOLEAN : Conclude(t, failed)
  BY <1>1, <1>4, ConcludeEffect DEF Goes, Moves
<1>5. CASE Count(t)
  BY <1>1, <1>5, CountEffect DEF Goes, Moves
<1>6. CASE Complete(t)
  BY <1>1, <1>6, CompleteEffect DEF Goes, Moves
<1>7. CASE Finish(t)
  BY <1>1, <1>7, FinishEffect DEF Goes
<1>8. CASE LogPanics(t)
  <2>1. queue \in Seq(Batches) /\ Len(queue) \in Nat
    BY DEF TypeOK
  <2>2. PICK n \in 0 .. Len(queue) : queue' = SubSeq(queue, n + 1, Len(queue))
    BY <1>8, PanicEffect
  <2>3. n \in Nat /\ Lost(n)
    BY <2>1, <2>2, LosesSome
  <2> QED
    BY <1>8, <2>3, PanicEffect DEF Goes, Moves
<1> QED
  BY <1>2, <1>3, <1>4, <1>5, <1>6, <1>7, <1>8, TaskCases

LEMMA ApartStep == ASSUME TypeOK, Apart, Pending, [Next]_vars PROVE Apart'
<1>1. CASE UNCHANGED workVars
  BY <1>1 DEF Apart, Busy, workVars
<1>2. CASE ~UNCHANGED workVars
  BY <1>2, WhoSteps, TakesOrGoes, ApartGoes, ApartTakes
<1> QED
  BY <1>1, <1>2

-----------------------------------------------------------------------------
(* The results and the uploads of the batches that are on their way.       *)

LEMMA AfterCount ==
  ASSUME NEW j \in Job, j.phase \in {"attempts", "bytes", "jobs", "errors", "retries"}
  PROVE  /\ After(j) \in {"bytes", "upload", "errors", "retries", "complete"}
         /\ After(j) = "bytes" <=> j.phase = "attempts"
         /\ After(j) = "upload" <=> j.phase = "bytes"
         /\ After(j) = "errors" <=> j.phase = "jobs" /\ j.failed
         /\ After(j) = "retries" => j.phase \in {"jobs", "errors"} /\ j.attempts > 1
         /\ After(j) = "complete" /\ j.phase # "retries" => ~(j.attempts > 1)
  BY DEF After, Job

LEMMA QueueElements ==
  ASSUME NEW n \in Nat, Lost(n), NEW i \in DOMAIN queue'
  PROVE  \E k \in DOMAIN queue : queue'[i] = queue[k]
  BY DEF Lost

\* The task goes to a phase in which the result of its batch is the same.
LEMMA PendingGoes ==
  ASSUME TypeOK, Pending, NEW t \in Tasks, Goes(t), result' = result,
         job'[t].phase \in Unfinished => job[t].phase \in Unfinished,
         job'[t].phase # "callbacks"
  PROVE  Pending'
<1>1. PICK n \in Nat : Lost(n)
  BY DEF Goes
<1>2. \A i \in DOMAIN queue' : result[queue'[i]] = "none"
  BY <1>1, QueueElements DEF Pending
<1>3. job'[t].phase \in Unfinished => job'[t].batch = job[t].batch
  BY DEF Goes, Unfinished, Idle
<1> QED
  BY <1>2, <1>3 DEF Pending, Goes, Others

LEMMA PendingTakes ==
  ASSUME TypeOK, Pending, NEW t \in Tasks, Takes(t), result' = result,
         job'[t].phase \in Unfinished
  PROVE  Pending'
<1>1. Lost(1) /\ 1 \in DOMAIN queue /\ Head(queue) = queue[1]
  BY LosesOne DEF Takes
<1>2. \A i \in DOMAIN queue' : result[queue'[i]] = "none"
  BY <1>1, QueueElements DEF Pending
<1>3. result[job'[t].batch] = "none" /\ job'[t].phase # "callbacks"
  BY <1>1 DEF Pending, Takes, Unfinished
<1> QED
  BY <1>2, <1>3 DEF Pending, Takes, Others

LEMMA ResultOfType ==
  ASSUME NEW j \in Job
  PROVE  /\ ResultOf(j) \in Results /\ ResultOf(j) # "none"
         /\ ResultOf(j) = "closed" <=> j.attempts = 0
         /\ ResultOf(j) \in {"failed", "closed"} <=> j.attempts = 0 \/ j.failed
  BY DEF ResultOf, Results, Job

LEMMA PendingCompletes ==
  ASSUME TypeOK, Apart, Pending, NEW t \in Tasks, Complete(t)
  PROVE  Pending'
<1> DEFINE b == job[t].batch
<1>1. /\ Busy(t) /\ Others(t) /\ job'[t].phase = "callbacks" /\ job'[t].batch = b
      /\ queue' = queue /\ result' = [result EXCEPT ![b] = ResultOf(job[t])]
  BY CompleteEffect DEF Moves
<1>2. b \in Batches /\ ResultOf(job[t]) # "none" /\ result \in [Batches -> Results]
  BY <1>1, JobRecord, ResultOfType DEF TypeOK
<1> HIDE DEF b
<1>3. result'[b] # "none" /\ \A c \in Batches \ {b} : result'[c] = result[c]
  BY <1>1, <1>2
<1>4. \A i \in DOMAIN queue : queue[i] \in Batches \ {b}
  BY <1>1 DEF TypeOK, Apart, b
<1>5. \A u \in Tasks \ {t} : Busy(u) => job[u].batch \in Batches \ {b}
  BY <1>1, JobRecord DEF Apart, b
<1>6. \A u \in Tasks \ {t} : job[u].phase \in Unfinished \cup {"callbacks"} => Busy(u)
  BY JobRecord DEF Unfinished
<1> QED
  BY <1>1, <1>3, <1>4, <1>5, <1>6 DEF Pending, Others, Unfinished

LEMMA PendingStep == ASSUME TypeOK, Apart, Pending, [Next]_vars PROVE Pending'
<1>1. CASE UNCHANGED workVars
  BY <1>1 DEF Pending, workVars
<1>2. ASSUME NEW t \in Tasks, TaskStep(t) PROVE Pending'
  <2>1. CASE (t \in Workers /\ Start(t)) \/ (t = Batcher /\ FailDispatch)
    <3>1. Takes(t) /\ result' = result /\ job'[t].phase \in Unfinished
      BY <2>1, StartEffect DEF Takes, Unfinished
    <3> QED
      BY <3>1, PendingTakes
  <2>2. Goes(t) \/ Takes(t)
    BY <1>2, TakesOrGoes
  <2>3. CASE Complete(t)
    BY <2>3, PendingCompletes
  <2>4. ASSUME Busy(t), result' = result,
               job'[t].phase \in Unfinished => job[t].phase \in Unfinished,
               job'[t].phase # "callbacks"
        PROVE  Pending'
    BY <2>2, <2>4, PendingGoes DEF Takes
  <2>5. CASE t \in Workers /\ Retry(t)
    BY <2>4, <2>5, RetryEffect DEF Moves, Unfinished
  <2>6. CASE t \in Workers /\ \E failed \in BOOLEAN : Conclude(t, failed)
    BY <2>4, <2>6, ConcludeEffect DEF Moves, Unfinished
  <2>7. CASE Count(t)
    BY <2>4, <2>7, CountEffect, AfterCount, JobRecord DEF Moves, Unfinished
  <2>8. CASE Finish(t)
    BY <2>4, <2>8, FinishEffect DEF Unfinished, Idle
  <2>9. CASE LogPanics(t)
    BY <2>4, <2>9, PanicEffect DEF Moves, Unfinished
  <2> QED
    BY <1>2, <2>1, <2>3, <2>5, <2>6, <2>7, <2>8, <2>9, TaskCases
<1> QED
  BY <1>1, <1>2, WhoSteps

LEMMA UploadsKept ==
  ASSUME Uploads, NEW t \in Tasks, Others(t),
         Busy(t)' => /\ t \in Workers => job'[t].attempts >= 1
                     /\ t = Batcher =>
                          /\ job'[t].attempts = 0 /\ job'[t].failed
                          /\ job'[t].phase \in {"jobs", "errors", "complete",
                                                "callbacks", "panicked"},
         job'[t].phase = "retries" => job'[t].attempts > 1,
         job'[t].phase = "errors" => job'[t].failed
  PROVE  Uploads'
<1>1. \A u \in Tasks \ {t} : job'[u] = job[u] /\ (Busy(u)' <=> Busy(u))
  BY DEF Others, Busy
<1>2. \A w \in Workers : Busy(w)' => job'[w].attempts >= 1
  BY <1>1, TasksAre DEF Uploads
<1>3. Busy(Batcher)' =>
          /\ job'[Batcher].attempts = 0 /\ job'[Batcher].failed
          /\ job'[Batcher].phase \in {"jobs", "errors", "complete", "callbacks", "panicked"}
  BY <1>1, TasksAre DEF Uploads
<1>4. \A u \in Tasks : /\ job'[u].phase = "retries" => job'[u].attempts > 1
                       /\ job'[u].phase = "errors" => job'[u].failed
  BY <1>1 DEF Uploads
<1> QED
  BY <1>2, <1>3, <1>4 DEF Uploads

LEMMA UploadsStep == ASSUME TypeOK, Pending, Uploads, [Next]_vars PROVE Uploads'
<1>1. CASE UNCHANGED workVars
  BY <1>1 DEF Uploads, Busy, workVars
<1>2. ASSUME NEW t \in Tasks, TaskStep(t) PROVE Uploads'
  <2>1. CASE (t \in Workers /\ Start(t)) \/ (t = Batcher /\ FailDispatch)
    BY <2>1, StartEffect, UploadsKept, TasksAre
  <2>2. CASE t \in Workers /\ Retry(t)
    <3>1. job[t].attempts \in Nat /\ job[t].attempts + 1 >= 1
      BY <2>2, RetryEffect, JobRecord
    <3> QED
      BY <2>2, <3>1, RetryEffect, UploadsKept, TasksAre DEF Moves
  <2>3. CASE t \in Workers /\ \E failed \in BOOLEAN : Conclude(t, failed)
    BY <2>3, ConcludeEffect, UploadsKept, TasksAre DEF Moves, Uploads
  <2>4. CASE Count(t)
    <3>1. job[t] \in Job /\ Busy(t) /\ Others(t)
          /\ job[t].phase \in {"attempts", "bytes", "jobs", "errors", "retries"}
          /\ Moves(t, After(job[t]), job[t].attempts, job[t].failed)
      BY <2>4, CountEffect, JobRecord
    <3>2. t \in Workers => job[t].attempts >= 1
      BY <3>1 DEF Uploads
    <3>3. CASE t = Batcher
      <4>1. /\ job[t].attempts = 0 /\ job[t].failed /\ job[t].phase \in {"jobs", "errors"}
        BY <3>1, <3>3 DEF Uploads
      <4>2. After(job[t]) \in {"errors", "complete"}
        BY <4>1, <3>1, AfterCount
      <4> QED
        BY <3>1, <3>3, <4>1, <4>2, UploadsKept, TasksAre DEF Moves
    <3>4. CASE t # Batcher
      BY <3>1, <3>2, <3>4, AfterCount, UploadsKept DEF Moves
    <3> QED
      BY <3>3, <3>4
  <2>5. CASE Complete(t)
    BY <2>5, CompleteEffect, UploadsKept DEF Moves, Uploads
  <2>6. CASE Finish(t)
    BY <2>6, FinishEffect, UploadsKept DEF Busy, Idle
  <2>7. CASE LogPanics(t)
    BY <2>7, PanicEffect, UploadsKept DEF Moves, Uploads
  <2> QED
    BY <1>2, <2>1, <2>2, <2>3, <2>4, <2>5, <2>6, <2>7, TaskCases
<1> QED
  BY <1>1, <1>2, WhoSteps

-----------------------------------------------------------------------------
(* The finite sets that are counted.                                       *)

LEMMA WorkersFinite == IsFiniteSet(Workers) /\ Cardinality(Workers) = NumWorkers
<1>1. NumWorkers \in Nat
  BY CompletionAssumption
<1> QED
  BY <1>1, FS_Interval DEF Workers

\* A set of batches, or of workers, is counted.
LEMMA CountedBatches ==
  ASSUME NEW S \in SUBSET Batches
  PROVE  IsFiniteSet(S) /\ Cardinality(S) \in Nat
  BY CompletionAssumption, FS_Subset, FS_CardinalityType

LEMMA CountedWorkers ==
  ASSUME NEW S \in SUBSET Workers
  PROVE  IsFiniteSet(S) /\ Cardinality(S) \in Nat /\ Cardinality(S) <= NumWorkers
  BY WorkersFinite, FS_Subset, FS_CardinalityType

\* One worker begins with something, or is through with it.
LEMMA WorkerEnters ==
  ASSUME NEW S \in SUBSET Workers, NEW w \in Workers \ S
  PROVE  Cardinality(S \cup {w}) = Cardinality(S) + 1
  BY CountedWorkers, FS_AddElement

LEMMA WorkerLeaves ==
  ASSUME NEW S \in SUBSET Workers, NEW w \in S
  PROVE  Cardinality(S \ {w}) = Cardinality(S) - 1 /\ Cardinality(S) >= 1
<1>1. IsFiniteSet(S) /\ Cardinality(S) \in Nat
  BY CountedWorkers
<1>2. Cardinality(S \ {w}) = Cardinality(S) - 1
  BY <1>1, FS_RemoveElement
<1>3. Cardinality(S \ {w}) \in Nat
  BY CountedWorkers
<1> QED
  BY <1>1, <1>2, <1>3

LEMMA BatchEnters ==
  ASSUME NEW S \in SUBSET Batches, NEW b \in Batches \ S
  PROVE  Cardinality(S \cup {b}) = Cardinality(S) + 1
  BY CountedBatches, FS_AddElement

-----------------------------------------------------------------------------
(* Types and busy_workers.                                                 *)

LEMMA BusyStep ==
  ASSUME TypeOK, Pending, BusyInv, [Next]_vars
  PROVE  BusyInv' /\ counter'["busy"] \in Nat
<1>1. counter["busy"] \in Nat /\ counter \in [Counters -> Nat] /\ "busy" \in Counters
  BY DEF TypeOK, Counters
<1>2. CASE UNCHANGED workVars
  BY <1>1, <1>2 DEF BusyInv, BusyWorkers, Busy, workVars
<1>3. ASSUME NEW t \in Tasks, TaskStep(t) PROVE BusyInv' /\ counter'["busy"] \in Nat
  <2>1. ASSUME Others(t), Busy(t)' <=> Busy(t), counter'["busy"] = counter["busy"]
        PROVE  BusyInv' /\ counter'["busy"] \in Nat
    <3>1. BusyWorkers' = BusyWorkers
      BY <2>1, TasksAre DEF BusyWorkers, Busy, Others
    <3> QED
      BY <1>1, <2>1, <3>1 DEF BusyInv
  <2>2. ASSUME Others(t), job'[t] \in Job PROVE Busy(t)'
    BY <2>2 DEF Busy, Job, Idle, Phases
  <2>3. CASE t \in Workers /\ Start(t)
    <3>1. ~Busy(t) /\ Busy(t)' /\ Others(t) /\ Bump("busy", 1)
      BY <2>2, <2>3, StartEffect, TasksAre
    <3>2. BusyWorkers' = BusyWorkers \cup {t} /\ t \in Workers \ BusyWorkers
      BY <2>3, <3>1, TasksAre DEF BusyWorkers, Busy, Others
    <3>3. Cardinality(BusyWorkers \cup {t}) = Cardinality(BusyWorkers) + 1
      BY <3>2, WorkerEnters DEF BusyWorkers
    <3>4. counter'["busy"] = counter["busy"] + 1
      BY <1>1, <3>1 DEF Bump
    <3> QED
      BY <1>1, <3>2, <3>3, <3>4 DEF BusyInv
  <2>4. CASE t = Batcher /\ FailDispatch
    <3>1. Others(t) /\ counter' = counter
      BY <2>4, StartEffect, TasksAre
    <3>2. BusyWorkers' = BusyWorkers
      BY <2>4, <3>1, TasksAre DEF BusyWorkers, Busy, Others
    <3> QED
      BY <1>1, <3>1, <3>2 DEF BusyInv
  <2>5. CASE t \in Workers /\ Retry(t)
    BY <2>1, <2>2, <2>5, RetryEffect DEF Moves
  <2>6. CASE t \in Workers /\ \E failed \in BOOLEAN : Conclude(t, failed)
    BY <2>1, <2>2, <2>6, ConcludeEffect DEF Moves
  <2>7. CASE Count(t)
    <3>1. counter'["busy"] = counter["busy"]
      BY <1>1, <2>7, CountEffect DEF Bump
    <3> QED
      BY <2>1, <2>2, <2>7, <3>1, CountEffect DEF Moves
  <2>8. CASE Complete(t)
    BY <2>1, <2>2, <2>8, CompleteEffect DEF Moves
  <2>9. CASE Finish(t)
    <3>1. Busy(t) /\ ~Busy(t)' /\ Others(t)
          /\ IF t \in Workers THEN Bump("busy", -1) ELSE counter' = counter
      BY <2>9, FinishEffect DEF Busy
    <3>2. CASE t \in Workers
      <4>1. BusyWorkers' = BusyWorkers \ {t} /\ t \in BusyWorkers
        BY <3>1, <3>2, TasksAre DEF BusyWorkers, Busy, Others
      <4>2. /\ Cardinality(BusyWorkers \ {t}) = Cardinality(BusyWorkers) - 1
            /\ Cardinality(BusyWorkers) >= 1
        BY <4>1, WorkerLeaves DEF BusyWorkers
      <4>3. counter'["busy"] = counter["busy"] - 1
        BY <1>1, <3>1, <3>2 DEF Bump
      <4> QED
        BY <1>1, <4>1, <4>2, <4>3 DEF BusyInv
    <3>3. CASE t \notin Workers
      <4>1. BusyWorkers' = BusyWorkers
        BY <3>1, <3>3, TasksAre DEF BusyWorkers, Busy, Others
      <4> QED
        BY <1>1, <3>1, <3>3, <4>1 DEF BusyInv
    <3> QED
      BY <3>2, <3>3
  <2>10. CASE LogPanics(t)
    BY <2>1, <2>2, <2>10, PanicEffect DEF Moves
  <2> QED
    BY <1>3, <2>3, <2>4, <2>5, <2>6, <2>7, <2>8, <2>9, <2>10, TaskCases
<1> QED
  BY <1>2, <1>3, WhoSteps

LEMMA InitInv ==
  ASSUME Init
  PROVE  TypeOK /\ Apart /\ Pending /\ Uploads /\ BusyInv
<1>1. TypeOK
  BY CompletionAssumption DEF Init, TypeOK, Zero, Counters, Results, Tasks
<1>2. \A t \in Tasks : ~Busy(t) /\ job[t].phase = "idle"
  BY DEF Init, Busy, Idle
<1>3. Apart
  BY <1>2, CompletionAssumption DEF Init, Apart
<1>4. Pending
  <2>1. \A i \in DOMAIN queue : queue[i] \in Batches
    BY CompletionAssumption DEF Init
  <2> QED
    BY <1>2, <2>1 DEF Init, Pending, Unfinished
<1>5. Uploads
  BY <1>2, TasksAre DEF Uploads
<1>6. BusyWorkers = {}
  BY <1>2, TasksAre DEF BusyWorkers
<1>7. BusyInv
  BY <1>6, FS_EmptySet DEF Init, BusyInv, Zero, Counters
<1> QED
  BY <1>1, <1>3, <1>4, <1>5, <1>7

\* The counters are numbers: what is added is never negative, and busy_workers
\* is the number of the busy ones.
LEMMA CounterType ==
  ASSUME TypeOK, Pending, Uploads, BusyInv, [Next]_vars
  PROVE  counter' \in [Counters -> Nat]
<1>1. counter \in [Counters -> Nat]
  BY DEF TypeOK
<1>2. counter'["busy"] \in Nat
  BY BusyStep
<1>3. CASE UNCHANGED workVars
  BY <1>1, <1>3 DEF workVars
<1>4. ASSUME NEW t \in Tasks, TaskStep(t) PROVE counter' \in [Counters -> Nat]
  <2>1. \A n \in Int : Bump("busy", n) => counter' \in [Counters -> Nat]
    <3>1. ASSUME NEW n \in Int, Bump("busy", n) PROVE counter' \in [Counters -> Nat]
      <4>1. counter' = [counter EXCEPT !["busy"] = counter'["busy"]]
        BY <1>1, <3>1 DEF Bump, Counters
      <4> QED
        BY <1>1, <1>2, <4>1
    <3> QED
      BY <3>1
  <2>2. counter' = counter => counter' \in [Counters -> Nat]
    BY <1>1
  <2>3. CASE t \in Workers /\ Start(t)
    BY <2>1, <2>3, StartEffect, TasksAre
  <2>4. CASE t = Batcher /\ FailDispatch
    BY <2>2, <2>4, StartEffect, TasksAre
  <2>5. CASE t \in Workers /\ Retry(t)
    BY <2>2, <2>5, RetryEffect
  <2>6. CASE t \in Workers /\ \E failed \in BOOLEAN : Conclude(t, failed)
    BY <2>2, <2>6, ConcludeEffect
  <2>7. CASE Count(t)
    <3>1. /\ job[t] \in Job /\ Bump(job[t].phase, Amount(job[t]))
          /\ job[t].phase \in {"attempts", "bytes", "jobs", "errors", "retries"}
      BY <2>7, CountEffect, JobRecord
    <3>2. job[t].phase = "retries" => job[t].attempts - 1 \in Nat
      <4>1. job[t].phase = "retries" => job[t].attempts > 1
        BY DEF Uploads
      <4> QED
        BY <3>1, <4>1 DEF Job
    <3>3. Bytes[job[t].batch] \in Nat
      BY <3>1, CompletionAssumption DEF Job
    <3>4. Amount(job[t]) \in Nat
      BY <3>1, <3>2, <3>3 DEF Amount
    <3>5. job[t].phase \in Counters
      BY <3>1 DEF Counters
    <3> QED
      BY <1>1, <3>1, <3>4, <3>5 DEF Bump
  <2>8. CASE Complete(t)
    BY <2>2, <2>8, CompleteEffect
  <2>9. CASE Finish(t)
    BY <2>1, <2>2, <2>9, FinishEffect
  <2>10. CASE LogPanics(t)
    BY <2>2, <2>10, PanicEffect
  <2> QED
    BY <1>4, <2>3, <2>4, <2>5, <2>6, <2>7, <2>8, <2>9, <2>10, TaskCases
<1> QED
  BY <1>3, <1>4, WhoSteps

LEMMA WorkType ==
  ASSUME TypeOK, Pending, NEW t \in Tasks, TaskStep(t)
  PROVE  /\ queue' \in Seq(Batches) /\ held' \subseteq Batches
         /\ job' \in [Tasks -> Job \cup {Idle}] /\ result' \in [Batches -> Results]
         /\ waiter' \in [Waiters -> {"idle", "blocked", "woken", "timedOut", "got", "none",
                                     "panicked"}]
         /\ UNCHANGED snapVars
<1>1. queue' \in Seq(Batches)
  <2>1. CASE Takes(t)
    BY <2>1, LosesOne DEF Takes, Lost
  <2>2. CASE Goes(t)
    BY <2>2 DEF Goes, Lost
  <2> QED
    BY <2>1, <2>2, TakesOrGoes
<1>2. held' \subseteq Batches
  BY TaskCases DEF TypeOK, Start, FailDispatch, Retry, Conclude, Count, Complete, Finish, LogPanics
<1>3. job' \in [Tasks -> Job \cup {Idle}]
  <2>1. job'[t] \in Job \cup {Idle}
    BY TakesOrGoes DEF Takes, Goes
  <2>2. \E j : SetJob(t, j)
    BY TaskCases, TasksAre
       DEF Start, FailDispatch, Retry, Conclude, Count, Complete, Finish, LogPanics
  <2> QED
    BY <2>1, <2>2, SetsJob
<1>4. result' \in [Batches -> Results]
  <2>1. CASE Complete(t)
    <3>1. /\ result' = [result EXCEPT ![job[t].batch] = ResultOf(job[t])]
          /\ job[t] \in Job
      BY <2>1, CompleteEffect, JobRecord
    <3> QED
      BY <3>1, ResultOfType DEF TypeOK
  <2>2. CASE result' = result
    BY <2>2 DEF TypeOK
  <2> QED
    BY <2>1, <2>2, TaskCases DEF Start, FailDispatch, Retry, Conclude, Count, Finish, LogPanics
<1>5. waiter' \in [Waiters -> {"idle", "blocked", "woken", "timedOut", "got", "none", "panicked"}]
  BY TaskCases DEF TypeOK, Start, FailDispatch, Retry, Conclude, Count, Complete, Finish, LogPanics
<1>6. UNCHANGED snapVars
  BY TaskCases DEF Start, FailDispatch, Retry, Conclude, Count, Complete, Finish, LogPanics
<1> QED
  BY <1>1, <1>2, <1>3, <1>4, <1>5, <1>6

LEMMA TypeStep == ASSUME TypeOK, Pending, Uploads, BusyInv, [Next]_vars PROVE TypeOK'
<1>1. counter' \in [Counters -> Nat]
  BY CounterType
<1>2. ASSUME NEW t \in Tasks, TaskStep(t) PROVE TypeOK'
  BY <1>1, <1>2, WorkType DEF TypeOK, snapVars
<1>3. ASSUME NEW c \in Waiters,
             Look(c) \/ WakeSpuriously(c) \/ TimeUp(c) \/ TimedOut(c) \/ SenderGone(c)
      PROVE  TypeOK'
  <2>1. UNCHANGED <<workVars, snapVars>>
    BY <1>3 DEF Look, WakeSpuriously, TimeUp, TimedOut, SenderGone, WaiterOnly
  <2>2. \E state \in {"got", "blocked", "woken", "timedOut", "none", "panicked"} : Goto(c, state)
    BY <1>3 DEF Look, WakeSpuriously, TimeUp, TimedOut, SenderGone
  <2> QED
    BY <2>1, <2>2 DEF TypeOK, Goto, workVars, snapVars
<1>4. CASE StartSnapshot
  BY <1>4 DEF TypeOK, StartSnapshot, workVars
<1>5. CASE Read
  <2>1. reader \in 0 .. 4 /\ reader' = reader + 1 /\ Reads[reader + 1] \in Counters
    BY <1>5 DEF Read, Reads, Counters, TypeOK
  <2>2. snap' \in [Counters -> Nat]
    BY <1>5, <2>1 DEF Read, TypeOK
  <2> QED
    BY <1>5, <2>1, <2>2 DEF Read, TypeOK, workVars
<1>6. CASE UNCHANGED vars
  BY <1>6 DEF TypeOK, vars, workVars, snapVars
<1> QED
  BY <1>2, <1>3, <1>4, <1>5, <1>6, TasksAre DEF Next, TaskStep

LEMMA Places == Spec => []PlaceAndType
<1>1. Init => PlaceAndType
  BY InitInv DEF PlaceAndType
<1>2. PlaceAndType /\ [Next]_vars => PlaceAndType'
  BY TypeStep, ApartStep, PendingStep, UploadsStep, BusyStep DEF PlaceAndType
<1> QED
  BY <1>1, <1>2, PTL DEF Spec

\* The state has the types that the comments of the variables say: a counter is
\* never negative, busy_workers neither (client.rs 959-987, types.rs 130-168).
THEOREM TypeCorrect == Spec => []TypeOK
<1>1. PlaceAndType => TypeOK
  BY DEF PlaceAndType
<1> QED
  BY <1>1, Places, PTL

-----------------------------------------------------------------------------
(* total_load_jobs and error_jobs.                                         *)

\* What is counted for a batch is counted by the task that has it.
LEMMA CountedByOwner ==
  ASSUME TypeOK, Apart, NEW t \in Tasks, Busy(t), NEW u \in Tasks \ {t}
  PROVE  /\ ~JobCounted(job[u], job[t].batch) /\ ~ErrorCounted(job[u], job[t].batch)
         /\ ~ClosedCounted(job[u], job[t].batch)
<1>1. job[u].phase \in {"errors", "retries", "complete"} => Busy(u)
  BY JobRecord DEF Phases
<1> QED
  BY <1>1 DEF Apart, JobCounted, ErrorCounted, ClosedCounted

\* A step that leaves the results alone, and what is counted for the task's
\* batch, leaves the sets alone.
LEMMA CountedKept ==
  ASSUME NEW t \in Tasks, Others(t), result' = result,
         \A b \in Batches : /\ JobCounted(job'[t], b) <=> JobCounted(job[t], b)
                            /\ ErrorCounted(job'[t], b) <=> ErrorCounted(job[t], b)
                            /\ t = Batcher =>
                                  ClosedCounted(job'[t], b) <=> ClosedCounted(job[t], b)
  PROVE  JobsOf' = JobsOf /\ ErrorsOf' = ErrorsOf /\ ClosedOf' = ClosedOf
<1>1. \A u \in Tasks, b \in Batches :
         /\ JobCounted(job'[u], b) <=> JobCounted(job[u], b)
         /\ ErrorCounted(job'[u], b) <=> ErrorCounted(job[u], b)
  BY DEF Others
<1>2. \A b \in Batches : ClosedCounted(job'[Batcher], b) <=> ClosedCounted(job[Batcher], b)
  BY TasksAre DEF Others
<1>3. JobsOf' = JobsOf
  BY <1>1 DEF JobsOf
<1>4. ErrorsOf' = ErrorsOf
  BY <1>1 DEF ErrorsOf
<1>5. ClosedOf' = ClosedOf
  BY <1>2 DEF ClosedOf
<1> QED
  BY <1>3, <1>4, <1>5

\* The handle gets the result that was counted.
LEMMA CountedCompletes ==
  ASSUME TypeOK, Apart, Pending, Uploads, NEW t \in Tasks, Complete(t)
  PROVE  JobsOf' = JobsOf /\ ErrorsOf' = ErrorsOf /\ ClosedOf' = ClosedOf
<1> DEFINE b == job[t].batch
<1>1. /\ Busy(t) /\ Others(t) /\ Moves(t, "callbacks", job[t].attempts, job[t].failed)
      /\ job[t].phase = "complete" /\ result[b] = "none"
      /\ result' = [result EXCEPT ![b] = ResultOf(job[t])]
  BY CompleteEffect
<1>2. job[t] \in Job /\ b \in Batches /\ result \in [Batches -> Results]
  BY <1>1, JobRecord DEF TypeOK
<1>3. /\ ResultOf(job[t]) # "none"
      /\ ResultOf(job[t]) \in {"failed", "closed"} <=> job[t].failed
      /\ ResultOf(job[t]) = "closed" <=> t = Batcher
  <2>1. CASE t = Batcher
    BY <1>1, <1>2, <2>1, ResultOfType DEF Uploads
  <2>2. CASE t \in Workers
    <3>1. job[t].attempts # 0
      BY <1>1, <2>2 DEF Uploads
    <3> QED
      BY <1>2, <2>2, <3>1, ResultOfType, TasksAre
  <2> QED
    BY <2>1, <2>2, TasksAre
<1>4. \A c \in Batches : c # b => result'[c] = result[c]
  BY <1>1, <1>2
<1>5. result'[b] = ResultOf(job[t])
  BY <1>1, <1>2
<1>6. \A c \in Batches : /\ JobCounted(job[t], c) <=> c = b
                         /\ ErrorCounted(job[t], c) <=> c = b /\ job[t].failed
                         /\ ClosedCounted(job[t], c) <=> c = b
                         /\ ~JobCounted(job'[t], c) /\ ~ErrorCounted(job'[t], c)
                         /\ ~ClosedCounted(job'[t], c)
  BY <1>1 DEF JobCounted, ErrorCounted, ClosedCounted, Moves
<1>7. \A u \in Tasks \ {t} : /\ job'[u] = job[u]
                             /\ ~JobCounted(job[u], b) /\ ~ErrorCounted(job[u], b)
                             /\ ~ClosedCounted(job[u], b)
  BY <1>1, CountedByOwner DEF Others
<1> HIDE DEF b
<1>8. ASSUME NEW c \in Batches
      PROVE  /\ c \in JobsOf' <=> c \in JobsOf
             /\ c \in ErrorsOf' <=> c \in ErrorsOf
             /\ c \in ClosedOf' <=> c \in ClosedOf
  <2>1. c \in JobsOf' <=> c \in JobsOf
    BY <1>3, <1>4, <1>5, <1>6, <1>7 DEF JobsOf
  <2>2. c \in ErrorsOf' <=> c \in ErrorsOf
    BY <1>1, <1>3, <1>4, <1>5, <1>6, <1>7 DEF ErrorsOf
  <2>3. c \in ClosedOf' <=> c \in ClosedOf
    BY <1>1, <1>3, <1>4, <1>5, <1>6, <1>7, TasksAre DEF ClosedOf
  <2> QED
    BY <2>1, <2>2, <2>3
<1>9. /\ JobsOf \subseteq Batches /\ JobsOf' \subseteq Batches
      /\ ErrorsOf \subseteq Batches /\ ErrorsOf' \subseteq Batches
      /\ ClosedOf \subseteq Batches /\ ClosedOf' \subseteq Batches
  BY DEF JobsOf, ErrorsOf, ClosedOf
<1> QED
  BY <1>8, <1>9

\* A task counts a job: the batch was not counted before, and without a worker
\* it is one that was never uploaded.
LEMMA JobIsCounted ==
  ASSUME TypeOK, Apart, Pending, Uploads, NEW t \in Tasks, Count(t), job[t].phase = "jobs"
  PROVE  /\ job[t].batch \in Batches \ JobsOf /\ JobsOf' = JobsOf \cup {job[t].batch}
         /\ ErrorsOf' = ErrorsOf
         /\ IF t = Batcher
            THEN job[t].batch \notin ClosedOf /\ ClosedOf' = ClosedOf \cup {job[t].batch}
            ELSE ClosedOf' = ClosedOf
<1> DEFINE b == job[t].batch
<1>1. /\ Busy(t) /\ Others(t) /\ Moves(t, After(job[t]), job[t].attempts, job[t].failed)
      /\ result' = result /\ job[t] \in Job
  BY CountEffect, JobRecord
<1>2. b \in Batches /\ result[b] = "none"
  BY <1>1, JobRecord DEF Pending, Unfinished
<1>3. /\ After(job[t]) \in {"errors", "retries", "complete"}
      /\ After(job[t]) = "errors" <=> job[t].failed
  BY <1>1, AfterCount
<1>4. t = Batcher => job[t].failed
  BY <1>1 DEF Uploads
<1>5. \A c \in Batches : /\ ~JobCounted(job[t], c) /\ ~ErrorCounted(job[t], c)
                         /\ ~ClosedCounted(job[t], c)
                         /\ JobCounted(job'[t], c) <=> c = b
                         /\ ~ErrorCounted(job'[t], c)
                         /\ t = Batcher => (ClosedCounted(job'[t], c) <=> c = b)
  BY <1>1, <1>3, <1>4 DEF JobCounted, ErrorCounted, ClosedCounted, Moves
<1>6. \A u \in Tasks \ {t} : /\ job'[u] = job[u]
                             /\ ~JobCounted(job[u], b) /\ ~ClosedCounted(job[u], b)
  BY <1>1, CountedByOwner DEF Others
<1> HIDE DEF b
<1>7. b \notin JobsOf /\ (t = Batcher => b \notin ClosedOf)
  BY <1>2, <1>5, <1>6 DEF JobsOf, ClosedOf
<1>8. \A c \in Batches : c \in JobsOf' <=> c \in JobsOf \/ c = b
  BY <1>1, <1>5, <1>6 DEF JobsOf
<1>9. JobsOf' = JobsOf \cup {b}
  <2>1. JobsOf \subseteq Batches /\ JobsOf' \subseteq Batches
    BY DEF JobsOf
  <2> QED
    BY <1>2, <1>8, <2>1
<1>10. ErrorsOf' = ErrorsOf
  <2>1. \A c \in Batches : c \in ErrorsOf' <=> c \in ErrorsOf
    BY <1>1, <1>5, <1>6 DEF ErrorsOf
  <2>2. ErrorsOf \subseteq Batches /\ ErrorsOf' \subseteq Batches
    BY DEF ErrorsOf
  <2> QED
    BY <2>1, <2>2
<1>11. IF t = Batcher THEN ClosedOf' = ClosedOf \cup {b} ELSE ClosedOf' = ClosedOf
  <2>1. \A c \in Batches : c \in ClosedOf' <=> c \in ClosedOf \/ (t = Batcher /\ c = b)
    BY <1>1, <1>5, <1>6, TasksAre DEF ClosedOf
  <2>2. ClosedOf \subseteq Batches /\ ClosedOf' \subseteq Batches
    BY DEF ClosedOf
  <2> QED
    BY <1>2, <2>1, <2>2
<1> QED
  BY <1>2, <1>7, <1>9, <1>10, <1>11 DEF b

\* A task counts an error.
LEMMA ErrorIsCounted ==
  ASSUME TypeOK, Apart, Pending, Uploads, NEW t \in Tasks, Count(t), job[t].phase = "errors"
  PROVE  /\ job[t].batch \in Batches \ ErrorsOf /\ ErrorsOf' = ErrorsOf \cup {job[t].batch}
         /\ JobsOf' = JobsOf /\ ClosedOf' = ClosedOf
<1> DEFINE b == job[t].batch
<1>1. /\ Busy(t) /\ Others(t) /\ Moves(t, After(job[t]), job[t].attempts, job[t].failed)
      /\ result' = result /\ job[t] \in Job /\ job[t].failed
  BY CountEffect, JobRecord DEF Uploads
<1>2. b \in Batches /\ result[b] = "none"
  BY <1>1, JobRecord DEF Pending, Unfinished
<1>3. /\ After(job[t]) \in {"retries", "complete"}
      /\ t = Batcher => After(job[t]) = "complete"
  BY <1>1, AfterCount DEF Uploads
<1>4. \A c \in Batches : /\ JobCounted(job'[t], c) <=> JobCounted(job[t], c)
                         /\ ~ErrorCounted(job[t], c)
                         /\ ErrorCounted(job'[t], c) <=> c = b
                         /\ t = Batcher => (ClosedCounted(job'[t], c) <=> ClosedCounted(job[t], c))
  BY <1>1, <1>3 DEF JobCounted, ErrorCounted, ClosedCounted, Moves
<1>5. \A u \in Tasks \ {t} : job'[u] = job[u] /\ ~ErrorCounted(job[u], b)
  BY <1>1, CountedByOwner DEF Others
<1> HIDE DEF b
<1>6. b \notin ErrorsOf
  BY <1>2, <1>4, <1>5 DEF ErrorsOf
<1>7. ErrorsOf' = ErrorsOf \cup {b}
  <2>1. \A c \in Batches : c \in ErrorsOf' <=> c \in ErrorsOf \/ c = b
    BY <1>1, <1>4, <1>5 DEF ErrorsOf
  <2>2. ErrorsOf \subseteq Batches /\ ErrorsOf' \subseteq Batches
    BY DEF ErrorsOf
  <2> QED
    BY <1>2, <2>1, <2>2
<1>8. JobsOf' = JobsOf
  <2>1. \A c \in Batches : c \in JobsOf' <=> c \in JobsOf
    BY <1>1, <1>4, <1>5 DEF JobsOf
  <2>2. JobsOf \subseteq Batches /\ JobsOf' \subseteq Batches
    BY DEF JobsOf
  <2> QED
    BY <2>1, <2>2
<1>9. ClosedOf' = ClosedOf
  <2>1. \A c \in Batches : c \in ClosedOf' <=> c \in ClosedOf
    BY <1>1, <1>4, <1>5, TasksAre DEF ClosedOf
  <2>2. ClosedOf \subseteq Batches /\ ClosedOf' \subseteq Batches
    BY DEF ClosedOf
  <2> QED
    BY <2>1, <2>2
<1> QED
  BY <1>2, <1>6, <1>7, <1>8, <1>9 DEF b

\* The other steps count neither.
LEMMA CountedOtherwise ==
  ASSUME TypeOK, Apart, Pending, Uploads, NEW t \in Tasks, TaskStep(t),
         ~(Count(t) /\ job[t].phase \in {"jobs", "errors"})
  PROVE  JobsOf' = JobsOf /\ ErrorsOf' = ErrorsOf /\ ClosedOf' = ClosedOf
<1> DEFINE Uncounted(j) == \A b \in Batches : /\ ~JobCounted(j, b) /\ ~ErrorCounted(j, b)
                                              /\ ~ClosedCounted(j, b)
<1>1. \A j : j.phase \notin {"errors", "retries", "complete"} => Uncounted(j)
  BY DEF JobCounted, ErrorCounted, ClosedCounted
<1>2. ASSUME Others(t), result' = result,
             job[t].phase \notin {"errors", "retries", "complete"},
             job'[t].phase \notin {"errors", "retries", "complete"}
      PROVE  JobsOf' = JobsOf /\ ErrorsOf' = ErrorsOf /\ ClosedOf' = ClosedOf
  <2>1. Uncounted(job[t]) /\ Uncounted(job'[t])
    BY <1>1, <1>2
  <2> QED
    BY <1>2, <2>1, CountedKept
<1>3. CASE (t \in Workers /\ Start(t)) \/ (t = Batcher /\ FailDispatch)
  BY <1>2, <1>3, StartEffect DEF Idle
<1>4. CASE t \in Workers /\ Retry(t)
  BY <1>2, <1>4, RetryEffect DEF Moves
<1>5. CASE t \in Workers /\ \E failed \in BOOLEAN : Conclude(t, failed)
  BY <1>2, <1>5, ConcludeEffect DEF Moves
<1>6. CASE Count(t)
  <2>1. /\ Others(t) /\ Moves(t, After(job[t]), job[t].attempts, job[t].failed)
        /\ result' = result /\ job[t] \in Job /\ Busy(t)
        /\ job[t].phase \in {"attempts", "bytes", "retries"}
    BY <1>6, CountEffect, JobRecord
  <2>2. CASE job[t].phase \in {"attempts", "bytes"}
    <3>1. After(job[t]) \in {"bytes", "upload"}
      BY <2>2 DEF After
    <3> QED
      BY <1>2, <2>1, <2>2, <3>1 DEF Moves
  <2>3. CASE job[t].phase = "retries"
    <3>1. After(job[t]) = "complete" /\ t # Batcher
      BY <2>1, <2>3 DEF After, Uploads
    <3>2. \A b \in Batches : /\ JobCounted(job'[t], b) <=> JobCounted(job[t], b)
                             /\ ErrorCounted(job'[t], b) <=> ErrorCounted(job[t], b)
      BY <2>1, <2>3, <3>1 DEF Moves, JobCounted, ErrorCounted
    <3> QED
      BY <2>1, <3>1, <3>2, CountedKept
  <2> QED
    BY <2>1, <2>2, <2>3
<1>7. CASE Complete(t)
  BY <1>7, CountedCompletes
<1>8. CASE Finish(t)
  BY <1>2, <1>8, FinishEffect DEF Idle
<1>9. CASE LogPanics(t)
  BY <1>2, <1>9, PanicEffect DEF Moves
<1> QED
  BY <1>3, <1>4, <1>5, <1>6, <1>7, <1>8, <1>9, TaskCases

LEMMA Bumped ==
  ASSUME TypeOK, NEW k \in Counters, NEW n, Bump(k, n)
  PROVE  counter'[k] = counter[k] + n /\ \A l \in Counters \ {k} : counter'[l] = counter[l]
  BY DEF TypeOK, Bump

\* Only Count changes the counters other than busy_workers.
LEMMA CountersKept ==
  ASSUME TypeOK, Pending, NEW t \in Tasks, TaskStep(t), ~Count(t)
  PROVE  \A k \in Counters \ {"busy"} : counter'[k] = counter[k]
<1>1. "busy" \in Counters
  BY DEF Counters
<1>2. CASE (t \in Workers /\ Start(t)) \/ (t = Batcher /\ FailDispatch)
  BY <1>1, <1>2, StartEffect, Bumped
<1>3. CASE t \in Workers /\ Retry(t)
  BY <1>3, RetryEffect
<1>4. CASE t \in Workers /\ \E failed \in BOOLEAN : Conclude(t, failed)
  BY <1>4, ConcludeEffect
<1>5. CASE Complete(t)
  BY <1>5, CompleteEffect
<1>6. CASE Finish(t)
  BY <1>1, <1>6, FinishEffect, Bumped
<1>7. CASE LogPanics(t)
  BY <1>7, PanicEffect
<1> QED
  BY <1>2, <1>3, <1>4, <1>5, <1>6, <1>7, TaskCases

\* And it changes the one of its phase.
LEMMA CountBumps ==
  ASSUME TypeOK, NEW t \in Tasks, Count(t)
  PROVE  /\ job[t].phase \in Counters
         /\ counter'[job[t].phase] = counter[job[t].phase] + Amount(job[t])
         /\ \A k \in Counters \ {job[t].phase} : counter'[k] = counter[k]
<1>1. job[t].phase \in Counters /\ Bump(job[t].phase, Amount(job[t]))
  BY DEF Count
<1> QED
  BY <1>1, Bumped

LEMMA JobsAreBatches ==
  /\ JobsOf \in SUBSET Batches /\ ErrorsOf \in SUBSET Batches /\ ClosedOf \in SUBSET Batches
  BY DEF JobsOf, ErrorsOf, ClosedOf

LEMMA JobStep ==
  ASSUME TypeOK, Apart, Pending, Uploads, JobInv, [Next]_vars
  PROVE  JobInv'
<1>1. "jobs" \in Counters \ {"busy"} /\ "errors" \in Counters \ {"busy"}
  BY DEF Counters
<1>2. CASE UNCHANGED workVars
  BY <1>2 DEF JobInv, JobsOf, ErrorsOf, workVars
<1>3. ASSUME NEW t \in Tasks, TaskStep(t) PROVE JobInv'
  <2> DEFINE b == job[t].batch
  <2>1. CASE ~Count(t)
    <3>1. counter'["jobs"] = counter["jobs"] /\ counter'["errors"] = counter["errors"]
      BY <1>1, <1>3, <2>1, CountersKept
    <3> QED
      BY <1>3, <2>1, <3>1, CountedOtherwise DEF JobInv
  <2>2. CASE Count(t) /\ job[t].phase = "jobs"
    <3>1. Amount(job[t]) = 1
      BY <2>2 DEF Amount
    <3>2. counter'["jobs"] = counter["jobs"] + 1 /\ counter'["errors"] = counter["errors"]
      BY <1>1, <2>2, <3>1, CountBumps
    <3>3. b \in Batches \ JobsOf /\ JobsOf' = JobsOf \cup {b} /\ ErrorsOf' = ErrorsOf
      BY <2>2, JobIsCounted
    <3>4. Cardinality(JobsOf \cup {b}) = Cardinality(JobsOf) + 1
      BY <3>3, JobsAreBatches, BatchEnters
    <3> QED
      BY <3>2, <3>3, <3>4 DEF JobInv
  <2>3. CASE Count(t) /\ job[t].phase = "errors"
    <3>1. Amount(job[t]) = 1
      BY <2>3 DEF Amount
    <3>2. counter'["errors"] = counter["errors"] + 1 /\ counter'["jobs"] = counter["jobs"]
      BY <1>1, <2>3, <3>1, CountBumps
    <3>3. b \in Batches \ ErrorsOf /\ ErrorsOf' = ErrorsOf \cup {b} /\ JobsOf' = JobsOf
      BY <2>3, ErrorIsCounted
    <3>4. Cardinality(ErrorsOf \cup {b}) = Cardinality(ErrorsOf) + 1
      BY <3>3, JobsAreBatches, BatchEnters
    <3> QED
      BY <3>2, <3>3, <3>4 DEF JobInv
  <2>4. CASE Count(t) /\ job[t].phase \notin {"jobs", "errors"}
    <3>1. counter'["jobs"] = counter["jobs"] /\ counter'["errors"] = counter["errors"]
      BY <1>1, <2>4, CountBumps
    <3> QED
      BY <1>3, <2>4, <3>1, CountedOtherwise DEF JobInv
  <2> QED
    BY <2>1, <2>2, <2>3, <2>4
<1> QED
  BY <1>2, <1>3, WhoSteps

-----------------------------------------------------------------------------
(* total_upload_attempts.                                                  *)

LEMMA OpenOfType ==
  ASSUME NEW j \in Job, NEW r, j.attempts >= 1
  PROVE  OpenOf(j, r) \in Nat
<1>1. j.attempts \in Nat /\ j.attempts - 1 \in Nat
  BY DEF Job
<1> QED
  BY <1>1 DEF OpenOf

LEMMA OpenOfIdle == \A r : OpenOf(Idle, r) = 0
  BY DEF OpenOf, Idle

LEMMA OpenType ==
  ASSUME TypeOK, Uploads, NEW w \in Workers
  PROVE  Open[w] \in Nat
<1>1. CASE Busy(w)
  <2>1. job[w] \in Job /\ job[w].attempts >= 1
    BY <1>1, JobRecord, TasksAre DEF Uploads
  <2> QED
    BY <2>1, OpenOfType DEF Open
<1>2. CASE ~Busy(w)
  BY <1>2, OpenOfIdle DEF Open, Busy
<1> QED
  BY <1>1, <1>2

LEMMA OpenFinite == ASSUME TypeOK, Uploads PROVE Cardinality(OpenUploads) \in Nat
<1>1. IsFiniteSet(Cells(Open, Workers))
  BY OpenType, WorkersFinite, CellsFinite
<1> QED
  BY <1>1, FS_CardinalityType DEF OpenUploads

\* A step of a task leaves the uploads of the others alone.
LEMMA OpenOfOthers ==
  ASSUME TypeOK, Apart, Pending, NEW t \in Tasks, TaskStep(t), NEW u \in Workers \ {t}
  PROVE  Open'[u] = Open[u]
<1>1. u \in Tasks /\ job'[u] = job[u]
  BY TasksAre, TakesOrGoes DEF Takes, Goes, Others
<1>2. CASE ~Busy(u)
  BY <1>1, <1>2, OpenOfIdle DEF Open, Busy
<1>3. CASE Busy(u)
  <2>1. result'[job[u].batch] = result[job[u].batch]
    <3>1. CASE Complete(t)
      <4>1. Busy(t) /\ result' = [result EXCEPT ![job[t].batch] = ResultOf(job[t])]
        BY <3>1, CompleteEffect
      <4>2. job[u].batch # job[t].batch /\ job[u].batch \in Batches
        BY <1>1, <1>3, <4>1, JobRecord DEF Apart
      <4> QED
        BY <4>1, <4>2 DEF TypeOK
    <3>2. CASE ~Complete(t)
      BY <3>2, TaskCases DEF Start, FailDispatch, Retry, Conclude, Count, Finish, LogPanics
    <3> QED
      BY <3>1, <3>2
  <2> QED
    BY <1>1, <2>1 DEF Open
<1> QED
  BY <1>2, <1>3

\* How many uploads are open changes as those of the task do.
LEMMA OpenChanges ==
  ASSUME TypeOK, Uploads, TypeOK', Uploads', Apart, Pending, NEW t \in Workers, TaskStep(t)
  PROVE  /\ Cardinality(OpenUploads) \in Nat /\ Cardinality(OpenUploads') \in Nat
         /\ Open[t] \in Nat /\ Open'[t] \in Nat
         /\ Cardinality(OpenUploads') + Open[t] = Cardinality(OpenUploads) + Open'[t]
<1> DEFINE f == Open
           g == Open'
<1>1. \A w \in Workers : f[w] \in Nat
  BY OpenType
<1>2. \A w \in Workers : g[w] \in Nat
  <2>1. ASSUME NEW w \in Workers PROVE OpenOf(job'[w], result'[job'[w].batch]) \in Nat
    <3>1. job'[w] \in Job \/ job'[w] = Idle
      BY TasksAre DEF TypeOK
    <3>2. job'[w] # Idle => job'[w].attempts >= 1
      BY DEF Uploads, Busy
    <3> QED
      BY <3>1, <3>2, OpenOfType, OpenOfIdle
  <2> QED
    BY <2>1 DEF Open
<1>3. \A w \in Workers \ {t} : g[w] = f[w]
  BY OpenOfOthers, TasksAre
<1>4. OpenUploads' = Cells(g, Workers) /\ OpenUploads = Cells(f, Workers)
  BY DEF OpenUploads, Cells
<1> HIDE DEF f, g
<1>5. /\ Cardinality(Cells(f, Workers)) \in Nat /\ Cardinality(Cells(g, Workers)) \in Nat
      /\ Cardinality(Cells(g, Workers)) + f[t] = Cardinality(Cells(f, Workers)) + g[t]
  BY <1>1, <1>2, <1>3, WorkersFinite, CellsChange
<1> QED
  BY <1>1, <1>2, <1>4, <1>5 DEF f, g

\* The batcher has no upload.
LEMMA OpenOfBatcher ==
  ASSUME TypeOK, Apart, Pending, TaskStep(Batcher)
  PROVE  OpenUploads' = OpenUploads
<1>1. \A w \in Workers : Open'[w] = Open[w]
  BY OpenOfOthers, TasksAre
<1>2. Open' = Open
  BY <1>1 DEF Open
<1> QED
  BY <1>2 DEF OpenUploads, Cells

\* The uploads of a task that are open before and after a step.
LEMMA OpenInPhase ==
  ASSUME NEW j \in Job, NEW r
  PROVE  /\ j.phase \in {"attempts", "errors", "retries"} => OpenOf(j, r) = j.attempts - 1
         /\ j.phase \in {"bytes", "upload", "jobs"} => OpenOf(j, r) = j.attempts
         /\ j.phase \in {"complete", "callbacks"} => OpenOf(j, r) = 0
         /\ j.phase = "panicked" => OpenOf(j, r) = IF r = "none" THEN j.attempts ELSE 0
  BY DEF OpenOf

\* A step that leaves the three counters and the closed batches alone leaves
\* the open uploads of the task alone.
LEMMA SumKept ==
  ASSUME TypeOK, SumInv, TypeOK', Uploads, Uploads', Apart, Pending,
         NEW t \in Tasks, TaskStep(t),
         t \in Workers => Open'[t] = Open[t], ClosedOf' = ClosedOf,
         counter'["attempts"] = counter["attempts"], counter'["jobs"] = counter["jobs"],
         counter'["retries"] = counter["retries"]
  PROVE  SumInv'
<1>1. CASE t \in Workers
  <2>1. Cardinality(OpenUploads') = Cardinality(OpenUploads)
    BY <1>1, OpenChanges
  <2> QED
    BY <2>1 DEF SumInv
<1>2. CASE t = Batcher
  BY <1>2, OpenOfBatcher DEF SumInv
<1> QED
  BY <1>1, <1>2, TasksAre

\* The uploads of a worker that counts: those of its job before and after.
LEMMA OpenOfCount ==
  ASSUME TypeOK, NEW w \in Workers, Count(w)
  PROVE  /\ job[w] \in Job /\ job'[w] \in Job /\ result' = result
         /\ job'[w].phase = After(job[w]) /\ job'[w].attempts = job[w].attempts
         /\ Open[w] = OpenOf(job[w], result[job[w].batch])
         /\ Open'[w] = OpenOf(job'[w], result[job[w].batch])
<1>1. w \in Tasks /\ Moves(w, After(job[w]), job[w].attempts, job[w].failed) /\ result' = result
      /\ Busy(w)
  BY CountEffect, TasksAre
<1> QED
  BY <1>1, JobRecord DEF Moves, Open

LEMMA SumCounts ==
  ASSUME TypeOK, SumInv, TypeOK', Uploads, Uploads', Apart, Pending,
         NEW t \in Tasks, TaskStep(t), Count(t)
  PROVE  SumInv'
<1> DEFINE j == job[t]
<1>1. /\ counter["attempts"] \in Nat /\ counter["jobs"] \in Nat /\ counter["retries"] \in Nat
      /\ {"attempts", "jobs", "retries", "bytes", "errors"} \subseteq Counters
  BY DEF TypeOK, Counters
<1>2. /\ j \in Job /\ j.attempts \in Nat
      /\ j.phase \in {"attempts", "bytes", "jobs", "errors", "retries"}
  BY CountEffect, JobRecord
<1>3. Cardinality(ClosedOf) \in Nat
  BY JobsAreBatches, CountedBatches
<1>4. j.phase # "jobs" => ClosedOf' = ClosedOf
  BY CountedOtherwise, ErrorIsCounted
<1>5. CASE t = Batcher
  <2>1. OpenUploads' = OpenUploads
    BY <1>5, OpenOfBatcher
  <2>2. CASE j.phase = "jobs"
    <3>1. j.batch \in Batches \ ClosedOf /\ ClosedOf' = ClosedOf \cup {j.batch}
      BY <1>2, <1>5, <2>2, JobIsCounted
    <3>2. Cardinality(ClosedOf') = Cardinality(ClosedOf) + 1
      BY <3>1, JobsAreBatches, BatchEnters
    <3>3. Amount(j) = 1
      BY <2>2 DEF Amount
    <3>4. /\ counter'["attempts"] = counter["attempts"]
          /\ counter'["jobs"] = counter["jobs"] + 1 /\ counter'["retries"] = counter["retries"]
      BY <1>1, <2>2, <3>3, CountBumps
    <3>5. OpenUploads' = OpenUploads /\ Cardinality(OpenUploads) \in Nat
      BY <2>1, OpenFinite
    <3> QED
      BY <1>1, <1>3, <3>2, <3>4, <3>5 DEF SumInv
  <2>3. CASE j.phase = "errors"
    <3>1. /\ counter'["attempts"] = counter["attempts"] /\ counter'["jobs"] = counter["jobs"]
          /\ counter'["retries"] = counter["retries"]
      BY <1>1, <2>3, CountBumps
    <3> QED
      BY <1>4, <2>1, <2>3, <3>1 DEF SumInv
  <2>4. j.phase \in {"jobs", "errors"}
    BY <1>2, <1>5, CountEffect DEF Uploads
  <2> QED
    BY <2>2, <2>3, <2>4
<1>6. CASE t \in Workers
  <2>1. /\ job'[t] \in Job /\ result' = result
        /\ job'[t].phase = After(j) /\ job'[t].attempts = j.attempts
        /\ Open[t] = OpenOf(j, result[j.batch]) /\ Open'[t] = OpenOf(job'[t], result[j.batch])
    BY <1>6, OpenOfCount
  <2>2. /\ Cardinality(OpenUploads) \in Nat /\ Cardinality(OpenUploads') \in Nat
        /\ Open[t] \in Nat /\ Open'[t] \in Nat
        /\ Cardinality(OpenUploads') + Open[t] = Cardinality(OpenUploads) + Open'[t]
    BY <1>6, OpenChanges
  <2>3. ClosedOf' = ClosedOf
    BY <1>4, <1>6, JobIsCounted, TasksAre
  <2>4. j.attempts >= 1
    BY <1>6, CountEffect DEF Uploads
  <2>5. CASE j.phase = "attempts"
    <3>1. Open[t] = j.attempts - 1 /\ Open'[t] = j.attempts
      BY <1>2, <2>1, <2>5, OpenInPhase DEF After
    <3>2. /\ counter'["attempts"] = counter["attempts"] + 1
          /\ counter'["jobs"] = counter["jobs"] /\ counter'["retries"] = counter["retries"]
      BY <1>1, <2>5, CountBumps DEF Amount
    <3>3. Cardinality(OpenUploads') = Cardinality(OpenUploads) + 1
      BY <1>2, <2>2, <3>1
    <3> QED
      BY <1>1, <1>3, <2>2, <2>3, <3>2, <3>3 DEF SumInv
  <2>6. CASE j.phase = "bytes"
    <3>1. Open'[t] = Open[t]
      BY <1>2, <2>1, <2>6, OpenInPhase DEF After
    <3>2. /\ counter'["attempts"] = counter["attempts"]
          /\ counter'["jobs"] = counter["jobs"] /\ counter'["retries"] = counter["retries"]
      BY <1>1, <2>6, CountBumps
    <3> QED
      BY <2>3, <3>1, <3>2, SumKept
  <2>7. CASE j.phase = "jobs"
    <3>1. Open[t] = j.attempts /\ Open'[t] = j.attempts - 1
      <4>1. /\ After(j) \in {"errors", "retries", "complete"}
            /\ After(j) = "complete" => ~(j.attempts > 1)
        BY <1>2, <2>7, AfterCount
      <4>2. After(j) = "complete" => j.attempts - 1 = 0
        BY <1>2, <2>4, <4>1
      <4> QED
        BY <1>2, <2>1, <2>7, <4>1, <4>2, OpenInPhase
    <3>2. /\ counter'["attempts"] = counter["attempts"]
          /\ counter'["jobs"] = counter["jobs"] + 1 /\ counter'["retries"] = counter["retries"]
      BY <1>1, <2>7, CountBumps DEF Amount
    <3>3. Cardinality(OpenUploads') = Cardinality(OpenUploads) - 1
      BY <1>2, <2>2, <3>1
    <3> QED
      BY <1>1, <1>3, <2>2, <2>3, <3>2, <3>3 DEF SumInv
  <2>8. CASE j.phase = "errors"
    <3>1. Open'[t] = Open[t]
      <4>1. /\ After(j) \in {"retries", "complete"}
            /\ After(j) = "complete" => ~(j.attempts > 1)
        BY <1>2, <2>8, AfterCount
      <4>2. After(j) = "complete" => j.attempts - 1 = 0
        BY <1>2, <2>4, <4>1
      <4> QED
        BY <1>2, <2>1, <2>8, <4>1, <4>2, OpenInPhase
    <3>2. /\ counter'["attempts"] = counter["attempts"]
          /\ counter'["jobs"] = counter["jobs"] /\ counter'["retries"] = counter["retries"]
      BY <1>1, <2>8, CountBumps
    <3> QED
      BY <2>3, <3>1, <3>2, SumKept
  <2>9. CASE j.phase = "retries"
    <3>1. Open[t] = j.attempts - 1 /\ Open'[t] = 0
      BY <1>2, <2>1, <2>9, OpenInPhase DEF After
    <3>2. /\ counter'["attempts"] = counter["attempts"] /\ counter'["jobs"] = counter["jobs"]
          /\ counter'["retries"] = counter["retries"] + (j.attempts - 1)
      BY <1>1, <2>9, CountBumps DEF Amount
    <3>3. Cardinality(OpenUploads') = Cardinality(OpenUploads) - (j.attempts - 1)
      BY <1>2, <2>2, <3>1
    <3> QED
      BY <1>1, <1>2, <1>3, <2>2, <2>3, <3>2, <3>3 DEF SumInv
  <2> QED
    BY <1>2, <2>5, <2>6, <2>7, <2>8, <2>9
<1> QED
  BY <1>5, <1>6, TasksAre

LEMMA SumStep ==
  ASSUME TypeOK, SumInv, TypeOK', Uploads, Uploads', Apart, Pending, [Next]_vars
  PROVE  SumInv'
<1>1. CASE UNCHANGED workVars
  BY <1>1 DEF SumInv, ClosedOf, OpenUploads, Open, Cells, workVars
<1>2. ASSUME NEW t \in Tasks, TaskStep(t) PROVE SumInv'
  <2>1. CASE Count(t)
    BY <1>2, <2>1, SumCounts
  <2>2. CASE ~Count(t)
    <3>1. /\ counter'["attempts"] = counter["attempts"] /\ counter'["jobs"] = counter["jobs"]
          /\ counter'["retries"] = counter["retries"]
      BY <1>2, <2>2, CountersKept DEF Counters
    <3>2. ClosedOf' = ClosedOf
      BY <1>2, <2>2, CountedOtherwise
    <3>3. ASSUME t \in Workers PROVE Open'[t] = Open[t]
      <4>1. /\ Open[t] = OpenOf(job[t], result[job[t].batch])
            /\ Open'[t] = OpenOf(job'[t], result'[job'[t].batch])
        BY <3>3 DEF Open
      <4>2. CASE Start(t)
        <5>1. job[t] = Idle /\ job'[t] \in Job
              /\ job'[t].phase = "attempts" /\ job'[t].attempts = 1
          BY <3>3, <4>2, StartEffect, TasksAre
        <5> QED
          BY <4>1, <5>1, OpenOfIdle, OpenInPhase
      <4>3. CASE Retry(t)
        <5>1. /\ job[t] \in Job /\ job'[t] \in Job /\ job[t].phase = "upload"
              /\ job'[t].phase = "attempts" /\ job'[t].attempts = job[t].attempts + 1
              /\ job[t].attempts \in Nat
          BY <3>3, <4>3, RetryEffect, JobRecord DEF Moves
        <5> QED
          BY <4>1, <5>1, OpenInPhase
      <4>4. CASE \E failed \in BOOLEAN : Conclude(t, failed)
        <5>1. /\ job[t] \in Job /\ job'[t] \in Job /\ job[t].phase = "upload"
              /\ job'[t].phase = "jobs" /\ job'[t].attempts = job[t].attempts
          BY <3>3, <4>4, ConcludeEffect, JobRecord DEF Moves
        <5> QED
          BY <4>1, <5>1, OpenInPhase
      <4>5. CASE Complete(t)
        <5>1. /\ job[t] \in Job /\ job'[t] \in Job /\ job[t].phase = "complete"
              /\ job'[t].phase = "callbacks"
          BY <4>5, CompleteEffect, JobRecord DEF Moves
        <5> QED
          BY <4>1, <5>1, OpenInPhase
      <4>6. CASE Finish(t)
        <5>1. job[t] \in Job /\ job[t].phase = "callbacks" /\ job'[t] = Idle
          BY <4>6, FinishEffect, JobRecord
        <5> QED
          BY <4>1, <5>1, OpenOfIdle, OpenInPhase
      <4>7. CASE LogPanics(t)
        <5>1. /\ job[t] \in Job /\ job'[t] \in Job /\ job[t].phase \in {"upload", "callbacks"}
              /\ job'[t].phase = "panicked" /\ job'[t].attempts = job[t].attempts
              /\ job'[t].batch = job[t].batch /\ result' = result
          BY <4>7, PanicEffect, JobRecord DEF Moves
        <5>2. result[job[t].batch] = "none" <=> job[t].phase = "upload"
          BY <5>1 DEF Pending, Unfinished
        <5> QED
          BY <4>1, <5>1, <5>2, OpenInPhase
      <4> QED
        BY <1>2, <2>2, <3>3, <4>2, <4>3, <4>4, <4>5, <4>6, <4>7, TaskCases, TasksAre
    <3> QED
      BY <1>2, <3>1, <3>2, <3>3, SumKept
  <2> QED
    BY <2>1, <2>2
<1> QED
  BY <1>1, <1>2, WhoSteps

-----------------------------------------------------------------------------
(* total_bytes_sent.                                                       *)

LEMMA BiggestExists ==
  /\ Biggest \in Batches /\ Bytes[Biggest] \in Nat
  /\ \A b \in Batches : Bytes[b] \in Nat /\ Bytes[b] <= Bytes[Biggest]
<1>1. Batches # {} /\ \A b \in Batches : Bytes[b] \in Nat
  BY CompletionAssumption
<1>2. \E m \in Batches : \A b \in Batches : Bytes[b] <= Bytes[m]
  BY <1>1, CompletionAssumption, GreatestOfFinite
<1> QED
  BY <1>1, <1>2 DEF Biggest

\* Multiplying by a number keeps the order.
LEMMA TimesMonotone ==
  ASSUME NEW m \in Nat, NEW n \in Nat, m <= n, NEW x \in Nat
  PROVE  m * x <= n * x /\ m * x \in Nat /\ (m + 1) * x = m * x + x
  OBVIOUS

LEMMA InBytesCounted ==
  InBytes \in SUBSET Workers /\ IsFiniteSet(InBytes) /\ Cardinality(InBytes) \in Nat
  BY CountedWorkers DEF InBytes

\* Only record_upload_attempt changes what is between its two counters.
LEMMA InBytesKept ==
  ASSUME TypeOK, Uploads, Pending, NEW t \in Tasks, TaskStep(t),
         ~(Count(t) /\ job[t].phase \in {"attempts", "bytes"})
  PROVE  InBytes' = InBytes
<1>1. ASSUME Others(t), job[t].phase # "bytes", job'[t].phase # "bytes"
      PROVE  InBytes' = InBytes
  BY <1>1, TasksAre DEF InBytes, Others
<1>2. CASE (t \in Workers /\ Start(t)) \/ (t = Batcher /\ FailDispatch)
  BY <1>1, <1>2, StartEffect DEF Idle
<1>3. CASE t \in Workers /\ Retry(t)
  BY <1>1, <1>3, RetryEffect DEF Moves
<1>4. CASE t \in Workers /\ \E failed \in BOOLEAN : Conclude(t, failed)
  BY <1>1, <1>4, ConcludeEffect DEF Moves
<1>5. CASE Count(t)
  BY <1>1, <1>5, CountEffect, AfterCount, JobRecord DEF Moves
<1>6. CASE Complete(t)
  BY <1>1, <1>6, CompleteEffect DEF Moves
<1>7. CASE Finish(t)
  BY <1>1, <1>7, FinishEffect DEF Idle
<1>8. CASE LogPanics(t)
  BY <1>1, <1>8, PanicEffect DEF Moves
<1> QED
  BY <1>2, <1>3, <1>4, <1>5, <1>6, <1>7, <1>8, TaskCases

LEMMA BytesStep ==
  ASSUME TypeOK, Apart, Pending, Uploads, BytesInv, [Next]_vars
  PROVE  BytesInv'
<1> DEFINE M == Bytes[Biggest]
           inside == Cardinality(InBytes)
           n == counter["attempts"] - inside
<1>1. /\ counter["attempts"] \in Nat /\ counter["bytes"] \in Nat
      /\ "attempts" \in Counters /\ "bytes" \in Counters
  BY DEF TypeOK, Counters
<1>2. M \in Nat /\ inside \in Nat
  BY BiggestExists, InBytesCounted
<1>3. n \in Nat /\ counter["bytes"] <= n * M
  BY <1>1, <1>2 DEF BytesInv
<1>4. CASE UNCHANGED workVars
  BY <1>4 DEF BytesInv, InBytes, workVars
<1>5. ASSUME NEW t \in Tasks, TaskStep(t) PROVE BytesInv'
  <2>1. CASE ~(Count(t) /\ job[t].phase \in {"attempts", "bytes"})
    <3>1. InBytes' = InBytes
      BY <1>5, <2>1, InBytesKept
    <3>2. counter'["attempts"] = counter["attempts"] /\ counter'["bytes"] = counter["bytes"]
      BY <1>1, <1>5, <2>1, CountersKept, CountBumps
    <3> QED
      BY <3>1, <3>2 DEF BytesInv
  <2>2. CASE Count(t) /\ job[t].phase \in {"attempts", "bytes"}
    <3>1. /\ t \in Workers /\ Others(t) /\ job'[t].phase = After(job[t])
      BY <2>2, CountEffect, TasksAre DEF Moves, Uploads
    <3>2. CASE job[t].phase = "attempts"
      <4>1. InBytes' = InBytes \cup {t} /\ t \notin InBytes
        BY <3>1, <3>2, TasksAre DEF InBytes, Others, After
      <4>2. Cardinality(InBytes') = inside + 1
        BY <3>1, <4>1, InBytesCounted, WorkerEnters
      <4>3. /\ counter'["attempts"] = counter["attempts"] + 1
            /\ counter'["bytes"] = counter["bytes"]
        BY <1>1, <2>2, <3>2, CountBumps DEF Amount
      <4>4. /\ counter'["attempts"] - Cardinality(InBytes') = n
            /\ counter'["attempts"] >= Cardinality(InBytes')
        BY <1>1, <1>2, <1>3, <4>2, <4>3
      <4> HIDE DEF n, M
      <4> QED
        BY <1>3, <4>3, <4>4 DEF BytesInv, M
    <3>3. CASE job[t].phase = "bytes"
      <4>1. InBytes' = InBytes \ {t} /\ t \in InBytes
        BY <3>1, <3>3, TasksAre DEF InBytes, Others, After
      <4>2. Cardinality(InBytes') = inside - 1
        BY <4>1, InBytesCounted, WorkerLeaves
      <4>3. Amount(job[t]) \in Nat /\ Amount(job[t]) <= M
        <5>1. job[t].batch \in Batches
          BY <2>2, CountEffect, JobRecord
        <5> QED
          BY <3>3, <5>1, BiggestExists DEF Amount
      <4>4. /\ counter'["attempts"] = counter["attempts"]
            /\ counter'["bytes"] = counter["bytes"] + Amount(job[t])
        BY <1>1, <2>2, <3>3, CountBumps
      <4>5. /\ counter'["attempts"] - Cardinality(InBytes') = n + 1
            /\ counter'["attempts"] >= Cardinality(InBytes')
        BY <1>1, <1>2, <1>3, <4>2, <4>4
      <4> HIDE DEF n, M
      <4>6. (n + 1) * M = n * M + M /\ n * M \in Nat
        BY <1>2, <1>3, TimesMonotone
      <4>7. counter'["bytes"] <= n * M + M
        BY <1>1, <1>2, <1>3, <4>3, <4>4, <4>6
      <4> QED
        BY <4>5, <4>6, <4>7 DEF BytesInv, M
    <3> QED
      BY <2>2, <3>2, <3>3
  <2> QED
    BY <2>1, <2>2
<1> QED
  BY <1>4, <1>5, WhoSteps

-----------------------------------------------------------------------------
(* What stats() has read.                                                  *)

\* What follows of the counters at one moment.
LEMMA CountersCover ==
  ASSUME TypeOK, Pending, Uploads, BusyInv, JobInv, SumInv, BytesInv, NEW S \in SUBSET Completed
  PROVE  /\ counter["jobs"] >= Cardinality(S)
         /\ counter["errors"] >= Cardinality(Failed(S))
         /\ counter["busy"] <= NumWorkers
         /\ counter["bytes"] <= counter["attempts"] * Bytes[Biggest]
         /\ counter["attempts"] >= Cardinality(S \ Undelivered(S))
<1>1. /\ counter["attempts"] \in Nat /\ counter["jobs"] \in Nat /\ counter["errors"] \in Nat
      /\ counter["bytes"] \in Nat /\ counter["retries"] \in Nat
  BY DEF TypeOK, Counters
<1>2. IsFiniteSet(JobsOf) /\ IsFiniteSet(ErrorsOf) /\ IsFiniteSet(ClosedOf)
  BY JobsAreBatches, CountedBatches
<1>3. counter["jobs"] >= Cardinality(S)
  <2>1. S \in SUBSET JobsOf
    BY DEF Completed, JobsOf
  <2> QED
    BY <1>2, <2>1, FS_Subset DEF JobInv
<1>4. counter["errors"] >= Cardinality(Failed(S))
  <2>1. Failed(S) \in SUBSET ErrorsOf
    BY DEF Completed, Failed, ErrorsOf
  <2> QED
    BY <1>2, <2>1, FS_Subset DEF JobInv
<1>5. counter["busy"] <= NumWorkers
  BY CountedWorkers DEF BusyInv, BusyWorkers
<1>6. counter["bytes"] <= counter["attempts"] * Bytes[Biggest]
  <2> DEFINE M == Bytes[Biggest]
             n == counter["attempts"] - Cardinality(InBytes)
  <2>1. M \in Nat /\ Cardinality(InBytes) \in Nat
    BY BiggestExists, InBytesCounted
  <2>2. n \in Nat /\ n <= counter["attempts"] /\ counter["bytes"] <= n * M
    BY <1>1, <2>1 DEF BytesInv
  <2> HIDE DEF n, M
  <2>3. n * M <= counter["attempts"] * M /\ n * M \in Nat /\ counter["attempts"] * M \in Nat
    BY <1>1, <2>1, <2>2, TimesMonotone
  <2>4. counter["bytes"] <= counter["attempts"] * M
    BY <1>1, <2>2, <2>3
  <2> QED
    BY <2>4 DEF M
<1>7. counter["attempts"] >= Cardinality(S \ Undelivered(S))
  <2>1. ClosedOf \in SUBSET JobsOf
    <3>1. \A b \in Batches : ClosedCounted(job[Batcher], b) => JobCounted(job[Batcher], b)
      BY DEF ClosedCounted, JobCounted
    <3> QED
      BY <3>1, TasksAre DEF ClosedOf, JobsOf
  <2>2. S \ Undelivered(S) \in SUBSET (JobsOf \ ClosedOf)
    <3>1. ASSUME NEW b \in S, b \in ClosedOf PROVE b \in Undelivered(S)
      <4>1. result[b] # "none"
        BY <3>1 DEF Completed
      <4>2. ~ClosedCounted(job[Batcher], b)
        BY <4>1, TasksAre DEF ClosedCounted, Pending, Unfinished
      <4> QED
        BY <3>1, <4>2 DEF ClosedOf, Undelivered
    <3> QED
      BY <3>1 DEF Completed, JobsOf
  <2>3. /\ Cardinality(JobsOf \ ClosedOf) = Cardinality(JobsOf) - Cardinality(ClosedOf)
        /\ IsFiniteSet(JobsOf \ ClosedOf)
    BY <1>2, <2>1, SubsetTaken
  <2>4. Cardinality(S \ Undelivered(S)) <= Cardinality(JobsOf \ ClosedOf)
    BY <2>2, <2>3, FS_Subset
  <2>5. /\ Cardinality(OpenUploads) \in Nat /\ Cardinality(JobsOf) \in Nat
        /\ Cardinality(ClosedOf) \in Nat /\ Cardinality(S \ Undelivered(S)) \in Nat
    BY <2>2, <2>3, <1>2, OpenFinite, FS_Subset, FS_CardinalityType
  <2> QED
    BY <1>1, <2>3, <2>4, <2>5 DEF SumInv, JobInv
<1> QED
  BY <1>3, <1>4, <1>5, <1>6, <1>7

\* A result stays, and the uploads that are counted do not become fewer.
LEMMA OnlyMore ==
  ASSUME TypeOK, Pending, Uploads, [Next]_vars
  PROVE  /\ \A b \in Completed : result'[b] = result[b]
         /\ counter'["attempts"] >= counter["attempts"]
<1>1. counter["attempts"] \in Nat /\ "attempts" \in Counters \ {"busy"}
  BY DEF TypeOK, Counters
<1>2. CASE UNCHANGED workVars
  BY <1>1, <1>2 DEF workVars
<1>3. ASSUME NEW t \in Tasks, TaskStep(t)
      PROVE  /\ \A b \in Completed : result'[b] = result[b]
             /\ counter'["attempts"] >= counter["attempts"]
  <2>1. CASE Complete(t)
    BY <1>1, <2>1, CompleteEffect DEF TypeOK, Completed
  <2>2. CASE Count(t)
    <3>1. job[t].phase = "attempts" => Amount(job[t]) = 1
      BY DEF Amount
    <3> QED
      BY <1>1, <2>2, <3>1, CountEffect, CountBumps
  <2>3. CASE ~Complete(t) /\ ~Count(t)
    <3>1. result' = result
      BY <1>3, <2>3, TaskCases DEF Start, FailDispatch, Retry, Conclude, Finish, LogPanics
    <3>2. counter'["attempts"] = counter["attempts"]
      BY <1>1, <1>3, <2>3, CountersKept
    <3> QED
      BY <1>1, <3>1, <3>2
  <2> QED
    BY <2>1, <2>2, <2>3
<1> QED
  BY <1>2, <1>3, WhoSteps

\* While stats() does not read, what it has read stays true.
LEMMA SnapKept ==
  ASSUME TypeOK, TypeOK', Pending, Uploads, SnapInv, [Next]_vars, UNCHANGED snapVars
  PROVE  SnapInv'
<1>1. /\ counter["attempts"] \in Nat /\ counter'["attempts"] \in Nat /\ snap["bytes"] \in Nat
  BY DEF TypeOK, Counters
<1>2. \A b \in seen : result'[b] = result[b] /\ b \in Batches /\ result[b] # "none"
  BY OnlyMore DEF SnapInv, Completed
<1>3. seen' = seen /\ seen \subseteq Completed'
  BY <1>2 DEF snapVars, Completed
<1>4. Failed(seen)' = Failed(seen) /\ Undelivered(seen)' = Undelivered(seen)
  BY <1>2, <1>3 DEF Failed, Undelivered
<1>5. reader >= 4 => snap["bytes"] <= counter'["attempts"] * Bytes[Biggest]
  <2> DEFINE M == Bytes[Biggest]
             n == counter["attempts"]
             m == counter'["attempts"]
  <2>1. M \in Nat /\ n \in Nat /\ m \in Nat /\ n <= m
    BY <1>1, BiggestExists, OnlyMore
  <2>2. reader >= 4 => snap["bytes"] <= n * M
    BY DEF SnapInv
  <2> HIDE DEF M, n, m
  <2>3. n * M <= m * M /\ n * M \in Nat /\ m * M \in Nat
    BY <2>1, TimesMonotone
  <2>4. reader >= 4 => snap["bytes"] <= m * M
    BY <1>1, <2>2, <2>3
  <2> QED
    BY <2>4 DEF M, m
<1> QED
  BY <1>3, <1>4, <1>5 DEF SnapInv, snapVars

LEMMA ReadsOne ==
  ASSUME TypeOK, Pending, Uploads, BusyInv, JobInv, SumInv, BytesInv, SnapInv, Read
  PROVE  SnapInv'
<1>1. /\ reader \in 0 .. 4 /\ reader' = reader + 1 /\ seen' = seen
      /\ counter' = counter /\ result' = result
      /\ snap' = [snap EXCEPT ![Reads[reader + 1]] = counter[Reads[reader + 1]]]
  BY DEF Read, Reads, workVars, TypeOK
<1>2. seen \in SUBSET Completed /\ snap \in [Counters -> Nat]
  BY DEF SnapInv, TypeOK
<1>3. /\ Completed' = Completed /\ Failed(seen)' = Failed(seen)
      /\ Undelivered(seen)' = Undelivered(seen)
  BY <1>1 DEF Completed, Failed, Undelivered
<1>4. /\ counter["jobs"] >= Cardinality(seen)
      /\ counter["errors"] >= Cardinality(Failed(seen))
      /\ counter["busy"] <= NumWorkers
      /\ counter["bytes"] <= counter["attempts"] * Bytes[Biggest]
      /\ counter["attempts"] >= Cardinality(seen \ Undelivered(seen))
  BY <1>2, CountersCover
<1>5. {"jobs", "errors", "busy", "bytes", "attempts"} \subseteq Counters
  BY DEF Counters
<1>6. CASE reader = 0
  <2>1. reader' = 1 /\ snap'["jobs"] = counter["jobs"]
    BY <1>1, <1>2, <1>5, <1>6 DEF Reads
  <2> QED
    BY <1>1, <1>2, <1>3, <1>4, <2>1 DEF SnapInv
<1>7. CASE reader = 1
  <2>1. reader' = 2 /\ snap'["errors"] = counter["errors"] /\ snap'["jobs"] = snap["jobs"]
    BY <1>1, <1>2, <1>5, <1>7 DEF Reads
  <2> QED
    BY <1>1, <1>2, <1>3, <1>4, <1>7, <2>1 DEF SnapInv
<1>8. CASE reader = 2
  <2>1. /\ reader' = 3 /\ snap'["busy"] = counter["busy"]
        /\ snap'["jobs"] = snap["jobs"] /\ snap'["errors"] = snap["errors"]
    BY <1>1, <1>2, <1>5, <1>8 DEF Reads
  <2> QED
    BY <1>1, <1>2, <1>3, <1>4, <1>8, <2>1 DEF SnapInv
<1>9. CASE reader = 3
  <2>1. /\ reader' = 4 /\ snap'["bytes"] = counter["bytes"]
        /\ snap'["jobs"] = snap["jobs"] /\ snap'["errors"] = snap["errors"]
        /\ snap'["busy"] = snap["busy"]
    BY <1>1, <1>2, <1>5, <1>9 DEF Reads
  <2> QED
    BY <1>1, <1>2, <1>3, <1>4, <1>9, <2>1 DEF SnapInv
<1>10. CASE reader = 4
  <2>1. /\ reader' = 5 /\ snap'["attempts"] = counter["attempts"]
        /\ snap'["jobs"] = snap["jobs"] /\ snap'["errors"] = snap["errors"]
        /\ snap'["busy"] = snap["busy"] /\ snap'["bytes"] = snap["bytes"]
    BY <1>1, <1>2, <1>5, <1>10 DEF Reads
  <2> QED
    BY <1>1, <1>2, <1>3, <1>4, <1>10, <2>1 DEF SnapInv
<1> QED
  BY <1>1, <1>6, <1>7, <1>8, <1>9, <1>10

LEMMA SnapStep ==
  ASSUME TypeOK, TypeOK', Pending, Uploads, BusyInv, JobInv, SumInv, BytesInv, SnapInv, [Next]_vars
  PROVE  SnapInv'
<1>1. CASE Read
  BY <1>1, ReadsOne
<1>2. CASE StartSnapshot
  <2>1. reader' = 0 /\ seen' = Completed /\ result' = result
    BY <1>2 DEF StartSnapshot, Completed, workVars
  <2> QED
    BY <2>1 DEF SnapInv, Completed
<1>3. ASSUME NEW t \in Tasks, TaskStep(t) PROVE UNCHANGED snapVars
  BY <1>3, WorkType
<1>4. ASSUME NEW c \in Waiters,
             Look(c) \/ WakeSpuriously(c) \/ TimeUp(c) \/ TimedOut(c) \/ SenderGone(c)
      PROVE  UNCHANGED snapVars
  BY <1>4 DEF Look, WakeSpuriously, TimeUp, TimedOut, SenderGone, WaiterOnly
<1>5. UNCHANGED vars => UNCHANGED snapVars
  BY DEF vars
<1>6. Read \/ StartSnapshot \/ UNCHANGED snapVars
  BY <1>3, <1>4, <1>5, TasksAre DEF Next, TaskStep
<1> QED
  BY <1>1, <1>2, <1>6, SnapKept

-----------------------------------------------------------------------------
(* The theorems.                                                           *)

LEMMA InitCounts == ASSUME Init PROVE JobInv /\ SumInv /\ BytesInv /\ SnapInv
<1>1. \A t \in Tasks : job[t] = Idle
  BY DEF Init
<1>2. \A b \in Batches : ~JobCounted(Idle, b) /\ ~ErrorCounted(Idle, b) /\ ~ClosedCounted(Idle, b)
  BY DEF Idle, JobCounted, ErrorCounted, ClosedCounted
<1>3. JobsOf = {} /\ ErrorsOf = {} /\ ClosedOf = {}
  BY <1>1, <1>2, TasksAre DEF Init, JobsOf, ErrorsOf, ClosedOf
<1>4. InBytes = {}
  BY <1>1, TasksAre DEF InBytes, Idle
<1>5. OpenUploads = {}
  <2>1. \A w \in Workers : Open[w] = 0
    BY <1>1, TasksAre, OpenOfIdle DEF Open
  <2> QED
    BY <2>1 DEF OpenUploads, Cells
<1>6. \A k \in Counters : counter[k] = 0
  BY DEF Init, Zero
<1>7. /\ "jobs" \in Counters /\ "errors" \in Counters /\ "attempts" \in Counters
      /\ "retries" \in Counters /\ "bytes" \in Counters
  BY DEF Counters
<1>8. Cardinality({}) = 0
  BY FS_EmptySet
<1>9. JobInv
  BY <1>3, <1>6, <1>7, <1>8 DEF JobInv
<1>10. SumInv
  BY <1>3, <1>5, <1>6, <1>7, <1>8 DEF SumInv
<1>11. BytesInv
  <2>1. 0 * Bytes[Biggest] = 0
    BY BiggestExists
  <2>2. counter["attempts"] - Cardinality(InBytes) = 0
    BY <1>4, <1>6, <1>7, <1>8
  <2> QED
    BY <1>4, <1>6, <1>7, <1>8, <2>1, <2>2 DEF BytesInv
<1>12. SnapInv
  BY DEF Init, SnapInv
<1> QED
  BY <1>9, <1>10, <1>11, <1>12

LEMMA Counts == Spec => []IInv
<1>1. Init => IInv
  BY InitInv, InitCounts DEF IInv, PlaceAndType, CountsInv
<1>2. IInv /\ [Next]_vars => IInv'
  <2> SUFFICES ASSUME PlaceAndType, CountsInv, [Next]_vars PROVE IInv'
    BY DEF IInv
  <2>1. PlaceAndType'
    BY TypeStep, ApartStep, PendingStep, UploadsStep, BusyStep DEF PlaceAndType
  <2>2. JobInv'
    BY JobStep DEF PlaceAndType, CountsInv
  <2>3. SumInv'
    BY <2>1, SumStep DEF PlaceAndType, CountsInv
  <2>4. BytesInv'
    BY BytesStep DEF PlaceAndType, CountsInv
  <2>5. SnapInv'
    BY <2>1, SnapStep DEF PlaceAndType, CountsInv
  <2> QED
    BY <2>1, <2>2, <2>3, <2>4, <2>5 DEF IInv, CountsInv
<1> QED
  BY <1>1, <1>2, PTL DEF Spec

\* Whatever the other workers do between the loads of stats(), a batch whose
\* handle had its result before is in the job count, the error count and the
\* upload count it returns (client.rs 963-1010, 887-899).
THEOREM SnapshotSeesResultsAlways == Spec => []SnapshotSeesResults
<1>1. SnapInv => SnapshotSeesResults
  BY DEF SnapInv, SnapshotSeesResults, SnapshotTaken, Reads
<1> QED
  BY <1>1, Counts, PTL DEF IInv, CountsInv

\* The bytes are read before the uploads, in the order opposite to the one in
\* which they are counted, so that the average size of an upload is never more
\* than the largest batch has; and no more workers are busy than there are
\* (client.rs 963-967, 989-1005).
THEOREM SnapshotPlausibleAlways == Spec => []SnapshotPlausible
<1>1. SnapInv => SnapshotPlausible
  BY BiggestExists DEF SnapInv, SnapshotPlausible, SnapshotTaken, Reads
<1> QED
  BY <1>1, Counts, PTL DEF IInv, CountsInv

\* At the end the open uploads are those that a panic lost.
LEMMA OpenAtTheEnd ==
  ASSUME TypeOK, Pending, AllWorkDone
  PROVE  OpenUploads = LostUploads
<1> DEFINE Dropped(w) == Panicked(w) /\ result[job[w].batch] = "none"
<1>1. ASSUME NEW w \in Workers
      PROVE  Open[w] = IF Dropped(w) THEN job[w].attempts ELSE 0
  <2>1. w \in Tasks
    BY TasksAre
  <2>2. CASE job[w] = Idle
    BY <2>2, OpenOfIdle DEF Open, Panicked, Idle
  <2>3. CASE Panicked(w)
    <3>1. job[w] \in Job /\ job[w].phase = "panicked"
      BY <2>1, <2>3, JobRecord DEF Panicked
    <3> QED
      BY <3>1, OpenInPhase DEF Open, Panicked
  <2> QED
    BY <2>1, <2>2, <2>3 DEF AllWorkDone
<1>2. ASSUME NEW w \in Workers, Dropped(w) PROVE job[w].attempts \in Nat
  BY <1>2, TasksAre, JobRecord DEF Panicked
<1>3. OpenUploads \subseteq LostUploads
  <2> SUFFICES ASSUME NEW p \in OpenUploads PROVE p \in LostUploads
    OBVIOUS
  <2>1. PICK w \in Workers, n \in Nat : p = <<w, n>> /\ n \in 1 .. Open[w]
    BY DEF OpenUploads, Cells
  <2>2. Dropped(w) /\ n \in 1 .. job[w].attempts
    BY <1>1, <2>1
  <2>3. p \in {w} \X (1 .. job[w].attempts)
    BY <2>1, <2>2
  <2> QED
    BY <2>2, <2>3 DEF LostUploads
<1>4. LostUploads \subseteq OpenUploads
  <2> SUFFICES ASSUME NEW p \in LostUploads PROVE p \in OpenUploads
    OBVIOUS
  <2>1. PICK w \in Workers : Dropped(w) /\ p \in {w} \X (1 .. job[w].attempts)
    BY DEF LostUploads
  <2>2. Open[w] = job[w].attempts /\ job[w].attempts \in Nat
    BY <1>1, <1>2, <2>1
  <2>3. p = <<w, p[2]>> /\ p[2] \in 1 .. Open[w] /\ p[2] \in Nat /\ p[1] = w
    BY <2>1, <2>2
  <2> QED
    BY <2>3 DEF OpenUploads, Cells
<1> QED
  BY <1>3, <1>4

\* When no worker is at work any more the counters of stats() agree with the
\* handles and with each other, after panics too: each upload is the first of a
\* job, a retry of one, or was for a batch that was lost (client.rs 652-664,
\* 777-795, 887-912, 959-987).
THEOREM CountersAddUpAlways == Spec => []CountersAddUp
<1>1. IInv => CountersAddUp
  <2> SUFFICES ASSUME TypeOK, Pending, BusyInv, JobInv, SumInv, AllWorkDone
               PROVE  /\ counter["jobs"] = Cardinality(Completed)
                      /\ counter["errors"] = Cardinality(Failed(Batches))
                      /\ counter["attempts"] + Cardinality(Undelivered(Batches))
                            = counter["jobs"] + counter["retries"] + Cardinality(LostUploads)
                      /\ counter["busy"] = Cardinality({w \in Workers : Panicked(w)})
    BY DEF IInv, PlaceAndType, CountsInv, CountersAddUp
  <2>1. \A t \in Tasks : job[t] = Idle \/ job[t].phase = "panicked"
    BY DEF AllWorkDone, Panicked
  <2>2. \A t \in Tasks, b \in Batches : /\ ~JobCounted(job[t], b) /\ ~ErrorCounted(job[t], b)
                                        /\ ~ClosedCounted(job[t], b)
    BY <2>1 DEF Idle, JobCounted, ErrorCounted, ClosedCounted
  <2>3. JobsOf = Completed /\ ErrorsOf = Failed(Batches) /\ ClosedOf = Undelivered(Batches)
    BY <2>2, TasksAre DEF JobsOf, ErrorsOf, ClosedOf, Completed, Failed, Undelivered
  <2>4. BusyWorkers = {w \in Workers : Panicked(w)}
    BY <2>1, TasksAre, JobRecord DEF BusyWorkers, Panicked, Busy
  <2>5. OpenUploads = LostUploads
    BY OpenAtTheEnd
  <2> QED
    BY <2>3, <2>4, <2>5 DEF JobInv, SumInv, BusyInv
<1> QED
  BY <1>1, Counts, PTL

-----------------------------------------------------------------------------
(* The calls that wait.                                                    *)

NoMissedWakeUp == \A c \in Waiters : waiter[c] = "blocked" => ~HasResult(c)

WaiterStep(c) == Look(c) \/ WakeSpuriously(c) \/ TimeUp(c) \/ TimedOut(c) \/ SenderGone(c)

\* Only Complete changes the state of a call that another thread is in.
LEMMA WaiterChanges ==
  ASSUME [Next]_vars
  PROVE  \/ UNCHANGED <<waiter, result>>
         \/ \E t \in Tasks : Complete(t)
         \/ \E c \in Waiters : WaiterStep(c)
<1>1. ASSUME NEW t \in Tasks, TaskStep(t) PROVE UNCHANGED <<waiter, result>> \/ Complete(t)
  BY <1>1, TaskCases DEF Start, FailDispatch, Retry, Conclude, Count, Finish, LogPanics
<1>2. StartSnapshot \/ Read => UNCHANGED <<waiter, result>>
  BY DEF StartSnapshot, Read, workVars
<1>3. UNCHANGED vars => UNCHANGED <<waiter, result>>
  BY DEF vars, workVars
<1> QED
  BY <1>1, <1>2, <1>3, TasksAre DEF Next, TaskStep, WaiterStep

\* A call goes on alone, and is blocked or returns None only after it has looked.
LEMMA WaiterEffect ==
  ASSUME NEW c \in Waiters, WaiterStep(c)
  PROVE  \E state : /\ Goto(c, state) /\ result' = result
                    /\ state \in {"blocked", "none"} => ~HasResult(c)
<1>1. result' = result
  BY DEF WaiterStep, Look, WakeSpuriously, TimeUp, TimedOut, SenderGone, WaiterOnly, workVars
<1>2. CASE Look(c)
  BY <1>1, <1>2 DEF Look
<1>3. CASE TimedOut(c)
  BY <1>1, <1>3 DEF TimedOut
<1>4. CASE WakeSpuriously(c) \/ TimeUp(c) \/ SenderGone(c)
  <2>1. \E state \in {"woken", "timedOut", "panicked"} : Goto(c, state)
    BY <1>4 DEF WakeSpuriously, TimeUp, SenderGone
  <2> QED
    BY <1>1, <2>1
<1> QED
  BY <1>2, <1>3, <1>4 DEF WaiterStep

\* A call is blocked only while the handle has no result: complete() fills it
\* and notifies in one critical section, and a call that looks and blocks does
\* so in one, so that no wake-up is missed (types.rs 145-192, async_client.rs
\* 29-39, 63-73).  It is the safety that EveryWaitReturns rests on.
THEOREM NoMissedWakeUpAlways == Spec => []NoMissedWakeUp
<1>1. Init => NoMissedWakeUp
  BY DEF Init, NoMissedWakeUp
<1>2. ASSUME TypeOK, Pending, NoMissedWakeUp, [Next]_vars PROVE NoMissedWakeUp'
  <2>1. ASSUME NEW t \in Tasks, Complete(t) PROVE NoMissedWakeUp'
    <3> DEFINE b == job[t].batch
    <3>1. /\ result[b] = "none" /\ result' = [result EXCEPT ![b] = ResultOf(job[t])]
          /\ waiter' = [c \in Waiters |->
                IF Awaits[c] = b /\ waiter[c] = "blocked" THEN "woken" ELSE waiter[c]]
      <4>1. result[b] = "none" /\ result' = [result EXCEPT ![b] = ResultOf(job[t])]
        BY <1>2, <2>1, CompleteEffect
      <4> QED
        BY <2>1, <4>1 DEF Complete
    <3> HIDE DEF b
    <3>2. ASSUME NEW c \in Waiters, waiter'[c] = "blocked"
          PROVE  result'[Awaits[c]] = "none"
      <4>1. waiter[c] = "blocked" /\ Awaits[c] # b
        BY <3>1, <3>2
      <4>2. result[Awaits[c]] = "none" /\ Awaits[c] \in Batches
        BY <1>2, <4>1, CompletionAssumption DEF NoMissedWakeUp, HasResult
      <4> QED
        BY <1>2, <3>1, <4>1, <4>2 DEF TypeOK
    <3> QED
      BY <3>2 DEF NoMissedWakeUp, HasResult
  <2>2. ASSUME NEW c \in Waiters, WaiterStep(c) PROVE NoMissedWakeUp'
    <3>1. PICK state : /\ Goto(c, state) /\ result' = result
                       /\ state \in {"blocked", "none"} => ~HasResult(c)
      BY <2>2, WaiterEffect
    <3>2. \A d \in Waiters : waiter'[d] = IF d = c THEN state ELSE waiter[d]
      BY <1>2, <3>1 DEF Goto, TypeOK
    <3> QED
      BY <1>2, <3>1, <3>2 DEF NoMissedWakeUp, HasResult
  <2>3. CASE UNCHANGED <<waiter, result>>
    BY <1>2, <2>3 DEF NoMissedWakeUp, HasResult
  <2> QED
    BY <1>2, <2>1, <2>2, <2>3, WaiterChanges
<1> QED
  BY <1>1, <1>2, Places, PTL DEF Spec, PlaceAndType

\* A wait_timeout that returns None has looked after its time was up and found
\* no result, so a result that comes with the timeout is not missed
\* (types.rs 170-182).
THEOREM NoneOnlyWithoutResultAlways == Spec => NoneOnlyWithoutResult
<1>1. ASSUME TypeOK, [Next]_vars, NEW c \in Waiters, Goto(c, "none"), waiter' # waiter
      PROVE  ~HasResult(c)
  <2>1. waiter \in [Waiters -> {"idle", "blocked", "woken", "timedOut", "got", "none", "panicked"}]
        /\ waiter'[c] = "none"
    BY <1>1 DEF TypeOK, Goto
  <2>2. waiter[c] # "none"
    BY <1>1, <2>1 DEF Goto
  <2>3. ASSUME NEW t \in Tasks, Complete(t) PROVE FALSE
    BY <2>1, <2>2, <2>3 DEF Complete
  <2>4. ASSUME NEW d \in Waiters, WaiterStep(d) PROVE ~HasResult(c)
    <3>1. PICK state : /\ Goto(d, state)
                       /\ state \in {"blocked", "none"} => ~HasResult(d)
      BY <2>4, WaiterEffect
    <3>2. d = c /\ state = "none"
      BY <2>1, <2>2, <3>1 DEF Goto
    <3> QED
      BY <3>1, <3>2
  <2> QED
    BY <1>1, <2>3, <2>4, WaiterChanges
<1>2. TypeOK /\ [Next]_vars
         => [\A c \in Waiters : Goto(c, "none") /\ waiter' # waiter => ~HasResult(c)]_vars
  BY <1>1
<1> QED
  BY <1>2, TypeCorrect, PTL DEF Spec, NoneOnlyWithoutResult

=============================================================================

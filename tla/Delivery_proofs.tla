--------------------------- MODULE Delivery_proofs ---------------------------
(* For every timeout, every number of retries and every length of delivery:*)
(* the safety of deliver_batch and poll_label_until_conclusion.            *)
EXTENDS Delivery, SequenceTheorems, TLAPS

-----------------------------------------------------------------------------
(* Types.                                                                  *)

LEMMA FatesType == \A err \in SendErrors : Fates(err) \subseteq LabelStates
  BY DEF Fates, LabelStates

LEMMA MovesType == \A state : Moves(state) \subseteq LabelStates
  BY DEF Moves, LabelStates

LEMMA BackoffType ==
    /\ \A n : RetryBackoff(n) \in 1 .. 8
    /\ \A b \in 1 .. 8 : NextBackoff(b) \in 1 .. 8
  BY DEF RetryBackoff, NextBackoff

LEMMA TimeoutTypes ==
    /\ UploadTimeout \in Nat /\ PollTimeout \in Nat /\ RequestTimeout \in Nat
    /\ LongestUpload \in Nat
  BY DeliveryAssumption DEF LongestUpload, MaxRedirects

LEMMA DurationsType ==
    /\ \A d \in Durations : d \in Nat /\ d <= RequestTimeout
    /\ \A d \in UploadDurations : d \in Nat /\ d <= LongestUpload
<1>1. \A d \in UploadDurations : d \in 0 .. LongestUpload
  BY DeliveryAssumption
<1> QED
  BY <1>1, TimeoutTypes, DeliveryAssumption

\* Every variable keeps its type, whatever Doris and the network do.
THEOREM TypeCorrect == Spec => []TypeOK
<1>1. Init => TypeOK
  BY DEF Init, TypeOK, LabelStates, Results
<1>2. TypeOK /\ [Next]_vars => TypeOK'
  <2> SUFFICES ASSUME TypeOK, [Next]_vars PROVE TypeOK'
    OBVIOUS
  <2>1. ASSUME NEW d \in UploadDurations, SendOk(d) PROVE TypeOK'
    BY <2>1, DurationsType, AppendProperties DEF TypeOK, SendOk, Finish, LabelStates, Results
  <2>2. ASSUME NEW d \in UploadDurations, NEW err \in SendErrors, NEW fate \in Fates(err),
               SendFails(d, err, fate)
        PROVE TypeOK'
    <3>1. now' \in Nat
      BY <2>2, DurationsType DEF SendFails, TypeOK
    <3>5. labels' \in Seq(LabelStates)
      BY <2>2, FatesType, AppendProperties DEF SendFails, TypeOK
    <3>2. now' + PollTimeout \in Nat
      <4>1. now \in Nat /\ d \in Nat /\ now' = now + d
        BY <2>2, DurationsType DEF SendFails, TypeOK
      <4> QED
        BY <4>1, TimeoutTypes
    <3>3. CASE FailureAction(err) = "CheckLabel"
      BY <2>2, <3>1, <3>2, <3>3, <3>5 DEF SendFails, TypeOK
    <3>4. CASE FailureAction(err) # "CheckLabel"
      <4>1. pollDeadline' = pollDeadline /\ pollBackoff' = pollBackoff
        BY <2>2, <3>4 DEF SendFails
      <4>2. pc' \in {"retry", "done"} /\ result' \in {result, "denied"}
        BY <2>2, <3>4 DEF SendFails, Finish
      <4> QED
        BY <3>1, <3>5, <4>1, <4>2 DEF Results, TypeOK
    <3> QED
      BY <3>3, <3>4
  <2>3. ASSUME NEW d \in Durations, PollState(d) PROVE TypeOK'
    BY <2>3, DurationsType, BackoffType DEF TypeOK, PollState, PollAgain, Finish, Results
  <2>4. ASSUME NEW d \in Durations, NEW err \in PollErrors, PollFails(d, err) PROVE TypeOK'
    <3>1. CASE PollErrorIsTransient(err) /\ now + d <= pollDeadline
      <4>1. PollAgain(d) /\ UNCHANGED <<labels, pollDeadline>>
        BY <2>4, <3>1, DurationsType DEF PollFails, TypeOK
      <4> QED
        BY <4>1, DurationsType, BackoffType DEF TypeOK, PollAgain, Finish, Results
    <3>2. CASE ~(PollErrorIsTransient(err) /\ now + d <= pollDeadline)
      <4>1. /\ now' = now + d /\ UNCHANGED <<labels, pollDeadline, pollBackoff>>
            /\ pc' \in {"retry", "done"} /\ result' \in {result, "unsettled"}
        BY <2>4, <3>2 DEF PollFails, Finish
      <4> QED
        BY <4>1, DurationsType DEF TypeOK, Results
    <3> QED
      BY <3>1, <3>2
  <2>5. CASE Retry
    BY <2>5, BackoffType DEF TypeOK, Retry, Finish, Results
  <2>6. CASE DorisStep
    BY <2>6, MovesType DEF TypeOK, DorisStep
  <2>7. CASE UNCHANGED vars
    BY <2>7 DEF TypeOK, vars
  <2> QED
    BY <2>1, <2>2, <2>3, <2>4, <2>5, <2>6, <2>7 DEF Next, WorkerStep
<1> QED
  BY <1>1, <1>2, PTL DEF Spec

-----------------------------------------------------------------------------
(* What the steps do to the labels.                                        *)

\* A new attempt adds a label and leaves the others alone.
LEMMA NewLabel ==
  ASSUME labels \in Seq(LabelStates), NEW fate \in LabelStates,
         labels' = Append(labels, fate)
  PROVE  /\ labels' # <<>> /\ attempts' = attempts + 1
         /\ DOMAIN labels' = 1 .. attempts + 1
         /\ labels'[attempts + 1] = fate
         /\ \A i \in DOMAIN labels : labels'[i] = labels[i]
         /\ \A i \in DOMAIN labels' : i \in DOMAIN labels \/ i = attempts + 1
<1>1. DOMAIN labels = 1 .. Len(labels) /\ Len(labels) \in Nat
  OBVIOUS
<1>2. /\ labels' \in Seq(LabelStates) /\ labels' # <<>>
      /\ Len(labels') = Len(labels) + 1
      /\ \A i \in 1 .. Len(labels) : labels'[i] = labels[i]
      /\ labels'[Len(labels) + 1] = fate
  BY AppendProperties
<1>3. DOMAIN labels' = 1 .. Len(labels')
  BY <1>2
<1>4. DOMAIN labels' = 1 .. Len(labels) + 1
  BY <1>2, <1>3
<1>5. \A i \in 1 .. Len(labels) + 1 : i \in 1 .. Len(labels) \/ i = Len(labels) + 1
  BY <1>1
<1> QED
  BY <1>1, <1>2, <1>4, <1>5 DEF attempts

\* Doris changes no label that is dead or committed, and puts none on the wire.
LEMMA DorisKeeps ==
  ASSUME TypeOK, DorisStep
  PROVE  /\ DOMAIN labels' = DOMAIN labels /\ attempts' = attempts
         /\ \A i \in DOMAIN labels :
               /\ Dead(labels[i]) \/ labels[i] = "committed" => labels'[i] = labels[i]
               /\ labels'[i] = "wire" => labels[i] = "wire"
         /\ UNCHANGED <<pc, now, pollDeadline, pollBackoff, result>>
<1>1. PICK i \in DOMAIN labels : \E state \in Moves(labels[i]) :
         labels' = [labels EXCEPT ![i] = state]
  BY DEF DorisStep
<1>2. PICK state \in Moves(labels[i]) : labels' = [labels EXCEPT ![i] = state]
  BY <1>1
<1>3. ~Dead(labels[i]) /\ labels[i] # "committed" /\ state # "wire"
  BY <1>2 DEF Moves, Dead
<1>4. labels \in Seq(LabelStates)
  BY DEF TypeOK
<1>5. Len(labels') = Len(labels) /\ DOMAIN labels' = DOMAIN labels
  BY <1>2, <1>4
<1>6. \A j \in DOMAIN labels : labels'[j] = IF j = i THEN state ELSE labels[j]
  BY <1>2, <1>4
<1> QED
  BY <1>3, <1>5, <1>6 DEF DorisStep, attempts

-----------------------------------------------------------------------------
(* No double load.                                                         *)

\* An upload does not arrive after its label has been checked, and label
\* requests connect, or else the poll outlasts the retries.
LoadsSettle == ~LateArrival /\ (PollMayNotConnect => PollTimeout >= UploadTimeout)

AllDead == \A i \in DOMAIN labels : Dead(labels[i])

\* Only the last label may be alive, and not when another may follow.
LoadInv ==
    /\ \A i \in DOMAIN labels : labels[i] # "wire" /\ (i < attempts => Dead(labels[i]))
    /\ pc = "send" => AllDead
    /\ pc = "poll" => labels # <<>> /\ (PollMayNotConnect => pollDeadline >= UploadTimeout)
    /\ pc = "retry" => AllDead \/ now > UploadTimeout

LEMMA LoadInvInit == Init => LoadInv
  BY DEF Init, LoadInv, AllDead

LEMMA NoLateFates ==
  ASSUME ~LateArrival, NEW err \in SendErrors, NEW fate \in Fates(err)
  PROVE  /\ fate \in LabelStates /\ fate # "wire"
         /\ FailureAction(err) # "CheckLabel" => Dead(fate)
  BY DEF Fates, LabelStates, FailureAction, Dead, SendErrors, ConnectError, TransportError,
         LocalError, NoReply, Denied, Refused, FailReply, Overloaded, Error

\* A label that follows dead ones: all but the last are dead.
LEMMA LoadInvUpload ==
  ASSUME TypeOK, LoadInv, pc = "send", NEW fate \in LabelStates, fate # "wire",
         labels' = Append(labels, fate)
  PROVE  /\ \A i \in DOMAIN labels' : labels'[i] # "wire" /\ (i < attempts' => Dead(labels'[i]))
         /\ Dead(fate) => AllDead'
         /\ labels' # <<>>
<1>1. labels \in Seq(LabelStates) /\ attempts \in Nat
  BY DEF TypeOK, attempts
<1>2. \A i \in DOMAIN labels : labels[i] # "wire" /\ Dead(labels[i])
  BY DEF LoadInv, AllDead
<1>3. \A i \in DOMAIN labels' : i < attempts' => i \in DOMAIN labels
  BY <1>1, NewLabel
<1> QED
  BY <1>1, <1>2, <1>3, NewLabel DEF AllDead

LEMMA LoadInvNext ==
  ASSUME LoadsSettle
  PROVE  TypeOK /\ LoadInv /\ [Next]_vars => LoadInv'
<1> SUFFICES ASSUME TypeOK, LoadInv, [Next]_vars PROVE LoadInv'
  OBVIOUS
<1>1. ASSUME NEW d \in UploadDurations, SendOk(d) PROVE LoadInv'
  <2>1. "committed" \in LabelStates /\ pc = "send" /\ pc' = "done"
    BY <1>1 DEF LabelStates, SendOk, Finish
  <2> QED
    BY <1>1, <2>1, LoadInvUpload DEF SendOk, LoadInv
<1>2. ASSUME NEW d \in UploadDurations, NEW err \in SendErrors, NEW fate \in Fates(err),
             SendFails(d, err, fate)
      PROVE  LoadInv'
  <2>1. /\ fate \in LabelStates /\ fate # "wire"
        /\ FailureAction(err) # "CheckLabel" => Dead(fate)
    BY NoLateFates DEF LoadsSettle
  <2>2. pc = "send" /\ labels' = Append(labels, fate)
    BY <1>2 DEF SendFails
  <2>3. /\ \A i \in DOMAIN labels' : labels'[i] # "wire" /\ (i < attempts' => Dead(labels'[i]))
        /\ FailureAction(err) # "CheckLabel" => AllDead'
        /\ labels' # <<>>
    BY <2>1, <2>2, LoadInvUpload
  <2>4. CASE FailureAction(err) = "CheckLabel"
    <3>1. now \in Nat /\ d \in Nat
      BY DurationsType DEF TypeOK
    <3>2. pc' = "poll" /\ pollDeadline' = now + d + PollTimeout
      BY <1>2, <2>4 DEF SendFails
    <3>3. PollMayNotConnect => pollDeadline' >= UploadTimeout
      BY <3>1, <3>2, TimeoutTypes DEF LoadsSettle
    <3> QED
      BY <2>3, <3>2, <3>3 DEF LoadInv
  <2>5. CASE FailureAction(err) # "CheckLabel"
    <3>1. pc' \in {"retry", "done"}
      BY <1>2, <2>5 DEF SendFails, Finish
    <3> QED
      BY <2>3, <2>5, <3>1 DEF LoadInv
  <2> QED
    BY <2>4, <2>5
<1>3. ASSUME NEW d \in Durations, PollState(d) PROVE LoadInv'
  <2>1. labels' = labels /\ attempts' = attempts /\ pollDeadline' = pollDeadline /\ pc = "poll"
    BY <1>3 DEF PollState, attempts
  <2>2. pc' \in {"poll", "done"} \/ (pc' = "retry" /\ labels[attempts] \in {"aborted", "none", "wire"})
    BY <1>3 DEF PollState, PollAgain, Finish
  <2>3. labels[attempts] # "wire" /\ labels[attempts] \in {"aborted", "none", "wire"} => AllDead
    <3>1. labels \in Seq(LabelStates)
      BY DEF TypeOK
    <3>2. \A i \in DOMAIN labels : i < attempts \/ i = attempts
      BY <3>1 DEF attempts
    <3> QED
      BY <3>2 DEF LoadInv, AllDead, Dead
  <2>4. labels[attempts] # "wire"
    <3>1. labels \in Seq(LabelStates) /\ labels # <<>>
      BY <2>1 DEF TypeOK, LoadInv
    <3>2. attempts \in DOMAIN labels
      BY <3>1 DEF attempts
    <3> QED
      BY <3>2 DEF LoadInv
  <2>5. AllDead' = AllDead
    BY <2>1 DEF AllDead
  <2> QED
    BY <2>1, <2>2, <2>3, <2>4, <2>5 DEF LoadInv
<1>4. ASSUME NEW d \in Durations, NEW err \in PollErrors, PollFails(d, err) PROVE LoadInv'
  <2>1. labels' = labels /\ attempts' = attempts /\ pollDeadline' = pollDeadline /\ pc = "poll"
    BY <1>4 DEF PollFails, attempts
  <2>2. CASE pc' = "retry"
    <3>1. /\ err.retriable /\ PollErrorIsTransient(err)
          /\ now + d > pollDeadline /\ now' = now + d
      BY <1>4, <2>2, <2>1 DEF PollFails, PollAgain, Finish, PollErrorIsTransient
    <3>2. PollMayNotConnect
      BY <3>1 DEF PollErrors, LocalError, TransportError, Refused, FailReply, Error
    <3>3. pollDeadline >= UploadTimeout /\ now \in Nat /\ d \in Nat /\ pollDeadline \in Nat
      BY <2>1, <3>2, DurationsType DEF LoadInv, TypeOK
    <3>4. now' > UploadTimeout
      BY <3>1, <3>3, TimeoutTypes
    <3> QED
      BY <2>1, <2>2, <3>4 DEF LoadInv
  <2>3. CASE pc' # "retry"
    <3>1. pc' \in {"poll", "done"}
      BY <1>4, <2>1, <2>3 DEF PollFails, PollAgain, Finish
    <3> QED
      BY <2>1, <3>1 DEF LoadInv
  <2> QED
    BY <2>2, <2>3
<1>5. CASE Retry
  <2>1. labels' = labels /\ attempts' = attempts /\ pc = "retry"
    BY <1>5 DEF Retry, attempts
  <2>2. CASE OutOfTime \/ RetriesUsedUp
    BY <1>5, <2>1, <2>2 DEF Retry, Finish, LoadInv
  <2>3. CASE ~OutOfTime /\ ~RetriesUsedUp
    <3>1. pc' = "send"
      BY <1>5, <2>3 DEF Retry
    <3>2. ~(now > UploadTimeout)
      BY <2>3, BackoffType, TimeoutTypes DEF OutOfTime, TypeOK
    <3>3. AllDead
      BY <2>1, <3>2 DEF LoadInv
    <3> QED
      BY <2>1, <3>1, <3>3 DEF LoadInv, AllDead
  <2> QED
    BY <2>2, <2>3
<1>6. CASE DorisStep
  BY <1>6, DorisKeeps DEF LoadInv, AllDead
<1>7. CASE UNCHANGED vars
  BY <1>7 DEF vars, LoadInv, AllDead, attempts
<1> QED
  BY <1>1, <1>2, <1>3, <1>4, <1>5, <1>6, <1>7 DEF Next, WorkerStep

\* Whatever the timeouts, the retries and the replies are, a batch is loaded
\* at most once, if uploads do not arrive late and either label requests can
\* connect or status_poll_timeout is at least doris_upload_timeout, as it is
\* by default.
THEOREM NoDoubleLoadAlways ==
  ASSUME LoadsSettle
  PROVE  Spec => []NoDoubleLoad
<1>1. TypeOK /\ LoadInv => NoDoubleLoad
  <2> SUFFICES ASSUME TypeOK, LoadInv, NEW i \in DOMAIN labels, NEW j \in DOMAIN labels,
                      labels[i] = "committed", labels[j] = "committed"
               PROVE  i = j
    BY DEF NoDoubleLoad
  <2>1. attempts \in Nat /\ i \in 1 .. attempts /\ j \in 1 .. attempts
    BY DEF TypeOK, attempts
  <2>2. ~(i < attempts) /\ ~(j < attempts)
    BY DEF LoadInv, Dead
  <2> QED
    BY <2>1, <2>2
<1> QED
  BY LoadInvInit, LoadInvNext, TypeCorrect, <1>1, PTL DEF Spec

-----------------------------------------------------------------------------
(* The limits: doris_upload_timeout, status_poll_timeout and max_retries.  *)

\* How late each part of a delivery can be.
TimeInv ==
    /\ pc = "send" => now <= UploadTimeout
    /\ pc = "poll" => /\ pollDeadline <= UploadTimeout + LongestUpload + PollTimeout
                      /\ now <= pollDeadline + 8
    /\ EndsInTime

LEMMA TimeInvInit == Init => TimeInv
  BY TimeoutTypes DEF Init, TimeInv, EndsInTime

LEMMA TimeInvNext == TypeOK /\ TimeInv /\ [Next]_vars => TimeInv'
<1> SUFFICES ASSUME TypeOK, TimeInv, [Next]_vars PROVE TimeInv'
  OBVIOUS
<1>0. now \in Nat /\ pollDeadline \in Nat /\ pollBackoff \in 1 .. 8
  BY DEF TypeOK
<1>1. ASSUME NEW d \in UploadDurations, SendOk(d) PROVE TimeInv'
  BY <1>0, <1>1, DurationsType, TimeoutTypes DEF SendOk, Finish, TimeInv, EndsInTime
<1>2. ASSUME NEW d \in UploadDurations, NEW err \in SendErrors, NEW fate \in Fates(err),
             SendFails(d, err, fate)
      PROVE  TimeInv'
  <2>1. now' = now + d /\ now <= UploadTimeout
    BY <1>2 DEF SendFails, TimeInv
  <2>2. \/ pc' = "poll" /\ pollDeadline' = now + d + PollTimeout
        \/ pc' \in {"retry", "done"}
    BY <1>2, <2>1 DEF SendFails, Finish
  <2> QED
    BY <1>0, <2>1, <2>2, DurationsType, TimeoutTypes DEF TimeInv, EndsInTime
<1>3. ASSUME NEW d \in Durations, PollAgain(d), pc = "poll", pollDeadline' = pollDeadline
      PROVE  TimeInv'
  BY <1>0, <1>3, DurationsType, TimeoutTypes DEF PollAgain, Finish, TimeInv, EndsInTime
<1>4. ASSUME NEW d \in Durations, pc = "poll", pc' \in {"retry", "done"}, now' = now + d
      PROVE  TimeInv'
  BY <1>0, <1>4, DurationsType, TimeoutTypes DEF TimeInv, EndsInTime
<1>5. ASSUME NEW d \in Durations, PollState(d) PROVE TimeInv'
  <2>1. pc = "poll" /\ pollDeadline' = pollDeadline
    BY <1>5 DEF PollState
  <2>2. PollAgain(d) \/ (pc' \in {"retry", "done"} /\ now' = now + d)
    BY <1>5 DEF PollState, Finish
  <2> QED
    BY <1>3, <1>4, <2>1, <2>2
<1>6. ASSUME NEW d \in Durations, NEW err \in PollErrors, PollFails(d, err) PROVE TimeInv'
  <2>1. pc = "poll" /\ pollDeadline' = pollDeadline
    BY <1>6 DEF PollFails
  <2>2. PollAgain(d) \/ (pc' \in {"retry", "done"} /\ now' = now + d)
    BY <1>6 DEF PollFails, Finish
  <2> QED
    BY <1>3, <1>4, <2>1, <2>2
<1>7. CASE Retry
  <2>1. CASE pc' = "send"
    <3>1. now' = now + RetryBackoff(attempts) /\ ~(now + RetryBackoff(attempts) > UploadTimeout)
      BY <1>7, <2>1 DEF Retry, Finish, OutOfTime
    <3> QED
      BY <1>0, <2>1, <3>1, BackoffType, TimeoutTypes DEF TimeInv, EndsInTime
  <2>2. CASE pc' # "send"
    BY <1>7, <2>2 DEF Retry, Finish, TimeInv, EndsInTime
  <2> QED
    BY <2>1, <2>2
<1>8. CASE DorisStep
  BY <1>8 DEF DorisStep, TimeInv, EndsInTime
<1>9. CASE UNCHANGED vars
  BY <1>9 DEF vars, TimeInv, EndsInTime
<1> QED
  BY <1>1, <1>2, <1>5, <1>6, <1>7, <1>8, <1>9 DEF Next, WorkerStep

\* A delivery is over at the latest one upload, one poll, one backoff and one
\* label request after doris_upload_timeout, whatever the timeouts are and
\* however Doris answers.  The upload is up to eleven requests, each with
\* doris_upload_request_timeout: send applies it in every turn of its loop.
THEOREM EndsInTimeAlways == Spec => []EndsInTime
<1>1. TimeInv => EndsInTime
  BY DEF TimeInv
<1> QED
  BY TimeInvInit, TimeInvNext, TypeCorrect, <1>1, PTL DEF Spec

\* After doris_upload_timeout nothing is uploaded any more.
THEOREM NoUploadAfterTimeoutAlways == Spec => []NoUploadAfterTimeout
<1>1. TimeInv => NoUploadAfterTimeout
  BY DEF TimeInv, NoUploadAfterTimeout
<1> QED
  BY TimeInvInit, TimeInvNext, TypeCorrect, <1>1, PTL DEF Spec

\* Before an upload an attempt is left.
RetriesInv ==
    MaxRetries > 0 => /\ attempts <= MaxRetries + 1
                      /\ pc = "send" => attempts <= MaxRetries

\* A batch is uploaded at most max_retries times again, whatever max_retries
\* is, unless it is 0.
THEOREM RetriesBoundedAlways == Spec => []RetriesBounded
<1>1. Init => RetriesInv
  BY DeliveryAssumption DEF Init, RetriesInv, attempts
<1>2. TypeOK /\ RetriesInv /\ [Next]_vars => RetriesInv'
  <2> SUFFICES ASSUME TypeOK, RetriesInv, [Next]_vars PROVE RetriesInv'
    OBVIOUS
  <2>0. labels \in Seq(LabelStates) /\ attempts \in Nat /\ MaxRetries \in Nat
    BY DeliveryAssumption DEF TypeOK, attempts
  <2>1. ASSUME NEW fate \in LabelStates, pc = "send", labels' = Append(labels, fate),
               pc' # "send"
        PROVE  RetriesInv'
    <3>1. attempts' = attempts + 1
      BY <2>0, <2>1, NewLabel
    <3> QED
      BY <2>0, <2>1, <3>1 DEF RetriesInv
  <2>2. ASSUME NEW d \in UploadDurations, SendOk(d) PROVE RetriesInv'
    BY <2>1, <2>2 DEF SendOk, Finish, LabelStates
  <2>3. ASSUME NEW d \in UploadDurations, NEW err \in SendErrors, NEW fate \in Fates(err),
               SendFails(d, err, fate)
        PROVE  RetriesInv'
    BY <2>1, <2>3, FatesType DEF SendFails, Finish
  <2>4. ASSUME NEW d \in Durations, PollState(d) PROVE RetriesInv'
    BY <2>4 DEF PollState, PollAgain, Finish, RetriesInv, attempts
  <2>5. ASSUME NEW d \in Durations, NEW err \in PollErrors, PollFails(d, err) PROVE RetriesInv'
    BY <2>5 DEF PollFails, PollAgain, Finish, RetriesInv, attempts
  <2>6. CASE Retry
    <3>1. attempts' = attempts /\ (pc' = "send" => ~RetriesUsedUp)
      BY <2>6 DEF Retry, Finish, attempts
    <3> QED
      BY <2>0, <3>1 DEF RetriesInv, RetriesUsedUp
  <2>7. CASE DorisStep
    BY <2>7, DorisKeeps DEF RetriesInv
  <2>8. CASE UNCHANGED vars
    BY <2>8 DEF vars, RetriesInv, attempts
  <2> QED
    BY <2>2, <2>3, <2>4, <2>5, <2>6, <2>7, <2>8 DEF Next, WorkerStep
<1>3. RetriesInv => RetriesBounded
  BY DEF RetriesInv, RetriesBounded
<1> QED
  BY <1>1, <1>2, <1>3, TypeCorrect, PTL DEF Spec

-----------------------------------------------------------------------------
(* The truth of the result, and the refinement of UploadOnce.              *)

\* An upload does not arrive after its label has been checked, and label
\* requests connect.
LabelsTell == ~LateArrival /\ ~PollMayNotConnect

\* The result of a delivery agrees with its labels.
TruthInv ==
    /\ LoadInv
    /\ pc = "retry" => AllDead
    /\ pc # "done" => result = "pending"
    /\ result = "success" => labels # <<>> /\ labels[attempts] = "committed"
    /\ result \in {"timeout", "gaveUp", "denied"} => AllDead

LEMMA TruthInvInit == Init => TruthInv
  BY LoadInvInit DEF Init, TruthInv

\* The label of the attempt just made is the last.
LEMMA LastLabel ==
  ASSUME TypeOK, labels # <<>>
  PROVE  /\ attempts \in DOMAIN labels
         /\ \A i \in DOMAIN labels : i < attempts \/ i = attempts
<1>1. labels \in Seq(LabelStates) /\ labels # <<>>
  BY DEF TypeOK
<1>2. Len(labels) \in Nat \ {0} /\ DOMAIN labels = 1 .. Len(labels)
  BY <1>1
<1> QED
  BY <1>2 DEF attempts

LEMMA TruthInvNext ==
  ASSUME LabelsTell
  PROVE  TypeOK /\ TruthInv /\ [Next]_vars => TruthInv'
<1> SUFFICES ASSUME TypeOK, TruthInv, [Next]_vars PROVE TruthInv'
  OBVIOUS
<1>0. LoadInv' /\ LoadInv
  BY LoadInvNext DEF LabelsTell, LoadsSettle, TruthInv
<1>1. ASSUME NEW d \in UploadDurations, SendOk(d) PROVE TruthInv'
  <2>1. labels \in Seq(LabelStates) /\ "committed" \in LabelStates
    BY DEF TypeOK, LabelStates
  <2>2. labels' = Append(labels, "committed") /\ pc' = "done" /\ result' = "success"
    BY <1>1 DEF SendOk, Finish
  <2>3. labels' # <<>> /\ labels'[attempts'] = "committed"
    BY <2>1, <2>2, NewLabel
  <2> QED
    BY <1>0, <2>2, <2>3 DEF TruthInv
<1>2. ASSUME NEW d \in UploadDurations, NEW err \in SendErrors, NEW fate \in Fates(err),
             SendFails(d, err, fate)
      PROVE  TruthInv'
  <2>1. /\ fate \in LabelStates /\ fate # "wire"
        /\ FailureAction(err) # "CheckLabel" => Dead(fate)
    BY NoLateFates DEF LabelsTell
  <2>2. pc = "send" /\ labels' = Append(labels, fate)
    BY <1>2 DEF SendFails
  <2>3. FailureAction(err) # "CheckLabel" => AllDead'
    BY <1>0, <2>1, <2>2, LoadInvUpload
  <2>4. \/ FailureAction(err) = "RetryNow" /\ pc' = "retry" /\ result' = result
        \/ FailureAction(err) = "Fail" /\ pc' = "done" /\ result' = "denied"
        \/ FailureAction(err) = "CheckLabel" /\ pc' = "poll" /\ result' = result
    BY <1>2 DEF SendFails, Finish
  <2>5. result = "pending"
    BY <2>2 DEF TruthInv
  <2> QED
    BY <1>0, <2>3, <2>4, <2>5 DEF TruthInv
<1>3. ASSUME NEW d \in Durations, PollState(d) PROVE TruthInv'
  <2>1. labels' = labels /\ attempts' = attempts /\ pc = "poll" /\ labels # <<>>
    BY <1>0, <1>3 DEF PollState, attempts, LoadInv
  <2>2. /\ AllDead' = AllDead /\ result = "pending"
        /\ labels[attempts] # "wire" /\ (Dead(labels[attempts]) => AllDead)
    BY <1>0, <2>1, LastLabel DEF AllDead, LoadInv, TruthInv
  <2>3. \/ labels[attempts] = "committed" /\ pc' = "done" /\ result' = "success"
        \/ labels[attempts] \in {"aborted", "none", "wire"} /\ pc' = "retry" /\ result' = result
        \/ pc' = "done" /\ result' = "unsettled"
        \/ pc' = "poll" /\ result' = result
    BY <1>3 DEF PollState, PollAgain, Finish
  <2> QED
    BY <1>0, <2>1, <2>2, <2>3 DEF TruthInv, Dead
<1>4. ASSUME NEW d \in Durations, NEW err \in PollErrors, PollFails(d, err) PROVE TruthInv'
  <2>1. labels' = labels /\ attempts' = attempts /\ pc = "poll" /\ result = "pending"
    BY <1>4 DEF PollFails, attempts, TruthInv
  <2>2. ~err.retriable
    BY DEF LabelsTell, PollErrors, LocalError, TransportError, Refused, FailReply, Error
  <2>3. \/ pc' = "done" /\ result' = "unsettled"
        \/ pc' = "poll" /\ result' = result
    BY <1>4, <2>1, <2>2 DEF PollFails, PollAgain, Finish
  <2> QED
    BY <1>0, <2>1, <2>3 DEF TruthInv
<1>5. CASE Retry
  <2>1. labels' = labels /\ attempts' = attempts /\ AllDead /\ result = "pending"
    BY <1>5 DEF Retry, attempts, TruthInv
  <2>2. \/ pc' = "done" /\ result' \in {"gaveUp", "timeout"}
        \/ pc' = "send" /\ result' = result
    BY <1>5 DEF Retry, Finish
  <2> QED
    BY <1>0, <2>1, <2>2 DEF TruthInv, AllDead
<1>6. CASE DorisStep
  <2>1. labels # <<>> => labels' # <<>>
    BY <1>6, DorisKeeps, LastLabel DEF AllDead
  <2> QED
    BY <1>0, <1>6, <2>1, DorisKeeps, LastLabel DEF TruthInv, AllDead
<1>7. CASE UNCHANGED vars
  BY <1>0, <1>7 DEF vars, TruthInv, AllDead, attempts
<1> QED
  BY <1>1, <1>2, <1>3, <1>4, <1>5, <1>6, <1>7 DEF Next, WorkerStep

\* Whatever the timeouts are, a delivery that reports success has loaded its
\* batch, and one that reports a timeout, used-up retries or a denied upload
\* has not and never will.
THEOREM ResultIsTrueAlways ==
  ASSUME LabelsTell
  PROVE  Spec => []ResultIsTrue
<1>1. TruthInv => ResultIsTrue
  BY DEF TruthInv, ResultIsTrue, AllDead
<1> QED
  BY TruthInvInit, TruthInvNext, TypeCorrect, <1>1, PTL DEF Spec

\* Nor is a label ever given up that may still load.
THEOREM AbandonedLabelsAreDeadAlways ==
  ASSUME LabelsTell
  PROVE  Spec => []AbandonedLabelsAreDead
<1>1. TruthInv => AbandonedLabelsAreDead
  BY DEF TruthInv, LoadInv, AllDead, AbandonedLabelsAreDead
<1> QED
  BY TruthInvInit, TruthInvNext, TypeCorrect, <1>1, PTL DEF Spec

LEMMA NothingLoaded == AllDead => ~Loaded
  BY DEF AllDead, Dead, Loaded

\* A step that changes neither a label nor the result is a stutter.
LEMMA OnceStutter ==
  ASSUME UNCHANGED <<labels, result>>
  PROVE  UNCHANGED Once!vars
  BY DEF Once!vars, Loaded, Report

\* The last label decides what is loaded, if the others are dead.
LEMMA LoadedIsLast ==
  ASSUME TypeOK, LoadInv, labels # <<>>
  PROVE  Loaded <=> labels[attempts] = "committed"
  BY LastLabel DEF Loaded, LoadInv, Dead

\* With one label more it is the new one.
LEMMA LoadedIsNew ==
  ASSUME TypeOK, LoadInv, pc = "send", NEW fate \in LabelStates,
         labels' = Append(labels, fate)
  PROVE  ~Loaded /\ (Loaded' <=> fate = "committed")
<1>1. labels \in Seq(LabelStates) /\ attempts \in Nat /\ AllDead
  BY DEF TypeOK, attempts, LoadInv
<1>2. /\ DOMAIN labels' = 1 .. attempts + 1
      /\ labels'[attempts + 1] = fate
      /\ \A i \in DOMAIN labels : labels'[i] = labels[i]
      /\ \A i \in DOMAIN labels' : i \in DOMAIN labels \/ i = attempts + 1
  BY <1>1, NewLabel
<1>3. attempts + 1 \in DOMAIN labels'
  BY <1>1, <1>2
<1> QED
  BY <1>1, <1>2, <1>3, NothingLoaded DEF Loaded, AllDead, Dead

LEMMA OnceNext ==
  ASSUME LabelsTell, TypeOK, TruthInv, [Next]_vars
  PROVE  [Once!Next]_Once!vars
<1>0. LoadInv
  BY DEF TruthInv
<1>1. ASSUME NEW d \in UploadDurations, SendOk(d) PROVE Once!LandAndReport
  <2>1. /\ pc = "send" /\ labels' = Append(labels, "committed") /\ "committed" \in LabelStates
        /\ result = "pending" /\ result' = "success"
    BY <1>1 DEF SendOk, Finish, TruthInv, LabelStates
  <2>2. ~Loaded /\ Loaded'
    BY <1>0, <2>1, LoadedIsNew
  <2> QED
    BY <2>1, <2>2 DEF Once!LandAndReport, Report
<1>2. ASSUME NEW d \in UploadDurations, NEW err \in SendErrors, NEW fate \in Fates(err),
             SendFails(d, err, fate)
      PROVE  [Once!Next]_Once!vars
  <2>1. pc = "send" /\ labels' = Append(labels, fate) /\ result = "pending"
    BY <1>2 DEF SendFails, TruthInv
  <2>2. fate \in LabelStates /\ (FailureAction(err) # "CheckLabel" => Dead(fate))
    BY NoLateFates DEF LabelsTell
  <2>3. Loaded = FALSE /\ Loaded' = (fate = "committed")
    BY <1>0, <2>1, <2>2, LoadedIsNew DEF Loaded
  <2>4. \/ FailureAction(err) = "Fail" /\ result' = "denied"
        \/ result' = result
    BY <1>2 DEF SendFails, Finish
  <2>5. CASE FailureAction(err) = "Fail" /\ result' = "denied"
    BY <2>1, <2>2, <2>3, <2>5 DEF Once!Next, Once!Report, Report, Dead
  <2>6. CASE result' = result
    <3>1. Report = "pending" /\ Report' = "pending"
      BY <2>1, <2>6 DEF Report
    <3> QED
      BY <2>3, <3>1 DEF Once!Next, Once!Land, Once!vars
  <2> QED
    BY <2>4, <2>5, <2>6
<1>3. ASSUME NEW d \in Durations, PollState(d) PROVE [Once!Next]_Once!vars
  <2>1. labels' = labels /\ pc = "poll" /\ labels # <<>> /\ result = "pending"
    BY <1>0, <1>3 DEF PollState, LoadInv, TruthInv
  <2>2. Loaded' = Loaded /\ (Loaded <=> labels[attempts] = "committed")
    BY <1>0, <2>1, LoadedIsLast DEF Loaded
  <2>3. \/ labels[attempts] = "committed" /\ result' = "success"
        \/ result' = "unsettled"
        \/ result' = result
    BY <1>3 DEF PollState, PollAgain, Finish
  <2> QED
    BY <2>1, <2>2, <2>3, OnceStutter DEF Once!Next, Once!Report, Report
<1>4. ASSUME NEW d \in Durations, NEW err \in PollErrors, PollFails(d, err)
      PROVE  [Once!Next]_Once!vars
  <2>1. labels' = labels /\ pc = "poll" /\ result = "pending"
    BY <1>4 DEF PollFails, TruthInv
  <2>2. result' = "unsettled" \/ result' = result
    BY <1>4 DEF PollFails, PollAgain, Finish
  <2>3. Loaded' = Loaded
    BY <2>1 DEF Loaded
  <2> QED
    BY <2>1, <2>2, <2>3, OnceStutter DEF Once!Next, Once!Report, Report
<1>5. CASE Retry
  <2>1. labels' = labels /\ ~Loaded /\ result = "pending"
    BY <1>5, NothingLoaded DEF Retry, TruthInv
  <2>2. result' \in {"gaveUp", "timeout"} \/ result' = result
    BY <1>5 DEF Retry, Finish
  <2>3. Loaded' = Loaded
    BY <2>1 DEF Loaded
  <2> QED
    BY <2>1, <2>2, <2>3, OnceStutter DEF Once!Next, Once!Report, Report
<1>6. CASE DorisStep
  <2>1. result' = result /\ Report' = Report
    BY <1>6 DEF DorisStep, Report
  <2>2. CASE Loaded' = Loaded
    BY <2>1, <2>2 DEF Once!vars
  <2>3. CASE Loaded' # Loaded
    <3>1. Loaded => Loaded'
      BY <1>6, DorisKeeps DEF Loaded
    <3>2. ~Loaded /\ Loaded'
      BY <2>3, <3>1 DEF Loaded
    <3>3. ~AllDead
      BY <1>6, <3>2, DorisKeeps DEF Loaded, AllDead, Dead
    <3>4. labels # <<>>
      BY <3>3 DEF AllDead
    <3>5. labels[attempts] # "committed"
      BY <1>0, <3>2, <3>4, LoadedIsLast
    <3>6. result \in {"pending", "unsettled"}
      BY <3>3, <3>5 DEF TruthInv, TypeOK, Results
    <3> QED
      BY <2>1, <3>2, <3>6 DEF Once!Next, Once!Land, Report
  <2> QED
    BY <2>2, <2>3
<1>7. CASE UNCHANGED vars
  BY <1>7, OnceStutter DEF vars
<1> QED
  BY <1>1, <1>2, <1>3, <1>4, <1>5, <1>6, <1>7 DEF Next, WorkerStep, Once!Next

\* The delivery implements UploadOnce: whatever the timeouts, the retries, the
\* replies and the order of everything, the rows land at most once, before a
\* success is reported and never after a failure that is final.
THEOREM ImplementsOnceAlways ==
  ASSUME LabelsTell
  PROVE  Spec => ImplementsOnce
<1>1. Init => Once!Init
  BY DEF Init, Once!Init, Loaded, Report
<1>2. TypeOK /\ TruthInv /\ [Next]_vars => [Once!Next]_Once!vars
  BY OnceNext
<1> QED
  BY <1>1, <1>2, TruthInvInit, TruthInvNext, TypeCorrect, PTL DEF Spec, ImplementsOnce, Once!Spec

=============================================================================

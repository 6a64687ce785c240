---------------------------- MODULE DeliveryBatch ----------------------------
(***************************************************************************)
(* How DeliveryBatch fills an upload body, record by record, and counts    *)
(* its bytes.  The queue and the batcher decide with the closed forms of   *)
(* module Batching before anything is added; this module shows that the    *)
(* count and the closed forms agree, and that both are the length of the   *)
(* body that is sent.                                                      *)
(***************************************************************************)
EXTENDS Batching

CONSTANTS Size,  \* Size[s]: the bytes of the records of submission s
          NoSub  \* no submission is being added

SumOf(sizes) == FoldLeft(LAMBDA n, size : n + size, 0, sizes)

ASSUME DeliveryBatchAssumption ==
    /\ NoSub \notin Subs
    /\ \A s \in Subs :
          /\ Size[s] \in Seq(Nat \ {0})
          /\ Count[s] = Len(Size[s])
          /\ Payload[s] = SumOf(Size[s])

VARIABLES items,    \* the sizes of the records in the batch
          byteSize, \* DeliveryBatch.byte_size
          adding,   \* the submission add_submission is adding
          next,     \* its next record
          whole     \* the batch as module Batching has it

vars == <<items, byteSize, adding, next, whole>>

TypeOK ==
    /\ items \in Seq(Nat)
    /\ byteSize \in Nat
    /\ adding \in Subs \cup {NoSub}
    /\ next \in Nat
    /\ whole \in Batch

Init ==
    /\ items = <<>> /\ byteSize = 0
    /\ adding = NoSub /\ next = 0
    /\ whole = NoBatch

\* Mutant: separators and brackets are not counted.
FitsPayload(s) ==
    IF whole = NoBatch THEN Payload[s] <= BatchBytes ELSE whole.bytes + Payload[s] <= BatchBytes

\* The batcher lets s in only if the closed forms say it fits
\* (send_batch_internal for the first, absorb for the others).
Fits(s) ==
    IF whole = NoBatch THEN StandaloneSize(s) <= BatchBytes
                       ELSE whole.bytes + AppendSize(s) <= BatchBytes

\* add_submission begins with the records of s ...
StartSubmission(s) ==
    /\ adding = NoSub /\ Fits(s)
    /\ adding' = s /\ next' = 1
    /\ UNCHANGED <<items, byteSize, whole>>

\* Mutant: no separators are counted.
AddNoSeparator ==
    /\ adding # NoSub /\ next <= Count[adding]
    /\ LET size == Size[adding][next] IN
       /\ byteSize' = size + (IF items = <<>> /\ Mode = "json" THEN 2 ELSE byteSize)
       /\ items' = Append(items, size)
    /\ next' = next + 1
    /\ UNCHANGED <<adding, whole>>

\* ... add() puts the next one into the batch ...
Add ==
    /\ adding # NoSub /\ next <= Count[adding]
    /\ LET size == Size[adding][next] IN
       /\ byteSize' = size + (IF items # <<>> THEN byteSize + 1
                              ELSE IF Mode = "csv" THEN byteSize ELSE 2)
       /\ items' = Append(items, size)
    /\ next' = next + 1
    /\ UNCHANGED <<adding, whole>>

\* ... and at last the submission joins the batch.
PushSubmission ==
    /\ adding # NoSub /\ next > Count[adding]
    /\ whole' = AddSubmission(whole, adding)
    /\ adding' = NoSub
    /\ UNCHANGED <<items, byteSize, next>>

Full == adding = NoSub /\ \A s \in Subs : ~Fits(s)

Next ==
    \/ \E s \in Subs : StartSubmission(s)
    \/ Add
    \/ PushSubmission
    \/ Full /\ UNCHANGED vars

Spec == Init /\ [][Next]_vars

\* encode_body: the records, the separators between them and the brackets.
BodyLength == SumOf(items) + (Len(items) - 1) + (IF Mode = "json" THEN 2 ELSE 0)

\* byte_size, on which batch_bytes is enforced, is the length of the body.
ByteSizeIsBodyLength == items # <<>> => byteSize = BodyLength

\* The sizes QueuedSubmission::new predicts, standalone for the first
\* submission and appended for the others, are what add() will count.
ClosedFormsAgree == adding = NoSub => byteSize = whole.bytes

\* So a body never outgrows batch_bytes, not even on the way.
NeverOutgrows == byteSize <= BatchBytes

=============================================================================

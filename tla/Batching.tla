------------------------------ MODULE Batching ------------------------------
(***************************************************************************)
(* The size arithmetic of the intake path.  A submission is a group of     *)
(* records sent by one call; its records are never split over two upload   *)
(* bodies.  QueuedSubmission::new computes what the submission adds to a   *)
(* body of its own and to a body that is not empty; the queue and the      *)
(* batcher decide with these two numbers, while DeliveryBatch counts the   *)
(* bytes record by record (see module DeliveryBatch).                      *)
(***************************************************************************)
EXTENDS Integers, Sequences, SequencesExt

CONSTANTS Subs,        \* the submissions
          Mode,        \* body format: "csv" or "json"
          Count,       \* Count[s]: number of records of s
          Payload,     \* Payload[s]: bytes of the records of s together
          BatchBytes   \* Config::batch_bytes after with_defaults: never 0

ASSUME BatchingAssumption ==
    /\ Mode \in {"csv", "json"}
    /\ Count \in [Subs -> Nat \ {0}]
    /\ Payload \in [Subs -> Nat \ {0}]
    /\ BatchBytes \in Nat \ {0}

\* Mutant: the brackets of a JSON body are not counted.
StandaloneSizeNoBrackets(s) == Payload[s] + (Count[s] - 1)

\* QueuedSubmission::new: the size of a body that holds s alone ...
StandaloneSize(s) ==
    IF Mode = "csv" THEN Payload[s] + (Count[s] - 1) ELSE Payload[s] + Count[s] + 1

\* Mutant: one separator short.
AppendSizeShort(s) == Payload[s] + (Count[s] - 1)

\* ... and what s adds to a body that holds something: a separator per record.
AppendSize(s) == Payload[s] + Count[s]

\* DeliveryBatch: the submissions of one upload body and its byte_size.
Batch == [subs : Seq(Subs), bytes : Nat]
NoBatch == [subs |-> <<>>, bytes |-> 0]

\* DeliveryBatch::add_submission, its loop over add() summed up.
AddSubmission(b, s) ==
    [subs  |-> Append(b.subs, s),
     bytes |-> IF b.subs = <<>> THEN StandaloneSize(s) ELSE b.bytes + AppendSize(s)]

Total(w, subs) == FoldLeft(LAMBDA n, s : n + w[s], 0, subs)

\* DeliveryBatch::encode_body: the length of the body, every record with its
\* separator and, for JSON, the brackets.
EncodedSize(subs) ==
    Total(Payload, subs) + (Total(Count, subs) - 1) + (IF Mode = "json" THEN 2 ELSE 0)

=============================================================================

------------------------ MODULE DeliveryBatch_proofs ------------------------
(* For bodies of any mode, size and number of submissions: the byte count  *)
(* of DeliveryBatch agrees with the closed forms of module Batching.       *)
EXTENDS DeliveryBatch, Sums_proofs

-----------------------------------------------------------------------------
(* The sizes of the first records of a submission, added up.               *)

\* The sum is one in which each number counts for itself.
LEMMA SumIsWeight ==
  ASSUME NEW seq \in Seq(Nat), NEW w, w = [n \in Nat |-> n]
  PROVE  SumOf(seq) = Weight(w, seq)
<1> DEFINE D == DOMAIN seq
           Plain(h) == [s \in SUBSET D |-> IF s = {} THEN 0 ELSE h[s \ {Max(s)}] + seq[Max(s)]]
           Weighed(h) == [s \in SUBSET D |-> IF s = {} THEN 0 ELSE h[s \ {Max(s)}] + w[seq[Max(s)]]]
<1>1. ASSUME NEW s \in SUBSET D, s # {} PROVE seq[Max(s)] = w[seq[Max(s)]]
  <2>1. Max(s) \in s
    BY <1>1, MaxOfDomain
  <2>2. seq[Max(s)] \in Nat
    BY <2>1, LenProperties
  <2> QED
    BY <2>2
<1>2. \A h : Plain(h) = Weighed(h)
  BY <1>1
<1>3. SumOf(seq) = (CHOOSE h : h = Plain(h))[D]
  BY DEF SumOf, FoldLeft, MapThenFoldSet
<1>4. Weight(w, seq) = (CHOOSE h : h = Weighed(h))[D]
  BY DEF Weight, FoldLeft, MapThenFoldSet
<1> HIDE DEF Plain, Weighed
<1> QED
  BY <1>2, <1>3, <1>4

LEMMA SumOfOneMore ==
  /\ SumOf(<<>>) = 0
  /\ \A seq \in Seq(Nat), n \in Nat :
        SumOf(seq) \in Nat /\ SumOf(Append(seq, n)) = SumOf(seq) + n
<1> DEFINE w == [n \in Nat |-> n]
<1>1. w \in [Nat -> Nat] /\ \A n \in Nat : w[n] = n
  OBVIOUS
<1>2. \A seq \in Seq(Nat) : SumOf(seq) = Weight(w, seq)
  BY SumIsWeight
<1> HIDE DEF w
<1>3. SumOf(<<>>) = 0
  <2>1. <<>> \in Seq(Nat)
    OBVIOUS
  <2> QED
    BY <1>2, <2>1, WeightOfNone
<1>4. ASSUME NEW seq \in Seq(Nat), NEW n \in Nat
      PROVE  SumOf(seq) \in Nat /\ SumOf(Append(seq, n)) = SumOf(seq) + n
  <2>1. Append(seq, n) \in Seq(Nat)
    BY AppendProperties
  <2>2. Weight(w, Append(seq, n))
          = Weight(w, seq) + w[n]
    BY <1>1, WeightOfOneMore
  <2>3. Weight(w, seq) \in Nat
    BY <1>1, WeightType
  <2> QED
    BY <1>1, <1>2, <2>1, <2>2, <2>3
<1> QED
  BY <1>3, <1>4

PrefixSum(s, k) == SumOf(SubSeq(Size[s], 1, k))

LEMMA PrefixSums ==
  ASSUME NEW s \in Subs
  PROVE  /\ PrefixSum(s, 0) = 0
         /\ \A i \in 1 .. Count[s] : /\ Size[s][i] \in Nat
                                     /\ PrefixSum(s, i) = PrefixSum(s, i - 1) + Size[s][i]
         /\ \A i \in 0 .. Count[s] : PrefixSum(s, i) \in 0 .. Payload[s]
         /\ Payload[s] = PrefixSum(s, Count[s])
<1> DEFINE sizes == Size[s]
           n == Count[s]
           First(k) == SubSeq(sizes, 1, k)
<1>1. sizes \in Seq(Nat) /\ n = Len(sizes) /\ n \in Nat
  <2>1. sizes \in Seq(Nat \ {0}) /\ n = Len(sizes)
    BY DeliveryBatchAssumption
  <2> QED
    BY <2>1, SeqMonotonic, LenProperties
<1>2. PrefixSum(s, 0) = 0
  <2>1. First(0) = <<>>
    BY SubSeqEmpty
  <2> QED
    BY <2>1, SumOfOneMore DEF PrefixSum
<1>3. ASSUME NEW i \in 0 .. n PROVE First(i) \in Seq(Nat) /\ PrefixSum(s, i) \in Nat
  <2>1. First(i) \in Seq(Nat)
    BY <1>1, ElementOfSeq, SubSeqProperties
  <2> QED
    BY <2>1, SumOfOneMore DEF PrefixSum
<1>4. ASSUME NEW i \in 1 .. n
      PROVE  sizes[i] \in Nat /\ PrefixSum(s, i) = PrefixSum(s, i - 1) + sizes[i]
  <2>1. sizes[i] \in Nat
    BY <1>1, ElementOfSeq
  <2>2. First(i) = First(i - 1) \o <<sizes[i]>>
    BY <1>1, SubSeqRecursiveSecond
  <2>3. First(i - 1) \in Seq(Nat)
    BY <1>1, <1>3
  <2>4. First(i) = Append(First(i - 1), sizes[i])
    BY <2>1, <2>2, <2>3, AppendIsConcat
  <2> QED
    BY <2>1, <2>3, <2>4, SumOfOneMore DEF PrefixSum
<1>5. Payload[s] = PrefixSum(s, n)
  <2>1. First(n) = sizes
    BY <1>1, SubSeqFull
  <2> QED
    BY <2>1, DeliveryBatchAssumption DEF PrefixSum
<1> HIDE DEF sizes, n, First
<1>6. ASSUME NEW i \in 0 .. n PROVE PrefixSum(s, i) <= PrefixSum(s, n)
  <2> DEFINE Above(j) == PrefixSum(s, j) > PrefixSum(s, n)
             Bad == {j \in 0 .. n : Above(j)}
  <2>1. SUFFICES ASSUME Above(i) PROVE FALSE
    <3>1. PrefixSum(s, i) \in Nat /\ PrefixSum(s, n) \in Nat
      BY <1>1, <1>3
    <3> QED
      BY <2>1, <3>1
  <2>2. PICK j \in Bad : \A k \in Bad : k <= j
    BY <1>1, <2>1, GreatestNumber
  <2>3. j \in 0 .. n /\ j # n /\ Above(j)
    <3>1. PrefixSum(s, n) \in Nat
      BY <1>1, <1>3
    <3> QED
      BY <2>2, <3>1
  <2>4. j \in Nat /\ j + 1 \in 1 .. n /\ j + 1 \in 0 .. n /\ (j + 1) - 1 = j
    <3>1. n \in Nat
      BY <1>1
    <3> QED
      BY <2>3, <3>1
  <2>5. PrefixSum(s, j + 1) = PrefixSum(s, j) + sizes[j + 1] /\ sizes[j + 1] \in Nat
    BY <1>4, <2>4
  <2>6. Above(j + 1)
    <3>1. PrefixSum(s, j) \in Nat /\ PrefixSum(s, n) \in Nat
      BY <1>1, <1>3, <2>3
    <3> QED
      BY <2>3, <2>5, <3>1
  <2>7. j + 1 <= j
    BY <2>2, <2>4, <2>6
  <2> QED
    BY <2>4, <2>7
<1> QED
  BY <1>1, <1>2, <1>3, <1>4, <1>5, <1>6 DEF n, sizes

-----------------------------------------------------------------------------
(* The count.                                                              *)

\* What add() has counted after the first k records of s, when the batch it
\* adds to is b.
Counted(b, s, k) ==
    IF k = 0 THEN b.bytes
    ELSE IF b.subs = <<>> THEN PrefixSum(s, k) + (k - 1) + (IF Mode = "json" THEN 2 ELSE 0)
    ELSE PrefixSum(s, k) + k + b.bytes

\* Between two submissions the counts agree; within one, add() is exactly the
\* records it has added ahead.
IInv ==
    /\ TypeOK
    /\ whole.subs = <<>> => whole.bytes = 0
    /\ adding = NoSub => /\ byteSize = whole.bytes
                         /\ items = <<>> <=> whole.subs = <<>>
    /\ adding # NoSub => /\ next \in 1 .. Count[adding] + 1
                         /\ byteSize = Counted(whole, adding, next - 1)
                         /\ items = <<>> <=> (whole.subs = <<>> /\ next = 1)

\* The type invariant and the strengthening hold at first ...
LEMMA InitIInv == Init => IInv
  BY DEF Init, IInv, TypeOK, NoBatch, Batch

\* ... a submission that is started has nothing added yet ...
LEMMA StartIInv ==
  ASSUME IInv, NEW s \in Subs, StartSubmission(s)
  PROVE  IInv'
<1>1. Count[s] \in Nat \ {0}
  BY BatchingAssumption
<1>2. s # NoSub
  BY DeliveryBatchAssumption
<1>3. TypeOK'
  BY DEF IInv, TypeOK, StartSubmission
<1>4. Counted(whole', s, next' - 1) = whole.bytes
  BY DEF Counted, StartSubmission
<1> QED
  BY <1>1, <1>2, <1>3, <1>4 DEF IInv, TypeOK, StartSubmission

\* ... a record that is added moves the count on by one record ...
LEMMA AddIInv ==
  ASSUME IInv, Add
  PROVE  IInv'
<1> DEFINE s == adding
           k == next - 1
           size == Size[s][next]
<1>1. /\ s \in Subs /\ next \in 1 .. Count[s] /\ k \in Nat
      /\ Count[s] \in Nat /\ Mode \in {"csv", "json"}
      /\ items \in Seq(Nat) /\ byteSize \in Nat /\ whole \in Batch
  BY BatchingAssumption DEF IInv, TypeOK, Add
<1>2. /\ size \in Nat
      /\ PrefixSum(s, 0) = 0
      /\ PrefixSum(s, k) \in Nat
      /\ PrefixSum(s, next) = PrefixSum(s, k) + size
  BY <1>1, PrefixSums
<1>3. items' = Append(items, size) /\ items' \in Seq(Nat) /\ items' # <<>>
  BY <1>1, <1>2 DEF Add
<1>4. byteSize' = size + (IF items # <<>> THEN byteSize + 1
                          ELSE IF Mode = "csv" THEN byteSize ELSE 2)
  BY DEF Add
<1>5. byteSize' \in Nat
  BY <1>1, <1>2, <1>4
<1>6. /\ adding' = s /\ next' = next + 1 /\ whole' = whole
  BY DEF Add
<1>7. /\ byteSize = Counted(whole, s, k)
      /\ items = <<>> <=> (whole.subs = <<>> /\ next = 1)
      /\ whole.subs = <<>> => whole.bytes = 0
  BY <1>1 DEF IInv, Add
<1>8. byteSize' = Counted(whole, s, next)
  <2>1. next = k + 1 /\ whole.bytes \in Nat
    BY <1>1 DEF Batch
  <2> HIDE DEF k, size, s
  <2>2. CASE k = 0 /\ whole.subs = <<>>
    <3>1. byteSize = 0 /\ items = <<>>
      BY <1>7, <2>1, <2>2 DEF Counted
    <3>2. byteSize' = (IF Mode = "json" THEN 2 ELSE 0) + size
      BY <1>1, <1>2, <1>4, <3>1
    <3>3. Counted(whole, s, next) = PrefixSum(s, 1) + (1 - 1) + (IF Mode = "json" THEN 2 ELSE 0)
      BY <2>1, <2>2 DEF Counted
    <3> QED
      BY <1>2, <2>1, <2>2, <3>2, <3>3
  <2>3. CASE k = 0 /\ whole.subs # <<>>
    <3>1. byteSize = whole.bytes /\ items # <<>>
      BY <1>7, <2>1, <2>3 DEF Counted
    <3>2. Counted(whole, s, next) = PrefixSum(s, 1) + 1 + whole.bytes
      BY <2>1, <2>3 DEF Counted
    <3>3. PrefixSum(s, 1) = size
      BY <1>2, <2>1, <2>3
    <3>4. byteSize' = size + (byteSize + 1)
      BY <1>4, <3>1
    <3> QED
      BY <1>2, <2>1, <3>1, <3>2, <3>3, <3>4
  <2>4. CASE k # 0
    <3>1. items # <<>> /\ k > 0 /\ next > 0
      BY <1>1, <1>7, <2>1, <2>4
    <3>2. byteSize' = size + (byteSize + 1)
      BY <1>4, <3>1
    <3>3. /\ PrefixSum(s, next) = PrefixSum(s, k) + size
          /\ PrefixSum(s, k) \in Nat /\ size \in Nat /\ k \in Nat
      BY <1>1, <1>2
    <3>4. CASE whole.subs = <<>>
      <4> DEFINE brackets == IF Mode = "json" THEN 2 ELSE 0
      <4>1. byteSize = PrefixSum(s, k) + (k - 1) + brackets
        BY <1>7, <2>4, <3>4 DEF Counted
      <4>2. Counted(whole, s, next) = PrefixSum(s, next) + (next - 1) + brackets
        BY <3>1, <3>4 DEF Counted
      <4>3. brackets \in Nat
        OBVIOUS
      <4> HIDE DEF brackets
      <4> QED
        BY <2>1, <3>2, <3>3, <4>1, <4>2, <4>3
    <3>5. CASE whole.subs # <<>>
      <4>1. byteSize = PrefixSum(s, k) + k + whole.bytes
        BY <1>7, <2>4, <3>5 DEF Counted
      <4>2. Counted(whole, s, next) = PrefixSum(s, next) + next + whole.bytes
        BY <3>1, <3>5 DEF Counted
      <4> QED
        BY <2>1, <3>2, <3>3, <4>1, <4>2
    <3> QED
      BY <3>4, <3>5
  <2> QED
    BY <2>2, <2>3, <2>4
<1>9. TypeOK'
  BY <1>1, <1>3, <1>5, <1>6 DEF TypeOK
<1> QED
  BY <1>1, <1>3, <1>6, <1>7, <1>8, <1>9, DeliveryBatchAssumption DEF IInv

\* ... and once all of them are, the count is what the closed form predicts.
LEMMA PushIInv ==
  ASSUME IInv, PushSubmission
  PROVE  IInv'
<1> DEFINE s == adding
           n == Count[s]
<1>1. /\ s \in Subs /\ n \in Nat \ {0} /\ next = n + 1
      /\ Mode \in {"csv", "json"} /\ whole \in Batch /\ byteSize \in Nat
      /\ items \in Seq(Nat)
  BY BatchingAssumption DEF IInv, TypeOK, PushSubmission
<1>2. /\ byteSize = Counted(whole, s, n)
      /\ items # <<>>
  <2>1. adding # NoSub
    BY DEF PushSubmission
  <2>2. next - 1 = n /\ next # 1
    BY <1>1
  <2>3. byteSize = Counted(whole, s, next - 1)
    BY <2>1 DEF IInv
  <2>4. items = <<>> => next = 1
    BY <2>1 DEF IInv
  <2> QED
    BY <2>2, <2>3, <2>4
<1>3. Payload[s] = PrefixSum(s, n) /\ Payload[s] \in Nat
  BY <1>1, PrefixSums, BatchingAssumption
<1>4. whole' = AddSubmission(whole, s)
  BY DEF PushSubmission
<1>5. /\ whole'.subs = Append(whole.subs, s)
      /\ whole'.subs # <<>>
      /\ whole'.subs \in Seq(Subs)
  <2>1. whole.subs \in Seq(Subs)
    BY <1>1 DEF Batch
  <2>2. whole'.subs = Append(whole.subs, s)
    BY <1>4 DEF AddSubmission
  <2> QED
    BY <1>1, <2>1, <2>2, AppendProperties
<1>6. whole'.bytes = IF whole.subs = <<>> THEN StandaloneSize(s)
                                          ELSE whole.bytes + AppendSize(s)
  BY <1>4 DEF AddSubmission
<1>7. byteSize = whole'.bytes
  <2> HIDE DEF s
  <2>1. CASE whole.subs = <<>>
    <3>1. byteSize = Payload[s] + (n - 1) + (IF Mode = "json" THEN 2 ELSE 0)
      BY <1>1, <1>2, <1>3, <2>1 DEF Counted
    <3>2. whole'.bytes = StandaloneSize(s)
      BY <1>6, <2>1
    <3>3. CASE Mode = "csv"
      <4>1. byteSize = Payload[s] + (n - 1) + 0
        BY <3>1, <3>3
      <4>2. StandaloneSize(s) = Payload[s] + (n - 1)
        BY <3>3 DEF StandaloneSize
      <4> QED
        BY <1>1, <1>3, <3>2, <4>1, <4>2
    <3>4. CASE Mode = "json"
      <4>1. byteSize = Payload[s] + (n - 1) + 2
        BY <3>1, <3>4
      <4>2. StandaloneSize(s) = Payload[s] + n + 1
        BY <3>4 DEF StandaloneSize
      <4> QED
        BY <1>1, <1>3, <3>2, <4>1, <4>2
    <3> QED
      BY <1>1, <3>3, <3>4
  <2>2. CASE whole.subs # <<>>
    <3>1. byteSize = Payload[s] + n + whole.bytes
      BY <1>1, <1>2, <1>3, <2>2 DEF Counted
    <3>2. whole'.bytes = whole.bytes + (Payload[s] + n)
      BY <1>6, <2>2 DEF AppendSize
    <3> QED
      BY <1>1, <1>3, <3>1, <3>2 DEF Batch
  <2> QED
    BY <2>1, <2>2
<1>8. whole' \in Batch
  <2>1. whole' = [subs |-> whole'.subs, bytes |-> whole'.bytes]
    BY <1>4 DEF AddSubmission
  <2> QED
    BY <1>1, <1>5, <1>7, <2>1 DEF Batch
<1>9. byteSize' = byteSize /\ items' = items /\ adding' = NoSub /\ next' = next
  BY DEF PushSubmission
<1>10. TypeOK'
  BY <1>1, <1>8, <1>9 DEF TypeOK
<1> QED
  BY <1>2, <1>5, <1>7, <1>9, <1>10 DEF IInv

LEMMA NextIInv == IInv /\ [Next]_vars => IInv'
<1> SUFFICES ASSUME IInv, [Next]_vars PROVE IInv'
  OBVIOUS
<1>1. CASE \E s \in Subs : StartSubmission(s)
  BY <1>1, StartIInv
<1>2. CASE Add
  BY <1>2, AddIInv
<1>3. CASE PushSubmission
  BY <1>3, PushIInv
<1>4. CASE UNCHANGED vars
  BY <1>4 DEF vars, IInv, TypeOK, Counted
<1> QED
  BY <1>1, <1>2, <1>3, <1>4 DEF Next

\* The sizes on which enqueue, collect_batch and absorb decide are the bytes
\* add() counts, for every batch that is ever filled.
THEOREM ClosedFormsAgreeAlways == Spec => []ClosedFormsAgree
<1>1. IInv => ClosedFormsAgree
  BY DEF IInv, ClosedFormsAgree
<1> QED
  BY InitIInv, NextIInv, <1>1, PTL DEF Spec

-----------------------------------------------------------------------------
(* The body.                                                               *)

\* What add() has counted is the length of what it has put into the body.
LengthInv == IInv /\ ByteSizeIsBodyLength

LEMMA AddLength ==
  ASSUME LengthInv, Add, IInv'
  PROVE  byteSize' = BodyLength'
<1> DEFINE size == Size[adding][next]
           brackets == IF Mode = "json" THEN 2 ELSE 0
<1>1. /\ adding \in Subs /\ next \in 1 .. Count[adding] /\ Mode \in {"csv", "json"}
      /\ items \in Seq(Nat) /\ byteSize \in Nat /\ size \in Nat
      /\ items' = Append(items, size)
      /\ byteSize' = size + (IF items # <<>> THEN byteSize + 1
                             ELSE IF Mode = "csv" THEN byteSize ELSE 2)
  BY BatchingAssumption, PrefixSums DEF LengthInv, IInv, TypeOK, Add
<1>2. SumOf(items) \in Nat /\ SumOf(items') = SumOf(items) + size
  BY <1>1, SumOfOneMore
<1>3. Len(items) \in Nat /\ Len(items') = Len(items) + 1
  BY <1>1, AppendProperties, LenProperties
<1>4. BodyLength' = SumOf(items') + (Len(items') - 1) + brackets /\ brackets \in Nat
  BY <1>1 DEF BodyLength
<1> HIDE DEF size, brackets
<1>5. CASE items # <<>>
  <2>1. byteSize = SumOf(items) + (Len(items) - 1) + brackets
    BY <1>5 DEF LengthInv, ByteSizeIsBodyLength, BodyLength, brackets
  <2> QED
    BY <1>1, <1>2, <1>3, <1>4, <1>5, <2>1
<1>6. CASE items = <<>>
  <2>1. SumOf(items) = 0 /\ Len(items) = 0
    BY <1>6, SumOfOneMore
  <2>2. byteSize = 0
    <3>1. whole.subs = <<>> /\ next = 1 /\ whole.bytes = 0
      BY <1>1, <1>6, DeliveryBatchAssumption DEF LengthInv, IInv
    <3>2. byteSize = Counted(whole, adding, 0)
      BY <1>1, <3>1, DeliveryBatchAssumption DEF LengthInv, IInv
    <3> QED
      BY <3>1, <3>2 DEF Counted
  <2> QED
    BY <1>1, <1>2, <1>3, <1>4, <1>6, <2>1, <2>2 DEF brackets
<1> QED
  BY <1>5, <1>6

\* The bytes DeliveryBatch counts are the bytes encode_body writes, with the
\* separators and the brackets, after every record and in both modes.
THEOREM ByteSizeIsBodyLengthAlways == Spec => []ByteSizeIsBodyLength
<1>1. Init => LengthInv
  BY InitIInv DEF Init, LengthInv, ByteSizeIsBodyLength
<1>2. LengthInv /\ [Next]_vars => LengthInv'
  <2> SUFFICES ASSUME LengthInv, [Next]_vars PROVE LengthInv'
    OBVIOUS
  <2>1. IInv'
    BY NextIInv DEF LengthInv
  <2>2. CASE Add
    BY <2>1, <2>2, AddLength DEF LengthInv, ByteSizeIsBodyLength
  <2>3. CASE UNCHANGED <<items, byteSize>>
    BY <2>1, <2>3 DEF LengthInv, ByteSizeIsBodyLength, BodyLength
  <2> QED
    BY <2>2, <2>3 DEF Next, StartSubmission, PushSubmission, vars
<1>3. LengthInv => ByteSizeIsBodyLength
  BY DEF LengthInv
<1> QED
  BY <1>1, <1>2, <1>3, PTL DEF Spec

-----------------------------------------------------------------------------
(* The limit.                                                              *)

\* A submission that fits as a whole fits after each of its records.
LEMMA CountedFits ==
  ASSUME IInv, NEW s \in Subs, Fits(s), NEW k \in 0 .. Count[s]
  PROVE  Counted(whole, s, k) <= BatchBytes
<1> DEFINE n == Count[s]
           sum == PrefixSum(s, k)
           bytes == whole.bytes
<1>1. /\ n \in Nat \ {0} /\ k \in Nat /\ k <= n /\ BatchBytes \in Nat
      /\ Mode \in {"csv", "json"} /\ Payload[s] \in Nat
      /\ sum \in Nat /\ sum <= Payload[s]
  BY BatchingAssumption, PrefixSums
<1>2. whole \in Batch /\ bytes \in Nat /\ (whole.subs = <<>> => bytes = 0)
  BY DEF IInv, TypeOK, Batch
<1>3. CASE whole.subs = <<>>
  <2>1. whole = NoBatch
    BY <1>2, <1>3 DEF Batch, NoBatch
  <2>2. StandaloneSize(s) <= BatchBytes
    BY <2>1 DEF Fits
  <2>3. CASE Mode = "csv"
    <3>1. Payload[s] + (n - 1) <= BatchBytes
      BY <2>2, <2>3 DEF StandaloneSize
    <3>2. Counted(whole, s, k) = IF k = 0 THEN bytes ELSE sum + (k - 1) + 0
      BY <1>3, <2>3 DEF Counted
    <3> HIDE DEF n, sum, bytes
    <3> QED
      BY <1>1, <1>2, <1>3, <3>1, <3>2
  <2>4. CASE Mode = "json"
    <3>1. Payload[s] + n + 1 <= BatchBytes
      BY <2>2, <2>4 DEF StandaloneSize
    <3>2. Counted(whole, s, k) = IF k = 0 THEN bytes ELSE sum + (k - 1) + 2
      BY <1>3, <2>4 DEF Counted
    <3> HIDE DEF n, sum, bytes
    <3> QED
      BY <1>1, <1>2, <1>3, <3>1, <3>2
  <2> QED
    BY <1>1, <2>3, <2>4
<1>4. CASE whole.subs # <<>>
  <2>1. whole # NoBatch
    BY <1>4 DEF NoBatch
  <2>2. bytes + (Payload[s] + n) <= BatchBytes
    BY <2>1 DEF Fits, AppendSize
  <2>3. Counted(whole, s, k) = IF k = 0 THEN bytes ELSE sum + k + bytes
    BY <1>4 DEF Counted
  <2> HIDE DEF n, sum, bytes
  <2> QED
    BY <1>1, <1>2, <2>2, <2>3
<1> QED
  BY <1>3, <1>4

\* A submission that is being added fitted when it was started.
FitInv ==
    /\ IInv
    /\ adding # NoSub => Fits(adding)
    /\ NeverOutgrows

\* No body is ever larger than batch_bytes, not while it is filled and whatever
\* the number and the sizes of the records, because only what fits by the
\* closed forms is let in.
THEOREM NeverOutgrowsAlways == Spec => []NeverOutgrows
<1>1. Init => FitInv
  BY InitIInv, BatchingAssumption DEF Init, FitInv, NeverOutgrows
<1>2. FitInv /\ [Next]_vars => FitInv'
  <2> SUFFICES ASSUME FitInv, [Next]_vars PROVE FitInv'
    OBVIOUS
  <2>1. IInv /\ IInv'
    BY NextIInv DEF FitInv
  <2>2. ASSUME NEW s \in Subs, StartSubmission(s) PROVE FitInv'
    <3>1. Fits(s) /\ adding' = s /\ byteSize' = byteSize /\ whole' = whole
      BY <2>2 DEF StartSubmission
    <3> QED
      BY <2>1, <3>1 DEF FitInv, Fits, NeverOutgrows
  <2>3. CASE Add
    <3>1. /\ adding' = adding /\ adding \in Subs /\ adding # NoSub
          /\ whole' = whole /\ next' = next + 1 /\ next \in 1 .. Count[adding]
          /\ Count[adding] \in Nat
      BY <2>1, <2>3, BatchingAssumption DEF Add, IInv, TypeOK
    <3>2. Fits(adding)
      BY <3>1 DEF FitInv
    <3>3. byteSize' = Counted(whole, adding, next)
      <4>1. byteSize' = Counted(whole', adding', next' - 1)
        BY <2>1, <3>1 DEF IInv
      <4>2. next' - 1 = next
        BY <3>1
      <4> QED
        BY <3>1, <4>1, <4>2
    <3>4. byteSize' <= BatchBytes
      BY <2>1, <3>1, <3>2, <3>3, CountedFits
    <3> QED
      BY <2>1, <3>1, <3>2, <3>4 DEF FitInv, Fits, NeverOutgrows
  <2>4. CASE PushSubmission
    BY <2>1, <2>4 DEF PushSubmission, FitInv, NeverOutgrows
  <2>5. CASE UNCHANGED vars
    BY <2>1, <2>5 DEF vars, FitInv, Fits, NeverOutgrows
  <2> QED
    BY <2>2, <2>3, <2>4, <2>5 DEF Next
<1>3. FitInv => NeverOutgrows
  BY DEF FitInv
<1> QED
  BY <1>1, <1>2, <1>3, PTL DEF Spec

=============================================================================

-------------------------- MODULE Batching_proofs ---------------------------
(***************************************************************************)
(* Lemmas for both clients: the sizes of submissions and batches, and the  *)
(* sequences that submissions move through.                                *)
(***************************************************************************)
EXTENDS Batching, Sums_proofs

LEMMA SizesType ==
  ASSUME NEW s \in Subs
  PROVE  /\ StandaloneSize(s) \in Nat \ {0} /\ AppendSize(s) \in Nat \ {0}
         /\ BatchBytes \in Nat \ {0}
<1>1. /\ Count[s] \in Nat \ {0} /\ Payload[s] \in Nat \ {0} /\ BatchBytes \in Nat \ {0}
  BY BatchingAssumption
<1>2. AppendSize(s) = Payload[s] + Count[s]
  BY DEF AppendSize
<1>3. \/ StandaloneSize(s) = Payload[s] + (Count[s] - 1)
      \/ StandaloneSize(s) = Payload[s] + Count[s] + 1
  BY DEF StandaloneSize
<1> QED
  BY <1>1, <1>2, <1>3

LEMMA BatchTypes ==
  /\ NoBatch \in Batch
  /\ \A b \in Batch, s \in Subs : AddSubmission(b, s) \in Batch
<1>1. NoBatch \in Batch
  BY DEF NoBatch, Batch
<1>2. ASSUME NEW b \in Batch, NEW s \in Subs PROVE AddSubmission(b, s) \in Batch
  <2>1. b.subs \in Seq(Subs) /\ b.bytes \in Nat
    BY DEF Batch
  <2>2. Append(b.subs, s) \in Seq(Subs)
    BY <2>1, AppendProperties
  <2>3. (IF b.subs = <<>> THEN StandaloneSize(s) ELSE b.bytes + AppendSize(s)) \in Nat
    BY <2>1, SizesType
  <2> QED
    BY <2>2, <2>3 DEF AddSubmission, Batch
<1> QED
  BY <1>1, <1>2

\* What passes the size check of a send.
Fitting == {s \in Subs : StandaloneSize(s) <= BatchBytes}

\* What submissions add up to, one more at a time.
LEMMA TotalOfOneMore ==
  ASSUME NEW w \in [Subs -> Nat]
  PROVE  /\ Total(w, <<>>) = 0
         /\ \A subs \in Seq(Subs), s \in Subs :
               /\ Total(w, subs) \in Nat
               /\ Total(w, Append(subs, s)) = Total(w, subs) + w[s]
<1>1. \A subs : Total(w, subs) = Weight(w, subs)
  BY DEF Total, Weight, FoldLeft, MapThenFoldSet
<1>2. Total(w, <<>>) = 0
  BY <1>1, WeightOfNone
<1>3. ASSUME NEW subs \in Seq(Subs), NEW s \in Subs
      PROVE  /\ Total(w, subs) \in Nat
             /\ Total(w, Append(subs, s)) = Total(w, subs) + w[s]
  <2>1. Weight(w, subs) \in Nat
    BY WeightType
  <2>2. Weight(w, Append(subs, s)) = Weight(w, subs) + w[s]
    BY WeightOfOneMore
  <2> QED
    BY <1>1, <2>1, <2>2
<1> QED
  BY <1>2, <1>3

\* The byte_size of b is the length of its body.
Exact(b) == b = NoBatch \/ b.bytes = EncodedSize(b.subs)

LEMMA AddExact ==
  ASSUME NEW b \in Batch, NEW s \in Subs, Exact(b), b.subs = <<>> => b = NoBatch
  PROVE  Exact(AddSubmission(b, s))
<1> DEFINE added == AddSubmission(b, s)
           bytes == Total(Payload, b.subs)
           records == Total(Count, b.subs)
           brackets == IF Mode = "json" THEN 2 ELSE 0
<1>1. /\ Count \in [Subs -> Nat] /\ Payload \in [Subs -> Nat] /\ Mode \in {"csv", "json"}
      /\ Count[s] \in Nat /\ Payload[s] \in Nat /\ b.subs \in Seq(Subs) /\ b.bytes \in Nat
  BY BatchingAssumption DEF Batch
<1>2. added.subs = Append(b.subs, s)
  BY DEF AddSubmission
<1>3. /\ bytes \in Nat /\ Total(Payload, added.subs) = bytes + Payload[s]
      /\ records \in Nat /\ Total(Count, added.subs) = records + Count[s]
  BY <1>1, <1>2, TotalOfOneMore
<1>4. EncodedSize(added.subs) = (bytes + Payload[s]) + ((records + Count[s]) - 1) + brackets
  BY <1>3 DEF EncodedSize
<1>5. brackets \in Nat /\ EncodedSize(b.subs) = bytes + (records - 1) + brackets
  BY DEF EncodedSize
<1>6. CASE b.subs = <<>>
  <2>1. bytes = 0 /\ records = 0
    BY <1>1, <1>6, TotalOfOneMore
  <2>2. added.bytes = StandaloneSize(s)
    BY <1>6 DEF AddSubmission
  <2>3. StandaloneSize(s) = Payload[s] + (Count[s] - 1) + brackets
    BY <1>1 DEF StandaloneSize
  <2> HIDE DEF bytes, records, brackets, added
  <2> QED
    BY <1>1, <1>4, <1>5, <2>1, <2>2, <2>3 DEF Exact, added
<1>7. CASE b.subs # <<>>
  <2>1. b.bytes = bytes + (records - 1) + brackets
    BY <1>5, <1>7 DEF Exact, NoBatch
  <2>2. added.bytes = b.bytes + (Payload[s] + Count[s])
    BY <1>7 DEF AddSubmission, AppendSize
  <2> HIDE DEF bytes, records, brackets, added
  <2> QED
    BY <1>1, <1>3, <1>4, <1>5, <2>1, <2>2 DEF Exact, added
<1> QED
  BY <1>6, <1>7

\* What may be uploaded: no more than the limit, and as long as it is counted.
Uploadable == {b \in Batch : b.bytes <= BatchBytes /\ Exact(b)}

LEMMA NoBatchUploadable == NoBatch \in Uploadable /\ NoBatch.bytes = 0 /\ NoBatch.subs = <<>>
<1>1. BatchBytes >= 0
  BY BatchingAssumption
<1> QED
  BY <1>1, BatchTypes DEF Uploadable, NoBatch, Exact

-----------------------------------------------------------------------------
(* Channels.                                                               *)

\* The channels are sequences that are taken from at the head.
LEMMA TakingOne ==
  ASSUME NEW S, NEW q \in Seq(S), q # <<>>, NEW max \in Nat, Len(q) <= max
  PROVE  Head(q) \in S /\ Tail(q) \in Seq(S) /\ Len(Tail(q)) <= max
  OBVIOUS

\* An element moves from the head of the right sequence to the end of the left.
LEMMA MoveOne ==
  ASSUME NEW S, NEW a \in Seq(S), NEW b \in Seq(S), b # <<>>
  PROVE  a \o b = Append(a, Head(b)) \o Tail(b)
<1> DEFINE l == Append(a, Head(b))
<1>1. /\ Head(b) \in S /\ Tail(b) \in Seq(S) /\ Len(Tail(b)) = Len(b) - 1
      /\ \A i \in 1 .. Len(Tail(b)) : Tail(b)[i] = b[i + 1]
      /\ Head(b) = b[1] /\ Len(b) \in Nat \ {0} /\ Len(a) \in Nat
  BY HeadTailProperties, EmptySeq, LenProperties
<1>2. /\ l \in Seq(S) /\ Len(l) = Len(a) + 1
      /\ \A i \in 1 .. Len(a) : l[i] = a[i]
      /\ l[Len(a) + 1] = b[1]
  BY <1>1, AppendProperties
<1> HIDE DEF l
<1>3. /\ a \o b \in Seq(S) /\ Len(a \o b) = Len(a) + Len(b)
      /\ \A i \in 1 .. Len(a) + Len(b) :
             (a \o b)[i] = IF i <= Len(a) THEN a[i] ELSE b[i - Len(a)]
  BY ConcatProperties
<1>4. /\ l \o Tail(b) \in Seq(S) /\ Len(l \o Tail(b)) = Len(l) + Len(Tail(b))
      /\ \A i \in 1 .. Len(l) + Len(Tail(b)) :
             (l \o Tail(b))[i] = IF i <= Len(l) THEN l[i] ELSE Tail(b)[i - Len(l)]
  BY <1>1, <1>2, ConcatProperties
<1>5. Len(a \o b) = Len(l \o Tail(b))
  BY <1>1, <1>2, <1>3, <1>4
<1>6. ASSUME NEW i \in 1 .. Len(a \o b) PROVE (a \o b)[i] = (l \o Tail(b))[i]
  <2>1. i \in 1 .. Len(a) + Len(b) /\ i \in 1 .. Len(l) + Len(Tail(b))
    BY <1>1, <1>2, <1>3, <1>4
  <2>2. CASE i <= Len(a)
    <3>1. (a \o b)[i] = a[i] /\ i \in 1 .. Len(a) /\ i <= Len(l)
      BY <1>1, <1>2, <1>3, <2>1, <2>2
    <3> QED
      BY <1>2, <1>4, <2>1, <3>1
  <2>3. CASE i = Len(a) + 1
    <3>1. (a \o b)[i] = b[i - Len(a)] /\ i - Len(a) = 1 /\ i <= Len(l)
      BY <1>1, <1>2, <1>3, <2>1, <2>3
    <3> QED
      BY <1>2, <1>4, <2>1, <2>3, <3>1
  <2>4. CASE i > Len(a) + 1
    <3>1. (a \o b)[i] = b[i - Len(a)] /\ ~(i <= Len(l)) /\ i - Len(l) \in 1 .. Len(Tail(b))
          /\ (i - Len(l)) + 1 = i - Len(a)
      BY <1>1, <1>2, <1>3, <2>1, <2>4
    <3>2. Tail(b)[i - Len(l)] = b[i - Len(a)]
      BY <1>1, <3>1
    <3> QED
      BY <1>4, <2>1, <3>1, <3>2
  <2> QED
    BY <1>1, <2>1, <2>2, <2>3, <2>4
<1> QED
  BY <1>3, <1>4, <1>5, <1>6, SeqEqual DEF l

LEMMA AppendToConcat ==
  ASSUME NEW S, NEW a \in Seq(S), NEW b \in Seq(S), NEW e \in S
  PROVE  a \o Append(b, e) = Append(a \o b, e)
<1>1. Append(b, e) = b \o <<e>> /\ <<e>> \in Seq(S) /\ a \o b \in Seq(S)
  BY AppendIsConcat, ConcatProperties
<1>2. Append(a \o b, e) = (a \o b) \o <<e>>
  BY <1>1, AppendIsConcat
<1>3. (a \o b) \o <<e>> = a \o (b \o <<e>>)
  BY <1>1, ConcatAssociative
<1> QED
  BY <1>1, <1>2, <1>3

LEMMA EmptyToConcat == ASSUME NEW S, NEW a \in Seq(S) PROVE a \o <<>> = a
  BY ConcatEmptySeq

\* What is in a concatenation is in one of its parts.
LEMMA InConcat ==
  ASSUME NEW S, NEW a \in Seq(S), NEW b \in Seq(S), NEW i \in DOMAIN (a \o b)
  PROVE  (\E k \in DOMAIN a : (a \o b)[i] = a[k]) \/ (\E k \in DOMAIN b : (a \o b)[i] = b[k])
<1>1. /\ a \o b \in Seq(S) /\ Len(a \o b) = Len(a) + Len(b)
      /\ \A k \in 1 .. Len(a) + Len(b) :
             (a \o b)[k] = IF k <= Len(a) THEN a[k] ELSE b[k - Len(a)]
  BY ConcatProperties
<1>2. /\ i \in 1 .. Len(a) + Len(b) /\ Len(a) \in Nat /\ Len(b) \in Nat
      /\ DOMAIN a = 1 .. Len(a) /\ DOMAIN b = 1 .. Len(b)
  BY <1>1, LenProperties
<1>3. CASE i <= Len(a)
  BY <1>1, <1>2, <1>3
<1>4. CASE i > Len(a)
  <2>1. i - Len(a) \in DOMAIN b /\ (a \o b)[i] = b[i - Len(a)]
    BY <1>1, <1>2, <1>4
  <2> QED
    BY <2>1
<1> QED
  BY <1>2, <1>3, <1>4

LEMMA ElementsOfConcat ==
  ASSUME NEW S, NEW a \in Seq(S), NEW b \in Seq(S)
  PROVE  ToSet(a \o b) \subseteq ToSet(a) \cup ToSet(b)
  BY InConcat DEF ToSet

LEMMA PartsOfConcat ==
  ASSUME NEW S, NEW a \in Seq(S), NEW b \in Seq(S)
  PROVE  ToSet(a) \subseteq ToSet(a \o b) /\ ToSet(b) \subseteq ToSet(a \o b)
<1>1. /\ a \o b \in Seq(S) /\ Len(a \o b) = Len(a) + Len(b)
      /\ \A k \in 1 .. Len(a) + Len(b) :
             (a \o b)[k] = IF k <= Len(a) THEN a[k] ELSE b[k - Len(a)]
  BY ConcatProperties
<1>2. /\ Len(a) \in Nat /\ Len(b) \in Nat /\ DOMAIN a = 1 .. Len(a) /\ DOMAIN b = 1 .. Len(b)
      /\ DOMAIN (a \o b) = 1 .. Len(a) + Len(b)
  BY <1>1, LenProperties
<1>3. ASSUME NEW k \in DOMAIN a PROVE k \in DOMAIN (a \o b) /\ (a \o b)[k] = a[k]
  BY <1>1, <1>2, <1>3
<1>4. ASSUME NEW k \in DOMAIN b
      PROVE  k + Len(a) \in DOMAIN (a \o b) /\ (a \o b)[k + Len(a)] = b[k]
  <2>1. k + Len(a) \in 1 .. Len(a) + Len(b) /\ ~(k + Len(a) <= Len(a)) /\ (k + Len(a)) - Len(a) = k
    BY <1>2, <1>4
  <2> QED
    BY <1>1, <1>2, <2>1
<1> QED
  BY <1>3, <1>4 DEF ToSet

LEMMA ElementsAfterAppend ==
  ASSUME NEW S, NEW a \in Seq(S), NEW e \in S
  PROVE  ToSet(Append(a, e)) = ToSet(a) \cup {e}
<1>1. /\ Append(a, e) \in Seq(S) /\ Len(Append(a, e)) = Len(a) + 1
      /\ \A i \in 1 .. Len(a) : Append(a, e)[i] = a[i]
      /\ Append(a, e)[Len(a) + 1] = e
  BY AppendProperties
<1>2. /\ DOMAIN a = 1 .. Len(a) /\ DOMAIN Append(a, e) = 1 .. Len(a) + 1 /\ Len(a) \in Nat
  BY <1>1, LenProperties
<1>3. \A i \in 1 .. Len(a) + 1 : i = Len(a) + 1 \/ i \in 1 .. Len(a)
  BY <1>2
<1>4. 1 .. Len(a) \subseteq 1 .. Len(a) + 1 /\ Len(a) + 1 \in 1 .. Len(a) + 1
  BY <1>2
<1> QED
  BY <1>1, <1>2, <1>3, <1>4 DEF ToSet

\* What has no duplicates keeps none with a new element; nor has a part of it.
LEMMA AppendedOnce ==
  ASSUME NEW S, NEW a \in Seq(S), NEW e \in S, IsInjective(a), e \notin ToSet(a)
  PROVE  IsInjective(Append(a, e))
<1>1. /\ Append(a, e) \in Seq(S) /\ Len(Append(a, e)) = Len(a) + 1
      /\ \A i \in 1 .. Len(a) : Append(a, e)[i] = a[i]
      /\ Append(a, e)[Len(a) + 1] = e
  BY AppendProperties
<1>2. /\ DOMAIN a = 1 .. Len(a) /\ DOMAIN Append(a, e) = 1 .. Len(a) + 1 /\ Len(a) \in Nat
  BY <1>1, LenProperties
<1>3. \A i \in DOMAIN Append(a, e) : i \in DOMAIN a \/ i = Len(a) + 1
  BY <1>2
<1>4. \A i \in DOMAIN a : a[i] # e
  BY DEF ToSet
<1> QED
  BY <1>1, <1>2, <1>3, <1>4 DEF IsInjective

LEMMA OnceInParts ==
  ASSUME NEW S, NEW a \in Seq(S), NEW b \in Seq(S), IsInjective(a \o b)
  PROVE  IsInjective(a) /\ IsInjective(b) /\ ToSet(a) \cap ToSet(b) = {}
<1>1. /\ a \o b \in Seq(S) /\ Len(a \o b) = Len(a) + Len(b)
      /\ \A k \in 1 .. Len(a) + Len(b) :
             (a \o b)[k] = IF k <= Len(a) THEN a[k] ELSE b[k - Len(a)]
  BY ConcatProperties
<1>2. /\ Len(a) \in Nat /\ Len(b) \in Nat /\ DOMAIN a = 1 .. Len(a) /\ DOMAIN b = 1 .. Len(b)
      /\ DOMAIN (a \o b) = 1 .. Len(a) + Len(b)
  BY <1>1, LenProperties
<1>3. \A k \in DOMAIN a : k \in DOMAIN (a \o b) /\ (a \o b)[k] = a[k]
  BY <1>1, <1>2
<1>4. ASSUME NEW k \in DOMAIN b
      PROVE  k + Len(a) \in DOMAIN (a \o b) /\ (a \o b)[k + Len(a)] = b[k]
  <2>1. k + Len(a) \in 1 .. Len(a) + Len(b) /\ ~(k + Len(a) <= Len(a)) /\ (k + Len(a)) - Len(a) = k
    BY <1>2, <1>4
  <2> QED
    BY <1>1, <1>2, <2>1
<1>5. IsInjective(a)
  BY <1>3 DEF IsInjective
<1>6. IsInjective(b)
  <2> SUFFICES ASSUME NEW i \in DOMAIN b, NEW k \in DOMAIN b, b[i] = b[k] PROVE i = k
    BY DEF IsInjective
  <2>1. i + Len(a) = k + Len(a)
    BY <1>4 DEF IsInjective
  <2> QED
    BY <1>2, <2>1
<1>7. ASSUME NEW i \in DOMAIN a, NEW k \in DOMAIN b PROVE a[i] # b[k]
  <2>1. i # k + Len(a)
    BY <1>2
  <2> QED
    BY <1>3, <1>4, <2>1 DEF IsInjective
<1> QED
  BY <1>5, <1>6, <1>7 DEF ToSet

=============================================================================

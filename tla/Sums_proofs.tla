----------------------------- MODULE Sums_proofs -----------------------------
(***************************************************************************)
(* Sums as numbers of elements.  The sum of f over a finite set S is the   *)
(* number of its cells, the pairs <<x, n>> with x in S and n in 1 .. f[x]. *)
(* What the theorems about finite sets say of the cells, they say of the   *)
(* sum, and a fold that adds up a sequence is shown to be one.             *)
(***************************************************************************)
EXTENDS SequencesExt, FiniteSetTheorems, SequenceTheorems, TLAPS

Cells(f, S) == {p \in S \X Nat : p[2] \in 1 .. f[p[1]]}

-----------------------------------------------------------------------------
(* Induction over numbers, as the choice of a least counterexample.        *)

LEMMA LeastNumber ==
  ASSUME NEW T \in SUBSET Nat, T # {}
  PROVE  \E n \in T : \A k \in T : n <= k
<1> DEFINE R == OpToRel(<, Nat)
<1>1. IsWellFoundedOn(R, Nat)
  BY NatLessThanWellFounded
<1> HIDE DEF R
<1>2. PICK n \in T : \A k \in T : ~ (<<k, n>> \in R)
  BY <1>1, WFMin
<1>3. ASSUME NEW k \in T PROVE n <= k
  <2>1. <<k, n>> \in Nat \X Nat /\ <<k, n>> \notin R
    BY <1>2
  <2>2. ~(k < n)
    BY <2>1 DEF R, OpToRel
  <2> QED
    BY <2>2
<1> QED
  BY <1>3

LEMMA GreatestNumber ==
  ASSUME NEW n \in Nat, NEW T \in SUBSET (0 .. n), T # {}
  PROVE  \E m \in T : \A k \in T : k <= m
<1> DEFINE U == {n - k : k \in T}
<1>1. U \in SUBSET Nat /\ U # {}
  <2>1. \A k \in T : k \in 0 .. n /\ n - k \in Nat
    OBVIOUS
  <2> QED
    BY <2>1
<1>2. PICK u \in U : \A k \in U : u <= k
  BY <1>1, LeastNumber
<1>3. PICK m \in T : u = n - m
  OBVIOUS
<1>4. ASSUME NEW k \in T PROVE k <= m
  <2>1. n - k \in U
    OBVIOUS
  <2>2. n - m <= n - k /\ m \in Int /\ k \in Int
    BY <1>2, <1>3, <2>1
  <2> QED
    BY <2>2
<1> QED
  BY <1>4

\* What is left of a finite set when a part of it is taken away.
LEMMA SubsetTaken ==
  ASSUME NEW S, IsFiniteSet(S), NEW T \in SUBSET S
  PROVE  IsFiniteSet(S \ T) /\ Cardinality(S \ T) = Cardinality(S) - Cardinality(T)
<1> DEFINE R == S \ T
<1>1. IsFiniteSet(T) /\ IsFiniteSet(R)
  BY FS_Subset
<1>2. S = T \cup R /\ T \cap R = {}
  OBVIOUS
<1>3. Cardinality(T \cap R) = 0
  BY <1>2, FS_EmptySet
<1>4. Cardinality(T) \in Nat /\ Cardinality(R) \in Nat
  BY <1>1, FS_CardinalityType
<1> HIDE DEF R
<1>5. Cardinality(T \cup R) = Cardinality(T) + Cardinality(R) - Cardinality(T \cap R)
  BY <1>1, FS_Union
<1>6. Cardinality(S) = Cardinality(T \cup R)
  BY <1>2
<1>7. Cardinality(R) = Cardinality(S) - Cardinality(T)
  BY <1>3, <1>4, <1>5, <1>6
<1> QED
  BY <1>1, <1>7 DEF R

\* A function into the numbers is greatest somewhere on a finite set.
LEMMA GreatestOfFinite ==
  ASSUME NEW S, IsFiniteSet(S), S # {}, NEW f, \A x \in S : f[x] \in Nat
  PROVE  \E m \in S : \A x \in S : f[x] <= f[m]
<1> DEFINE Top(U) == \E m \in U : \A x \in U : f[x] <= f[m]
           Bad == {n \in Nat : \E U \in SUBSET S : Cardinality(U) = n /\ U # {} /\ ~Top(U)}
<1>1. SUFFICES ASSUME ~Top(S) PROVE FALSE
  OBVIOUS
<1>2. Cardinality(S) \in Bad
  BY <1>1, FS_CardinalityType
<1>3. PICK n \in Bad : \A k \in Bad : n <= k
  BY <1>2, LeastNumber
<1>4. PICK U \in SUBSET S : Cardinality(U) = n /\ U # {} /\ ~Top(U)
  OBVIOUS
<1>5. PICK x \in U : TRUE
  BY <1>4
<1>6. IsFiniteSet(U)
  BY FS_Subset
<1>7. IsFiniteSet(U \ {x}) /\ Cardinality(U \ {x}) = n - 1 /\ Cardinality(U \ {x}) \in Nat
  BY <1>4, <1>6, FS_RemoveElement, FS_CardinalityType
<1>8. n - 1 \notin Bad
  BY <1>3, <1>7
<1>9. U \ {x} # {}
  <2>1. ASSUME U = {x} PROVE FALSE
    BY <1>4, <2>1
  <2> QED
    BY <1>5, <2>1
<1>10. Top(U \ {x})
  BY <1>7, <1>8, <1>9
<1>11. PICK m \in U \ {x} : \A y \in U \ {x} : f[y] <= f[m]
  BY <1>10
<1>12. \A y \in U : f[y] \in Nat
  OBVIOUS
<1>13. CASE f[x] <= f[m]
  BY <1>4, <1>11, <1>13
<1>14. CASE f[m] <= f[x]
  <2>1. \A y \in U : f[y] <= f[x]
    BY <1>11, <1>12, <1>14
  <2> QED
    BY <1>4, <2>1
<1> QED
  BY <1>12, <1>13, <1>14

-----------------------------------------------------------------------------
(* Cells.                                                                  *)

\* The cells of one element more.
LEMMA CellsOneMore ==
  ASSUME NEW S, NEW x \in S, NEW f, f[x] \in Nat, IsFiniteSet(Cells(f, S \ {x}))
  PROVE  /\ IsFiniteSet(Cells(f, S))
         /\ Cardinality(Cells(f, S)) = Cardinality(Cells(f, S \ {x})) + f[x]
<1> DEFINE Column == {x} \X (1 .. f[x])
           Rest == Cells(f, S \ {x})
<1>1. Cells(f, S) = Rest \cup Column
  BY DEF Cells
<1>2. Rest \cap Column = {}
  BY DEF Cells
<1>3. IsFiniteSet({x}) /\ Cardinality({x}) = 1
  BY FS_Singleton
<1>4. IsFiniteSet(1 .. f[x]) /\ Cardinality(1 .. f[x]) = f[x]
  BY FS_Interval
<1>5. IsFiniteSet(Column) /\ Cardinality(Column) = f[x]
  <2>1. /\ IsFiniteSet({x} \X (1 .. f[x]))
        /\ Cardinality({x} \X (1 .. f[x])) = Cardinality({x}) * Cardinality(1 .. f[x])
    BY <1>3, <1>4, FS_Product
  <2> QED
    BY <1>3, <1>4, <2>1
<1>6. IsFiniteSet(Rest) /\ Cardinality(Rest) \in Nat
  BY FS_CardinalityType
<1>7. /\ IsFiniteSet(Rest \cup Column)
      /\ Cardinality(Rest \cup Column)
            = Cardinality(Rest) + Cardinality(Column) - Cardinality(Rest \cap Column)
  BY <1>5, <1>6, FS_Union
<1> HIDE DEF Column, Rest
<1>8. Cardinality(Rest \cap Column) = 0
  BY <1>2, FS_EmptySet
<1>9. Cardinality(Rest \cup Column) = Cardinality(Rest) + f[x]
  BY <1>5, <1>6, <1>7, <1>8
<1> QED
  BY <1>1, <1>7, <1>9 DEF Rest

LEMMA CellsEmpty == \A f : Cells(f, {}) = {}
  BY DEF Cells

\* A finite set has finitely many cells.
LEMMA CellsFinite ==
  ASSUME NEW S, IsFiniteSet(S), NEW f, \A x \in S : f[x] \in Nat
  PROVE  IsFiniteSet(Cells(f, S))
<1> DEFINE Bad == {n \in Nat : \E U \in SUBSET S : /\ Cardinality(U) = n
                                                  /\ ~ IsFiniteSet(Cells(f, U))}
<1>1. SUFFICES ASSUME Bad # {} PROVE FALSE
  <2>1. Cardinality(S) \in Nat
    BY FS_CardinalityType
  <2> QED
    BY <2>1
<1>2. PICK n \in Bad : \A k \in Bad : n <= k
  BY <1>1, LeastNumber
<1>3. PICK U \in SUBSET S : Cardinality(U) = n /\ ~ IsFiniteSet(Cells(f, U))
  OBVIOUS
<1>4. IsFiniteSet(U)
  BY FS_Subset
<1>5. U # {}
  BY <1>3, CellsEmpty, FS_EmptySet
<1>6. PICK x \in U : TRUE
  BY <1>5
<1>7. IsFiniteSet(U \ {x}) /\ Cardinality(U \ {x}) = n - 1 /\ Cardinality(U \ {x}) \in Nat
  BY <1>3, <1>4, FS_RemoveElement, FS_CardinalityType
<1>8. ~ IsFiniteSet(Cells(f, U \ {x}))
  BY <1>3, CellsOneMore
<1>9. n - 1 \in Bad /\ n \in Nat
  BY <1>7, <1>8
<1> QED
  BY <1>2, <1>9

\* A function that changes at one element adds or takes that many cells.
LEMMA CellsChange ==
  ASSUME NEW S, IsFiniteSet(S), NEW x \in S, NEW f, NEW g,
         \A y \in S : f[y] \in Nat /\ g[y] \in Nat,
         \A y \in S \ {x} : g[y] = f[y]
  PROVE  /\ Cardinality(Cells(f, S)) \in Nat /\ Cardinality(Cells(g, S)) \in Nat
         /\ Cardinality(Cells(g, S)) + f[x] = Cardinality(Cells(f, S)) + g[x]
<1> DEFINE Rest == Cells(f, S \ {x})
<1>1. Cells(g, S \ {x}) = Rest
  BY DEF Cells
<1>2. IsFiniteSet(S \ {x})
  BY FS_Subset
<1>3. IsFiniteSet(Rest)
  BY <1>2, CellsFinite
<1>4. Cardinality(Rest) \in Nat /\ f[x] \in Nat /\ g[x] \in Nat
  BY <1>3, FS_CardinalityType
<1>5. Cardinality(Cells(f, S)) = Cardinality(Rest) + f[x]
  BY <1>3, <1>4, CellsOneMore
<1>6. Cardinality(Cells(g, S)) = Cardinality(Rest) + g[x]
  BY <1>1, <1>3, <1>4, CellsOneMore
<1> HIDE DEF Rest
<1> QED
  BY <1>4, <1>5, <1>6

-----------------------------------------------------------------------------
(* The recursion by which the folds of the community modules go through a  *)
(* finite set: c[s] is the element that is taken first from s.             *)

AddsUp(h, f, c, S) ==
    h = [s \in SUBSET S |-> IF s = {} THEN 0 ELSE h[s \ {c[s]}] + f[c[s]]]

Chooses(c, S) == \A s \in SUBSET S : s # {} => c[s] \in s

\* There is a function with that recursion, the number of cells.
LEMMA AddsUpExists ==
  ASSUME NEW S, IsFiniteSet(S), NEW f, \A x \in S : f[x] \in Nat, NEW c, Chooses(c, S)
  PROVE  \E h : AddsUp(h, f, c, S)
<1> DEFINE h == [s \in SUBSET S |-> Cardinality(Cells(f, s))]
<1>1. ASSUME NEW s \in SUBSET S, s # {} PROVE h[s] = h[s \ {c[s]}] + f[c[s]]
  <2>1. c[s] \in s /\ f[c[s]] \in Nat
    BY <1>1 DEF Chooses
  <2>2. IsFiniteSet(s \ {c[s]})
    BY FS_Subset
  <2>3. IsFiniteSet(Cells(f, s \ {c[s]}))
    BY <2>2, CellsFinite
  <2>4. Cardinality(Cells(f, s)) = Cardinality(Cells(f, s \ {c[s]})) + f[c[s]]
    BY <2>1, <2>3, CellsOneMore
  <2> QED
    BY <2>4
<1>2. h[{}] = 0
  BY CellsEmpty, FS_EmptySet
<1>3. h = [s \in SUBSET S |-> IF s = {} THEN 0 ELSE h[s \ {c[s]}] + f[c[s]]]
  <2>1. \A s \in SUBSET S : h[s] = IF s = {} THEN 0 ELSE h[s \ {c[s]}] + f[c[s]]
    BY <1>1, <1>2
  <2>2. h = [s \in SUBSET S |-> h[s]]
    OBVIOUS
  <2> HIDE DEF h
  <2> QED
    BY <2>1, <2>2
<1> HIDE DEF h
<1> QED
  BY <1>3 DEF AddsUp

\* And no other.
LEMMA AddsUpIsCells ==
  ASSUME NEW S, IsFiniteSet(S), NEW f, \A x \in S : f[x] \in Nat, NEW c, Chooses(c, S),
         NEW h, AddsUp(h, f, c, S)
  PROVE  h[S] = Cardinality(Cells(f, S))
<1> DEFINE Wrong(U) == h[U] # Cardinality(Cells(f, U))
           Bad == {n \in Nat : \E U \in SUBSET S : Cardinality(U) = n /\ Wrong(U)}
<1>1. SUFFICES ASSUME Wrong(S) PROVE FALSE
  OBVIOUS
<1>2. Cardinality(S) \in Bad
  BY <1>1, FS_CardinalityType
<1>3. PICK n \in Bad : \A k \in Bad : n <= k
  BY <1>2, LeastNumber
<1>4. PICK U \in SUBSET S : Cardinality(U) = n /\ Wrong(U)
  OBVIOUS
<1> DEFINE x == c[U]
<1>5. IsFiniteSet(U)
  BY FS_Subset
<1>6. h[U] = IF U = {} THEN 0 ELSE h[U \ {x}] + f[x]
  BY DEF AddsUp
<1>7. U # {}
  BY <1>4, <1>6, CellsEmpty, FS_EmptySet
<1>8. x \in U /\ f[x] \in Nat
  BY <1>7 DEF Chooses
<1> HIDE DEF x
<1>9. IsFiniteSet(U \ {x}) /\ Cardinality(U \ {x}) = n - 1 /\ Cardinality(U \ {x}) \in Nat
  BY <1>4, <1>5, <1>8, FS_RemoveElement, FS_CardinalityType
<1>10. IsFiniteSet(Cells(f, U \ {x}))
  BY <1>9, CellsFinite
<1>11. Wrong(U \ {x})
  BY <1>4, <1>6, <1>7, <1>8, <1>10, CellsOneMore
<1>12. n - 1 \in Bad /\ n \in Nat
  BY <1>9, <1>11
<1> QED
  BY <1>3, <1>12

-----------------------------------------------------------------------------
(* FoldLeft over a sequence, which takes the last element first.           *)

\* The sum of a sequence whose elements have weights.
Weight(w, seq) == FoldLeft(LAMBDA n, x : n + w[x], 0, seq)

\* The weights of the elements of seq, position by position.
Each(w, seq) == [i \in DOMAIN seq |-> w[seq[i]]]

\* A set of positions has a last one.
LEMMA MaxOfDomain ==
  ASSUME NEW X, NEW seq \in Seq(X), NEW s \in SUBSET DOMAIN seq, s # {}
  PROVE  Max(s) \in s
<1>1. Len(seq) \in Nat /\ s \in SUBSET (0 .. Len(seq))
  BY LenProperties
<1>2. \E m \in s : \A k \in s : k <= m
  BY <1>1, GreatestNumber
<1>3. \E m \in s : \A k \in s : m >= k
  BY <1>1, <1>2
<1> QED
  BY <1>3 DEF Max

\* A fold that adds up the weights of a sequence counts the cells.
LEMMA WeightIsCells ==
  ASSUME NEW X, NEW w \in [X -> Nat], NEW seq \in Seq(X)
  PROVE  Weight(w, seq) = Cardinality(Cells(Each(w, seq), DOMAIN seq))
<1> DEFINE D == DOMAIN seq
           f == Each(w, seq)
           c == [s \in SUBSET D |-> Max(s)]
           h == CHOOSE g : g = [s \in SUBSET D |->
                   IF s = {} THEN 0 ELSE g[s \ {Max(s)}] + w[seq[Max(s)]]]
<1>1. /\ Len(seq) \in Nat /\ D = 1 .. Len(seq) /\ IsFiniteSet(D)
      /\ \A i \in D : seq[i] \in X /\ f[i] = w[seq[i]] /\ f[i] \in Nat
  BY LenProperties, FS_Interval, ElementOfSeq DEF Each
<1>2. ASSUME NEW s \in SUBSET D, s # {} PROVE Max(s) \in s
  BY <1>2, MaxOfDomain
<1>3. Chooses(c, D)
  BY <1>2 DEF Chooses
<1>4. Weight(w, seq) = h[D]
  BY DEF Weight, FoldLeft, MapThenFoldSet
<1>5. PICK g : AddsUp(g, f, c, D)
  BY <1>1, <1>3, AddsUpExists
<1>6. \A s \in SUBSET D : s # {} => f[c[s]] = w[seq[Max(s)]] /\ c[s] = Max(s)
  BY <1>1, <1>2
<1>7. g = [s \in SUBSET D |-> IF s = {} THEN 0 ELSE g[s \ {Max(s)}] + w[seq[Max(s)]]]
  BY <1>5, <1>6 DEF AddsUp
<1>8. h = [s \in SUBSET D |-> IF s = {} THEN 0 ELSE h[s \ {Max(s)}] + w[seq[Max(s)]]]
  BY <1>7
<1>9. AddsUp(h, f, c, D)
  BY <1>6, <1>8 DEF AddsUp
<1> HIDE DEF h, c, f, D
<1>10. h[D] = Cardinality(Cells(f, D))
  BY <1>1, <1>3, <1>9, AddsUpIsCells
<1> QED
  BY <1>4, <1>10 DEF f, D

\* The sum of no weights, and of one more.
LEMMA WeightOfNone == \A w : Weight(w, <<>>) = 0
<1> SUFFICES ASSUME NEW w PROVE Weight(w, <<>>) = 0
  OBVIOUS
<1>1. <<>> \in Seq({}) /\ DOMAIN <<>> = {}
  OBVIOUS
<1> DEFINE h == CHOOSE g : g = [s \in SUBSET {} |->
                   IF s = {} THEN 0 ELSE g[s \ {Max(s)}] + w[<<>>[Max(s)]]]
<1>2. Weight(w, <<>>) = h[{}]
  BY <1>1 DEF Weight, FoldLeft, MapThenFoldSet
<1>3. \A g : [s \in SUBSET {} |-> 0] = [s \in SUBSET {} |->
                   IF s = {} THEN 0 ELSE g[s \ {Max(s)}] + w[<<>>[Max(s)]]]
  OBVIOUS
<1>4. h = [s \in SUBSET {} |-> 0]
  BY <1>3
<1> QED
  BY <1>2, <1>4

LEMMA WeightOfOneMore ==
  ASSUME NEW X, NEW w \in [X -> Nat], NEW seq \in Seq(X), NEW e \in X
  PROVE  Weight(w, Append(seq, e))
            = Weight(w, seq) + w[e]
<1> DEFINE D == DOMAIN seq
           more == Append(seq, e)
           k == Len(seq) + 1
           f == Each(w, seq)
           g == Each(w, more)
<1>1. /\ Len(seq) \in Nat /\ D = 1 .. Len(seq) /\ IsFiniteSet(D)
      /\ \A i \in D : f[i] = w[seq[i]] /\ f[i] \in Nat
  BY LenProperties, FS_Interval, ElementOfSeq DEF Each
<1>2. /\ more \in Seq(X) /\ Len(more) = k
      /\ \A i \in D : more[i] = seq[i]
      /\ more[k] = e
  BY <1>1, AppendProperties
<1>3. /\ DOMAIN more = D \cup {k} /\ k \notin D
      /\ \A i \in D : g[i] = f[i]
      /\ g[k] = w[e] /\ g[k] \in Nat
  <2>1. DOMAIN more = 1 .. k
    BY <1>2, LenProperties
  <2> QED
    BY <1>1, <1>2, <2>1 DEF Each
<1>4. Cells(g, (D \cup {k}) \ {k}) = Cells(f, D)
  <2>1. (D \cup {k}) \ {k} = D
    BY <1>3
  <2>2. Cells(g, D) = Cells(f, D)
    BY <1>3 DEF Cells
  <2> QED
    BY <2>1, <2>2
<1>5. IsFiniteSet(Cells(f, D))
  BY <1>1, CellsFinite
<1> HIDE DEF f, g, D, k
<1>6. Cardinality(Cells(g, D \cup {k})) = Cardinality(Cells(f, D)) + w[e]
  <2> DEFINE E == D \cup {k}
  <2>1. k \in E /\ g[k] \in Nat /\ IsFiniteSet(Cells(g, E \ {k}))
    BY <1>3, <1>4, <1>5
  <2>2. Cardinality(Cells(g, E)) = Cardinality(Cells(g, E \ {k})) + g[k]
    BY <2>1, CellsOneMore
  <2> QED
    BY <1>3, <1>4, <2>2
<1>7. Weight(w, seq) = Cardinality(Cells(f, D))
  BY WeightIsCells DEF f, D
<1>8. Weight(w, more) = Cardinality(Cells(g, DOMAIN more))
  BY <1>2, WeightIsCells DEF g
<1> QED
  BY <1>3, <1>6, <1>7, <1>8

\* A sum is a number.
LEMMA WeightType ==
  ASSUME NEW X, NEW w \in [X -> Nat], NEW seq \in Seq(X)
  PROVE  Weight(w, seq) \in Nat
<1>1. /\ IsFiniteSet(DOMAIN seq)
      /\ \A i \in DOMAIN seq : Each(w, seq)[i] \in Nat
  BY LenProperties, FS_Interval, ElementOfSeq DEF Each
<1>2. IsFiniteSet(Cells(Each(w, seq), DOMAIN seq))
  BY <1>1, CellsFinite
<1>3. Weight(w, seq) = Cardinality(Cells(Each(w, seq), DOMAIN seq))
  BY WeightIsCells
<1>4. Cardinality(Cells(Each(w, seq), DOMAIN seq)) \in Nat
  BY <1>2, FS_CardinalityType
<1> QED
  BY <1>3, <1>4

=============================================================================

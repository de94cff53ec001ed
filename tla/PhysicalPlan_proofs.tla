------------------------- MODULE PhysicalPlan_proofs -------------------------
(***************************************************************************)
(* Proofs about what a Gemini session sends, for any contracts, materials, *)
(* sizes, requests and numbers of turns and resources.                     *)
(*                                                                         *)
(* The recursive functions of the model are shown to exist and are opened  *)
(* by induction, written as the search for a least counterexample.         *)
(* What is said about them is then algebra on sequences: files may be      *)
(* taken out of a conversation piece by piece.                             *)
(***************************************************************************)
EXTENDS PhysicalPlan, TLAPS, WellFoundedInduction, FiniteSetTheorems, SequenceTheorems

\* A set of numbers has a smallest one.
LEMMA FirstRank ==
  ASSUME NEW R, R \subseteq Nat, R # {}
  PROVE  Min(R) \in R /\ \A i \in R : Min(R) <= i
<1> DEFINE T == {0..n : n \in R}
<1>1. T \subseteq FiniteSubsetsOf(Nat)
  <2> SUFFICES ASSUME NEW n \in R PROVE 0..n \subseteq Nat /\ IsFiniteSet(0..n)
    BY DEF FiniteSubsetsOf
  <2> QED BY FS_Interval
<1>2. PICK S \in T : \A U \in T : ~(<<U, S>> \in StrictSubsetOrdering(Nat))
  <2>1. IsWellFoundedOn(StrictSubsetOrdering(Nat), FiniteSubsetsOf(Nat))
    BY FS_StrictSubsetOrderingWellFounded
  <2>2. T # {}
    OBVIOUS
  <2> HIDE DEF T
  <2> QED BY <1>1, <2>1, <2>2, WFMin
<1>3. PICK n \in R : S = 0..n
  OBVIOUS
<1>4. ASSUME NEW m \in R, m < n PROVE FALSE
  <2>1. 0..m \subseteq 0..n /\ n \notin 0..m /\ n \in 0..n
    BY <1>4
  <2>2. <<0..m, S>> \in StrictSubsetOrdering(Nat)
    BY <1>3, <2>1 DEF StrictSubsetOrdering
  <2> QED BY <1>2, <2>2
<1>5. \A m \in R : n <= m
  BY <1>4
<1> QED BY <1>5 DEF Min

\* Induction: a set with 0 and every successor has every number; the least
\* number outside would have no predecessor.
LEMMA NumbersFrom0 ==
  ASSUME NEW P, 0 \in P, \A k \in Nat : k \in P => k + 1 \in P
  PROVE  \A k \in Nat : k \in P
<1> DEFINE R == {k \in Nat : k \notin P}
<1>1. SUFFICES ASSUME R # {} PROVE FALSE
  OBVIOUS
<1>2. PICK k \in R : \A i \in R : k <= i
  BY <1>1, FirstRank
<1>3. k - 1 \in Nat /\ k - 1 \notin R
  BY <1>2
<1> QED BY <1>2, <1>3

\* A sequence is built from its end.
LEMMA SequencesFromEmpty ==
  ASSUME NEW S, NEW P, <<>> \in P, \A s \in Seq(S), x \in S : s \in P => Append(s, x) \in P
  PROVE  \A s \in Seq(S) : s \in P
<1> DEFINE Q == {k \in Nat : \A s \in Seq(S) : Len(s) = k => s \in P}
<1>1. 0 \in Q
  BY EmptySeq
<1>2. ASSUME NEW k \in Nat, k \in Q PROVE k + 1 \in Q
  <2> SUFFICES ASSUME NEW s \in Seq(S), Len(s) = k + 1 PROVE s \in P
    OBVIOUS
  <2>1. PICK t \in Seq(S), x \in S : s = Append(t, x)
    BY SequenceEmptyOrAppend, EmptySeq
  <2>2. Len(t) = k
    BY <2>1, AppendProperties, LenProperties
  <2> QED BY <1>2, <2>1, <2>2
<1> HIDE DEF Q
<1>3. \A k \in Nat : k \in Q
  BY <1>1, <1>2, NumbersFrom0
<1> QED BY <1>3, LenProperties DEF Q

\* A function that each value of which is a step from the one before exists,
\* and is the only one.
Reached(V, n, v, step) ==
  \E f \in [0..n -> V] : f[0] = v /\ \A i \in 1..n : f[i] = step[i][f[i - 1]]

\* A recursion along 1..n has its values.
LEMMA Recursion ==
  ASSUME NEW V, NEW n \in Nat, NEW v \in V, NEW step \in [1..n -> [V -> V]]
  PROVE  Reached(V, n, v, step)
<1> DEFINE Q == {k \in Nat : k <= n =>
                   \E f \in [0..k -> V] : f[0] = v /\ \A i \in 1..k : f[i] = step[i][f[i - 1]]}
<1>1. 0 \in Q
  <2> DEFINE f == [i \in 0..0 |-> v]
  <2>1. f \in [0..0 -> V] /\ f[0] = v /\ \A i \in 1..0 : f[i] = step[i][f[i - 1]]
    OBVIOUS
  <2> HIDE DEF f
  <2> QED BY <2>1
<1>2. ASSUME NEW k \in Nat, k \in Q PROVE k + 1 \in Q
  <2> SUFFICES ASSUME k + 1 <= n
               PROVE  \E f \in [0..(k + 1) -> V] :
                        f[0] = v /\ \A i \in 1..(k + 1) : f[i] = step[i][f[i - 1]]
    OBVIOUS
  <2>1. PICK g \in [0..k -> V] : g[0] = v /\ \A i \in 1..k : g[i] = step[i][g[i - 1]]
    BY <1>2
  <2> DEFINE f == [i \in 0..(k + 1) |-> IF i <= k THEN g[i] ELSE step[k + 1][g[k]]]
  <2>2. g[k] \in V /\ k + 1 \in 1..n
    OBVIOUS
  <2>3. step[k + 1][g[k]] \in V
    BY <2>2
  <2>4. f \in [0..(k + 1) -> V]
    BY <2>3
  <2>5. f[0] = v
    BY <2>1
  <2>6. ASSUME NEW i \in 1..(k + 1) PROVE f[i] = step[i][f[i - 1]]
    <3>1. i - 1 \in 0..k /\ f[i - 1] = g[i - 1]
      OBVIOUS
    <3>2. CASE i <= k
      <4>1. i \in 1..k /\ f[i] = g[i]
        BY <3>2
      <4> QED BY <2>1, <3>1, <4>1
    <3>3. CASE i = k + 1
      <4>1. f[i] = step[k + 1][g[k]] /\ i - 1 = k
        BY <3>3
      <4> QED BY <3>1, <3>3, <4>1
    <3> QED BY <3>2, <3>3
  <2> HIDE DEF f
  <2> QED BY <2>4, <2>5, <2>6
<1> HIDE DEF Q
<1>3. n \in Q
  BY <1>1, <1>2, NumbersFrom0
<1> QED BY <1>3 DEF Q, Reached

-----------------------------------------------------------------------------
(* Elements, and what is taken out of a sequence with them.                *)

LEMMA PickedIs ==
  ASSUME NEW S, NEW s \in Seq(S), NEW I
  PROVE  /\ Picked(s, I) \in [0..Len(s) -> Seq(S)]
         /\ Picked(s, I)[0] = <<>>
         /\ \A i \in 1..Len(s) : Picked(s, I)[i] =
              IF i \in I THEN Append(Picked(s, I)[i - 1], s[i]) ELSE Picked(s, I)[i - 1]
<1> DEFINE step == [i \in 1..Len(s) |-> [t \in Seq(S) |-> IF i \in I THEN Append(t, s[i]) ELSE t]]
           Rule(g) == [i \in 0..Len(s) |->
                         IF i = 0 THEN <<>> ELSE IF i \in I THEN Append(g[i - 1], s[i]) ELSE g[i - 1]]
<1>1. Len(s) \in Nat /\ \A i \in 1..Len(s) : s[i] \in S
  BY LenProperties, ElementOfSeq
<1>2. step \in [1..Len(s) -> [Seq(S) -> Seq(S)]]
  BY <1>1, AppendProperties
<1>3. PICK f \in [0..Len(s) -> Seq(S)] :
        f[0] = <<>> /\ \A i \in 1..Len(s) : f[i] = step[i][f[i - 1]]
  <2> DEFINE V == Seq(S)
             n == Len(s)
             e == <<>>
  <2>1. e \in V
    BY EmptySeq
  <2>2. n \in Nat
    BY <1>1
  <2>3. step \in [1..n -> [V -> V]]
    BY <1>2
  <2> HIDE DEF V, n, e, step
  <2>4. Reached(V, n, e, step)
    BY <2>1, <2>2, <2>3, Recursion
  <2> QED BY <2>4 DEF V, n, e, Reached
<1>4. ASSUME NEW i \in 1..Len(s)
      PROVE  f[i] = IF i \in I THEN Append(f[i - 1], s[i]) ELSE f[i - 1]
  <2>1. f[i - 1] \in Seq(S)
    BY <1>1
  <2>3. step[i][f[i - 1]] = IF i \in I THEN Append(f[i - 1], s[i]) ELSE f[i - 1]
    BY <2>1
  <2> HIDE DEF step
  <2> QED BY <1>3, <2>3
<1>5. f = Rule(f)
  <2>1. ASSUME NEW i \in 0..Len(s) PROVE f[i] = Rule(f)[i]
    <3>1. CASE i = 0
      BY <1>3, <3>1
    <3>2. CASE i # 0
      <4>1. i \in 1..Len(s)
        BY <1>1, <3>2
      <4>2. f[i] = IF i \in I THEN Append(f[i - 1], s[i]) ELSE f[i - 1]
        BY <1>4, <4>1
      <4> QED BY <3>2, <4>2
    <3> QED BY <3>1, <3>2
  <2>2. f = [i \in 0..Len(s) |-> f[i]] /\ Rule(f) = [i \in 0..Len(s) |-> Rule(f)[i]]
    OBVIOUS
  <2> HIDE DEF Rule
  <2> QED BY <2>1, <2>2
<1> HIDE DEF step
<1>6. Picked(s, I) = Rule(Picked(s, I))
  BY <1>5 DEF Picked
<1> DEFINE p == Picked(s, I)
           Q == {k \in Nat : k <= Len(s) => p[k] \in Seq(S)}
<1> HIDE DEF p
<1>7. p[0] = <<>>
  BY <1>1, <1>6 DEF p
<1>8. ASSUME NEW i \in 1..Len(s) PROVE p[i] = IF i \in I THEN Append(p[i - 1], s[i]) ELSE p[i - 1]
  <2>1. i \in 0..Len(s) /\ i # 0
    BY <1>1
  <2>2. p[i] = Rule(p)[i]
    BY <1>6 DEF p
  <2> QED BY <2>1, <2>2
<1>9. 0 \in Q
  BY <1>7, EmptySeq
<1>10. ASSUME NEW k \in Nat, k \in Q PROVE k + 1 \in Q
  <2> SUFFICES ASSUME k + 1 <= Len(s) PROVE p[k + 1] \in Seq(S)
    OBVIOUS
  <2>1. k + 1 \in 1..Len(s) /\ (k + 1) - 1 = k /\ p[k] \in Seq(S)
    BY <1>1, <1>10
  <2>2. Append(p[k], s[k + 1]) \in Seq(S)
    BY <1>1, <2>1, AppendProperties
  <2>3. p[k + 1] = IF k + 1 \in I THEN Append(p[k], s[k + 1]) ELSE p[k]
    BY <1>8, <2>1
  <2> QED BY <2>1, <2>2, <2>3
<1>11. \A k \in Nat : k \in Q
  <2> HIDE DEF Q
  <2> QED BY <1>9, <1>10, NumbersFrom0
<1>12. p \in [0..Len(s) -> Seq(S)]
  <2>1. \A k \in 0..Len(s) : p[k] \in Seq(S)
    BY <1>1, <1>11
  <2>2. p = [k \in 0..Len(s) |-> p[k]]
    BY <1>6 DEF p
  <2> QED BY <2>1, <2>2
<1> QED BY <1>7, <1>8, <1>12 DEF p

\* Elements of a sequence are a sequence of the same things.
LEMMA ElementsAreElements ==
  ASSUME NEW S, NEW s \in Seq(S), NEW I
  PROVE  Elements(s, I) \in Seq(S)
BY PickedIs, LenProperties DEF Elements

\* Nothing is left of nothing.
LEMMA ElementsOfEmpty == \A I : Elements(<<>>, I) = <<>>
<1> SUFFICES ASSUME NEW I PROVE Elements(<<>>, I) = <<>>
  OBVIOUS
<1>1. PICK s : s = <<>>
  OBVIOUS
<1> DEFINE S == {}
<1>2. s \in Seq(S)
  BY <1>1, EmptySeq
<1>3. Len(s) = 0
  BY <1>1, EmptySeq
<1> HIDE DEF S
<1>4. Picked(s, I)[0] = <<>>
  BY <1>2, PickedIs
<1> QED BY <1>1, <1>3, <1>4 DEF Elements

\* The last element is picked or not, whatever was before.
LEMMA ElementsOfAppend ==
  ASSUME NEW S, NEW s \in Seq(S), NEW x \in S, NEW I
  PROVE  Elements(Append(s, x), I) =
           IF Len(s) + 1 \in I THEN Append(Elements(s, I), x) ELSE Elements(s, I)
<1> DEFINE t == Append(s, x)
           p == Picked(s, I)
           q == Picked(t, I)
           n == Len(s)
           Q == {k \in Nat : k <= n => q[k] = p[k]}
<1>1. /\ n \in Nat /\ t \in Seq(S) /\ Len(t) = n + 1
      /\ (\A i \in 1..n : t[i] = s[i]) /\ t[n + 1] = x
  BY AppendProperties, LenProperties
<1> HIDE DEF t
<1>2. p[0] = <<>> /\ \A i \in 1..n : p[i] = IF i \in I THEN Append(p[i - 1], s[i]) ELSE p[i - 1]
  BY PickedIs
<1>3. q[0] = <<>> /\ \A i \in 1..(n + 1) : q[i] = IF i \in I THEN Append(q[i - 1], t[i]) ELSE q[i - 1]
  <2>1. t \in Seq(S)
    BY <1>1
  <2>2. q[0] = <<>> /\ \A i \in 1..Len(t) : q[i] = IF i \in I THEN Append(q[i - 1], t[i]) ELSE q[i - 1]
    BY <2>1, PickedIs
  <2> QED BY <1>1, <2>2
<1> HIDE DEF p, q
<1>4. 0 \in Q
  BY <1>2, <1>3
<1>5. ASSUME NEW k \in Nat, k \in Q PROVE k + 1 \in Q
  <2> SUFFICES ASSUME k + 1 <= n PROVE q[k + 1] = p[k + 1]
    OBVIOUS
  <2>1. k + 1 \in 1..n /\ k + 1 \in 1..(n + 1) /\ (k + 1) - 1 = k /\ q[k] = p[k]
    BY <1>1, <1>5
  <2> QED BY <1>1, <1>2, <1>3, <2>1
<1>6. q[n] = p[n]
  <2> HIDE DEF Q
  <2>1. n \in Q
    BY <1>1, <1>4, <1>5, NumbersFrom0
  <2> QED BY <1>1, <2>1 DEF Q
<1>7. q[n + 1] = IF n + 1 \in I THEN Append(q[n], x) ELSE q[n]
  <2>1. n + 1 \in 1..(n + 1) /\ (n + 1) - 1 = n
    BY <1>1
  <2> QED BY <1>1, <1>3, <2>1
<1>8. Elements(s, I) = p[n] /\ Elements(t, I) = q[n + 1]
  BY <1>1 DEF Elements, p, q
<1> QED BY <1>6, <1>7, <1>8 DEF t

\* Only the indexes within the sequence matter.
LEMMA ElementsAgree ==
  ASSUME NEW S, NEW s \in Seq(S), NEW I, NEW J, \A i \in 1..Len(s) : i \in I <=> i \in J
  PROVE  Elements(s, I) = Elements(s, J)
<1> DEFINE n == Len(s)
           p == Picked(s, I)
           q == Picked(s, J)
           Q == {k \in Nat : k <= n => q[k] = p[k]}
<1>1. n \in Nat
  BY LenProperties
<1>2. p[0] = <<>> /\ \A i \in 1..n : p[i] = IF i \in I THEN Append(p[i - 1], s[i]) ELSE p[i - 1]
  BY PickedIs
<1>3. q[0] = <<>> /\ \A i \in 1..n : q[i] = IF i \in J THEN Append(q[i - 1], s[i]) ELSE q[i - 1]
  BY PickedIs
<1>4. \A i \in 1..n : i \in I <=> i \in J
  OBVIOUS
<1>5. Elements(s, I) = p[n] /\ Elements(s, J) = q[n]
  BY DEF Elements
<1> HIDE DEF p, q, n
<1>6. 0 \in Q
  BY <1>2, <1>3
<1>7. ASSUME NEW k \in Nat, k \in Q PROVE k + 1 \in Q
  <2> SUFFICES ASSUME k + 1 <= n PROVE q[k + 1] = p[k + 1]
    OBVIOUS
  <2>1. k + 1 \in 1..n /\ (k + 1) - 1 = k /\ q[k] = p[k]
    BY <1>1, <1>7
  <2> QED BY <1>2, <1>3, <1>4, <2>1
<1>8. n \in Q
  <2> HIDE DEF Q
  <2> QED BY <1>1, <1>6, <1>7, NumbersFrom0
<1> QED BY <1>1, <1>5, <1>8

\* The same for the elements of a set.
LEMMA WithinOfEmpty == \A M : Within(<<>>, M) = <<>>
BY ElementsOfEmpty DEF Within

\* The last element of a sequence, taken for what it is.
LEMMA WithinOfAppend ==
  ASSUME NEW S, NEW s \in Seq(S), NEW x \in S, NEW M
  PROVE  Within(Append(s, x), M) = IF x \in M THEN Append(Within(s, M), x) ELSE Within(s, M)
<1> DEFINE t == Append(s, x)
           I == {i \in DOMAIN t : t[i] \in M}
<1>1. /\ Len(s) \in Nat /\ DOMAIN s = 1..Len(s) /\ DOMAIN t = 1..(Len(s) + 1)
      /\ (\A i \in 1..Len(s) : t[i] = s[i]) /\ t[Len(s) + 1] = x
  <2>1. t \in Seq(S) /\ Len(t) = Len(s) + 1 /\ (\A i \in 1..Len(s) : t[i] = s[i]) /\ t[Len(s) + 1] = x
    BY AppendProperties
  <2>2. Len(s) \in Nat /\ DOMAIN s = 1..Len(s)
    BY LenProperties
  <2>3. t \in Seq(S)
    BY <2>1
  <2>4. DOMAIN t = 1..Len(t)
    BY <2>3, LenProperties
  <2>5. DOMAIN t = 1..(Len(s) + 1)
    BY <2>1, <2>4
  <2> HIDE DEF t
  <2> QED BY <2>1, <2>2, <2>5
<1>2. Elements(t, I) = IF Len(s) + 1 \in I THEN Append(Elements(s, I), x) ELSE Elements(s, I)
  <2> HIDE DEF I
  <2> QED BY ElementsOfAppend
<1>3. Len(s) + 1 \in I <=> x \in M
  BY <1>1
<1>4. \A i \in 1..Len(s) : i \in I <=> i \in {j \in DOMAIN s : s[j] \in M}
  BY <1>1
<1> HIDE DEF I
<1>5. Elements(s, I) = Within(s, M)
  BY <1>4, ElementsAgree DEF Within
<1> QED BY <1>2, <1>3, <1>5 DEF Within, I

\* What is taken is of the kind of the sequence.
LEMMA WithinIsSeq ==
  ASSUME NEW S, NEW s \in Seq(S), NEW M
  PROVE  Within(s, M) \in Seq(S)
BY ElementsAreElements DEF Within

\* A sequence holds one more element after Append,
LEMMA ToSetOfAppend ==
  ASSUME NEW S, NEW s \in Seq(S), NEW x \in S
  PROVE  ToSet(Append(s, x)) = ToSet(s) \union {x}
<1>1. /\ Append(s, x) \in Seq(S) /\ Len(Append(s, x)) = Len(s) + 1
      /\ (\A i \in 1..Len(s) : Append(s, x)[i] = s[i]) /\ Append(s, x)[Len(s) + 1] = x
  BY AppendProperties
<1>2. Append(s, x) \in Seq(S)
  BY <1>1
<1>3. Len(s) \in Nat /\ DOMAIN s = 1..Len(s)
  BY LenProperties
<1>4. DOMAIN Append(s, x) = 1..(Len(s) + 1)
  BY <1>1, <1>2, LenProperties
<1> DEFINE t == Append(s, x)
<1> HIDE DEF t
<1> QED BY <1>1, <1>3, <1>4 DEF ToSet, t

\* and none when it is empty.
LEMMA ToSetOfEmpty == ToSet(<<>>) = {}
BY DEF ToSet

\* What is taken of a sequence are its elements in the set.
LEMMA WithinToSet ==
  ASSUME NEW S, NEW s \in Seq(S), NEW M
  PROVE  ToSet(Within(s, M)) = ToSet(s) \intersect M
<1> DEFINE P == {t \in Seq(S) : ToSet(Within(t, M)) = ToSet(t) \intersect M}
<1>1. <<>> \in P
  BY EmptySeq, WithinOfEmpty, ToSetOfEmpty
<1>2. ASSUME NEW t \in Seq(S), NEW x \in S, t \in P PROVE Append(t, x) \in P
  <2>1. Append(t, x) \in Seq(S) /\ ToSet(Append(t, x)) = ToSet(t) \union {x}
    BY AppendProperties, ToSetOfAppend
  <2>2. Within(Append(t, x), M) = IF x \in M THEN Append(Within(t, M), x) ELSE Within(t, M)
    BY WithinOfAppend
  <2>3. Within(t, M) \in Seq(S)
    BY WithinIsSeq
  <2>4. ToSet(Append(Within(t, M), x)) = ToSet(Within(t, M)) \union {x}
    BY <2>3, ToSetOfAppend
  <2>5. ToSet(Within(t, M)) = ToSet(t) \intersect M
    BY <1>2
  <2>6. ToSet(Within(Append(t, x), M)) = ToSet(Append(t, x)) \intersect M
    BY <2>1, <2>2, <2>4, <2>5
  <2> QED BY <2>1, <2>6
<1> HIDE DEF P
<1>3. s \in P
  BY <1>1, <1>2, SequencesFromEmpty
<1> QED BY <1>3 DEF P

\* Taking everything takes all.
LEMMA WithinAll ==
  ASSUME NEW S, NEW s \in Seq(S), NEW M, S \subseteq M
  PROVE  Within(s, M) = s
<1> DEFINE P == {t \in Seq(S) : Within(t, M) = t}
<1>1. <<>> \in P
  BY EmptySeq, WithinOfEmpty
<1>2. ASSUME NEW t \in Seq(S), NEW x \in S, t \in P PROVE Append(t, x) \in P
  <2>1. Append(t, x) \in Seq(S)
    BY AppendProperties
  <2>2. Within(Append(t, x), M) = IF x \in M THEN Append(Within(t, M), x) ELSE Within(t, M)
    BY WithinOfAppend
  <2>3. x \in M /\ Within(t, M) = t
    BY <1>2
  <2> QED BY <2>1, <2>2, <2>3
<1> HIDE DEF P
<1>3. s \in P
  BY <1>1, <1>2, SequencesFromEmpty
<1> QED BY <1>3 DEF P

\* Taking twice is taking what is in both sets.
LEMMA WithinTwice ==
  ASSUME NEW S, NEW s \in Seq(S), NEW A, NEW B
  PROVE  Within(Within(s, A), B) = Within(s, A \intersect B)
<1> DEFINE P == {t \in Seq(S) : Within(Within(t, A), B) = Within(t, A \intersect B)}
<1>1. <<>> \in P
  BY EmptySeq, WithinOfEmpty
<1>2. ASSUME NEW t \in Seq(S), NEW x \in S, t \in P PROVE Append(t, x) \in P
  <2> DEFINE u == Within(t, A)
             C == A \intersect B
  <2>1. Append(t, x) \in Seq(S)
    BY AppendProperties
  <2>2. Within(Append(t, x), A) = IF x \in A THEN Append(u, x) ELSE u
    BY WithinOfAppend
  <2>3. Within(Append(t, x), C) = IF x \in C THEN Append(Within(t, C), x) ELSE Within(t, C)
    BY WithinOfAppend
  <2>4. u \in Seq(S)
    BY WithinIsSeq
  <2>5. Within(u, B) = Within(t, C)
    BY <1>2
  <2> HIDE DEF u
  <2>6. Within(Append(u, x), B) = IF x \in B THEN Append(Within(u, B), x) ELSE Within(u, B)
    BY <2>4, WithinOfAppend
  <2>7. x \in C <=> x \in A /\ x \in B
    OBVIOUS
  <2> HIDE DEF C
  <2>8. Within(Within(Append(t, x), A), B) = Within(Append(t, x), C)
    BY <2>2, <2>3, <2>5, <2>6, <2>7
  <2> QED BY <2>1, <2>8 DEF C
<1> HIDE DEF P
<1>3. s \in P
  BY <1>1, <1>2, SequencesFromEmpty
<1> QED BY <1>3 DEF P

\* Append after concatenation.
LEMMA ConcatOfAppend ==
  ASSUME NEW S, NEW s \in Seq(S), NEW t \in Seq(S), NEW x \in S
  PROVE  s \o Append(t, x) = Append(s \o t, x)
<1>1. Append(t, x) = t \o <<x>>
  BY AppendIsConcat
<1>2. s \o t \in Seq(S) /\ <<x>> \in Seq(S)
  BY ConcatProperties
<1>3. Append(s \o t, x) = (s \o t) \o <<x>>
  BY <1>2, AppendIsConcat
<1>4. (s \o t) \o <<x>> = s \o (t \o <<x>>)
  BY <1>2, ConcatAssociative
<1> QED BY <1>1, <1>3, <1>4

\* What is taken of two sequences is taken of each.
LEMMA WithinOfConcat ==
  ASSUME NEW S, NEW s \in Seq(S), NEW t \in Seq(S), NEW M
  PROVE  Within(s \o t, M) = Within(s, M) \o Within(t, M)
<1> DEFINE P == {u \in Seq(S) : Within(s \o u, M) = Within(s, M) \o Within(u, M)}
<1>1. Within(s, M) \in Seq(S)
  BY WithinIsSeq
<1>2. <<>> \in P
  BY <1>1, EmptySeq, WithinOfEmpty, ConcatEmptySeq
<1>3. ASSUME NEW u \in Seq(S), NEW x \in S, u \in P PROVE Append(u, x) \in P
  <2> DEFINE a == Within(s, M)
             b == Within(u, M)
             c == s \o u
  <2>1. Append(u, x) \in Seq(S)
    BY AppendProperties
  <2>2. c \in Seq(S)
    BY ConcatProperties
  <2>3. s \o Append(u, x) = Append(c, x)
    BY ConcatOfAppend
  <2>4. Within(Append(u, x), M) = IF x \in M THEN Append(b, x) ELSE b
    BY WithinOfAppend
  <2>5. b \in Seq(S)
    BY WithinIsSeq
  <2>6. Within(c, M) = a \o b
    BY <1>3
  <2> HIDE DEF c
  <2>7. Within(Append(c, x), M) = IF x \in M THEN Append(Within(c, M), x) ELSE Within(c, M)
    BY <2>2, WithinOfAppend
  <2>8. a \o Append(b, x) = Append(a \o b, x)
    BY <1>1, <2>5, ConcatOfAppend
  <2>9. Within(s \o Append(u, x), M) = a \o Within(Append(u, x), M)
    <3> HIDE DEF a, b
    <3> QED BY <2>3, <2>4, <2>6, <2>7, <2>8
  <2> QED BY <2>1, <2>9
<1> HIDE DEF P
<1>4. t \in P
  BY <1>2, <1>3, SequencesFromEmpty
<1> QED BY <1>4 DEF P

\* A sequence without repetition and a new element.
LEMMA InjectiveAppend ==
  ASSUME NEW S, NEW s \in Seq(S), NEW x \in S
  PROVE  IsInjective(Append(s, x)) <=> IsInjective(s) /\ x \notin ToSet(s)
<1> DEFINE t == Append(s, x)
           n == Len(s)
<1>1. t \in Seq(S)
  BY AppendProperties
<1>2. Len(t) = n + 1 /\ (\A i \in 1..n : t[i] = s[i]) /\ t[n + 1] = x
  BY AppendProperties
<1>3. n \in Nat /\ DOMAIN s = 1..n
  BY LenProperties
<1>4. DOMAIN t = 1..(n + 1)
  BY <1>1, <1>2, LenProperties
<1> HIDE DEF t, n
<1>5. n + 1 \in 1..(n + 1) /\ \A i \in 1..n : i \in 1..(n + 1) /\ i # n + 1
  BY <1>3
<1>6. \A i \in 1..(n + 1) : i = n + 1 \/ i \in 1..n
  BY <1>3
<1>7. ASSUME IsInjective(t) PROVE IsInjective(s) /\ x \notin ToSet(s)
  BY <1>2, <1>3, <1>4, <1>5, <1>7 DEF IsInjective, ToSet
<1>8. ASSUME IsInjective(s), x \notin ToSet(s) PROVE IsInjective(t)
  BY <1>2, <1>3, <1>4, <1>6, <1>8 DEF IsInjective, ToSet
<1> QED BY <1>7, <1>8 DEF t

\* Part of a sequence without repetition repeats nothing.
LEMMA InjectiveWithin ==
  ASSUME NEW S, NEW s \in Seq(S), NEW M, IsInjective(s)
  PROVE  IsInjective(Within(s, M))
<1> DEFINE P == {t \in Seq(S) : IsInjective(t) => IsInjective(Within(t, M))}
<1>1. <<>> \in P
  BY EmptySeq, WithinOfEmpty
<1>2. ASSUME NEW t \in Seq(S), NEW x \in S, t \in P PROVE Append(t, x) \in P
  <2>1. Append(t, x) \in Seq(S)
    BY AppendProperties
  <2> SUFFICES ASSUME IsInjective(Append(t, x)) PROVE IsInjective(Within(Append(t, x), M))
    BY <2>1
  <2>2. IsInjective(t) /\ x \notin ToSet(t)
    BY InjectiveAppend
  <2>3. Within(Append(t, x), M) = IF x \in M THEN Append(Within(t, M), x) ELSE Within(t, M)
    BY WithinOfAppend
  <2>4. Within(t, M) \in Seq(S)
    BY WithinIsSeq
  <2>5. IsInjective(Within(t, M)) /\ x \notin ToSet(Within(t, M))
    BY <1>2, <2>2, WithinToSet
  <2>6. IsInjective(Append(Within(t, M), x))
    BY <2>4, <2>5, InjectiveAppend
  <2> QED BY <2>3, <2>5, <2>6
<1> HIDE DEF P
<1>3. s \in P
  BY <1>1, <1>2, SequencesFromEmpty
<1> QED BY <1>3 DEF P

-----------------------------------------------------------------------------
(* Contents and what is left of them without some files.                   *)

Materials == ToSet(Priority)

Stuff == {FilePart(m) : m \in Materials} \union {Text(x[1], x[2]) : x \in Nat \X BOOLEAN}
           \union {[kind |-> "answer", of |-> n] : n \in Nat}

Message == [role : {"user", "model"}, parts : Seq(Stuff)]

Loose(M) == {p \in Stuff : p.kind # "file" \/ p.of \notin M}
Filled   == {c \in Message : c.parts # <<>>}

\* The parts of a message are files, texts or answers.
LEMMA StuffKinds ==
  /\ \A m \in Materials : FilePart(m) \in Stuff
  /\ \A n \in Nat, b \in BOOLEAN : Text(n, b) \in Stuff
  /\ \A n \in Nat : [kind |-> "answer", of |-> n] \in Stuff
  /\ \A p \in Stuff : p.kind = "file" => \E m \in Materials : p = FilePart(m)
<1>1. ASSUME NEW n \in Nat, NEW b \in BOOLEAN PROVE Text(n, b) \in Stuff
  <2>1. <<n, b>> \in Nat \X BOOLEAN
    OBVIOUS
  <2>2. Text(<<n, b>>[1], <<n, b>>[2]) = Text(n, b)
    OBVIOUS
  <2> QED BY <2>1, <2>2 DEF Stuff
<1>2. ASSUME NEW p \in Stuff, p.kind = "file" PROVE \E m \in Materials : p = FilePart(m)
  <2>1. \A n, b : Text(n, b).kind = "text"
    BY DEF Text
  <2> QED BY <1>2, <2>1 DEF Stuff
<1> QED BY <1>1, <1>2 DEF Stuff

\* Leaving out is taking the rest.
LEMMA OutsideIsWithin ==
  ASSUME NEW S, NEW s \in Seq(S), NEW M
  PROVE  Outside(s, M) = Within(s, S \ M)
<1>1. \A i \in 1..Len(s) : s[i] \in S
  BY ElementOfSeq
<1>2. DOMAIN s = 1..Len(s)
  BY LenProperties
<1>3. \A i \in 1..Len(s) : i \in {j \in DOMAIN s : s[j] \notin M} <=> i \in {j \in DOMAIN s : s[j] \in S \ M}
  BY <1>1, <1>2
<1>4. Elements(s, {j \in DOMAIN s : s[j] \notin M}) = Elements(s, {j \in DOMAIN s : s[j] \in S \ M})
  BY <1>3, ElementsAgree
<1> QED BY <1>4 DEF Outside, Within

\* Parts without files are the loose ones.
LEMMA BareIsWithin ==
  ASSUME NEW s \in Seq(Stuff), NEW M
  PROVE  Bare(s, M) = Within(s, Loose(M))
<1>1. \A i \in 1..Len(s) : s[i] \in Stuff
  BY ElementOfSeq
<1>2. DOMAIN s = 1..Len(s)
  BY LenProperties
<1> DEFINE I == {j \in DOMAIN s : s[j].kind # "file" \/ s[j].of \notin M}
           J == {j \in DOMAIN s : s[j] \in Loose(M)}
<1>3. \A i \in 1..Len(s) : i \in I <=> i \in J
  BY <1>1, <1>2 DEF Loose
<1> HIDE DEF I, J
<1>4. Elements(s, I) = Elements(s, J)
  BY <1>3, ElementsAgree
<1> QED BY <1>4 DEF Bare, Within, I, J

\* What is left after leaving out.
LEMMA OutsideToSet ==
  ASSUME NEW S, NEW s \in Seq(S), NEW M
  PROVE  ToSet(Outside(s, M)) = ToSet(s) \ M
<1>1. \A i \in 1..Len(s) : s[i] \in S
  BY ElementOfSeq
<1>2. DOMAIN s = 1..Len(s)
  BY LenProperties
<1>3. ToSet(s) \subseteq S
  BY <1>1, <1>2 DEF ToSet
<1>4. ToSet(Within(s, S \ M)) = ToSet(s) \intersect (S \ M)
  BY WithinToSet
<1>5. Outside(s, M) = Within(s, S \ M)
  BY OutsideIsWithin
<1>6. ToSet(s) \intersect (S \ M) = ToSet(s) \ M
  BY <1>3
<1> QED BY <1>4, <1>5, <1>6

\* The file parts of materials, one by one.
LEMMA FilesOfEmpty == Files(<<>>) = <<>>
BY DEF Files

\* One more material is one more file part.
LEMMA FilesOfAppend ==
  ASSUME NEW s \in Seq(Materials), NEW m \in Materials
  PROVE  Files(s) \in Seq(Stuff) /\ Files(Append(s, m)) = Append(Files(s), FilePart(m))
<1> DEFINE t == Append(s, m)
           n == Len(s)
<1>1. t \in Seq(Materials)
  BY AppendProperties
<1>2. Len(t) = n + 1 /\ (\A i \in 1..n : t[i] = s[i]) /\ t[n + 1] = m
  BY AppendProperties
<1>3. n \in Nat /\ DOMAIN s = 1..n
  BY LenProperties
<1>4. DOMAIN t = 1..(n + 1)
  BY <1>1, <1>2, LenProperties
<1>5. \A i \in 1..n : s[i] \in Materials
  BY ElementOfSeq
<1> HIDE DEF t, n
<1>6. Files(s) = [i \in 1..n |-> FilePart(s[i])] /\ Files(t) = [i \in 1..(n + 1) |-> FilePart(t[i])]
  BY <1>3, <1>4 DEF Files
<1>7. \A i \in 1..n : FilePart(s[i]) \in Stuff
  BY <1>5, StuffKinds
<1>8. Files(s) \in Seq(Stuff)
  BY <1>3, <1>6, <1>7, SeqDef
<1>9. Len(Files(s)) = n /\ FilePart(m) \in Stuff
  BY <1>3, <1>6, StuffKinds
<1> DEFINE u == Append(Files(s), FilePart(m))
<1>10. u \in Seq(Stuff) /\ Len(u) = n + 1 /\ (\A i \in 1..n : u[i] = Files(s)[i]) /\ u[n + 1] = FilePart(m)
  BY <1>8, <1>9, AppendProperties
<1>11. u \in Seq(Stuff)
  BY <1>10
<1>12. u \in [1..(n + 1) -> Stuff]
  BY <1>10, <1>11, LenProperties
<1> HIDE DEF u
<1>13. ASSUME NEW i \in 1..(n + 1) PROVE u[i] = Files(t)[i]
  <2>1. CASE i \in 1..n
    BY <1>2, <1>6, <1>10, <2>1
  <2>2. CASE i = n + 1
    BY <1>2, <1>3, <1>6, <1>10, <2>2
  <2> QED BY <1>3, <2>1, <2>2
<1>14. u = Files(t)
  BY <1>6, <1>12, <1>13
<1> QED BY <1>8, <1>14 DEF t, u

\* The file part of each material is at its place.
LEMMA FilesAreStuff ==
  ASSUME NEW s \in Seq(Materials)
  PROVE  Files(s) \in Seq(Stuff) /\ Len(Files(s)) = Len(s) /\ \A i \in 1..Len(s) : Files(s)[i] = FilePart(s[i])
<1>1. DOMAIN s = 1..Len(s) /\ Len(s) \in Nat
  BY LenProperties
<1>2. \A i \in 1..Len(s) : FilePart(s[i]) \in Stuff
  BY ElementOfSeq, StuffKinds
<1>3. Files(s) = [i \in 1..Len(s) |-> FilePart(s[i])]
  BY <1>1 DEF Files
<1> QED BY <1>1, <1>2, <1>3, SeqDef

\* Taking files out of parts is taking materials out of the list.
LEMMA FilesWithout ==
  ASSUME NEW s \in Seq(Materials), NEW M
  PROVE  Bare(Files(s), M) = Files(Outside(s, M))
<1> DEFINE A == Materials \ M
           P == {t \in Seq(Materials) : Within(Files(t), Loose(M)) = Files(Within(t, A))}
<1>1. <<>> \in P
  BY EmptySeq, WithinOfEmpty, FilesOfEmpty
<1>2. ASSUME NEW t \in Seq(Materials), NEW m \in Materials, t \in P PROVE Append(t, m) \in P
  <2>1. Append(t, m) \in Seq(Materials)
    BY AppendProperties
  <2>2. Files(t) \in Seq(Stuff) /\ Files(Append(t, m)) = Append(Files(t), FilePart(m))
    BY FilesOfAppend
  <2>3. Within(Append(t, m), A) = IF m \in A THEN Append(Within(t, A), m) ELSE Within(t, A)
    BY WithinOfAppend
  <2>4. Within(t, A) \in Seq(Materials)
    BY WithinIsSeq
  <2>5. Files(Append(Within(t, A), m)) = Append(Files(Within(t, A)), FilePart(m))
    BY <2>4, FilesOfAppend
  <2>6. Files(t) \in Seq(Stuff) /\ FilePart(m) \in Stuff
    BY <2>2, StuffKinds
  <2> DEFINE u == Files(t)
             x == FilePart(m)
  <2>7. u \in Seq(Stuff)
    BY <2>6
  <2>8. x \in Stuff
    BY <2>6
  <2>9. x \in Loose(M) <=> m \in A
    BY <2>8 DEF FilePart, Loose
  <2> HIDE DEF u, x
  <2>10. Within(Append(u, x), Loose(M)) = IF x \in Loose(M) THEN Append(Within(u, Loose(M)), x) ELSE Within(u, Loose(M))
    BY <2>7, <2>8, WithinOfAppend
  <2>11. Within(u, Loose(M)) = Files(Within(t, A))
    BY <1>2 DEF u
  <2> HIDE DEF A
  <2>12. Within(Files(Append(t, m)), Loose(M)) = Files(Within(Append(t, m), A))
    BY <2>2, <2>3, <2>5, <2>9, <2>10, <2>11 DEF u, x
  <2> QED BY <2>1, <2>12 DEF A
<1>3. s \in P
  <2> HIDE DEF P
  <2> QED BY <1>1, <1>2, SequencesFromEmpty
<1>4. Files(s) \in Seq(Stuff)
  BY FilesAreStuff
<1> QED BY <1>3, <1>4, BareIsWithin, OutsideIsWithin

\* What is left is of the kind of the sequence.
LEMMA OutsideIsSeq ==
  ASSUME NEW S, NEW s \in Seq(S), NEW M
  PROVE  Outside(s, M) \in Seq(S)
BY ElementsAreElements DEF Outside

\* Outside twice.
LEMMA OutsideTwice ==
  ASSUME NEW S, NEW s \in Seq(S), NEW A, NEW B
  PROVE  Outside(Outside(s, A), B) = Outside(s, A \union B)
<1>1. Outside(s, A) \in Seq(S)
  BY OutsideIsSeq
<1>2. Outside(Outside(s, A), B) = Within(Outside(s, A), S \ B)
  BY <1>1, OutsideIsWithin
<1>3. Outside(s, A) = Within(s, S \ A) /\ Outside(s, A \union B) = Within(s, S \ (A \union B))
  BY OutsideIsWithin
<1>4. Within(Within(s, S \ A), S \ B) = Within(s, (S \ A) \intersect (S \ B))
  BY WithinTwice
<1>5. (S \ A) \intersect (S \ B) = S \ (A \union B)
  OBVIOUS
<1> QED BY <1>2, <1>3, <1>4, <1>5

\* A message: files, then a text.
Said(ids, n, b) == Append(Files(ids), Text(n, b))

\* A question is its files in order, then its text.
LEMMA SaidIsStuff ==
  ASSUME NEW ids \in Seq(Materials), NEW n \in Nat, NEW b \in BOOLEAN
  PROVE  /\ Said(ids, n, b) \in Seq(Stuff)
         /\ Said(ids, n, b) # <<>>
         /\ Said(ids, n, b) = Files(ids) \o <<Text(n, b)>>
         /\ Len(Said(ids, n, b)) = Len(ids) + 1
         /\ \A i \in 1..Len(ids) : Said(ids, n, b)[i] = FilePart(ids[i])
         /\ Said(ids, n, b)[Len(ids) + 1] = Text(n, b)
<1> DEFINE f == Files(ids)
           x == Text(n, b)
<1>1. f \in Seq(Stuff)
  BY FilesAreStuff
<1>2. Len(f) = Len(ids) /\ \A i \in 1..Len(ids) : f[i] = FilePart(ids[i])
  BY FilesAreStuff
<1>3. x \in Stuff
  BY StuffKinds
<1> HIDE DEF f, x
<1>4. /\ Append(f, x) \in Seq(Stuff) /\ Append(f, x) # <<>> /\ Len(Append(f, x)) = Len(f) + 1
      /\ (\A i \in 1..Len(f) : Append(f, x)[i] = f[i]) /\ Append(f, x)[Len(f) + 1] = x
  BY <1>1, <1>3, AppendProperties
<1>5. Append(f, x) = f \o <<x>>
  BY <1>1, <1>3, AppendIsConcat
<1> QED BY <1>2, <1>4, <1>5 DEF Said, f, x

\* Without some files a question has the other files and the text.
LEMMA SaidWithout ==
  ASSUME NEW ids \in Seq(Materials), NEW n \in Nat, NEW b \in BOOLEAN, NEW M
  PROVE  Bare(Said(ids, n, b), M) = Said(Outside(ids, M), n, b)
<1> DEFINE f == Files(ids)
           x == Text(n, b)
<1>1. f \in Seq(Stuff)
  BY FilesAreStuff
<1>2. x \in Stuff /\ x.kind = "text"
  BY StuffKinds DEF Text
<1>3. x \in Stuff
  BY <1>2
<1>4. x \in Loose(M)
  BY <1>2 DEF Loose
<1>5. Within(f, Loose(M)) = Files(Outside(ids, M))
  BY <1>1, FilesWithout, BareIsWithin
<1>6. Said(ids, n, b) \in Seq(Stuff)
  BY SaidIsStuff
<1>7. Bare(Said(ids, n, b), M) = Within(Append(f, x), Loose(M))
  BY <1>6, BareIsWithin DEF Said
<1> HIDE DEF f, x
<1>8. Within(Append(f, x), Loose(M)) = Append(Within(f, Loose(M)), x)
  BY <1>1, <1>3, <1>4, WithinOfAppend
<1> QED BY <1>5, <1>7, <1>8 DEF Said, x

-----------------------------------------------------------------------------
(* One sequence of many.                                                   *)

Flow(c, f, S) ==
  /\ f \in [0..Len(c) -> Seq(S)]
  /\ f[0] = <<>>
  /\ \A i \in 1..Len(c) : f[i] = f[i - 1] \o c[i]

\* Sequences can be joined one by one,
LEMMA FlowExists ==
  ASSUME NEW S, NEW c \in Seq(Seq(S))
  PROVE  \E f : Flow(c, f, S)
<1> DEFINE V == Seq(S)
           n == Len(c)
           e == <<>>
           step == [i \in 1..n |-> [t \in V |-> t \o c[i]]]
<1>1. n \in Nat
  BY LenProperties
<1>2. \A i \in 1..n : c[i] \in Seq(S)
  BY ElementOfSeq
<1>3. ASSUME NEW i \in 1..n, NEW t \in Seq(S) PROVE t \o c[i] \in Seq(S)
  BY <1>2, ConcatProperties
<1>4. step \in [1..n -> [V -> V]]
  BY <1>3
<1>5. e \in V
  BY EmptySeq
<1>6. \A i \in 1..n : \A t \in V : step[i][t] = t \o c[i]
  OBVIOUS
<1> HIDE DEF V, n, e, step
<1>7. Reached(V, n, e, step)
  BY <1>1, <1>4, <1>5, Recursion
<1>8. PICK f \in [0..n -> V] : f[0] = e /\ \A i \in 1..n : f[i] = step[i][f[i - 1]]
  BY <1>7 DEF Reached
<1>9. \A i \in 1..n : f[i - 1] \in V
  BY <1>1
<1>10. \A i \in 1..n : f[i] = f[i - 1] \o c[i]
  BY <1>6, <1>8, <1>9
<1> QED BY <1>8, <1>10 DEF Flow, V, n, e

\* which is what FlattenSeq returns.
LEMMA FlattenFlows ==
  ASSUME NEW S, NEW c \in Seq(Seq(S)), NEW f, Flow(c, f, S)
  PROVE  FlattenSeq(c) = f[Len(c)]
<1> DEFINE n == Len(c)
<1>1. n \in Nat
  BY LenProperties
<1>2. \A i \in 1..n : c[i] \in Seq(S)
  BY ElementOfSeq
<1>3. f \in [0..n -> Seq(S)] /\ f[0] = <<>> /\ \A i \in 1..n : f[i] = f[i - 1] \o c[i]
  BY DEF Flow
<1>4. CASE n = 0
  <2>1. c = <<>>
    BY <1>4, EmptySeq
  <2> QED BY <1>3, <1>4, <2>1 DEF FlattenSeq
<1>5. CASE n # 0
  <2> DEFINE Rule(h) == [i \in 1..n |-> IF i = 1 THEN c[i] ELSE h[i - 1] \o c[i]]
             g == [i \in 1..n |-> f[i]]
  <2>1. ASSUME NEW i \in 1..n PROVE g[i] = Rule(g)[i]
    <3>1. CASE i = 1
      <4>4. 1 \in 1..n /\ 1 - 1 = 0
        BY <1>1, <1>5
      <4>1. f[1] = <<>> \o c[1]
        BY <1>3, <4>4
      <4>2. c[1] \in Seq(S)
        BY <1>1, <1>2, <1>5
      <4>3. <<>> \o c[1] = c[1]
        BY <4>2, ConcatEmptySeq
      <4> QED BY <3>1, <4>1, <4>3
    <3>2. CASE i # 1
      <4>1. i - 1 \in 1..n /\ g[i - 1] = f[i - 1]
        BY <1>1, <3>2
      <4> QED BY <1>3, <3>2, <4>1
    <3> QED BY <3>1, <3>2
  <2>2. g = Rule(g)
    <3>1. g = [i \in 1..n |-> g[i]] /\ Rule(g) = [i \in 1..n |-> Rule(g)[i]]
      OBVIOUS
    <3> HIDE DEF g, Rule
    <3> QED BY <2>1, <3>1
  <2>3. PICK F : F = CHOOSE h : h = Rule(h)
    OBVIOUS
  <2>4. F = Rule(F)
    <3>1. PICK h : h = Rule(h)
      BY <2>2
    <3> HIDE DEF Rule
    <3>2. (CHOOSE z : z = Rule(z)) = Rule(CHOOSE z : z = Rule(z))
      BY <3>1, Zenon
    <3> QED BY <2>3, <3>2, Zenon
  <2>5. FlattenSeq(c) = F[n]
    BY <1>5, <2>3 DEF FlattenSeq
  <2> DEFINE Q == {k \in Nat : k + 1 <= n => F[k + 1] = f[k + 1]}
  <2>6. F[1] = f[1]
    <3>1. F[1] = c[1]
      <4>1. 1 \in 1..n /\ F[1] = Rule(F)[1]
        BY <1>1, <1>5, <2>4
      <4> QED BY <4>1
    <3>5. 1 \in 1..n /\ 1 - 1 = 0
      BY <1>1, <1>5
    <3>2. f[1] = <<>> \o c[1] /\ c[1] \in Seq(S)
      BY <1>2, <1>3, <3>5
    <3>3. c[1] \in Seq(S)
      BY <3>2
    <3>4. <<>> \o c[1] = c[1]
      BY <3>3, ConcatEmptySeq
    <3> QED BY <3>1, <3>2, <3>4
  <2>7. 0 \in Q
    BY <2>6
  <2>8. ASSUME NEW k \in Nat, k \in Q PROVE k + 1 \in Q
    <3> SUFFICES ASSUME (k + 1) + 1 <= n PROVE F[(k + 1) + 1] = f[(k + 1) + 1]
      OBVIOUS
    <3>1. (k + 1) + 1 \in 1..n /\ ((k + 1) + 1) - 1 = k + 1 /\ (k + 1) + 1 # 1 /\ F[k + 1] = f[k + 1]
      BY <1>1, <2>8
    <3>2. F[(k + 1) + 1] = Rule(F)[(k + 1) + 1]
      BY <2>4
    <3> DEFINE m == (k + 1) + 1
    <3>3. m \in 1..n /\ m - 1 = k + 1 /\ m # 1 /\ F[m] = Rule(F)[m]
      BY <3>1, <3>2
    <3> HIDE DEF m
    <3>4. F[m] = F[m - 1] \o c[m] /\ f[m] = f[m - 1] \o c[m]
      BY <1>3, <3>3
    <3> QED BY <3>1, <3>3, <3>4 DEF m
  <2>9. \A k \in Nat : k \in Q
    <3> HIDE DEF Q
    <3> QED BY <2>7, <2>8, NumbersFrom0
  <2>10. n - 1 \in Nat /\ (n - 1) + 1 = n
    BY <1>1, <1>5
  <2>11. F[n] = f[n]
    <3>1. n - 1 \in Q
      BY <2>9, <2>10
    <3>2. F[(n - 1) + 1] = f[(n - 1) + 1]
      BY <2>10, <3>1
    <3> QED BY <2>10, <3>2
  <2> QED BY <2>5, <2>11
<1> QED BY <1>4, <1>5

\* FlattenSeq, from the first sequence to the last.
LEMMA FlattenOfEmpty == FlattenSeq(<<>>) = <<>>
BY DEF FlattenSeq

\* What is joined is of the kind of its pieces.
LEMMA FlattenIsSeq ==
  ASSUME NEW S, NEW c \in Seq(Seq(S))
  PROVE  FlattenSeq(c) \in Seq(S)
<1>1. PICK f : Flow(c, f, S)
  BY FlowExists
<1>2. FlattenSeq(c) = f[Len(c)]
  BY <1>1, FlattenFlows
<1>3. Len(c) \in Nat
  BY LenProperties
<1> QED BY <1>1, <1>2, <1>3 DEF Flow

\* One more piece is joined at the end.
LEMMA FlattenOfAppend ==
  ASSUME NEW S, NEW c \in Seq(Seq(S)), NEW x \in Seq(S)
  PROVE  FlattenSeq(Append(c, x)) = FlattenSeq(c) \o x
<1> DEFINE d == Append(c, x)
           n == Len(c)
           V == Seq(S)
<1>1. d \in Seq(V)
  BY AppendProperties
<1>2. Len(d) = n + 1 /\ (\A i \in 1..n : d[i] = c[i]) /\ d[n + 1] = x
  BY AppendProperties
<1>3. n \in Nat
  BY LenProperties
<1> HIDE DEF d
<1>4. PICK f : Flow(d, f, S)
  BY <1>1, FlowExists
<1>5. FlattenSeq(d) = f[Len(d)]
  BY <1>1, <1>4, FlattenFlows
<1> DEFINE g == [i \in 0..n |-> f[i]]
<1>6. f \in [0..(n + 1) -> Seq(S)] /\ f[0] = <<>> /\ \A i \in 1..(n + 1) : f[i] = f[i - 1] \o d[i]
  BY <1>2, <1>4 DEF Flow
<1>7. g \in [0..n -> Seq(S)]
  BY <1>3, <1>6
<1>8. g[0] = <<>>
  BY <1>3, <1>6
<1>9. ASSUME NEW i \in 1..n PROVE g[i] = g[i - 1] \o c[i]
  <2>1. i \in 1..(n + 1) /\ i \in 0..n /\ i - 1 \in 0..n
    BY <1>3
  <2>2. f[i] = f[i - 1] \o d[i] /\ d[i] = c[i]
    BY <1>2, <1>6, <2>1
  <2> QED BY <2>1, <2>2
<1> HIDE DEF g
<1>10. Flow(c, g, S)
  BY <1>7, <1>8, <1>9 DEF Flow
<1>11. FlattenSeq(c) = g[n]
  BY <1>10, FlattenFlows
<1>12. f[n + 1] = f[n] \o x /\ g[n] = f[n]
  <2>1. n + 1 \in 1..(n + 1) /\ (n + 1) - 1 = n /\ n \in 0..n
    BY <1>3
  <2> QED BY <1>2, <1>6, <2>1 DEF g
<1> QED BY <1>2, <1>5, <1>11, <1>12 DEF d

-----------------------------------------------------------------------------
(* Conversations without some files.                                       *)

Trim(c, M)    == [c EXCEPT !.parts = Bare(@, M)]
Trimmed(c, M) == [i \in DOMAIN c |-> Trim(c[i], M)]

\* What users and models say are messages.
LEMMA MessageKinds ==
  /\ \A p \in Seq(Stuff) : UserContent(p) \in Message
  /\ \A n \in Nat : ModelContent(n) \in Message
<1>1. ASSUME NEW n \in Nat PROVE ModelContent(n) \in Message
  <2> DEFINE x == [kind |-> "answer", of |-> n]
  <2>1. x \in Stuff
    BY StuffKinds
  <2> HIDE DEF x
  <2>2. <<x>> \in Seq(Stuff)
    BY <2>1
  <2> QED BY <2>2 DEF ModelContent, Message, x
<1> QED BY <1>1 DEF UserContent, Message

\* A message stays one when files are taken out.
LEMMA TrimKinds ==
  ASSUME NEW c \in Message, NEW M
  PROVE  Trim(c, M) \in Message /\ Trim(c, M).parts = Bare(c.parts, M) /\ Trim(c, M).role = c.role
<1>1. c.parts \in Seq(Stuff)
  BY DEF Message
<1>2. Bare(c.parts, M) \in Seq(Stuff)
  BY <1>1, ElementsAreElements DEF Bare
<1> QED BY <1>2 DEF Trim, Message

\* So does each message of a conversation.
LEMMA TrimmedIs ==
  ASSUME NEW c \in Seq(Message), NEW M
  PROVE  /\ Trimmed(c, M) \in Seq(Message)
         /\ Len(Trimmed(c, M)) = Len(c)
         /\ \A i \in 1..Len(c) : Trimmed(c, M)[i] = Trim(c[i], M)
<1>1. DOMAIN c = 1..Len(c) /\ Len(c) \in Nat
  BY LenProperties
<1>2. \A i \in 1..Len(c) : Trim(c[i], M) \in Message
  BY ElementOfSeq, TrimKinds
<1>3. Trimmed(c, M) = [i \in 1..Len(c) |-> Trim(c[i], M)]
  BY <1>1 DEF Trimmed
<1> QED BY <1>1, <1>2, <1>3, SeqDef

\* Without some files, a conversation is its trimmed messages that are not empty.
LEMMA WithoutIsWithin ==
  ASSUME NEW c \in Seq(Message), NEW M
  PROVE  Without(c, M) = Within(Trimmed(c, M), Filled)
<1> DEFINE t == Trimmed(c, M)
           I == {i \in DOMAIN t : t[i].parts # <<>>}
           J == {i \in DOMAIN t : t[i] \in Filled}
<1>1. t \in Seq(Message)
  BY TrimmedIs
<1>2. DOMAIN t = 1..Len(t) /\ \A i \in 1..Len(t) : t[i] \in Message
  BY <1>1, LenProperties, ElementOfSeq
<1>3. Without(c, M) = Elements(t, I)
  BY DEF Without, Trimmed, Trim
<1>4. Within(t, Filled) = Elements(t, J)
  BY DEF Within
<1> HIDE DEF t
<1>5. \A i \in 1..Len(t) : i \in I <=> i \in J
  BY <1>2 DEF Filled
<1> HIDE DEF I, J
<1>6. Elements(t, I) = Elements(t, J)
  BY <1>1, <1>5, ElementsAgree
<1> QED BY <1>3, <1>4, <1>6 DEF t

\* It is a conversation again.
LEMMA WithoutIsSeq ==
  ASSUME NEW c \in Seq(Message), NEW M
  PROVE  Without(c, M) \in Seq(Message)
<1>1. Trimmed(c, M) \in Seq(Message)
  BY TrimmedIs
<1> QED BY <1>1, WithoutIsWithin, WithinIsSeq

\* Files may be taken out of two parts of a conversation separately.
LEMMA WithoutOfConcat ==
  ASSUME NEW c \in Seq(Message), NEW d \in Seq(Message), NEW M
  PROVE  Without(c \o d, M) = Without(c, M) \o Without(d, M)
<1> DEFINE e == c \o d
           t == Trimmed(c, M)
           u == Trimmed(d, M)
           v == Trimmed(e, M)
<1>1. e \in Seq(Message)
  BY ConcatProperties
<1>2. Len(e) = Len(c) + Len(d)
  BY ConcatProperties
<1>3. \A i \in 1..(Len(c) + Len(d)) : e[i] = IF i <= Len(c) THEN c[i] ELSE d[i - Len(c)]
  BY ConcatProperties
<1>4. Len(c) \in Nat /\ Len(d) \in Nat
  BY LenProperties
<1>5. t \in Seq(Message)
  BY TrimmedIs
<1>6. u \in Seq(Message)
  BY TrimmedIs
<1> HIDE DEF e
<1>7. v \in Seq(Message)
  BY <1>1, TrimmedIs
<1>8. /\ Len(t) = Len(c) /\ \A i \in 1..Len(c) : t[i] = Trim(c[i], M)
      /\ Len(u) = Len(d) /\ \A i \in 1..Len(d) : u[i] = Trim(d[i], M)
  BY TrimmedIs
<1>9. Len(v) = Len(e) /\ \A i \in 1..Len(e) : v[i] = Trim(e[i], M)
  BY <1>1, TrimmedIs
<1> HIDE DEF t, u, v
<1> DEFINE w == t \o u
<1>10. w \in Seq(Message)
  BY <1>5, <1>6, ConcatProperties
<1>11. Len(w) = Len(t) + Len(u) /\ \A i \in 1..(Len(t) + Len(u)) : w[i] = IF i <= Len(t) THEN t[i] ELSE u[i - Len(t)]
  BY <1>5, <1>6, ConcatProperties
<1> HIDE DEF w
<1>12. Len(v) = Len(w)
  BY <1>2, <1>8, <1>9, <1>11
<1>13. ASSUME NEW i \in 1..Len(v) PROVE v[i] = w[i]
  <2>1. i \in 1..(Len(c) + Len(d)) /\ v[i] = Trim(e[i], M)
    BY <1>2, <1>9
  <2>2. w[i] = IF i <= Len(c) THEN t[i] ELSE u[i - Len(c)]
    BY <1>8, <1>11, <2>1
  <2>3. CASE i <= Len(c)
    <3>1. i \in 1..Len(c) /\ e[i] = c[i]
      BY <1>3, <1>4, <2>1, <2>3
    <3> QED BY <1>8, <2>1, <2>2, <2>3, <3>1
  <2>4. CASE ~(i <= Len(c))
    <3>1. i - Len(c) \in 1..Len(d) /\ e[i] = d[i - Len(c)]
      BY <1>3, <1>4, <2>1, <2>4
    <3> QED BY <1>8, <2>1, <2>2, <2>4, <3>1
  <2> QED BY <2>3, <2>4
<1>14. v = w
  BY <1>7, <1>10, <1>12, <1>13, SeqEqual
<1>15. Within(w, Filled) = Within(t, Filled) \o Within(u, Filled)
  BY <1>5, <1>6, WithinOfConcat DEF w
<1>16. Without(e, M) = Within(v, Filled)
  BY <1>1, WithoutIsWithin DEF v
<1>17. Without(c, M) = Within(t, Filled) /\ Without(d, M) = Within(u, Filled)
  BY WithoutIsWithin DEF t, u
<1> QED BY <1>14, <1>15, <1>16, <1>17 DEF e

\* The empty conversation.
LEMMA WithoutOfEmpty == \A M : Without(<<>>, M) = <<>>
<1> SUFFICES ASSUME NEW M PROVE Without(<<>>, M) = <<>>
  OBVIOUS
<1>1. PICK c : c = <<>>
  OBVIOUS
<1>2. c \in Seq(Message)
  BY <1>1, EmptySeq
<1>3. Without(c, M) = Within(Trimmed(c, M), Filled)
  BY <1>2, WithoutIsWithin
<1>4. Trimmed(c, M) = <<>>
  BY <1>1 DEF Trimmed
<1> QED BY <1>1, <1>3, <1>4, WithinOfEmpty

\* A single message, left out when nothing is left of it.
LEMMA WithoutOfOne ==
  ASSUME NEW c \in Message, NEW M
  PROVE  Without(<<c>>, M) = IF Bare(c.parts, M) = <<>> THEN <<>> ELSE <<Trim(c, M)>>
<1> DEFINE e == <<>>
           x == Trim(c, M)
           s == <<c>>
<1>1. s \in Seq(Message)
  OBVIOUS
<1>2. Without(s, M) = Within(Trimmed(s, M), Filled)
  BY <1>1, WithoutIsWithin
<1>3. Trimmed(s, M) = <<x>>
  BY DEF Trimmed
<1>4. x \in Message
  BY TrimKinds
<1>5. x.parts = Bare(c.parts, M)
  BY TrimKinds
<1> HIDE DEF x
<1>6. e \in Seq(Message)
  BY EmptySeq
<1>7. Append(e, x) = <<x>>
  OBVIOUS
<1>8. Within(e, Filled) = <<>>
  BY WithinOfEmpty
<1> HIDE DEF e
<1>9. Within(Append(e, x), Filled) = IF x \in Filled THEN Append(Within(e, Filled), x) ELSE Within(e, Filled)
  BY <1>4, <1>6, WithinOfAppend
<1>10. x \in Filled <=> Bare(c.parts, M) # <<>>
  BY <1>4, <1>5 DEF Filled
<1>11. Append(<<>>, x) = <<x>>
  OBVIOUS
<1> QED BY <1>2, <1>3, <1>7, <1>8, <1>9, <1>10, <1>11 DEF x

\* Two messages, one after the other.
LEMMA TwoInOne ==
  ASSUME NEW S, NEW x \in S, NEW y \in S
  PROVE  <<x>> \o <<y>> = <<x, y>>
<1> DEFINE s == <<x>>
           t == <<x, y>>
           u == <<x>> \o <<y>>
           v == <<y>>
<1>1. s \in Seq(S) /\ Len(s) = 1 /\ s[1] = x
  OBVIOUS
<1>2. v \in Seq(S) /\ Len(v) = 1 /\ v[1] = y
  OBVIOUS
<1>3. t \in Seq(S) /\ Len(t) = 2 /\ t[1] = x /\ t[2] = y
  OBVIOUS
<1>4. u = s \o v
  OBVIOUS
<1> HIDE DEF s, t, u, v
<1>5. s \in Seq(S)
  BY <1>1
<1>6. v \in Seq(S)
  BY <1>2
<1>7. /\ u \in Seq(S) /\ Len(u) = Len(s) + Len(v)
      /\ \A i \in 1..(Len(s) + Len(v)) : u[i] = IF i <= Len(s) THEN s[i] ELSE v[i - Len(s)]
  BY <1>4, <1>5, <1>6, ConcatProperties
<1>8. Len(u) = Len(t) /\ u[1] = t[1] /\ u[2] = t[2]
  BY <1>1, <1>2, <1>3, <1>7
<1>9. \A i \in 1..Len(u) : u[i] = t[i]
  <2>1. \A i \in 1..2 : i = 1 \/ i = 2
    OBVIOUS
  <2> QED BY <1>3, <1>8, <2>1
<1>10. u \in Seq(S)
  BY <1>7
<1>11. t \in Seq(S)
  BY <1>3
<1>12. u = t
  BY <1>8, <1>9, <1>10, <1>11, SeqEqual
<1> QED BY <1>12 DEF t, u

\* A question always keeps its text.
LEMMA SaysWithout ==
  ASSUME NEW ids \in Seq(Materials), NEW n \in Nat, NEW b \in BOOLEAN, NEW M
  PROVE  Without(<<UserContent(Said(ids, n, b))>>, M) = <<UserContent(Said(Outside(ids, M), n, b))>>
<1> DEFINE c == UserContent(Said(ids, n, b))
           k == Said(Outside(ids, M), n, b)
<1>1. Outside(ids, M) \in Seq(Materials)
  BY OutsideIsSeq
<1>2. Said(ids, n, b) \in Seq(Stuff)
  BY SaidIsStuff
<1>3. k # <<>>
  BY <1>1, SaidIsStuff
<1>4. Bare(Said(ids, n, b), M) = k
  BY SaidWithout
<1>5. c \in Message
  BY <1>2, MessageKinds
<1>6. c.parts = Said(ids, n, b) /\ Trim(c, M) = UserContent(k)
  BY <1>4 DEF UserContent, Trim
<1> HIDE DEF c, k
<1>7. Without(<<c>>, M) = IF Bare(c.parts, M) = <<>> THEN <<>> ELSE <<Trim(c, M)>>
  BY <1>5, WithoutOfOne
<1>8. Bare(c.parts, M) # <<>>
  BY <1>3, <1>4, <1>6
<1> QED BY <1>6, <1>7, <1>8 DEF c, k

\* An answer has no files.
LEMMA AnswersWithout ==
  ASSUME NEW n \in Nat, NEW M
  PROVE  Without(<<ModelContent(n)>>, M) = <<ModelContent(n)>>
<1> DEFINE c == ModelContent(n)
           x == [kind |-> "answer", of |-> n]
           e == <<>>
<1>1. x \in Stuff
  BY StuffKinds
<1>2. x \in Loose(M)
  BY <1>1 DEF Loose
<1>3. c.parts = <<x>> /\ c = [role |-> "model", parts |-> <<x>>]
  BY DEF ModelContent
<1>4. c \in Message
  BY MessageKinds
<1> HIDE DEF x, c
<1>5. <<x>> \in Seq(Stuff)
  BY <1>1
<1>6. Bare(<<x>>, M) = Within(<<x>>, Loose(M))
  BY <1>5, BareIsWithin
<1>7. e \in Seq(Stuff)
  BY EmptySeq
<1>8. Append(e, x) = <<x>> /\ Within(e, Loose(M)) = <<>>
  BY WithinOfEmpty
<1> HIDE DEF e
<1>9. Within(Append(e, x), Loose(M)) = IF x \in Loose(M) THEN Append(Within(e, Loose(M)), x) ELSE Within(e, Loose(M))
  BY <1>1, <1>7, WithinOfAppend
<1>10. Append(<<>>, x) = <<x>>
  OBVIOUS
<1>11. Bare(c.parts, M) = <<x>>
  BY <1>2, <1>3, <1>6, <1>8, <1>9, <1>10
<1>12. Trim(c, M) = c
  BY <1>3, <1>11 DEF Trim
<1>13. Without(<<c>>, M) = IF Bare(c.parts, M) = <<>> THEN <<>> ELSE <<Trim(c, M)>>
  BY <1>4, WithoutOfOne
<1> QED BY <1>11, <1>12, <1>13 DEF c

-----------------------------------------------------------------------------
(* Turns.                                                                  *)

TurnOf(ids, n, b) ==
  [user        |-> Files(ids) \o <<Text(n, b)>>,
   occurrences |-> [i \in DOMAIN ids |-> [index |-> i, of |-> ids[i]]],
   answer      |-> n]

\* What a turn says, without the files of M.
Spoken(ids, n, b, M) == <<UserContent(Said(Outside(ids, M), n, b)), ModelContent(n)>>

\* What a committed turn holds: the files of its request at their indexes, then the text.
LEMMA TurnIs ==
  ASSUME NEW ids \in Seq(Materials), NEW n \in Nat, NEW b \in BOOLEAN
  PROVE  LET t == TurnOf(ids, n, b) IN
         /\ t.user = Said(ids, n, b) /\ t.answer = n
         /\ DOMAIN t.user = 1..(Len(ids) + 1)
         /\ FileIndexes(t) = 1..Len(ids)
         /\ ToSet(t.occurrences) = {[index |-> i, of |-> ids[i]] : i \in 1..Len(ids)}
         /\ Len(t.occurrences) = Len(ids)
<1> DEFINE t == TurnOf(ids, n, b)
<1>1. Len(ids) \in Nat /\ DOMAIN ids = 1..Len(ids)
  BY LenProperties
<1>2. t.user = Said(ids, n, b) /\ t.answer = n /\ t.occurrences = [i \in 1..Len(ids) |-> [index |-> i, of |-> ids[i]]]
  BY <1>1, SaidIsStuff DEF TurnOf
<1>3. Said(ids, n, b) \in Seq(Stuff)
  BY SaidIsStuff
<1>4. DOMAIN Said(ids, n, b) = 1..Len(Said(ids, n, b))
  BY <1>3, LenProperties
<1> DEFINE s == Said(ids, n, b)
<1>5. /\ Len(s) = Len(ids) + 1 /\ (\A i \in 1..Len(ids) : s[i] = FilePart(ids[i]))
      /\ s[Len(ids) + 1] = Text(n, b) /\ DOMAIN s = 1..Len(s)
  <2>1. Len(s) = Len(ids) + 1 /\ s[Len(ids) + 1] = Text(n, b)
    BY SaidIsStuff
  <2>2. \A i \in 1..Len(ids) : s[i] = FilePart(ids[i])
    BY SaidIsStuff
  <2>3. DOMAIN s = 1..Len(s)
    BY <1>4
  <2> HIDE DEF s
  <2> QED BY <2>1, <2>2, <2>3
<1>11. t.user = s
  BY <1>2
<1> HIDE DEF s, t
<1>10. DOMAIN t.user = 1..(Len(ids) + 1)
  BY <1>5, <1>11
<1>6. /\ \A i \in 1..Len(ids) : t.user[i] = FilePart(ids[i])
      /\ t.user[Len(ids) + 1] = Text(n, b)
  BY <1>5, <1>11
<1>7. FileIndexes(t) = 1..Len(ids)
  <2>1. \A m : FilePart(m).kind = "file"
    BY DEF FilePart
  <2>2. Text(n, b).kind # "file"
    BY DEF Text
  <2> QED BY <1>1, <1>10, <1>6, <2>1, <2>2 DEF FileIndexes
<1>8. ToSet(t.occurrences) = {[index |-> i, of |-> ids[i]] : i \in 1..Len(ids)}
  BY <1>2 DEF ToSet
<1>9. Len(t.occurrences) = Len(ids)
  BY <1>1, <1>2
<1> QED BY <1>2, <1>10, <1>7, <1>8, <1>9 DEF t

\* Its occurrences account for its files, and it is safe to cache when all of them moved.
LEMMA TurnIsAccounted ==
  ASSUME NEW ids \in Seq(Materials), NEW n \in Nat, NEW b \in BOOLEAN, NEW c, NEW M
  PROVE  LET t == TurnOf(ids, n, b) IN
         /\ Accounted(c, t)
         /\ Removed(c, t, M) = {i \in 1..Len(ids) : ids[i] \in M}
         /\ TurnSafe(c, t, M) <=> ToSet(ids) \subseteq M
<1> DEFINE t == TurnOf(ids, n, b)
<1>1. Len(ids) \in Nat /\ DOMAIN ids = 1..Len(ids)
  BY LenProperties
<1>2. /\ DOMAIN t.user = 1..(Len(ids) + 1)
      /\ FileIndexes(t) = 1..Len(ids)
      /\ ToSet(t.occurrences) = {[index |-> i, of |-> ids[i]] : i \in 1..Len(ids)}
  BY TurnIs
<1> HIDE DEF t
<1>3. 1..Len(ids) \subseteq DOMAIN t.user
  BY <1>1, <1>2
<1>4. Known(t) = 1..Len(ids)
  <2>1. \A i \in 1..Len(ids) : [index |-> i, of |-> ids[i]] \in ToSet(t.occurrences)
    BY <1>2
  <2>2. \A i \in 1..Len(ids) : i \in {o.index : o \in ToSet(t.occurrences)}
    <3> TAKE i \in 1..Len(ids)
    <3>1. PICK o : o = [index |-> i, of |-> ids[i]]
      OBVIOUS
    <3>2. o \in ToSet(t.occurrences) /\ o.index = i
      BY <2>1, <3>1
    <3> QED BY <3>2
  <2>3. \A o \in ToSet(t.occurrences) : o.index \in 1..Len(ids)
    BY <1>2
  <2>4. {o.index : o \in ToSet(t.occurrences)} = 1..Len(ids)
    BY <2>2, <2>3
  <2> QED BY <1>3, <2>4 DEF Known
<1>5. Accounted(c, t)
  BY <1>2, <1>3, <1>4 DEF Accounted
<1>6. Removed(c, t, M) = {i \in 1..Len(ids) : ids[i] \in M}
  <2>1. \A o \in ToSet(t.occurrences) : o.index \in 1..Len(ids) /\ o.of = ids[o.index]
    BY <1>2
  <2>2. ASSUME NEW i \in Removed(c, t, M) PROVE i \in 1..Len(ids) /\ ids[i] \in M
    BY <2>1 DEF Removed
  <2>3. ASSUME NEW i \in 1..Len(ids), ids[i] \in M PROVE i \in Removed(c, t, M)
    <3>1. PICK o \in ToSet(t.occurrences) : o = [index |-> i, of |-> ids[i]]
      BY <1>2
    <3>2. o.of \in M /\ o.index = i /\ i \in DOMAIN t.user /\ i \in FileIndexes(t)
      BY <1>2, <1>3, <2>3, <3>1
    <3> QED BY <3>2 DEF Removed
  <2> QED BY <2>2, <2>3
<1>7. TurnSafe(c, t, M) <=> ToSet(ids) \subseteq M
  BY <1>1, <1>2, <1>4, <1>5, <1>6 DEF TurnSafe, ToSet
<1> QED BY <1>5, <1>6, <1>7 DEF t

\* Projected, it says the same without the files that moved.
LEMMA TurnIsProjected ==
  ASSUME NEW ids \in Seq(Materials), NEW n \in Nat, NEW b \in BOOLEAN, NEW c, NEW M
  PROVE  ProjectedTurn(c, TurnOf(ids, n, b), M) = Spoken(ids, n, b, M)
<1> DEFINE t == TurnOf(ids, n, b)
           s == Said(ids, n, b)
           I == DOMAIN t.user \ Removed(c, t, M)
           J == {j \in DOMAIN s : s[j].kind # "file" \/ s[j].of \notin M}
<1>1. /\ t.user = s /\ t.answer = n /\ DOMAIN t.user = 1..(Len(ids) + 1)
      /\ Removed(c, t, M) = {i \in 1..Len(ids) : ids[i] \in M}
  BY TurnIs, TurnIsAccounted
<1>2. s \in Seq(Stuff)
  BY SaidIsStuff
<1>3. /\ Len(s) = Len(ids) + 1 /\ (\A i \in 1..Len(ids) : s[i] = FilePart(ids[i]))
      /\ s[Len(ids) + 1] = Text(n, b)
  BY SaidIsStuff
<1>4. Len(ids) \in Nat
  BY LenProperties
<1> HIDE DEF s, t
<1>5. \A i \in 1..Len(s) : i \in I <=> i \in J
  <2>1. \A m : FilePart(m).kind = "file" /\ FilePart(m).of = m
    BY DEF FilePart
  <2>2. Text(n, b).kind # "file"
    BY DEF Text
  <2> QED BY <1>1, <1>3, <1>4, <2>1, <2>2
<1> HIDE DEF I, J
<1>6. Elements(s, I) = Elements(s, J)
  BY <1>2, <1>5, ElementsAgree
<1>7. Elements(s, J) = Bare(s, M)
  BY DEF Bare, J
<1>8. Bare(s, M) = Said(Outside(ids, M), n, b)
  BY SaidWithout DEF s
<1>9. Outside(ids, M) \in Seq(Materials)
  BY OutsideIsSeq
<1>10. Said(Outside(ids, M), n, b) # <<>>
  BY <1>9, SaidIsStuff
<1> DEFINE k == Said(Outside(ids, M), n, b)
<1> HIDE DEF k
<1>11. Elements(t.user, I) = k /\ k # <<>>
  BY <1>1, <1>6, <1>7, <1>8, <1>10 DEF k
<1>14. UserContent(k) \in Message /\ ModelContent(n) \in Message
  BY <1>9, SaidIsStuff, MessageKinds DEF k
<1>12. ProjectedTurn(c, t, M) = <<UserContent(k)>> \o <<ModelContent(n)>>
  BY <1>1, <1>11 DEF ProjectedTurn, I
<1> QED BY <1>12, <1>14, TwoInOne DEF Spoken, t, k

\* A turn is two messages.
LEMMA SpokenIsSeq ==
  ASSUME NEW ids \in Seq(Materials), NEW n \in Nat, NEW b \in BOOLEAN, NEW M
  PROVE  Spoken(ids, n, b, M) \in Seq(Message)
<1> DEFINE x == UserContent(Said(Outside(ids, M), n, b))
           y == ModelContent(n)
<1>1. Outside(ids, M) \in Seq(Materials)
  BY OutsideIsSeq
<1>2. Said(Outside(ids, M), n, b) \in Seq(Stuff)
  BY <1>1, SaidIsStuff
<1>3. x \in Message /\ y \in Message
  BY <1>2, MessageKinds
<1> HIDE DEF x, y
<1>4. <<x, y>> \in Seq(Message)
  BY <1>3
<1> QED BY <1>4 DEF Spoken, x, y

\* Taking files out of a turn twice.
LEMMA SpokenWithout ==
  ASSUME NEW ids \in Seq(Materials), NEW n \in Nat, NEW b \in BOOLEAN, NEW A, NEW B
  PROVE  Without(Spoken(ids, n, b, A), B) = Spoken(ids, n, b, A \union B)
<1> DEFINE k == Outside(ids, A)
           x == UserContent(Said(k, n, b))
           y == ModelContent(n)
           z == UserContent(Said(Outside(k, B), n, b))
<1>1. k \in Seq(Materials)
  BY OutsideIsSeq
<1>2. Said(k, n, b) \in Seq(Stuff)
  BY <1>1, SaidIsStuff
<1>3. x \in Message /\ y \in Message
  BY <1>2, MessageKinds
<1>4. Outside(k, B) = Outside(ids, A \union B)
  BY OutsideTwice
<1>12. z \in Message
  BY <1>1, OutsideIsSeq, SaidIsStuff, MessageKinds
<1>5. Without(<<x>>, B) = <<z>>
  BY <1>1, SaysWithout
<1>6. Without(<<y>>, B) = <<y>>
  BY AnswersWithout
<1>7. Spoken(ids, n, b, A) = <<x, y>> /\ Spoken(ids, n, b, A \union B) = <<z, y>>
  BY <1>4 DEF Spoken
<1> HIDE DEF x, y, z
<1>8. <<x>> \in Seq(Message)
  BY <1>3
<1>9. <<y>> \in Seq(Message)
  BY <1>3
<1>10. Without(<<x>> \o <<y>>, B) = Without(<<x>>, B) \o Without(<<y>>, B)
  BY <1>8, <1>9, WithoutOfConcat
<1>11. <<x>> \o <<y>> = <<x, y>> /\ <<z>> \o <<y>> = <<z, y>>
  BY <1>3, <1>12, TwoInOne
<1> QED BY <1>5, <1>6, <1>7, <1>10, <1>11

-----------------------------------------------------------------------------
(* The invariant.  Every turn is what a request said and was answered;     *)
(* every resource was created for some request, by what the history was    *)
(* then; and what was sent last is a matter of the request and the history *)
(* alone.                                                                  *)

HistoryOK ==
  /\ contract \in Contracts
  /\ Len(history) \in Nat /\ Len(history) <= contract.turns
  /\ history = [i \in 1..Len(history) |-> history[i]]
  /\ \A i \in 1..Len(history) :
       \E ids \in Seq(Materials), b \in BOOLEAN : history[i] = TurnOf(ids, i, b)
  /\ ~Conversation => Len(history) = 0

\* What the history says with the request b, the files of its prefix in front.
Asked(b, n) == UserContent(Said(Outside(MaterialIds(b), Cached(b)), n + 1, b.blank))

Retold(b, n) == (BaseContents(b) \o Entries(b, 1, n)) \o <<Asked(b, n)>>

Safe(b, v) ==
  IF Layout = 9
    THEN /\ Prefix(b, v).contents # <<>>
         /\ \A w \in 0..v : Prefix(b, w).contents = <<>> \/ Fits(b, w)
         /\ \A i \in 1..v : TurnSafe(contract, history[i], Moved(b))
    ELSE v = 0 /\ BaseContents(b) # <<>>

Founded(r, b) ==
  /\ r.version \in 0..Len(history)
  /\ r.head = HeadOf(b)
  /\ r.name = Name(b, r.version)
  /\ r.prefix = Prefix(b, r.version)
  /\ Safe(b, r.version)

ResourcesOK == \A r \in resources : \E b \in contract.asks : Founded(r, b)

\* The last implicit payload was the request b's after n turns.
PriorIs(b, n, k) ==
  /\ prior = [contents |-> Retold(b, n), head |-> HeadOf(b), turn |-> n + 1, committed |-> k]
  /\ k => n < Len(history) /\ history[n + 1] = TurnOf(MaterialIds(b), n + 1, b.blank)

PriorOK ==
  prior # None =>
    \E b \in contract.asks, n \in 0..Len(history), k \in BOOLEAN : Layout = 9 /\ PriorIs(b, n, k)

\* What was sent for the request a after n turns.
Sent(a, n) ==
  /\ wire.how \in Heads
  /\ wire.how = "cached" => Conversation
  /\ wire.how \in {"cached", "implicit"} =>
       /\ wire.contents = Retold(a, n)
       /\ wire.instr = a.instr
       /\ wire.tools = IF Upgraded THEN a.tools ELSE None
  /\ wire.how = "implicit" => Layout = 9 /\ \E k \in BOOLEAN : PriorIs(a, n, k)
  /\ wire.how = "full" =>
       Conversation \/ wire.contents = <<UserContent(Said(MaterialIds(a), n + 1, a.blank))>>

WireOK == wire # None => ask # None /\ \E a, n : a = ask /\ n = Len(history) /\ Sent(a, n)

AskOK == ask \in contract.asks \union {None}

PlanInv == HistoryOK /\ ResourcesOK /\ PriorOK /\ WireOK /\ AskOK

-----------------------------------------------------------------------------
(* What a request is about.                                                *)

LEMMA ContractKinds ==
  ASSUME HistoryOK
  PROVE  /\ Layout \in {8, 9} /\ Upgraded \in BOOLEAN /\ Conversation \in BOOLEAN
         /\ Layout = 8 => ~Upgraded
         /\ Manifest \in Seq(Materials) /\ IsInjective(Manifest)
         /\ ~Conversation => Manifest = <<>>
         /\ contract.turns \in Nat
BY ContractAssumption DEF HistoryOK, Layout, Upgraded, Conversation, Manifest, Materials

\* What a request may ask.
LEMMA AskKinds ==
  ASSUME HistoryOK, NEW b \in contract.asks
  PROVE  /\ b.attach \in Seq(Materials) /\ b.blank \in BOOLEAN /\ b.stale \in BOOLEAN
         /\ Upgraded => ~b.stale
BY ContractAssumption DEF HistoryOK, Upgraded, Materials

\* The effective materials of a request,
LEMMA IdsKinds ==
  ASSUME HistoryOK, NEW b \in contract.asks
  PROVE  /\ MaterialIds(b) \in Seq(Materials)
         /\ MaterialIds(b) = Manifest \o Outside(b.attach, ToSet(Manifest))
         /\ Outside(b.attach, ToSet(Manifest)) \in Seq(Materials)
<1>1. b.attach \in Seq(Materials)
  BY AskKinds
<1>2. Outside(b.attach, ToSet(Manifest)) \in Seq(Materials)
  BY <1>1, OutsideIsSeq
<1>3. Manifest \in Seq(Materials)
  BY ContractKinds
<1>4. MaterialIds(b) = Manifest \o Outside(b.attach, ToSet(Manifest))
  BY DEF MaterialIds, EffectiveIds, Manifest
<1>5. Manifest \o Outside(b.attach, ToSet(Manifest)) \in Seq(Materials)
  BY <1>2, <1>3, ConcatProperties
<1> QED BY <1>2, <1>4, <1>5

\* of which those of the manifest may be cached, none without conversation.
LEMMA CacheKinds ==
  ASSUME HistoryOK, NEW b \in contract.asks
  PROVE  /\ CacheIds(b) \in Seq(Materials)
         /\ IsInjective(CacheIds(b))
         /\ Cached(b) \subseteq ToSet(Manifest)
         /\ CacheIds(b) # <<>> => Conversation
<1>1. Manifest \in Seq(Materials)
  BY ContractKinds
<1>2. IsInjective(Manifest)
  BY ContractKinds
<1> DEFINE s == SelectedOf(contract, b)
           o == Within(s, b.fallback)
           e == <<>>
<1>3. \E M : s = Manifest \/ s = Within(Manifest, M)
  BY DEF SelectedOf, Manifest
<1> HIDE DEF s
<1>4. PICK M : s = Manifest \/ s = Within(Manifest, M)
  BY <1>3
<1>5. Within(Manifest, M) \in Seq(Materials)
  BY <1>1, WithinIsSeq
<1>6. IsInjective(Within(Manifest, M)) /\ ToSet(Within(Manifest, M)) \subseteq ToSet(Manifest)
  BY <1>1, <1>2, InjectiveWithin, WithinToSet
<1>7. s \in Seq(Materials)
  BY <1>1, <1>4, <1>5
<1>8. IsInjective(s) /\ ToSet(s) \subseteq ToSet(Manifest)
  BY <1>2, <1>4, <1>6
<1>9. IsInjective(s)
  BY <1>8
<1>10. o \in Seq(Materials)
  BY <1>7, WithinIsSeq
<1>11. IsInjective(o)
  BY <1>7, <1>9, InjectiveWithin
<1>12. ToSet(o) \subseteq ToSet(Manifest)
  BY <1>7, <1>8, WithinToSet
<1> HIDE DEF o
<1>13. CacheIds(b) = IF Conversation THEN o ELSE <<>>
  BY DEF CacheIds, Offered, Conversation, Layout, o, s
<1>14. e \in Seq(Materials) /\ IsInjective(e) /\ ToSet(e) = {}
  BY EmptySeq DEF IsInjective, ToSet
<1>15. CASE Conversation
  BY <1>10, <1>11, <1>12, <1>13, <1>15 DEF Cached
<1>16. CASE ~Conversation
  <2>1. CacheIds(b) = e
    BY <1>13, <1>16
  <2> HIDE DEF e
  <2>2. CacheIds(b) \in Seq(Materials) /\ IsInjective(CacheIds(b)) /\ Cached(b) \subseteq ToSet(Manifest)
    BY <1>14, <2>1 DEF Cached
  <2>3. CacheIds(b) = <<>>
    BY <2>1 DEF e
  <2> QED BY <2>2, <2>3
<1> QED BY <1>15, <1>16

\* The base of a prefix is one message or none.
LEMMA BaseKinds ==
  ASSUME HistoryOK, NEW b \in contract.asks
  PROVE  BaseContents(b) \in Seq(Message)
<1> DEFINE c == UserContent(Files(CacheIds(b)))
           e == <<>>
<1>1. CacheIds(b) \in Seq(Materials)
  BY CacheKinds
<1>2. Files(CacheIds(b)) \in Seq(Stuff)
  BY <1>1, FilesAreStuff
<1>3. c \in Message
  BY <1>2, MessageKinds
<1> HIDE DEF c
<1>4. <<c>> \in Seq(Message)
  BY <1>3
<1>5. e \in Seq(Message)
  BY EmptySeq
<1> QED BY <1>4, <1>5 DEF BaseContents, c

\* A question is a message.
LEMMA AskedKinds ==
  ASSUME HistoryOK, NEW b \in contract.asks, NEW n \in Nat
  PROVE  Asked(b, n) \in Message
<1> DEFINE ids == Outside(MaterialIds(b), Cached(b))
<1>1. MaterialIds(b) \in Seq(Materials)
  BY IdsKinds
<1>2. ids \in Seq(Materials)
  BY <1>1, OutsideIsSeq
<1>3. b.blank \in BOOLEAN /\ n + 1 \in Nat
  BY AskKinds
<1> HIDE DEF ids
<1>4. Said(ids, n + 1, b.blank) \in Seq(Stuff)
  BY <1>2, <1>3, SaidIsStuff
<1> QED BY <1>4, MessageKinds DEF Asked, ids

\* The question of the plan, in full and without its cached files, and its turn.
LEMMA AskedIsUncached ==
  ASSUME HistoryOK, NEW b \in contract.asks
  PROVE  /\ UncachedUser(b) = Asked(b, Len(history))
         /\ FullUser(b) = UserContent(Said(MaterialIds(b), Len(history) + 1, b.blank))
         /\ Turn(b) = TurnOf(MaterialIds(b), Len(history) + 1, b.blank)
<1> DEFINE n == Len(history) + 1
           k == MaterialIds(b)
           ids == Outside(k, Cached(b))
<1>1. k \in Seq(Materials)
  BY IdsKinds
<1>2. n \in Nat /\ b.blank \in BOOLEAN
  BY AskKinds DEF HistoryOK
<1>3. ids \in Seq(Materials)
  BY <1>1, OutsideIsSeq
<1>4. CurrentUser(ids, b) = UserContent(Said(ids, n, b.blank))
  <2> HIDE DEF ids
  <2> QED BY <1>2, <1>3, SaidIsStuff DEF CurrentUser
<1>5. CurrentUser(k, b) = UserContent(Said(k, n, b.blank))
  <2> HIDE DEF k
  <2> QED BY <1>1, <1>2, SaidIsStuff DEF CurrentUser
<1>6. Turn(b) = TurnOf(k, n, b.blank)
  BY DEF Turn, TurnOf, FullUser, CurrentUser, UserContent, Occurrences
<1> QED BY <1>4, <1>5, <1>6 DEF UncachedUser, FullUser, Asked

-----------------------------------------------------------------------------
(* Entries.                                                                *)

Piece(b, i) == ProjectedTurn(contract, history[i], Moved(b))
Pieces(b, from, n) == [i \in 1..n |-> Piece(b, from + i - 1)]

\* A projected turn retells what was said.
LEMMA PieceIs ==
  ASSUME HistoryOK, NEW b, NEW i \in 1..Len(history)
  PROVE  /\ Piece(b, i) \in Seq(Message)
         /\ \A ids \in Seq(Materials), k \in BOOLEAN :
              history[i] = TurnOf(ids, i, k) => Piece(b, i) = Spoken(ids, i, k, Moved(b))
<1>1. i \in Nat
  BY DEF HistoryOK
<1>2. ASSUME NEW ids \in Seq(Materials), NEW k \in BOOLEAN, history[i] = TurnOf(ids, i, k)
      PROVE  Piece(b, i) = Spoken(ids, i, k, Moved(b))
  BY <1>1, <1>2, TurnIsProjected DEF Piece
<1>3. PICK ids \in Seq(Materials), k \in BOOLEAN : history[i] = TurnOf(ids, i, k)
  BY DEF HistoryOK
<1>4. Piece(b, i) \in Seq(Message)
  BY <1>1, <1>2, <1>3, SpokenIsSeq
<1> QED BY <1>2, <1>4

\* Entries are the pieces of their turns,
LEMMA EntriesArePieces ==
  ASSUME NEW b, NEW from \in Nat, NEW to \in Nat, from <= to + 1
  PROVE  Entries(b, from, to) = FlattenSeq(Pieces(b, from, to + 1 - from))
BY DEF Entries, Pieces, Piece

\* one more of them for one more turn.
LEMMA PiecesGrow ==
  ASSUME HistoryOK, NEW b, NEW from \in Nat \ {0}, NEW n \in Nat, from + n <= Len(history) + 1
  PROVE  /\ Pieces(b, from, n) \in Seq(Seq(Message))
         /\ from + n <= Len(history) =>
              Pieces(b, from, n + 1) = Append(Pieces(b, from, n), Piece(b, from + n))
<1>1. Len(history) \in Nat
  BY DEF HistoryOK
<1>2. \A i \in 1..n : Piece(b, from + i - 1) \in Seq(Message)
  <2> TAKE i \in 1..n
  <2>1. from + i - 1 \in 1..Len(history)
    BY <1>1
  <2> QED BY <2>1, PieceIs
<1> DEFINE p == Pieces(b, from, n)
           q == Pieces(b, from, n + 1)
           V == Seq(Message)
<1>3. p \in Seq(V)
  BY <1>2, SeqDef DEF Pieces
<1>4. Len(p) = n /\ \A i \in 1..n : p[i] = Piece(b, from + i - 1)
  BY DEF Pieces
<1>5. Len(q) = n + 1 /\ \A i \in 1..(n + 1) : q[i] = Piece(b, from + i - 1)
  BY DEF Pieces
<1>6. ASSUME from + n <= Len(history) PROVE q = Append(p, Piece(b, from + n))
  <2> DEFINE x == Piece(b, from + n)
             a == Append(p, x)
  <2>1. from + n \in 1..Len(history)
    BY <1>1, <1>6
  <2>2. x \in V
    BY <2>1, PieceIs
  <2>3. \A i \in 1..(n + 1) : from + i - 1 \in 1..Len(history)
    BY <1>1, <1>6
  <2>4. \A i \in 1..(n + 1) : Piece(b, from + i - 1) \in V
    BY <2>3, PieceIs
  <2>5. q \in Seq(V)
    BY <2>4, SeqDef DEF Pieces
  <2> HIDE DEF p, q, x
  <2>6. /\ a \in Seq(V) /\ Len(a) = Len(p) + 1 /\ (\A i \in 1..Len(p) : a[i] = p[i])
        /\ a[Len(p) + 1] = x
    BY <1>3, <2>2, AppendProperties
  <2>7. a \in Seq(V)
    BY <2>6
  <2> HIDE DEF a, V
  <2>8. \A i \in 1..Len(q) : q[i] = a[i]
    <3> TAKE i \in 1..Len(q)
    <3>1. i \in 1..n \/ i = n + 1
      BY <1>5
    <3>2. CASE i \in 1..n
      BY <1>4, <1>5, <2>6, <3>2
    <3>3. CASE i = n + 1
      <4>1. from + i - 1 = from + n /\ i \in 1..(n + 1)
        BY <3>3
      <4>2. q[i] = Piece(b, from + i - 1)
        BY <1>5, <4>1
      <4> QED BY <1>4, <2>6, <3>3, <4>1, <4>2 DEF x
    <3> QED BY <3>1, <3>2, <3>3
  <2>9. Len(q) = Len(a)
    BY <1>4, <1>5, <2>6
  <2>10. q = a
    BY <2>5, <2>7, <2>8, <2>9, SeqEqual
  <2> QED BY <2>10 DEF a, p, q, x
<1> QED BY <1>3, <1>6

\* The entries up to the next turn.
LEMMA EntriesGrow ==
  ASSUME HistoryOK, NEW b, NEW from \in Nat \ {0}, NEW to \in Nat, from <= to + 1, to <= Len(history)
  PROVE  /\ Entries(b, from, to) \in Seq(Message)
         /\ to < Len(history) => Entries(b, from, to + 1) = Entries(b, from, to) \o Piece(b, to + 1)
<1> DEFINE n == to + 1 - from
           p == Pieces(b, from, n)
<1>1. Len(history) \in Nat
  BY DEF HistoryOK
<1>2. n \in Nat /\ from + n <= Len(history) + 1 /\ from + n = to + 1 /\ (to + 1) + 1 - from = n + 1
  BY <1>1
<1>3. Entries(b, from, to) = FlattenSeq(p)
  BY EntriesArePieces
<1>4. Entries(b, from, to + 1) = FlattenSeq(Pieces(b, from, n + 1))
  <2>1. Entries(b, from, to + 1) = FlattenSeq(Pieces(b, from, (to + 1) + 1 - from))
    BY EntriesArePieces
  <2> QED BY <1>2, <2>1
<1> HIDE DEF n
<1>5. p \in Seq(Seq(Message))
  BY <1>2, PiecesGrow
<1>6. from + n <= Len(history) => Pieces(b, from, n + 1) = Append(p, Piece(b, from + n))
  BY <1>2, PiecesGrow
<1> HIDE DEF p
<1>7. FlattenSeq(p) \in Seq(Message)
  BY <1>5, FlattenIsSeq
<1>8. ASSUME to < Len(history) PROVE Entries(b, from, to + 1) = Entries(b, from, to) \o Piece(b, to + 1)
  <2>1. to + 1 \in 1..Len(history)
    BY <1>1, <1>8
  <2>2. Piece(b, to + 1) \in Seq(Message)
    BY <2>1, PieceIs
  <2>3. FlattenSeq(Append(p, Piece(b, to + 1))) = FlattenSeq(p) \o Piece(b, to + 1)
    BY <1>5, <2>2, FlattenOfAppend
  <2>4. Pieces(b, from, n + 1) = Append(p, Piece(b, to + 1))
    BY <1>1, <1>2, <1>6, <1>8
  <2> QED BY <1>3, <1>4, <2>3, <2>4
<1> QED BY <1>3, <1>7, <1>8

\* No turns, no entries.
LEMMA NoEntries ==
  ASSUME NEW b, NEW n \in Nat
  PROVE  Entries(b, n + 1, n) = <<>>
<1>1. n + 1 - (n + 1) = 0
  OBVIOUS
<1>2. Pieces(b, n + 1, 0) = <<>>
  BY DEF Pieces
<1>3. Entries(b, n + 1, n) = FlattenSeq(Pieces(b, n + 1, n + 1 - (n + 1)))
  BY EntriesArePieces
<1> QED BY <1>1, <1>2, <1>3, FlattenOfEmpty

\* Entries up to a version and after it are all entries.
LEMMA EntriesJoin ==
  ASSUME HistoryOK, NEW b, NEW v \in Nat, NEW n \in Nat, v <= n, n <= Len(history)
  PROVE  Entries(b, 1, v) \o Entries(b, v + 1, n) = Entries(b, 1, n)
<1> DEFINE Q == {k \in Nat : v + k <= Len(history) =>
                   Entries(b, 1, v) \o Entries(b, v + 1, v + k) = Entries(b, 1, v + k)}
           E == Entries(b, 1, v)
<1>1. Len(history) \in Nat
  BY DEF HistoryOK
<1>2. E \in Seq(Message)
  <2>1. 1 <= v + 1
    OBVIOUS
  <2>2. v <= Len(history)
    BY <1>1
  <2>3. 1 \in Nat \ {0}
    OBVIOUS
  <2> QED BY <2>1, <2>2, <2>3, EntriesGrow
<1> HIDE DEF E
<1>3. 0 \in Q
  <2>1. Entries(b, v + 1, v) = <<>>
    BY NoEntries
  <2>2. E \o <<>> = E
    BY <1>2, ConcatEmptySeq
  <2>3. v + 0 = v
    OBVIOUS
  <2> QED BY <2>1, <2>2, <2>3 DEF E
<1>4. ASSUME NEW k \in Nat, k \in Q PROVE k + 1 \in Q
  <2> SUFFICES ASSUME v + (k + 1) <= Len(history)
               PROVE  E \o Entries(b, v + 1, v + (k + 1)) = Entries(b, 1, v + (k + 1))
    BY DEF E
  <2> DEFINE m == v + k
  <2>1. m \in Nat /\ m < Len(history) /\ m <= Len(history) /\ v + 1 <= m + 1 /\ 1 <= m + 1 /\ v + (k + 1) = m + 1
    BY <1>1
  <2>2. E \o Entries(b, v + 1, m) = Entries(b, 1, m)
    BY <1>1, <1>4, <2>1 DEF E
  <2> DEFINE f == v + 1
             o == 1
  <2>9. f \in Nat \ {0} /\ o \in Nat \ {0} /\ f <= m + 1 /\ o <= m + 1
    BY <2>1
  <2> HIDE DEF m, f, o
  <2>10. m \in Nat
    BY <2>1
  <2>11. m <= Len(history)
    BY <2>1
  <2>12. f \in Nat \ {0}
    BY <2>9
  <2>13. f <= m + 1
    BY <2>9
  <2>14. o \in Nat \ {0}
    BY <2>9
  <2>15. o <= m + 1
    BY <2>9
  <2>16. Entries(b, f, m) \in Seq(Message) /\ Entries(b, f, m + 1) = Entries(b, f, m) \o Piece(b, m + 1)
    BY <2>1, <2>10, <2>11, <2>12, <2>13, EntriesGrow
  <2>17. Entries(b, o, m + 1) = Entries(b, o, m) \o Piece(b, m + 1)
    BY <2>1, <2>10, <2>11, <2>14, <2>15, EntriesGrow
  <2>3. Entries(b, v + 1, m) \in Seq(Message)
    BY <2>16 DEF f
  <2>4. Entries(b, v + 1, m + 1) = Entries(b, v + 1, m) \o Piece(b, m + 1)
    BY <2>16 DEF f
  <2>5. Entries(b, 1, m + 1) = Entries(b, 1, m) \o Piece(b, m + 1)
    BY <2>17 DEF o
  <2>6. m + 1 \in 1..Len(history)
    BY <1>1, <2>1
  <2>7. Piece(b, m + 1) \in Seq(Message)
    BY <2>6, PieceIs
  <2>8. (E \o Entries(b, v + 1, m)) \o Piece(b, m + 1) = E \o (Entries(b, v + 1, m) \o Piece(b, m + 1))
    BY <1>2, <2>3, <2>7, ConcatAssociative
  <2> QED BY <2>1, <2>2, <2>4, <2>5, <2>8
<1>5. n - v \in Q
  <2>1. n - v \in Nat
    OBVIOUS
  <2> HIDE DEF Q
  <2> QED BY <1>3, <1>4, <2>1, NumbersFrom0
<1>6. v + (n - v) = n
  OBVIOUS
<1> QED BY <1>5, <1>6

-----------------------------------------------------------------------------
(* What depends on the head and on the turns that were there.              *)

LEMMA HeadDecides ==
  ASSUME NEW a, NEW b, HeadOf(a) = HeadOf(b)
  PROVE  /\ CacheIds(a) = CacheIds(b) /\ Cached(a) = Cached(b) /\ Moved(a) = Moved(b)
         /\ a.instr = b.instr /\ a.tools = b.tools
         /\ BaseContents(a) = BaseContents(b)
         /\ \A v : /\ Entries(a, 1, v) = Entries(b, 1, v)
                   /\ Prefix(a, v) = Prefix(b, v)
                   /\ Name(a, v) = Name(b, v)
                   /\ Fits(a, v) <=> Fits(b, v)
                   /\ Safe(a, v) <=> Safe(b, v)
<1>1. CacheIds(a) = CacheIds(b) /\ a.instr = b.instr /\ a.tools = b.tools
  BY DEF HeadOf
<1>2. Cached(a) = Cached(b) /\ BaseContents(a) = BaseContents(b)
  BY <1>1 DEF Cached, BaseContents
<1>3. Moved(a) = Moved(b)
  BY <1>2 DEF Moved
<1>4. \A v : Entries(a, 1, v) = Entries(b, 1, v)
  BY <1>3 DEF Entries
<1>5. \A v : Prefix(a, v) = Prefix(b, v)
  BY <1>1, <1>2, <1>4 DEF Prefix
<1>6. \A v : Name(a, v) = Name(b, v)
  BY <1>1, <1>5 DEF Name
<1>7. \A v : Fits(a, v) <=> Fits(b, v)
  BY <1>5 DEF Fits
<1>8. \A v : Safe(a, v) <=> Safe(b, v)
  BY <1>2, <1>3, <1>5, <1>7 DEF Safe
<1> QED BY <1>1, <1>2, <1>3, <1>4, <1>5, <1>6, <1>7, <1>8

\* The session goes on.
Grows ==
  /\ contract' = contract
  /\ Len(history') \in Nat /\ Len(history) <= Len(history')
  /\ \A i \in 1..Len(history) : history'[i] = history[i]

\* What a request caches depends on the contract alone.
LEMMA ContractStays ==
  ASSUME contract' = contract, NEW b
  PROVE  /\ CacheIds(b)' = CacheIds(b) /\ Cached(b)' = Cached(b) /\ Moved(b)' = Moved(b)
         /\ MaterialIds(b)' = MaterialIds(b) /\ BaseContents(b)' = BaseContents(b)
         /\ HeadOf(b)' = HeadOf(b)
<1>1. CacheIds(b)' = CacheIds(b)
  BY DEF CacheIds, Layout, Conversation
<1>2. Cached(b)' = Cached(b) /\ BaseContents(b)' = BaseContents(b) /\ HeadOf(b)' = HeadOf(b)
  BY <1>1 DEF Cached, BaseContents, HeadOf
<1>3. Moved(b)' = Moved(b)
  BY <1>2 DEF Moved, Layout, Manifest
<1>4. MaterialIds(b)' = MaterialIds(b)
  BY DEF MaterialIds
<1> QED BY <1>1, <1>2, <1>3, <1>4

\* A prefix at a version, and its name, stay when turns are added.
LEMMA PrefixStays ==
  ASSUME HistoryOK, Grows, NEW b, NEW v \in 0..Len(history)
  PROVE  /\ Entries(b, 1, v)' = Entries(b, 1, v)
         /\ Prefix(b, v)' = Prefix(b, v)
         /\ Name(b, v)' = Name(b, v)
         /\ Fits(b, v)' <=> Fits(b, v)
         /\ Asked(b, v)' = Asked(b, v)
         /\ Retold(b, v)' = Retold(b, v)
<1>1. contract' = contract
  BY DEF Grows
<1>2. /\ CacheIds(b)' = CacheIds(b) /\ Cached(b)' = Cached(b) /\ Moved(b)' = Moved(b)
      /\ MaterialIds(b)' = MaterialIds(b) /\ BaseContents(b)' = BaseContents(b)
  BY <1>1, ContractStays
<1>3. Entries(b, 1, v)' = Entries(b, 1, v)
  <2>1. Len(history) \in Nat
    BY DEF HistoryOK
  <2>2. \A i \in 1..(v + 1 - 1) : 1 + i - 1 \in 1..Len(history)
    BY <2>1
  <2>3. \A i \in 1..(v + 1 - 1) : history'[1 + i - 1] = history[1 + i - 1]
    BY <2>2 DEF Grows
  <2>4. \A i \in 1..(v + 1 - 1) : ProjectedTurn(contract, history[1 + i - 1], Moved(b))'
                                    = ProjectedTurn(contract, history[1 + i - 1], Moved(b))
    BY <1>1, <1>2, <2>3
  <2> QED BY <1>1, <1>2, <2>3 DEF Entries
<1>4. Prefix(b, v)' = Prefix(b, v)
  BY <1>1, <1>2, <1>3 DEF Prefix, CachesTools, Layout, Upgraded
<1>5. Name(b, v)' = Name(b, v)
  BY <1>1, <1>2, <1>4 DEF Name, Layout
<1>6. Fits(b, v)' <=> Fits(b, v)
  BY <1>1, <1>4 DEF Fits
<1>7. Asked(b, v)' = Asked(b, v)
  BY <1>2 DEF Asked
<1>8. Retold(b, v)' = Retold(b, v)
  BY <1>2, <1>3, <1>7 DEF Retold
<1> QED BY <1>3, <1>4, <1>5, <1>6, <1>7, <1>8

\* So does what a resource is founded on,
LEMMA FoundedStays ==
  ASSUME HistoryOK, Grows, NEW b, NEW r, Founded(r, b)
  PROVE  Founded(r, b)'
<1>1. r.version \in 0..Len(history)
  BY DEF Founded
<1>2. Len(history) \in Nat /\ Len(history') \in Nat /\ Len(history) <= Len(history') /\ contract' = contract
  BY DEF HistoryOK, Grows
<1>3. r.version \in 0..Len(history')
  BY <1>1, <1>2
<1>4. HeadOf(b)' = HeadOf(b) /\ Moved(b)' = Moved(b) /\ BaseContents(b)' = BaseContents(b)
  BY <1>2, ContractStays
<1>5. Prefix(b, r.version)' = Prefix(b, r.version) /\ Name(b, r.version)' = Name(b, r.version)
  BY <1>1, PrefixStays
<1>6. Safe(b, r.version)'
  <2>1. Safe(b, r.version)
    BY DEF Founded
  <2>2. CASE Layout = 9
    <3>1. /\ Prefix(b, r.version).contents # <<>>
          /\ \A w \in 0..(r.version) : Prefix(b, w).contents = <<>> \/ Fits(b, w)
          /\ \A i \in 1..(r.version) : TurnSafe(contract, history[i], Moved(b))
      BY <2>1, <2>2 DEF Safe
    <3>2. \A w \in 0..(r.version) : w \in 0..Len(history)
      BY <1>1, <1>2
    <3>3. \A w \in 0..(r.version) : Prefix(b, w)'.contents = <<>> \/ Fits(b, w)'
      <4> TAKE w \in 0..(r.version)
      <4>1. Prefix(b, w)' = Prefix(b, w) /\ (Fits(b, w)' <=> Fits(b, w))
        BY <3>2, PrefixStays
      <4> QED BY <3>1, <4>1
    <3>4. \A i \in 1..(r.version) : history'[i] = history[i]
      <4>1. \A i \in 1..(r.version) : i \in 1..Len(history)
        BY <1>1, <1>2
      <4> QED BY <4>1 DEF Grows
    <3>5. \A i \in 1..(r.version) : TurnSafe(contract', history'[i], Moved(b)')
      BY <1>2, <1>4, <3>1, <3>4
    <3> QED BY <1>2, <1>5, <2>2, <3>1, <3>3, <3>5 DEF Safe, Layout
  <2>3. CASE Layout # 9
    BY <1>2, <1>4, <2>1, <2>3 DEF Safe, Layout
  <2> QED BY <2>2, <2>3
<1> QED BY <1>3, <1>4, <1>5, <1>6 DEF Founded

\* what the last implicit payload was,
LEMMA PriorStays ==
  ASSUME HistoryOK, Grows, NEW b, NEW n \in 0..Len(history), NEW k, prior' = prior, PriorIs(b, n, k)
  PROVE  PriorIs(b, n, k)'
<1>1. contract' = contract /\ Len(history) \in Nat /\ Len(history') \in Nat /\ Len(history) <= Len(history')
  BY DEF Grows, HistoryOK
<1>2. HeadOf(b)' = HeadOf(b) /\ MaterialIds(b)' = MaterialIds(b)
  BY <1>1, ContractStays
<1>3. Retold(b, n)' = Retold(b, n)
  BY PrefixStays
<1>4. k => n < Len(history') /\ history'[n + 1] = TurnOf(MaterialIds(b)', n + 1, b.blank)
  <2> SUFFICES ASSUME k PROVE n < Len(history') /\ history'[n + 1] = TurnOf(MaterialIds(b)', n + 1, b.blank)
    OBVIOUS
  <2>1. n < Len(history) /\ history[n + 1] = TurnOf(MaterialIds(b), n + 1, b.blank)
    BY DEF PriorIs
  <2>2. n + 1 \in 1..Len(history)
    BY <1>1, <2>1
  <2> QED BY <1>1, <1>2, <2>1, <2>2 DEF Grows
<1> QED BY <1>2, <1>3, <1>4 DEF PriorIs

\* and what was sent.
LEMMA SentStays ==
  ASSUME HistoryOK, Grows, NEW a, NEW n \in 0..Len(history), prior' = prior, wire' = wire, Sent(a, n)
  PROVE  Sent(a, n)'
<1>1. contract' = contract
  BY DEF Grows
<1>2. MaterialIds(a)' = MaterialIds(a) /\ Retold(a, n)' = Retold(a, n)
  BY <1>1, ContractStays, PrefixStays
<1>3. \A k \in BOOLEAN : PriorIs(a, n, k) => PriorIs(a, n, k)'
  BY PriorStays
<1>4. /\ wire'.how \in Heads
      /\ wire'.how = "cached" => Conversation'
      /\ wire'.how \in {"cached", "implicit"} =>
           /\ wire'.contents = Retold(a, n)'
           /\ wire'.instr = a.instr
           /\ wire'.tools = IF Upgraded' THEN a.tools ELSE None
      /\ wire'.how = "full" =>
           Conversation' \/ wire'.contents = <<UserContent(Said(MaterialIds(a)', n + 1, a.blank))>>
  BY <1>1, <1>2 DEF Sent, Conversation, Upgraded
<1>5. wire'.how = "implicit" => Layout' = 9 /\ \E k \in BOOLEAN : PriorIs(a, n, k)'
  BY <1>1, <1>3 DEF Sent, Layout
<1> QED BY <1>4, <1>5 DEF Sent, Heads

\* A step that leaves the history alone is one of these.
LEMMA Quiet ==
  ASSUME PlanInv, UNCHANGED <<contract, history>>
  PROVE  HistoryOK' /\ Grows
<1>1. HistoryOK' = HistoryOK
  BY DEF HistoryOK, Conversation
<1> QED BY <1>1 DEF PlanInv, Grows, HistoryOK

-----------------------------------------------------------------------------
(* Versions.                                                               *)

LEMMA LastRank ==
  ASSUME NEW n \in Nat, NEW R, R \subseteq 0..n, R # {}
  PROVE  Max(R) \in R /\ \A i \in R : i <= Max(R)
<1> DEFINE T == {n - i : i \in R}
<1>1. \A i \in R : n - i \in Nat
  <2> TAKE i \in R
  <2>1. i \in 0..n
    OBVIOUS
  <2> QED BY <2>1
<1>2. T # {}
  <2>1. PICK i \in R : TRUE
    OBVIOUS
  <2>2. n - i \in T
    BY <2>1
  <2> QED BY <2>2
<1>3. T \subseteq Nat
  BY <1>1
<1> HIDE DEF T
<1>4. PICK m \in T : \A t \in T : m <= t
  BY <1>2, <1>3, FirstRank
<1>5. PICK i \in R : m = n - i
  BY DEF T
<1>6. \A j \in R : j <= i
  <2> TAKE j \in R
  <2>1. n - j \in T
    BY DEF T
  <2>2. n - i <= n - j
    BY <1>4, <1>5, <2>1
  <2>3. i \in 0..n /\ j \in 0..n
    OBVIOUS
  <2> QED BY <2>2, <2>3
<1>7. \A j \in R : i >= j
  BY <1>6
<1>8. Max(R) \in R /\ \A j \in R : Max(R) >= j
  BY <1>7 DEF Max
<1>9. \A j \in R : j \in Int
  OBVIOUS
<1> QED BY <1>8, <1>9

\* The safe version: every turn before it is safe, the next one is not.
LEMMA SafeVersionIs ==
  ASSUME HistoryOK, NEW b
  PROVE  /\ SafeVersion(b) \in 0..Len(history)
         /\ Layout = 9 => \A i \in 1..SafeVersion(b) : TurnSafe(contract, history[i], Moved(b))
         /\ Layout = 9 /\ ~b.stale =>
              \A n \in 0..Len(history) :
                (\A i \in 1..n : TurnSafe(contract, history[i], Moved(b))) => n <= SafeVersion(b)
<1> DEFINE R == {n \in 0..Len(history) : \A i \in 1..n : TurnSafe(contract, history[i], Moved(b))}
<1>1. Len(history) \in Nat
  BY DEF HistoryOK
<1>2. SafeVersion(b) = IF b.stale \/ Layout = 8 THEN 0 ELSE Max(R)
  BY DEF SafeVersion
<1>3. 0 \in R
  BY <1>1
<1>4. R \subseteq 0..Len(history)
  OBVIOUS
<1>5. \A n \in R : \A i \in 1..n : TurnSafe(contract, history[i], Moved(b))
  OBVIOUS
<1>6. \A n \in 0..Len(history) : (\A i \in 1..n : TurnSafe(contract, history[i], Moved(b))) => n \in R
  OBVIOUS
<1> HIDE DEF R
<1>7. R # {}
  BY <1>3
<1>8. Max(R) \in R /\ \A i \in R : i <= Max(R)
  BY <1>1, <1>4, <1>7, LastRank
<1>9. CASE b.stale \/ Layout = 8
  BY <1>1, <1>2, <1>9
<1>10. CASE ~(b.stale \/ Layout = 8)
  BY <1>2, <1>4, <1>5, <1>6, <1>8, <1>10
<1> QED BY <1>9, <1>10

\* A candidate is safe; it may be cached.
LEMMA CandidateIsSafe ==
  ASSUME HistoryOK, NEW b, NEW v \in Candidates(b)
  PROVE  v \in 0..Len(history) /\ Safe(b, v)
<1>1. Len(history) \in Nat /\ Layout \in {8, 9}
  BY ContractKinds DEF HistoryOK
<1>2. /\ SafeVersion(b) \in 0..Len(history)
      /\ Layout = 9 => \A i \in 1..SafeVersion(b) : TurnSafe(contract, history[i], Moved(b))
  BY SafeVersionIs
<1>3. CASE Layout = 9
  <2>1. /\ v \in 0..SafeVersion(b) /\ Prefix(b, v).contents # <<>>
        /\ \A w \in 0..v : Prefix(b, w).contents = <<>> \/ Fits(b, w)
    BY <1>3 DEF Candidates
  <2>2. v \in 0..Len(history)
    BY <1>1, <1>2, <2>1
  <2>3. \A i \in 1..v : i \in 1..SafeVersion(b)
    BY <1>1, <1>2, <2>1
  <2> QED BY <1>2, <1>3, <2>1, <2>2, <2>3 DEF Safe
<1>4. CASE Layout = 8
  <2>1. v = 0 /\ BaseContents(b) # <<>>
    BY <1>4 DEF Candidates
  <2> QED BY <1>1, <1>4, <2>1 DEF Safe
<1> QED BY <1>1, <1>3, <1>4

\* What was safe at some version is a candidate for ever after.
LEMMA SafeIsCandidate ==
  ASSUME HistoryOK, NEW b, ~b.stale, NEW v \in 0..Len(history), Safe(b, v)
  PROVE  v \in Candidates(b)
<1>1. Len(history) \in Nat /\ Layout \in {8, 9}
  BY ContractKinds DEF HistoryOK
<1>2. CASE Layout = 9
  <2>1. /\ Prefix(b, v).contents # <<>>
        /\ \A w \in 0..v : Prefix(b, w).contents = <<>> \/ Fits(b, w)
        /\ \A i \in 1..v : TurnSafe(contract, history[i], Moved(b))
    BY <1>2 DEF Safe
  <2>2. v <= SafeVersion(b) /\ SafeVersion(b) \in 0..Len(history)
    BY <1>2, <2>1, SafeVersionIs
  <2>3. v \in 0..SafeVersion(b)
    BY <1>1, <2>2
  <2> QED BY <1>2, <2>1, <2>3 DEF Candidates
<1>3. CASE Layout = 8
  <2>1. v = 0 /\ BaseContents(b) # <<>>
    BY <1>3 DEF Safe
  <2> QED BY <1>3, <2>1 DEF Candidates
<1> QED BY <1>1, <1>2, <1>3

\* The longest candidate is one.
LEMMA LongestIsCandidate ==
  ASSUME HistoryOK, NEW b, Candidates(b) # {}
  PROVE  Max(Candidates(b)) \in Candidates(b)
<1> DEFINE R == Candidates(b)
<1>1. \A v \in R : v \in 0..Len(history)
  BY CandidateIsSafe
<1>2. Len(history) \in Nat
  BY DEF HistoryOK
<1> HIDE DEF R
<1>3. R \subseteq 0..Len(history)
  BY <1>1
<1>4. R # {}
  BY DEF R
<1>5. Max(R) \in R
  BY <1>2, <1>3, <1>4, LastRank
<1> QED BY <1>5 DEF R

-----------------------------------------------------------------------------
(* The invariant holds at first.                                           *)

LEMMA InitHolds ==
  ASSUME PlanInit
  PROVE  PlanInv
<1>1. /\ contract \in Contracts /\ history = <<>> /\ ask = None /\ resources = {} /\ wire = None
      /\ prior = None
  BY DEF PlanInit
<1>2. Len(history) = 0 /\ history = [i \in 1..0 |-> history[i]]
  BY <1>1
<1>3. HistoryOK
  BY <1>1, <1>2, ContractAssumption DEF HistoryOK
<1>4. ResourcesOK /\ PriorOK /\ WireOK /\ AskOK
  BY <1>1 DEF ResourcesOK, PriorOK, WireOK, AskOK
<1> QED BY <1>3, <1>4 DEF PlanInv

-----------------------------------------------------------------------------
(* A prefix and the contents after it retell the history.                  *)

LEMMA RetoldIsSent ==
  ASSUME HistoryOK, NEW b \in contract.asks, NEW v \in 0..Len(history)
  PROVE  Prefix(b, v).contents \o Suffix(b, v) = Retold(b, Len(history))
<1> DEFINE n == Len(history)
           B == BaseContents(b)
           P == Entries(b, 1, v)
           Q == Entries(b, v + 1, n)
           q == <<Asked(b, n)>>
           o == 1
           f == v + 1
<1>1. n \in Nat /\ v \in Nat /\ v <= n
  BY DEF HistoryOK
<1>2. B \in Seq(Message)
  BY BaseKinds
<1>3. Entries(b, o, v) \in Seq(Message)
  <2>1. o \in Nat \ {0} /\ o <= v + 1
    BY <1>1
  <2> HIDE DEF o
  <2>2. o \in Nat \ {0}
    BY <2>1
  <2>3. o <= v + 1
    BY <2>1
  <2>4. v <= Len(history)
    BY <1>1
  <2> QED BY <1>1, <2>2, <2>3, <2>4, EntriesGrow
<1>4. Entries(b, f, n) \in Seq(Message)
  <2>1. f \in Nat \ {0} /\ f <= n + 1
    BY <1>1
  <2> HIDE DEF f
  <2>2. f \in Nat \ {0}
    BY <2>1
  <2>3. f <= n + 1
    BY <2>1
  <2>4. n <= Len(history)
    BY <1>1
  <2> QED BY <1>1, <2>2, <2>3, <2>4, EntriesGrow
<1>5. Asked(b, n) \in Message
  BY <1>1, AskedKinds
<1>6. q \in Seq(Message)
  <2> DEFINE x == Asked(b, n)
  <2> HIDE DEF x, n
  <2>1. x \in Message
    BY <1>5 DEF x
  <2>2. <<x>> \in Seq(Message)
    BY <2>1
  <2> QED BY <2>2 DEF x
<1>7. P \o Q = Entries(b, 1, n)
  BY <1>1, EntriesJoin
<1>8. UncachedUser(b) = Asked(b, n)
  BY AskedIsUncached
<1>9. Prefix(b, v).contents = B \o P
  BY DEF Prefix
<1>10. Suffix(b, v) = Q \o q
  BY <1>8 DEF Suffix
<1>11. P \in Seq(Message) /\ Q \in Seq(Message)
  BY <1>3, <1>4
<1>12. Retold(b, n) = (B \o Entries(b, 1, n)) \o q
  BY DEF Retold
<1> HIDE DEF B, P, Q, q, n
<1>13. P \in Seq(Message)
  BY <1>11
<1>14. Q \in Seq(Message)
  BY <1>11
<1>15. (B \o P) \o (Q \o q) = ((B \o P) \o Q) \o q
  <2> DEFINE X == B \o P
  <2>1. X \in Seq(Message)
    BY <1>2, <1>13, ConcatProperties
  <2> HIDE DEF X
  <2>2. (X \o Q) \o q = X \o (Q \o q)
    BY <1>6, <1>14, <2>1, ConcatAssociative
  <2> QED BY <2>2 DEF X
<1>16. (B \o P) \o Q = B \o (P \o Q)
  BY <1>2, <1>13, <1>14, ConcatAssociative
<1> QED BY <1>7, <1>9, <1>10, <1>12, <1>15, <1>16 DEF n

-----------------------------------------------------------------------------
(* Every step keeps the invariant.                                         *)

LEMMA ResourcesStay ==
  ASSUME HistoryOK, ResourcesOK, Grows, resources' \subseteq resources
  PROVE  ResourcesOK'
<1> SUFFICES ASSUME NEW r \in resources'
             PROVE  \E b \in contract'.asks : Founded(r, b)'
  BY DEF ResourcesOK
<1>1. PICK b \in contract.asks : Founded(r, b)
  BY DEF ResourcesOK
<1>2. Founded(r, b)'
  BY <1>1, FoundedStays
<1>3. contract' = contract
  BY DEF Grows
<1> QED BY <1>1, <1>2, <1>3

\* No step but an implicit one disturbs the last implicit payload,
LEMMA PriorsStay ==
  ASSUME HistoryOK, PriorOK, Grows, prior' = prior
  PROVE  PriorOK'
<1> SUFFICES ASSUME prior # None
             PROVE  \E b \in contract'.asks, n \in 0..Len(history'), k \in BOOLEAN :
                      Layout' = 9 /\ PriorIs(b, n, k)'
  BY DEF PriorOK
<1>1. PICK b \in contract.asks, n \in 0..Len(history), k \in BOOLEAN : Layout = 9 /\ PriorIs(b, n, k)
  BY DEF PriorOK
<1>2. PriorIs(b, n, k)'
  BY <1>1, PriorStays
<1>3. contract' = contract /\ Len(history) \in Nat /\ Len(history') \in Nat /\ Len(history) <= Len(history')
  BY DEF Grows, HistoryOK
<1>4. n \in 0..Len(history')
  BY <1>3
<1> QED BY <1>1, <1>2, <1>3, <1>4 DEF Layout

\* nor what was sent, unless it ends the request.
LEMMA WireStays ==
  ASSUME PlanInv, Grows, history' = history, prior' = prior, wire' = wire, ask' = ask
  PROVE  WireOK'
<1> SUFFICES ASSUME wire # None
             PROVE  ask # None /\ Sent(ask, Len(history))'
  BY DEF WireOK
<1> DEFINE n == Len(history)
<1>1. ask # None /\ Sent(ask, n)
  BY DEF PlanInv, WireOK
<1>2. HistoryOK /\ n \in 0..Len(history)
  BY DEF PlanInv, HistoryOK
<1>3. PICK a, k : a = ask /\ k = n
  OBVIOUS
<1> HIDE DEF n
<1>4. Sent(a, k)'
  BY <1>1, <1>2, <1>3, SentStays
<1> QED BY <1>1, <1>3, <1>4 DEF n

\* A request is accepted.
LEMMA BeginKeeps ==
  ASSUME PlanInv, NEW a \in contract.asks, Begin(a)
  PROVE  PlanInv'
<1>1. ask = None /\ ask' = a /\ UNCHANGED <<contract, history, resources, wire, prior>>
  BY DEF Begin
<1>2. HistoryOK' /\ Grows
  BY <1>1, Quiet
<1>3. ResourcesOK' /\ PriorOK'
  BY <1>1, <1>2, ResourcesStay, PriorsStay DEF PlanInv
<1>4. wire = None
  BY <1>1 DEF PlanInv, WireOK
<1>5. WireOK'
  BY <1>1, <1>4 DEF WireOK
<1>6. AskOK'
  BY <1>1 DEF AskOK
<1> QED BY <1>2, <1>3, <1>5, <1>6 DEF PlanInv

\* A resource is founded on the request that created it.
LEMMA CreateKeeps ==
  ASSUME PlanInv, Create
  PROVE  PlanInv'
<1> DEFINE v == Max(Candidates(ask))
           r == [name |-> Name(ask, v), version |-> v, prefix |-> Prefix(ask, v), head |-> HeadOf(ask)]
<1>1. /\ ask # None /\ wire = None /\ Cacheable(ask) /\ resources' = resources \union {r}
      /\ UNCHANGED <<contract, history, ask, wire, prior>>
  BY DEF Create, Planned
<1>2. HistoryOK' /\ Grows
  BY <1>1, Quiet
<1>3. PriorOK'
  BY <1>1, <1>2, PriorsStay DEF PlanInv
<1>4. WireOK' /\ AskOK'
  BY <1>1 DEF WireOK, AskOK, PlanInv
<1>5. PICK b \in contract.asks : b = ask
  BY <1>1 DEF PlanInv, AskOK
<1>6. v \in Candidates(b)
  BY <1>1, <1>5, LongestIsCandidate DEF PlanInv, Cacheable
<1>7. v \in 0..Len(history) /\ Safe(b, v)
  BY <1>6, CandidateIsSafe DEF PlanInv
<1>8. r.version = v /\ r.name = Name(b, v) /\ r.prefix = Prefix(b, v) /\ r.head = HeadOf(b)
  BY <1>5
<1>9. \E s : s = r
  OBVIOUS
<1>10. PICK s : s = r
  BY <1>9
<1>11. Founded(s, b)
  BY <1>7, <1>8, <1>10 DEF Founded
<1> HIDE DEF r, v
<1>12. Founded(s, b)'
  BY <1>2, <1>11, FoundedStays DEF PlanInv
<1>13. ResourcesOK'
  <2> SUFFICES ASSUME NEW q \in resources'
               PROVE  \E c \in contract'.asks : Founded(q, c)'
    BY DEF ResourcesOK
  <2>1. CASE q \in resources
    <3>1. PICK c \in contract.asks : Founded(q, c)
      BY <2>1 DEF PlanInv, ResourcesOK
    <3>2. Founded(q, c)'
      BY <1>2, <3>1, FoundedStays DEF PlanInv
    <3> QED BY <1>1, <3>2
  <2>2. CASE q = s
    BY <1>1, <1>12, <2>2
  <2> QED BY <1>1, <1>10, <2>1, <2>2
<1> QED BY <1>2, <1>3, <1>4, <1>13 DEF PlanInv

\* A resource is gone.
LEMMA DropKeeps ==
  ASSUME PlanInv, NEW r \in resources, Drop(r)
  PROVE  PlanInv'
<1>1. resources' = resources \ {r} /\ UNCHANGED <<contract, history, ask, wire, prior>>
  BY DEF Drop
<1>2. HistoryOK' /\ Grows
  BY <1>1, Quiet
<1>3. ResourcesOK' /\ PriorOK'
  BY <1>1, <1>2, ResourcesStay, PriorsStay DEF PlanInv
<1>4. WireOK'
  BY <1>1, <1>2, WireStays
<1>5. AskOK'
  BY <1>1 DEF PlanInv, AskOK
<1> QED BY <1>2, <1>3, <1>4, <1>5 DEF PlanInv

\* A compatible resource is at a version the history had, and holds the prefix
\* of the request.
LEMMA CompatibleIs ==
  ASSUME PlanInv, NEW b \in contract.asks, b = ask, NEW r \in resources, Compatible(r)
  PROVE  /\ r.version \in 0..Len(history)
         /\ r.prefix = Prefix(b, r.version)
         /\ Conversation
<1> DEFINE v == r.version
<1>1. v \in Candidates(b) /\ r.name = Name(b, v) /\ Cacheable(b)
  BY DEF Compatible
<1>2. HistoryOK
  BY DEF PlanInv
<1>3. v \in 0..Len(history) /\ Safe(b, v)
  BY <1>1, <1>2, CandidateIsSafe
<1>4. PICK c \in contract.asks : Founded(r, c)
  BY DEF PlanInv, ResourcesOK
<1>5. Name(b, v) = Name(c, v) /\ r.prefix = Prefix(c, v)
  BY <1>1, <1>4 DEF Founded
<1>6. Layout \in {8, 9} /\ Len(history) \in Nat
  BY <1>2, ContractKinds DEF HistoryOK
<1>7. CacheIds(b) = CacheIds(c) /\ b.instr = c.instr
  BY <1>5, <1>6 DEF Name
<1>8. r.prefix = Prefix(b, v)
  <2>1. CASE Layout = 9
    BY <1>5, <2>1 DEF Name
  <2>2. CASE Layout = 8
    <3>1. v = 0
      BY <1>3, <2>2 DEF Safe
    <3>2. Entries(b, 1, 0) = <<>> /\ Entries(c, 1, 0) = <<>>
      <4>1. Entries(b, 0 + 1, 0) = <<>> /\ Entries(c, 0 + 1, 0) = <<>>
        BY NoEntries
      <4>2. 0 + 1 = 1
        OBVIOUS
      <4> QED BY <4>1, <4>2
    <3>3. BaseContents(b) = BaseContents(c)
      BY <1>7 DEF BaseContents
    <3>4. ~CachesTools
      BY <2>2 DEF CachesTools
    <3> QED BY <1>5, <1>7, <3>1, <3>2, <3>3, <3>4 DEF Prefix
  <2> QED BY <1>6, <2>1, <2>2
<1>9. Conversation
  <2> SUFFICES ASSUME ~Conversation PROVE FALSE
    OBVIOUS
  <2>1. CacheIds(b) = <<>>
    BY <1>2, CacheKinds
  <2>2. BaseContents(b) = <<>>
    BY <2>1 DEF BaseContents
  <2>3. Len(history) = 0
    BY <1>2 DEF HistoryOK
  <2>4. v = 0
    BY <1>3, <2>3
  <2>5. Entries(b, 1, 0) = <<>>
    <3>1. Entries(b, 0 + 1, 0) = <<>> /\ 0 + 1 = 1
      BY NoEntries
    <3> QED BY <3>1
  <2>6. Prefix(b, v).contents = <<>>
    BY <2>2, <2>4, <2>5 DEF Prefix
  <2> QED BY <1>3, <2>2, <2>6 DEF Safe
<1> QED BY <1>3, <1>8, <1>9

\* Behind a resource: the adapter's check of the tail passes.
LEMMA SendCachedKeeps ==
  ASSUME PlanInv, NEW r \in resources, SendCached(r)
  PROVE  PlanInv' /\ wire'.how = "cached"
<1>1. /\ ask # None /\ wire = None /\ Compatible(r)
      /\ UNCHANGED <<contract, history, ask, resources, prior>>
  BY DEF SendCached, Planned
<1>2. HistoryOK' /\ Grows
  BY <1>1, Quiet
<1>3. ResourcesOK' /\ PriorOK' /\ AskOK'
  BY <1>1, <1>2, ResourcesStay, PriorsStay DEF PlanInv, AskOK
<1>4. PICK b \in contract.asks : b = ask
  BY <1>1 DEF PlanInv, AskOK
<1> DEFINE v == r.version
           n == Len(history)
<1>5. v \in 0..n /\ r.prefix = Prefix(b, v) /\ Conversation
  BY <1>1, <1>4, CompatibleIs
<1>6. Cacheable(b)
  BY <1>1, <1>4 DEF Compatible
<1>7. TailReserved
  BY <1>4, <1>6 DEF Cacheable, TailReserved
<1>8. wire' = Payload("cached", [r.prefix EXCEPT !.contents = @ \o Suffix(b, v)])
  BY <1>4, <1>7 DEF SendCached
<1>9. Prefix(b, v).contents \o Suffix(b, v) = Retold(b, n)
  BY <1>5, RetoldIsSent DEF PlanInv
<1>10. /\ wire'.how = "cached" /\ wire'.contents = Retold(b, n) /\ wire'.instr = b.instr
       /\ wire'.tools = IF CachesTools THEN b.tools ELSE None
  <2>1. Prefix(b, v) = [contents |-> Prefix(b, v).contents, instr |-> b.instr,
                        tools |-> IF CachesTools THEN b.tools ELSE None]
    BY DEF Prefix
  <2> HIDE DEF v, n
  <2> QED BY <1>5, <1>8, <1>9, <2>1 DEF Payload
<1>11. (IF CachesTools THEN b.tools ELSE None) = IF Upgraded THEN b.tools ELSE None
  <2>1. Layout \in {8, 9} /\ (Layout = 8 => ~Upgraded)
    BY ContractKinds DEF PlanInv
  <2>2. Layout = 9 => b.tools = None \/ CachesTools
    BY <1>6 DEF Cacheable
  <2> QED BY <2>1, <2>2 DEF CachesTools
<1>12. contract' = contract /\ history' = history
  BY <1>1
<1>13. Retold(b, n)' = Retold(b, n)
  <2>1. \E k : k = n
    OBVIOUS
  <2>2. PICK k : k = n
    BY <2>1
  <2>3. k \in 0..Len(history)
    BY <1>5, <2>2 DEF PlanInv, HistoryOK
  <2>4. Retold(b, k)' = Retold(b, k)
    BY <1>2, <2>3, PrefixStays DEF PlanInv
  <2> QED BY <1>12, <2>2, <2>4
<1>14. Sent(b, n)'
  BY <1>5, <1>10, <1>11, <1>12, <1>13 DEF Sent, Heads, Conversation, Upgraded
<1>15. WireOK'
  <2>1. ask' = b /\ ask' # None
    BY <1>1, <1>4
  <2> QED BY <1>12, <1>14, <2>1 DEF WireOK
<1> QED BY <1>2, <1>3, <1>10, <1>15 DEF PlanInv

\* Behind an implicit prefix.
LEMMA SendImplicitKeeps ==
  ASSUME PlanInv, SendImplicit
  PROVE  PlanInv' /\ wire'.how = "implicit"
<1> DEFINE n == Len(history)
           k == FALSE
<1>1. /\ ask # None /\ wire = None /\ ImplicitEligible(ask)
      /\ wire' = Payload("implicit", ImplicitPayload(ask))
      /\ prior' = [contents |-> wire'.contents, head |-> HeadOf(ask), turn |-> n + 1, committed |-> k]
      /\ UNCHANGED <<contract, history, ask, resources>>
  BY DEF SendImplicit, Planned
<1>2. HistoryOK' /\ Grows
  BY <1>1, Quiet
<1>3. ResourcesOK' /\ AskOK'
  BY <1>1, <1>2, ResourcesStay DEF PlanInv, AskOK
<1>4. PICK b \in contract.asks : b = ask
  BY <1>1 DEF PlanInv, AskOK
<1>5. n \in Nat /\ SafeVersion(b) \in 0..n
  BY SafeVersionIs DEF PlanInv, HistoryOK
<1>6. ImplicitPayload(b).contents = Retold(b, n)
  <2> DEFINE v == SafeVersion(b)
  <2>1. v \in 0..Len(history)
    BY <1>5
  <2>2. ImplicitPayload(b).contents = Prefix(b, v).contents \o Suffix(b, v)
    BY DEF ImplicitPayload
  <2> HIDE DEF v
  <2> QED BY <2>1, <2>2, RetoldIsSent DEF PlanInv
<1>7. ImplicitPayload(b).instr = b.instr /\ ImplicitPayload(b).tools = IF Upgraded THEN b.tools ELSE None
  BY DEF ImplicitPayload
<1>8. /\ wire'.how = "implicit" /\ wire'.contents = Retold(b, n) /\ wire'.instr = b.instr
      /\ wire'.tools = IF Upgraded THEN b.tools ELSE None
  BY <1>1, <1>4, <1>6, <1>7 DEF Payload
<1>9. PICK j \in 0..Len(history) : j = n
  BY <1>5
<1>10. Retold(b, j)' = Retold(b, j)
  BY <1>2, PrefixStays DEF PlanInv
<1>11. HeadOf(b)' = HeadOf(b)
  BY <1>1, ContractStays
<1>12. prior' = [contents |-> Retold(b, j)', head |-> HeadOf(b)', turn |-> j + 1, committed |-> k]
  BY <1>1, <1>4, <1>8, <1>9, <1>10, <1>11
<1>13. PriorIs(b, j, k)'
  BY <1>12 DEF PriorIs
<1>14. Layout' = 9
  BY <1>1 DEF ImplicitEligible, Layout
<1>15. PriorOK'
  <2>1. j \in 0..Len(history') /\ k \in BOOLEAN /\ b \in contract'.asks
    BY <1>1
  <2> QED BY <1>13, <1>14, <2>1 DEF PriorOK
<1>16. Sent(b, j)'
  <2>1. k \in BOOLEAN
    OBVIOUS
  <2> QED BY <1>1, <1>8, <1>9, <1>10, <1>13, <1>14, <2>1 DEF Sent, Heads, Upgraded
<1>17. WireOK'
  BY <1>1, <1>4, <1>9, <1>16 DEF WireOK
<1> QED BY <1>2, <1>3, <1>8, <1>15, <1>17 DEF PlanInv

\* Without conversation the full payload is the question.
LEMMA FullOfExplicit ==
  ASSUME HistoryOK, NEW b \in contract.asks, ~Conversation
  PROVE  FullPayload(b).contents = <<UserContent(Said(MaterialIds(b), Len(history) + 1, b.blank))>>
<1> DEFINE f == [i \in DOMAIN history |->
                  <<UserContent(history[i].user), ModelContent(history[i].answer)>>]
           u == FullUser(b)
           e == <<>>
<1>1. Len(history) = 0 /\ history = [i \in 1..Len(history) |-> history[i]]
  BY DEF HistoryOK
<1>2. f = <<>>
  BY <1>1
<1>3. FullPayload(b).contents = FlattenSeq(f) \o <<u>>
  BY DEF FullPayload
<1> HIDE DEF f
<1>4. FlattenSeq(f) = e
  BY <1>2, FlattenOfEmpty
<1>5. u = UserContent(Said(MaterialIds(b), Len(history) + 1, b.blank))
  BY AskedIsUncached
<1> HIDE DEF u
<1>6. e \o <<u>> = <<u>>
  OBVIOUS
<1> QED BY <1>3, <1>4, <1>5, <1>6

\* Without a cache.
LEMMA SendFullKeeps ==
  ASSUME PlanInv, SendFull
  PROVE  PlanInv' /\ wire'.how = "full"
<1>1. /\ ask # None /\ wire = None /\ wire' = Payload("full", FullPayload(ask))
      /\ UNCHANGED <<contract, history, ask, resources, prior>>
  BY DEF SendFull, Planned
<1>2. HistoryOK' /\ Grows
  BY <1>1, Quiet
<1>3. ResourcesOK' /\ PriorOK' /\ AskOK'
  BY <1>1, <1>2, ResourcesStay, PriorsStay DEF PlanInv, AskOK
<1>4. PICK b \in contract.asks : b = ask
  BY <1>1 DEF PlanInv, AskOK
<1>5. wire'.how = "full" /\ wire'.contents = FullPayload(b).contents
  BY <1>1, <1>4 DEF Payload
<1>6. ~Conversation =>
        FullPayload(b).contents = <<UserContent(Said(MaterialIds(b), Len(history) + 1, b.blank))>>
  BY FullOfExplicit DEF PlanInv
<1>7. MaterialIds(b)' = MaterialIds(b) /\ Len(history)' = Len(history)
  BY <1>1, ContractStays
<1>8. Sent(b, Len(history))'
  BY <1>1, <1>5, <1>6, <1>7 DEF Sent, Heads, Conversation
<1>9. WireOK'
  BY <1>1, <1>4, <1>8 DEF WireOK
<1> QED BY <1>2, <1>3, <1>5, <1>9 DEF PlanInv

\* A commit adds one turn, the one of this request.
LEMMA CommitKeeps ==
  ASSUME PlanInv, Commit
  PROVE  PlanInv' /\ Grows
<1> DEFINE n == Len(history)
           t == Turn(ask)
           h == Append(history, t)
<1>1. /\ ask # None /\ wire # None /\ n < contract.turns
      /\ history' = IF Conversation THEN h ELSE history
      /\ prior' = IF wire.how = "implicit" THEN [prior EXCEPT !.committed = Conversation] ELSE prior
      /\ ask' = None /\ wire' = None /\ UNCHANGED <<contract, resources>>
  BY DEF Commit
<1>2. PICK b \in contract.asks : b = ask
  BY <1>1 DEF PlanInv, AskOK
<1>3. HistoryOK /\ n \in Nat /\ contract.turns \in Nat
  BY ContractKinds DEF PlanInv, HistoryOK
<1>4. t = TurnOf(MaterialIds(b), n + 1, b.blank)
  BY <1>2, <1>3, AskedIsUncached
<1>5. history = [i \in 1..n |-> history[i]]
  BY <1>3 DEF HistoryOK
<1>6. Len(h) = n + 1 /\ h[n + 1] = t /\ h = [i \in 1..(n + 1) |-> h[i]] /\ \A i \in 1..n : h[i] = history[i]
  <2> HIDE DEF t
  <2> DEFINE R == {history[i] : i \in 1..n} \union {t}
  <2>1. history \in Seq(R) /\ t \in R
    BY <1>3, <1>5, SeqDef
  <2>2. /\ h \in Seq(R) /\ Len(h) = n + 1 /\ (\A i \in 1..n : h[i] = history[i])
        /\ h[n + 1] = t
    BY <2>1, AppendProperties
  <2>3. h = [i \in 1..Len(h) |-> h[i]]
    <3> HIDE DEF h, R
    <3>1. h \in Seq(R)
      BY <2>2
    <3> QED BY <3>1, LenProperties
  <2> HIDE DEF h
  <2> QED BY <2>2, <2>3
<1> HIDE DEF h
<1>7. Grows
  <2>1. CASE Conversation
    <3>1. history' = h /\ contract' = contract
      BY <1>1, <2>1
    <3>2. Len(h) = n + 1
      BY <1>6
    <3>3. Len(history') = n + 1 /\ \A i \in 1..n : history'[i] = history[i]
      BY <1>6, <3>1, <3>2
    <3> QED BY <1>3, <3>1, <3>3 DEF Grows
  <2>2. CASE ~Conversation
    <3>1. history' = history /\ contract' = contract
      BY <1>1, <2>2
    <3> QED BY <1>3, <3>1 DEF Grows
  <2> QED BY <2>1, <2>2
<1>8. MaterialIds(b) \in Seq(Materials) /\ b.blank \in BOOLEAN
  BY <1>3, IdsKinds, AskKinds
<1>9. HistoryOK'
  <2>1. CASE Conversation
    <3>1. history' = h /\ Len(history') = n + 1
      BY <1>1, <1>6, <2>1
    <3>2. \A i \in 1..(n + 1) :
            \E ids \in Seq(Materials), c \in BOOLEAN : h[i] = TurnOf(ids, i, c)
      <4> TAKE i \in 1..(n + 1)
      <4>1. CASE i \in 1..n
        <5>1. h[i] = history[i]
          BY <1>6, <4>1
        <5> QED BY <1>3, <4>1, <5>1 DEF HistoryOK
      <4>2. CASE i = n + 1
        BY <1>4, <1>6, <1>8, <4>2
      <4> QED BY <1>3, <4>1, <4>2
    <3>3. n + 1 <= contract.turns
      BY <1>1, <1>3
    <3>4. contract \in Contracts /\ n + 1 \in Nat
      BY <1>3 DEF HistoryOK
    <3>5. history' = [i \in 1..Len(history') |-> history'[i]]
      BY <1>6, <3>1
    <3> QED BY <1>1, <2>1, <3>1, <3>2, <3>3, <3>4, <3>5 DEF HistoryOK, Conversation
  <2>2. CASE ~Conversation
    <3>1. history' = history /\ contract' = contract
      BY <1>1, <2>2
    <3> QED BY <1>3, <3>1 DEF HistoryOK, Conversation
  <2> QED BY <2>1, <2>2
<1>10. ResourcesOK'
  BY <1>1, <1>7, ResourcesStay DEF PlanInv
<1>11. WireOK' /\ AskOK'
  BY <1>1 DEF WireOK, AskOK
<1>12. PriorOK'
  <2>1. CASE wire.how # "implicit"
    BY <1>1, <1>7, <2>1, PriorsStay DEF PlanInv
  <2>2. CASE wire.how = "implicit"
    <3>1. Sent(b, n)
      BY <1>1, <1>2 DEF PlanInv, WireOK
    <3>2. PICK j \in 0..Len(history) : j = n
      BY <1>3
    <3>3. PICK c \in BOOLEAN : PriorIs(b, j, c)
      BY <2>2, <3>1, <3>2 DEF Sent
    <3>4. Layout = 9
      BY <2>2, <3>1 DEF Sent
    <3>5. prior' = [contents |-> Retold(b, j), head |-> HeadOf(b), turn |-> j + 1, committed |-> Conversation]
      BY <1>1, <2>2, <3>3 DEF PriorIs
    <3>6. Retold(b, j)' = Retold(b, j)
      BY <1>3, <1>7, PrefixStays
    <3>7. HeadOf(b)' = HeadOf(b) /\ MaterialIds(b)' = MaterialIds(b)
      BY <1>1, ContractStays
    <3>8. PICK d \in BOOLEAN : d = Conversation
      BY <1>3, ContractKinds
    <3>9. d => j < Len(history') /\ history'[j + 1] = TurnOf(MaterialIds(b)', j + 1, b.blank)
      BY <1>1, <1>3, <1>4, <1>6, <3>2, <3>7, <3>8
    <3>10. prior' = [contents |-> Retold(b, j)', head |-> HeadOf(b)', turn |-> j + 1, committed |-> d]
      BY <3>5, <3>6, <3>7, <3>8
    <3>11. PriorIs(b, j, d)'
      BY <3>9, <3>10 DEF PriorIs
    <3>12. j \in 0..Len(history') /\ b \in contract'.asks /\ Layout' = 9
      <4>1. Len(history') \in Nat /\ n <= Len(history')
        BY <1>7 DEF Grows
      <4>2. contract' = contract
        BY <1>1
      <4> QED BY <1>3, <3>2, <3>4, <4>1, <4>2 DEF Layout
    <3> QED BY <3>11, <3>12 DEF PriorOK
  <2> QED BY <2>1, <2>2
<1> QED BY <1>7, <1>9, <1>10, <1>11, <1>12 DEF PlanInv

\* A failure leaves no trace in the session.
LEMMA FailKeeps ==
  ASSUME PlanInv, Fail
  PROVE  PlanInv'
<1>1. ask' = None /\ wire' = None /\ UNCHANGED <<contract, history, resources, prior>>
  BY DEF Fail
<1>2. HistoryOK' /\ Grows
  BY <1>1, Quiet
<1>3. ResourcesOK' /\ PriorOK'
  BY <1>1, <1>2, ResourcesStay, PriorsStay DEF PlanInv
<1>4. WireOK' /\ AskOK'
  BY <1>1 DEF WireOK, AskOK
<1> QED BY <1>2, <1>3, <1>4 DEF PlanInv

\* What a plan rests on holds in every state.
THEOREM PlansAreFounded == PlanSpec => []PlanInv
<1>1. PlanInit => PlanInv
  BY InitHolds
<1>2. PlanInv /\ [PlanNext]_planVars => PlanInv'
  <2> SUFFICES ASSUME PlanInv, [PlanNext]_planVars PROVE PlanInv'
    OBVIOUS
  <2>1. ASSUME NEW a \in contract.asks, Begin(a) PROVE PlanInv'
    BY <2>1, BeginKeeps
  <2>2. CASE Create
    BY <2>2, CreateKeeps
  <2>3. ASSUME NEW r \in resources, Drop(r) PROVE PlanInv'
    BY <2>3, DropKeeps
  <2>4. ASSUME NEW r \in resources, SendCached(r) PROVE PlanInv'
    BY <2>4, SendCachedKeeps
  <2>5. CASE SendImplicit
    BY <2>5, SendImplicitKeeps
  <2>6. CASE SendFull
    BY <2>6, SendFullKeeps
  <2>7. CASE Commit
    BY <2>7, CommitKeeps
  <2>8. CASE Fail
    BY <2>8, FailKeeps
  <2>9. CASE UNCHANGED planVars
    <3>1. UNCHANGED <<contract, history, ask, resources, wire, prior>>
      BY <2>9 DEF planVars
    <3>2. HistoryOK' /\ Grows
      BY <3>1, Quiet
    <3>3. ResourcesOK' /\ PriorOK'
      BY <3>1, <3>2, ResourcesStay, PriorsStay DEF PlanInv
    <3>4. WireOK'
      BY <3>1, <3>2, WireStays
    <3>5. AskOK'
      BY <3>1 DEF PlanInv, AskOK
    <3> QED BY <3>2, <3>3, <3>4, <3>5 DEF PlanInv
  <2> QED BY <2>1, <2>2, <2>3, <2>4, <2>5, <2>6, <2>7, <2>8, <2>9 DEF PlanNext
<1> QED BY <1>1, <1>2, PTL DEF PlanSpec

-----------------------------------------------------------------------------
(* Resources that stay usable, and no late refusal.                        *)

LEMMA TypesAreKept ==
  ASSUME PlanInv
  PROVE  PlanTypeOK
<1>1. HistoryOK
  BY DEF PlanInv
<1>2. Len(history) \in Nat /\ Len(history) <= contract.turns /\ DOMAIN history = 1..Len(history)
  <2>1. history = [i \in 1..Len(history) |-> history[i]]
    BY <1>1 DEF HistoryOK
  <2> QED BY <1>1, <2>1 DEF HistoryOK
<1>3. ASSUME NEW i \in 1..Len(history)
      PROVE  Len(history[i].occurrences) = Cardinality(FileIndexes(history[i]))
  <2>1. PICK ids \in Seq(Materials), b \in BOOLEAN : history[i] = TurnOf(ids, i, b)
    BY <1>1 DEF HistoryOK
  <2>2. i \in Nat
    BY <1>2
  <2>3. FileIndexes(history[i]) = 1..Len(ids) /\ Len(history[i].occurrences) = Len(ids)
    BY <2>1, <2>2, TurnIs
  <2>4. Len(ids) \in Nat
    BY LenProperties
  <2>5. Cardinality(1..Len(ids)) = Len(ids)
    <3> DEFINE o == 1
               m == Len(ids)
    <3>1. o \in Int /\ m \in Int /\ (o > m => m = 0) /\ m - o + 1 = m
      BY <2>4
    <3> HIDE DEF o, m
    <3>2. o \in Int
      BY <3>1
    <3>3. m \in Int
      BY <3>1
    <3>4. Cardinality(o..m) = IF o > m THEN 0 ELSE m - o + 1
      BY <3>2, <3>3, FS_Interval
    <3> QED BY <3>1, <3>4 DEF o, m
  <2> QED BY <2>3, <2>5
<1>4. ask \in contract.asks \union {None}
  BY DEF PlanInv, AskOK
<1>5. \A r \in resources : r.version \in 0..Len(history)
  BY DEF PlanInv, ResourcesOK, Founded
<1>6. wire # None => ask # None /\ wire.how \in Heads
  BY DEF PlanInv, WireOK, Sent
<1> QED BY <1>2, <1>3, <1>4, <1>5, <1>6 DEF PlanTypeOK

\* Nothing was refused after the seal.
LEMMA NoneIsRefused ==
  ASSUME PlanInv
  PROVE  NoLateRefusal
BY DEF PlanInv, WireOK, Sent, NoLateRefusal, Heads

\* A resource founded on the same head is a candidate again.
LEMMA ResourcesStayCompatible ==
  ASSUME PlanInv
  PROVE  ResourceStaysCompatible
<1> SUFFICES ASSUME Planned, ~ask.stale, Cacheable(ask), NEW r \in resources, r.head = HeadOf(ask)
             PROVE  Compatible(r)
  BY DEF ResourceStaysCompatible
<1>1. PICK b \in contract.asks : Founded(r, b)
  BY DEF PlanInv, ResourcesOK
<1> DEFINE v == r.version
<1>2. HeadOf(ask) = HeadOf(b) /\ v \in 0..Len(history) /\ r.name = Name(b, v) /\ Safe(b, v)
  BY <1>1 DEF Founded
<1>3. Name(ask, v) = Name(b, v) /\ Safe(ask, v)
  BY <1>2, HeadDecides
<1>4. HistoryOK
  BY DEF PlanInv
<1>5. v \in Candidates(ask)
  <2>1. \E w, a : w = v /\ a = ask
    OBVIOUS
  <2>2. PICK w, a : w = v /\ a = ask
    BY <2>1
  <2> HIDE DEF v
  <2>3. w \in 0..Len(history) /\ Safe(a, w) /\ ~a.stale
    BY <1>2, <1>3, <2>2
  <2>4. w \in Candidates(a)
    BY <1>4, <2>3, SafeIsCandidate
  <2> QED BY <2>2, <2>4
<1> QED BY <1>2, <1>3, <1>5 DEF Compatible

\* Without conversation nothing is cached, so nothing is split.
LEMMA ExplicitMessagesAreWhole ==
  ASSUME PlanInv
  PROVE  ExplicitMessageIsWhole
<1> SUFFICES ASSUME ~Conversation, wire # None
             PROVE  wire.contents = FullPayload(ask).contents
  BY DEF ExplicitMessageIsWhole
<1> DEFINE n == Len(history)
<1>1. HistoryOK /\ ask # None /\ Sent(ask, n)
  BY DEF PlanInv, WireOK
<1>2. PICK b \in contract.asks : b = ask
  BY <1>1 DEF PlanInv, AskOK
<1>3. FullPayload(b).contents = <<UserContent(Said(MaterialIds(b), n + 1, b.blank))>>
  BY <1>1, FullOfExplicit
<1>4. CASE wire.how = "full"
  BY <1>1, <1>2, <1>3, <1>4 DEF Sent
<1>5. CASE wire.how = "implicit"
  <2>1. wire.contents = Retold(b, n)
    BY <1>1, <1>2, <1>5 DEF Sent
  <2>2. n = 0
    BY <1>1 DEF HistoryOK
  <2>3. CacheIds(b) = <<>>
    BY <1>1, CacheKinds
  <2>4. BaseContents(b) = <<>> /\ Cached(b) = {}
    BY <2>3, ToSetOfEmpty DEF BaseContents, Cached
  <2>5. Entries(b, 1, n) = <<>>
    <3>1. Entries(b, 0 + 1, 0) = <<>> /\ 0 + 1 = 1
      BY NoEntries
    <3> QED BY <2>2, <3>1
  <2>6. MaterialIds(b) \in Seq(Materials)
    BY <1>1, IdsKinds
  <2>7. Outside(MaterialIds(b), Cached(b)) = MaterialIds(b)
    <3> DEFINE s == MaterialIds(b)
               M == Cached(b)
               S == Materials
               D == S \ M
    <3>1. Outside(s, M) = Within(s, D)
      BY <2>6, OutsideIsWithin
    <3>2. S \subseteq D
      BY <2>4
    <3> HIDE DEF D
    <3>3. Within(s, D) = s
      BY <2>6, <3>2, WithinAll
    <3> QED BY <3>1, <3>3
  <2>8. Retold(b, n) = (<<>> \o <<>>) \o <<UserContent(Said(MaterialIds(b), n + 1, b.blank))>>
    BY <2>4, <2>5, <2>7 DEF Retold, Asked
  <2>9. \A x : (<<>> \o <<>>) \o <<x>> = <<x>>
    OBVIOUS
  <2> QED BY <1>2, <1>3, <2>1, <2>8, <2>9
<1>6. wire.how # "cached"
  BY <1>1 DEF Sent
<1> QED BY <1>1, <1>4, <1>5, <1>6 DEF Sent, Heads

-----------------------------------------------------------------------------
(* Where a file is.                                                        *)

IsAt(c, i, j, m) == i \in DOMAIN c /\ j \in DOMAIN c[i].parts /\ c[i].parts[j] = FilePart(m)

Missing(c, m) == \A i, j : ~IsAt(c, i, j, m)

Single(c, m) == \E i, j : IsAt(c, i, j, m) /\ \A k, l : IsAt(c, k, l, m) => k = i /\ l = j

\* Contents without a file of M.
Dry(M) == {c \in Message : \A j \in DOMAIN c.parts :
                              c.parts[j].kind = "file" => c.parts[j].of \notin M}

\* A single place is one time.
LEMMA SingleIsOnce ==
  ASSUME NEW c, NEW m, Single(c, m)
  PROVE  Times(c, m) = 1
<1>1. PICK i, j : IsAt(c, i, j, m) /\ \A k, l : IsAt(c, k, l, m) => k = i /\ l = j
  BY DEF Single
<1> DEFINE P == Places(c, m)
<1>2. P = {<<i, j>>}
  <2>1. ASSUME NEW p \in P PROVE p = <<i, j>>
    <3>1. PICK k \in DOMAIN c : p \in {k} \X DOMAIN c[k].parts
      BY DEF Places
    <3>2. PICK l \in DOMAIN c[k].parts : p = <<k, l>>
      BY <3>1
    <3>3. IsAt(c, k, l, m)
      BY <3>2 DEF Places, IsAt
    <3> QED BY <1>1, <3>2, <3>3
  <2>2. <<i, j>> \in P
    <3>1. i \in DOMAIN c /\ j \in DOMAIN c[i].parts /\ c[i].parts[j] = FilePart(m)
      BY <1>1 DEF IsAt
    <3>2. <<i, j>> \in {i} \X DOMAIN c[i].parts
      BY <3>1
    <3>3. <<i, j>> \in UNION {{k} \X DOMAIN c[k].parts : k \in DOMAIN c}
      BY <3>1, <3>2
    <3> QED BY <3>1, <3>3 DEF Places
  <2> QED BY <2>1, <2>2
<1> HIDE DEF P
<1>3. Cardinality(P) = 1
  BY <1>2, FS_Singleton
<1> QED BY <1>3 DEF Times, P

\* A place in two parts of a conversation is in one of them.
LEMMA AtOfConcat ==
  ASSUME NEW c \in Seq(Message), NEW d \in Seq(Message), NEW i, NEW j, NEW m
  PROVE  IsAt(c \o d, i, j, m) <=>
           IsAt(c, i, j, m) \/ (i \in (Len(c) + 1)..(Len(c) + Len(d)) /\ IsAt(d, i - Len(c), j, m))
<1> DEFINE e == c \o d
<1>1. /\ DOMAIN c = 1..Len(c) /\ DOMAIN d = 1..Len(d) /\ Len(c) \in Nat /\ Len(d) \in Nat
  BY LenProperties
<1>2. /\ e \in Seq(Message) /\ Len(e) = Len(c) + Len(d)
      /\ \A k \in 1..Len(e) : e[k] = IF k <= Len(c) THEN c[k] ELSE d[k - Len(c)]
  BY ConcatProperties
<1> HIDE DEF e
<1>3. DOMAIN e = 1..(Len(c) + Len(d))
  BY <1>2, LenProperties
<1>4. CASE i \in 1..Len(c)
  <2>1. e[i] = c[i] /\ i \in DOMAIN e /\ i \in DOMAIN c /\ i \notin (Len(c) + 1)..(Len(c) + Len(d))
    BY <1>1, <1>2, <1>3, <1>4
  <2> QED BY <2>1 DEF IsAt, e
<1>5. CASE i \in (Len(c) + 1)..(Len(c) + Len(d))
  <2>1. /\ e[i] = d[i - Len(c)] /\ i \in DOMAIN e /\ i \notin DOMAIN c /\ i - Len(c) \in DOMAIN d
    BY <1>1, <1>2, <1>3, <1>5
  <2> QED BY <1>5, <2>1 DEF IsAt, e
<1>6. CASE i \notin 1..Len(c) /\ i \notin (Len(c) + 1)..(Len(c) + Len(d))
  <2>1. i \notin DOMAIN e /\ i \notin DOMAIN c
    BY <1>1, <1>3, <1>6
  <2> QED BY <1>6, <2>1 DEF IsAt, e
<1> QED BY <1>4, <1>5, <1>6

\* In neither part, in none.
LEMMA MissingInBoth ==
  ASSUME NEW c \in Seq(Message), NEW d \in Seq(Message), NEW m, Missing(c, m), Missing(d, m)
  PROVE  Missing(c \o d, m)
<1> SUFFICES ASSUME NEW i, NEW j, IsAt(c \o d, i, j, m) PROVE FALSE
  BY DEF Missing
<1>1. IsAt(c, i, j, m) \/ IsAt(d, i - Len(c), j, m)
  BY AtOfConcat
<1> QED BY <1>1 DEF Missing

\* Once in the first part only,
LEMMA SingleInFirst ==
  ASSUME NEW c \in Seq(Message), NEW d \in Seq(Message), NEW m, Single(c, m), Missing(d, m)
  PROVE  Single(c \o d, m)
<1>1. PICK i, j : IsAt(c, i, j, m) /\ \A k, l : IsAt(c, k, l, m) => k = i /\ l = j
  BY DEF Single
<1>2. IsAt(c \o d, i, j, m)
  BY <1>1, AtOfConcat
<1>3. ASSUME NEW k, NEW l, IsAt(c \o d, k, l, m) PROVE k = i /\ l = j
  <2>1. IsAt(c, k, l, m) \/ IsAt(d, k - Len(c), l, m)
    BY <1>3, AtOfConcat
  <2> QED BY <1>1, <2>1 DEF Missing
<1> QED BY <1>2, <1>3 DEF Single

\* or in the last part only.
LEMMA SingleInLast ==
  ASSUME NEW c \in Seq(Message), NEW d \in Seq(Message), NEW m, Missing(c, m), Single(d, m)
  PROVE  Single(c \o d, m)
<1> DEFINE n == Len(c)
<1>1. PICK i, j : IsAt(d, i, j, m) /\ \A k, l : IsAt(d, k, l, m) => k = i /\ l = j
  BY DEF Single
<1>2. DOMAIN d = 1..Len(d) /\ n \in Nat /\ Len(d) \in Nat
  BY LenProperties
<1>3. i \in 1..Len(d)
  BY <1>1, <1>2 DEF IsAt
<1>4. n + i \in (n + 1)..(n + Len(d)) /\ (n + i) - n = i
  BY <1>2, <1>3
<1>5. IsAt(c \o d, n + i, j, m)
  BY <1>1, <1>4, AtOfConcat
<1>6. ASSUME NEW k, NEW l, IsAt(c \o d, k, l, m) PROVE k = n + i /\ l = j
  <2>1. IsAt(c, k, l, m) \/ (k \in (n + 1)..(n + Len(d)) /\ IsAt(d, k - n, l, m))
    BY <1>6, AtOfConcat
  <2>2. k \in (n + 1)..(n + Len(d)) /\ IsAt(d, k - n, l, m)
    BY <2>1 DEF Missing
  <2>3. k - n = i /\ l = j
    BY <1>1, <2>2
  <2> QED BY <1>2, <1>3, <2>2, <2>3
<1> QED BY <1>5, <1>6 DEF Single

\* Dry contents have no place for the file.
LEMMA DryHasNone ==
  ASSUME NEW M, NEW c \in Seq(Dry(M)), NEW m \in M
  PROVE  Missing(c, m)
<1> SUFFICES ASSUME NEW i, NEW j, IsAt(c, i, j, m) PROVE FALSE
  BY DEF Missing
<1>1. c[i] \in Dry(M)
  <2>1. DOMAIN c = 1..Len(c)
    BY LenProperties
  <2>2. i \in 1..Len(c)
    BY <2>1 DEF IsAt
  <2> QED BY <2>2, ElementOfSeq
<1> QED BY <1>1 DEF IsAt, Dry, FilePart

\* Dry contents are messages.
LEMMA DryIsMessage ==
  ASSUME NEW M, NEW c \in Seq(Dry(M))
  PROVE  c \in Seq(Message)
<1>1. DOMAIN c = 1..Len(c) /\ Len(c) \in Nat /\ c = [i \in 1..Len(c) |-> c[i]]
  BY LenProperties
<1>2. \A i \in 1..Len(c) : c[i] \in Message
  BY ElementOfSeq DEF Dry
<1> QED BY <1>1, <1>2, SeqDef

\* What is said about ids other than M has no file of M.
LEMMA SaidIsDry ==
  ASSUME NEW ids \in Seq(Materials), NEW n \in Nat, NEW b \in BOOLEAN, NEW M
  PROVE  UserContent(Said(Outside(ids, M), n, b)) \in Dry(M)
<1> DEFINE k == Outside(ids, M)
           s == Said(k, n, b)
           c == UserContent(s)
<1>1. k \in Seq(Materials) /\ ToSet(k) = ToSet(ids) \ M
  BY OutsideIsSeq, OutsideToSet
<1> HIDE DEF k
<1>2. k \in Seq(Materials)
  BY <1>1
<1>3. /\ s \in Seq(Stuff) /\ Len(s) = Len(k) + 1 /\ (\A i \in 1..Len(k) : s[i] = FilePart(k[i]))
      /\ s[Len(k) + 1] = Text(n, b)
  BY <1>2, SaidIsStuff
<1> HIDE DEF s
<1>4. c \in Message /\ c.parts = s
  BY <1>3, MessageKinds DEF UserContent
<1>5. DOMAIN s = 1..(Len(k) + 1) /\ Len(k) \in Nat /\ DOMAIN k = 1..Len(k)
  <2>1. s \in Seq(Stuff)
    BY <1>3
  <2> QED BY <1>2, <1>3, <2>1, LenProperties
<1>6. ASSUME NEW j \in DOMAIN s, s[j].kind = "file" PROVE s[j].of \notin M
  <2>1. CASE j \in 1..Len(k)
    <3>1. s[j].of = k[j]
      <4>1. s[j] = FilePart(k[j])
        BY <1>3, <2>1
      <4>2. FilePart(k[j]).of = k[j]
        BY DEF FilePart
      <4> QED BY <4>1, <4>2
    <3>2. k[j] \in ToSet(k)
      BY <1>5, <2>1 DEF ToSet
    <3> QED BY <1>1, <3>1, <3>2
  <2>2. CASE j = Len(k) + 1
    BY <1>3, <1>6, <2>2 DEF Text
  <2> QED BY <1>5, <2>1, <2>2
<1> HIDE DEF c
<1> QED BY <1>4, <1>6 DEF Dry, c, s, k

\* A retold turn has none of the files that moved.
LEMMA SpokenIsDry ==
  ASSUME NEW ids \in Seq(Materials), NEW n \in Nat, NEW b \in BOOLEAN, NEW M
  PROVE  Spoken(ids, n, b, M) \in Seq(Dry(M))
<1> DEFINE x == UserContent(Said(Outside(ids, M), n, b))
           y == ModelContent(n)
           D == Dry(M)
<1>1. x \in D
  BY SaidIsDry
<1>2. y \in D
  <2>1. y \in Message
    BY MessageKinds
  <2>2. y.parts = <<[kind |-> "answer", of |-> n]>>
    BY DEF ModelContent
  <2>3. \A j \in DOMAIN y.parts : y.parts[j].kind # "file"
    BY <2>2
  <2> HIDE DEF y
  <2> QED BY <2>1, <2>3 DEF Dry
<1> HIDE DEF x, y, D
<1>3. <<x, y>> \in Seq(D)
  BY <1>1, <1>2
<1> QED BY <1>3 DEF Spoken, x, y, D

\* The turns in a payload have no file of what is moved.
LEMMA EntriesAreDry ==
  ASSUME HistoryOK, NEW b, NEW n \in 0..Len(history)
  PROVE  Entries(b, 1, n) \in Seq(Dry(Moved(b)))
<1> DEFINE D == Dry(Moved(b))
           p == Pieces(b, 1, n)
<1>1. Len(history) \in Nat /\ n \in Nat
  BY DEF HistoryOK
<1>2. ASSUME NEW i \in 1..n PROVE Piece(b, 1 + i - 1) \in Seq(D)
  <2>1. i \in 1..Len(history) /\ 1 + i - 1 = i /\ i \in Nat
    BY <1>1
  <2>2. PICK ids \in Seq(Materials), k \in BOOLEAN : history[i] = TurnOf(ids, i, k)
    BY <2>1 DEF HistoryOK
  <2>3. Piece(b, i) = Spoken(ids, i, k, Moved(b))
    BY <2>1, <2>2, PieceIs
  <2>4. Spoken(ids, i, k, Moved(b)) \in Seq(D)
    BY <2>1, SpokenIsDry
  <2> QED BY <2>1, <2>3, <2>4
<1>3. p \in Seq(Seq(D))
  <2> DEFINE V == Seq(D)
  <2>1. p = [i \in 1..n |-> Piece(b, 1 + i - 1)] /\ \A i \in 1..n : Piece(b, 1 + i - 1) \in V
    BY <1>2 DEF Pieces
  <2> HIDE DEF V
  <2>2. p \in Seq(V)
    BY <1>1, <2>1, SeqDef
  <2> QED BY <2>2 DEF V
<1>4. Entries(b, 1, n) = FlattenSeq(p)
  <2>1. n + 1 - 1 = n /\ 1 <= n + 1 /\ 1 \in Nat
    BY <1>1
  <2>2. Entries(b, 1, n) = FlattenSeq(Pieces(b, 1, n + 1 - 1))
    BY <1>1, <2>1, EntriesArePieces
  <2> QED BY <2>1, <2>2
<1> HIDE DEF p, D
<1>5. FlattenSeq(p) \in Seq(D)
  BY <1>3, FlattenIsSeq
<1> QED BY <1>4, <1>5 DEF D

\* A message that holds a list of files once each, and no other.
LEMMA PartsHold ==
  ASSUME NEW c \in Message, NEW ids \in Seq(Materials), IsInjective(ids),
         \A i \in 1..Len(ids) : i \in DOMAIN c.parts /\ c.parts[i] = FilePart(ids[i]),
         \A j \in DOMAIN c.parts : j \in 1..Len(ids) \/ c.parts[j].kind # "file"
  PROVE  /\ \A m \in ToSet(ids) : Single(<<c>>, m)
         /\ \A m : m \notin ToSet(ids) => Missing(<<c>>, m)
<1> DEFINE s == <<c>>
<1>1. DOMAIN s = {1} /\ s[1] = c
  OBVIOUS
<1> HIDE DEF s
<1>2. DOMAIN ids = 1..Len(ids)
  BY LenProperties
<1>3. ASSUME NEW i, NEW j, NEW m, IsAt(s, i, j, m) PROVE i = 1 /\ j \in 1..Len(ids) /\ ids[j] = m
  <2>1. i = 1 /\ j \in DOMAIN c.parts /\ c.parts[j] = FilePart(m)
    BY <1>1, <1>3 DEF IsAt
  <2>2. FilePart(m).kind = "file" /\ FilePart(m).of = m
    BY DEF FilePart
  <2>3. j \in 1..Len(ids)
    BY <2>1, <2>2
  <2>4. FilePart(ids[j]).of = ids[j] /\ c.parts[j] = FilePart(ids[j])
    BY <2>3 DEF FilePart
  <2> QED BY <2>1, <2>2, <2>3, <2>4
<1>4. ASSUME NEW m \in ToSet(ids) PROVE Single(s, m)
  <2>1. PICK j \in 1..Len(ids) : ids[j] = m
    BY <1>2 DEF ToSet
  <2>2. IsAt(s, 1, j, m)
    BY <1>1, <2>1 DEF IsAt
  <2>3. \A k, l : IsAt(s, k, l, m) => k = 1 /\ l = j
    BY <1>2, <1>3, <2>1 DEF IsInjective
  <2> QED BY <2>2, <2>3 DEF Single
<1>5. ASSUME NEW m, m \notin ToSet(ids) PROVE Missing(s, m)
  <2> SUFFICES ASSUME NEW i, NEW j, IsAt(s, i, j, m) PROVE FALSE
    BY DEF Missing
  <2> QED BY <1>2, <1>3, <1>5 DEF ToSet
<1> QED BY <1>4, <1>5 DEF s

\* The base of a prefix is one;
LEMMA FrontHolds ==
  ASSUME NEW ids \in Seq(Materials), IsInjective(ids)
  PROVE  /\ \A m \in ToSet(ids) : Single(<<UserContent(Files(ids))>>, m)
         /\ \A m : m \notin ToSet(ids) => Missing(<<UserContent(Files(ids))>>, m)
<1> DEFINE c == UserContent(Files(ids))
<1>1. Files(ids) \in Seq(Stuff) /\ Len(Files(ids)) = Len(ids) /\ \A i \in 1..Len(ids) : Files(ids)[i] = FilePart(ids[i])
  BY FilesAreStuff
<1>2. DOMAIN Files(ids) = 1..Len(ids)
  <2>1. Files(ids) \in Seq(Stuff)
    BY <1>1
  <2> QED BY <1>1, <2>1, LenProperties
<1>3. c \in Message /\ c.parts = Files(ids)
  BY <1>1, MessageKinds DEF UserContent
<1> HIDE DEF c
<1>4. \A i \in 1..Len(ids) : i \in DOMAIN c.parts /\ c.parts[i] = FilePart(ids[i])
  BY <1>1, <1>2, <1>3
<1>5. \A j \in DOMAIN c.parts : j \in 1..Len(ids) \/ c.parts[j].kind # "file"
  BY <1>2, <1>3
<1>6. c \in Message
  BY <1>3
<1>7. /\ \A m \in ToSet(ids) : Single(<<c>>, m)
      /\ \A m : m \notin ToSet(ids) => Missing(<<c>>, m)
  BY <1>4, <1>5, <1>6, PartsHold
<1> QED BY <1>7 DEF c

\* a question is another.
LEMMA SaidHolds ==
  ASSUME NEW ids \in Seq(Materials), IsInjective(ids), NEW n \in Nat, NEW b \in BOOLEAN
  PROVE  /\ \A m \in ToSet(ids) : Single(<<UserContent(Said(ids, n, b))>>, m)
         /\ \A m : m \notin ToSet(ids) => Missing(<<UserContent(Said(ids, n, b))>>, m)
<1> DEFINE s == Said(ids, n, b)
           c == UserContent(s)
<1>1. /\ s \in Seq(Stuff) /\ Len(s) = Len(ids) + 1 /\ (\A i \in 1..Len(ids) : s[i] = FilePart(ids[i]))
      /\ s[Len(ids) + 1] = Text(n, b)
  BY SaidIsStuff
<1> HIDE DEF s
<1>2. DOMAIN s = 1..(Len(ids) + 1) /\ Len(ids) \in Nat
  <2>1. s \in Seq(Stuff)
    BY <1>1
  <2> QED BY <1>1, <2>1, LenProperties
<1>3. c \in Message /\ c.parts = s
  BY <1>1, MessageKinds DEF UserContent
<1> HIDE DEF c
<1>4. \A i \in 1..Len(ids) : i \in DOMAIN c.parts /\ c.parts[i] = FilePart(ids[i])
  BY <1>1, <1>2, <1>3
<1>5. \A j \in DOMAIN c.parts : j \in 1..Len(ids) \/ c.parts[j].kind # "file"
  <2>1. Text(n, b).kind # "file"
    BY DEF Text
  <2>2. \A j \in 1..(Len(ids) + 1) : j \in 1..Len(ids) \/ j = Len(ids) + 1
    BY <1>2
  <2> QED BY <1>1, <1>2, <1>3, <2>1, <2>2
<1>6. c \in Message
  BY <1>3
<1>7. /\ \A m \in ToSet(ids) : Single(<<c>>, m)
      /\ \A m : m \notin ToSet(ids) => Missing(<<c>>, m)
  BY <1>4, <1>5, <1>6, PartsHold
<1> QED BY <1>7 DEF c, s

\* The base holds each cached file once and no other.
LEMMA BaseHolds ==
  ASSUME HistoryOK, NEW b \in contract.asks
  PROVE  /\ \A m \in Cached(b) : Single(BaseContents(b), m)
         /\ \A m : m \notin Cached(b) => Missing(BaseContents(b), m)
         /\ DOMAIN BaseContents(b) \subseteq {1}
<1> DEFINE ids == CacheIds(b)
           c == UserContent(Files(ids))
<1>1. ids \in Seq(Materials) /\ IsInjective(ids)
  BY CacheKinds
<1>2. /\ \A m \in ToSet(ids) : Single(<<c>>, m)
      /\ \A m : m \notin ToSet(ids) => Missing(<<c>>, m)
  <2> HIDE DEF ids
  <2>1. ids \in Seq(Materials)
    BY <1>1
  <2> QED BY <1>1, <2>1, FrontHolds
<1>3. CASE ids = <<>>
  <2>1. BaseContents(b) = <<>> /\ Cached(b) = {}
    BY <1>3, ToSetOfEmpty DEF BaseContents, Cached
  <2>2. DOMAIN <<>> = {}
    OBVIOUS
  <2> QED BY <2>1, <2>2 DEF Missing, IsAt
<1>4. CASE ids # <<>>
  <2>1. BaseContents(b) = <<c>> /\ Cached(b) = ToSet(ids)
    BY <1>4 DEF BaseContents, Cached
  <2>2. DOMAIN <<c>> = {1}
    OBVIOUS
  <2> QED BY <1>2, <2>1, <2>2
<1> QED BY <1>3, <1>4

\* Everything taken out.
LEMMA NothingLeft ==
  ASSUME NEW S, NEW s \in Seq(S), NEW M, ToSet(s) \subseteq M
  PROVE  Outside(s, M) = <<>>
<1> DEFINE t == Outside(s, M)
<1>1. t \in Seq(S)
  BY OutsideIsSeq
<1>2. ToSet(t) = {}
  BY OutsideToSet
<1> HIDE DEF t
<1>3. DOMAIN t = 1..Len(t) /\ Len(t) \in Nat
  BY <1>1, LenProperties
<1>4. 1 \notin 1..Len(t)
  <2> SUFFICES ASSUME 1 \in DOMAIN t PROVE FALSE
    BY <1>3
  <2>1. t[1] \in ToSet(t)
    BY DEF ToSet
  <2> QED BY <1>2, <2>1
<1>5. Len(t) = 0
  BY <1>3, <1>4
<1>6. t = <<>>
  BY <1>1, <1>5, EmptySeq
<1> QED BY <1>6 DEF t

\* The turns of a resource have no file at all.
LEMMA SafeIsDry ==
  ASSUME HistoryOK, NEW b \in contract.asks, NEW v \in 0..Len(history), Safe(b, v)
  PROVE  Entries(b, 1, v) \in Seq(Dry(Materials))
<1> DEFINE D == Dry(Materials)
           p == Pieces(b, 1, v)
           M == Moved(b)
<1>1. Len(history) \in Nat /\ v \in Nat
  BY DEF HistoryOK
<1>2. ASSUME NEW i \in 1..v PROVE Piece(b, 1 + i - 1) \in Seq(D)
  <2>1. i \in 1..Len(history) /\ 1 + i - 1 = i /\ i \in Nat
    BY <1>1
  <2>2. PICK ids \in Seq(Materials), k \in BOOLEAN : history[i] = TurnOf(ids, i, k)
    BY <2>1 DEF HistoryOK
  <2>3. Piece(b, i) = Spoken(ids, i, k, M)
    BY <2>1, <2>2, PieceIs
  <2>4. TurnSafe(contract, history[i], M)
    <3>1. Layout = 9
      BY <1>1 DEF Safe
    <3> QED BY <3>1 DEF Safe
  <2>5. ToSet(ids) \subseteq M
    BY <2>1, <2>2, <2>4, TurnIsAccounted
  <2>6. ToSet(ids) \subseteq Materials
    <3>1. DOMAIN ids = 1..Len(ids)
      BY LenProperties
    <3>2. \A j \in DOMAIN ids : ids[j] \in Materials
      BY <3>1, ElementOfSeq
    <3> QED BY <3>2 DEF ToSet
  <2>7. Outside(ids, M) = <<>> /\ Outside(ids, Materials) = <<>>
    <3> HIDE DEF M
    <3> QED BY <2>5, <2>6, NothingLeft
  <2>8. Piece(b, i) = Spoken(ids, i, k, Materials)
    BY <2>3, <2>7 DEF Spoken
  <2>9. Spoken(ids, i, k, Materials) \in Seq(D)
    BY <2>1, SpokenIsDry
  <2> QED BY <2>1, <2>8, <2>9
<1>3. p \in Seq(Seq(D))
  <2> DEFINE V == Seq(D)
  <2>1. p = [i \in 1..v |-> Piece(b, 1 + i - 1)] /\ \A i \in 1..v : Piece(b, 1 + i - 1) \in V
    BY <1>2 DEF Pieces
  <2> HIDE DEF V
  <2>2. p \in Seq(V)
    BY <1>1, <2>1, SeqDef
  <2> QED BY <2>2 DEF V
<1>4. Entries(b, 1, v) = FlattenSeq(p)
  <2>1. v + 1 - 1 = v /\ 1 <= v + 1 /\ 1 \in Nat
    BY <1>1
  <2>2. Entries(b, 1, v) = FlattenSeq(Pieces(b, 1, v + 1 - 1))
    BY <1>1, <2>1, EntriesArePieces
  <2> QED BY <2>1, <2>2
<1> HIDE DEF p, D
<1>5. FlattenSeq(p) \in Seq(D)
  BY <1>3, FlattenIsSeq
<1> QED BY <1>4, <1>5 DEF D

\* A resource holds the files of its base only.
LEMMA ResourcesHoldNoTurnFile ==
  ASSUME PlanInv
  PROVE  ResourceHoldsNoTurnFile
<1> SUFFICES ASSUME NEW r \in resources, NEW i \in DOMAIN r.prefix.contents,
                    NEW j \in DOMAIN r.prefix.contents[i].parts,
                    r.prefix.contents[i].parts[j].kind = "file"
             PROVE  LET p == r.prefix.contents[i].parts[j] IN
                    i = 1 /\ p.of \in ToSet(Manifest) /\ Times(r.prefix.contents, p.of) = 1
  BY DEF ResourceHoldsNoTurnFile
<1>1. HistoryOK
  BY DEF PlanInv
<1>2. PICK b \in contract.asks : Founded(r, b)
  BY DEF PlanInv, ResourcesOK
<1>3. PICK v : v = r.version
  OBVIOUS
<1> DEFINE B == BaseContents(b)
           E == Entries(b, 1, v)
           c == B \o E
           p == r.prefix.contents[i].parts[j]
<1>4. v \in 0..Len(history) /\ Safe(b, v) /\ r.prefix.contents = c
  BY <1>2, <1>3 DEF Founded, Prefix
<1>5. E \in Seq(Dry(Materials))
  BY <1>1, <1>4, SafeIsDry
<1>6. B \in Seq(Message)
  BY <1>1, BaseKinds
<1>7. E \in Seq(Message)
  BY <1>5, DryIsMessage
<1>8. /\ \A m \in Cached(b) : Single(B, m)
      /\ \A m : m \notin Cached(b) => Missing(B, m)
      /\ DOMAIN B \subseteq {1}
  BY <1>1, BaseHolds
<1>9. Cached(b) \subseteq ToSet(Manifest)
  BY <1>1, CacheKinds
<1> HIDE DEF B, E
<1>10. c \in Seq(Message)
  BY <1>6, <1>7, ConcatProperties
<1>11. c[i] \in Message
  <2> HIDE DEF c
  <2>1. DOMAIN c = 1..Len(c)
    BY <1>10, LenProperties
  <2> QED BY <1>4, <1>10, <2>1, ElementOfSeq
<1>12. p \in Stuff
  <2> DEFINE q == c[i].parts
  <2>1. q \in Seq(Stuff)
    BY <1>11 DEF Message
  <2>2. j \in DOMAIN q /\ p = q[j]
    BY <1>4
  <2> HIDE DEF q, p
  <2>3. DOMAIN q = 1..Len(q)
    BY <2>1, LenProperties
  <2> QED BY <2>1, <2>2, <2>3, ElementOfSeq
<1>13. PICK m \in Materials : p = FilePart(m)
  BY <1>12, StuffKinds
<1>14. IsAt(c, i, j, m)
  BY <1>4, <1>13 DEF IsAt
<1>15. Missing(E, m)
  BY <1>5, DryHasNone
<1>16. IsAt(B, i, j, m)
  BY <1>6, <1>7, <1>14, <1>15, AtOfConcat DEF Missing
<1>17. i = 1
  BY <1>8, <1>16 DEF IsAt
<1>18. m \in Cached(b)
  BY <1>8, <1>16 DEF Missing
<1>19. Single(c, m)
  BY <1>6, <1>7, <1>8, <1>15, <1>18, SingleInFirst
<1>20. Times(c, m) = 1
  BY <1>19, SingleIsOnce
<1>21. p.of = m
  BY <1>13 DEF FilePart
<1> QED BY <1>4, <1>9, <1>17, <1>18, <1>20, <1>21

-----------------------------------------------------------------------------
(* What is sent says what the full payload says.                           *)

LEMMA InjectiveConcat ==
  ASSUME NEW S, NEW s \in Seq(S), NEW t \in Seq(S), IsInjective(s), IsInjective(t),
         ToSet(s) \intersect ToSet(t) = {}
  PROVE  IsInjective(s \o t)
<1> DEFINE u == s \o t
           n == Len(s)
<1>1. DOMAIN s = 1..n /\ DOMAIN t = 1..Len(t) /\ n \in Nat /\ Len(t) \in Nat
  BY LenProperties
<1>2. /\ u \in Seq(S) /\ Len(u) = n + Len(t)
      /\ \A k \in 1..Len(u) : u[k] = IF k <= n THEN s[k] ELSE t[k - n]
  BY ConcatProperties
<1> HIDE DEF u
<1>3. DOMAIN u = 1..(n + Len(t))
  BY <1>2, LenProperties
<1>4. ASSUME NEW i \in DOMAIN u, NEW j \in DOMAIN u, u[i] = u[j] PROVE i = j
  <2>1. CASE i <= n /\ j <= n
    <3>1. i \in DOMAIN s /\ j \in DOMAIN s /\ u[i] = s[i] /\ u[j] = s[j]
      BY <1>1, <1>2, <1>3, <2>1
    <3> QED BY <1>4, <3>1 DEF IsInjective
  <2>2. CASE i > n /\ j > n
    <3>1. i - n \in DOMAIN t /\ j - n \in DOMAIN t /\ u[i] = t[i - n] /\ u[j] = t[j - n]
      BY <1>1, <1>2, <1>3, <2>2
    <3>2. i - n = j - n
      BY <1>4, <3>1 DEF IsInjective
    <3> QED BY <1>1, <1>3, <3>2
  <2>3. CASE i <= n /\ j > n
    <3>1. i \in DOMAIN s /\ j - n \in DOMAIN t /\ u[i] = s[i] /\ u[j] = t[j - n]
      BY <1>1, <1>2, <1>3, <2>3
    <3> QED BY <1>4, <3>1 DEF ToSet
  <2>4. CASE i > n /\ j <= n
    <3>1. i - n \in DOMAIN t /\ j \in DOMAIN s /\ u[i] = t[i - n] /\ u[j] = s[j]
      BY <1>1, <1>2, <1>3, <2>4
    <3> QED BY <1>4, <3>1 DEF ToSet
  <2> QED BY <1>1, <1>3, <2>1, <2>2, <2>3, <2>4
<1> QED BY <1>4 DEF IsInjective, u

\* Leaving something out repeats nothing.
LEMMA InjectiveOutside ==
  ASSUME NEW S, NEW s \in Seq(S), NEW M, IsInjective(s)
  PROVE  IsInjective(Outside(s, M))
<1> DEFINE D == S \ M
<1>1. Outside(s, M) = Within(s, D)
  BY OutsideIsWithin
<1> HIDE DEF D
<1>2. IsInjective(Within(s, D))
  BY InjectiveWithin
<1> QED BY <1>1, <1>2

\* No material is sent twice with one request.
LEMMA IdsAreInjective ==
  ASSUME HistoryOK, NEW b \in contract.asks
  PROVE  IsInjective(MaterialIds(b)) /\ ToSet(Manifest) \subseteq ToSet(MaterialIds(b))
<1> DEFINE s == Manifest
           t == Outside(b.attach, ToSet(Manifest))
<1>1. s \in Seq(Materials) /\ IsInjective(s)
  BY ContractKinds
<1>2. b.attach \in Seq(Materials) /\ IsInjective(b.attach)
  BY ContractAssumption DEF HistoryOK, Materials
<1>3. b.attach \in Seq(Materials)
  BY <1>2
<1>4. t \in Seq(Materials) /\ IsInjective(t) /\ ToSet(t) = ToSet(b.attach) \ ToSet(s)
  BY <1>2, <1>3, OutsideIsSeq, InjectiveOutside, OutsideToSet
<1>5. MaterialIds(b) = s \o t
  BY IdsKinds
<1> HIDE DEF s, t
<1>6. s \in Seq(Materials)
  BY <1>1
<1>7. t \in Seq(Materials)
  BY <1>4
<1>8. ToSet(s) \intersect ToSet(t) = {}
  BY <1>4
<1>9. IsInjective(s \o t)
  BY <1>1, <1>4, <1>6, <1>7, <1>8, InjectiveConcat
<1>10. ToSet(s) \subseteq ToSet(s \o t)
  <2>1. DOMAIN s = 1..Len(s) /\ Len(s) \in Nat /\ Len(t) \in Nat
    BY <1>6, <1>7, LenProperties
  <2>2. /\ s \o t \in Seq(Materials) /\ Len(s \o t) = Len(s) + Len(t)
        /\ \A k \in 1..Len(s \o t) : (s \o t)[k] = IF k <= Len(s) THEN s[k] ELSE t[k - Len(s)]
    BY <1>6, <1>7, ConcatProperties
  <2> DEFINE u == s \o t
  <2> HIDE DEF u
  <2>3. u \in Seq(Materials)
    BY <2>2 DEF u
  <2>4. DOMAIN u = 1..(Len(s) + Len(t))
    BY <2>2, <2>3, LenProperties DEF u
  <2>5. \A k \in DOMAIN s : k \in DOMAIN u /\ u[k] = s[k]
    BY <2>1, <2>2, <2>4 DEF u
  <2> QED BY <2>5 DEF ToSet, u
<1> QED BY <1>5, <1>9, <1>10 DEF s

\* A moved file is in the base or in the question, once.
LEMMA RetoldHoldsOnce ==
  ASSUME HistoryOK, NEW b \in contract.asks, NEW n \in 0..Len(history), NEW m \in Once(b)
  PROVE  Times(Retold(b, n), m) = 1
<1> DEFINE B == BaseContents(b)
           E == Entries(b, 1, n)
           ids == Outside(MaterialIds(b), Cached(b))
           q == <<Asked(b, n)>>
           c == B \o E
<1>1. n \in Nat /\ b.blank \in BOOLEAN /\ n + 1 \in Nat
  BY AskKinds DEF HistoryOK
<1>2. m \in Moved(b)
  BY DEF Once, Moved
<1>3. E \in Seq(Dry(Moved(b)))
  BY EntriesAreDry
<1>4. Missing(E, m)
  BY <1>2, <1>3, DryHasNone
<1>5. E \in Seq(Message)
  BY <1>3, DryIsMessage
<1>6. B \in Seq(Message)
  BY BaseKinds
<1>7. /\ \A x \in Cached(b) : Single(B, x)
      /\ \A x : x \notin Cached(b) => Missing(B, x)
  BY BaseHolds
<1>8. MaterialIds(b) \in Seq(Materials) /\ IsInjective(MaterialIds(b)) /\ ToSet(Manifest) \subseteq ToSet(MaterialIds(b))
  BY IdsKinds, IdsAreInjective
<1>9. ids \in Seq(Materials) /\ IsInjective(ids) /\ ToSet(ids) = ToSet(MaterialIds(b)) \ Cached(b)
  <2> DEFINE k == MaterialIds(b)
  <2>1. k \in Seq(Materials) /\ IsInjective(k)
    BY <1>8
  <2> HIDE DEF k
  <2>2. k \in Seq(Materials)
    BY <2>1
  <2>3. Outside(k, Cached(b)) \in Seq(Materials)
    BY <2>2, OutsideIsSeq
  <2>4. IsInjective(Outside(k, Cached(b)))
    BY <2>1, <2>2, InjectiveOutside
  <2>5. ToSet(Outside(k, Cached(b))) = ToSet(k) \ Cached(b)
    BY <2>2, OutsideToSet
  <2> QED BY <2>3, <2>4, <2>5 DEF k
<1>10. /\ \A x \in ToSet(ids) : Single(q, x)
       /\ \A x : x \notin ToSet(ids) => Missing(q, x)
  <2>1. q = <<UserContent(Said(ids, n + 1, b.blank))>>
    BY DEF Asked
  <2> HIDE DEF ids, q
  <2>2. ids \in Seq(Materials)
    BY <1>9
  <2> DEFINE k == n + 1
  <2>3. k \in Nat /\ b.blank \in BOOLEAN
    BY <1>1
  <2> HIDE DEF k
  <2>4. /\ \A x \in ToSet(ids) : Single(<<UserContent(Said(ids, k, b.blank))>>, x)
        /\ \A x : x \notin ToSet(ids) => Missing(<<UserContent(Said(ids, k, b.blank))>>, x)
    BY <1>9, <2>2, <2>3, SaidHolds
  <2> QED BY <2>1, <2>4 DEF k
<1>11. q \in Seq(Message)
  <2> DEFINE x == Asked(b, n)
  <2>1. x \in Message
    BY <1>1, AskedKinds
  <2> HIDE DEF x
  <2>2. <<x>> \in Seq(Message)
    BY <2>1
  <2> QED BY <2>2 DEF x
<1>12. c \in Seq(Message)
  BY <1>5, <1>6, ConcatProperties
<1>13. Retold(b, n) = c \o q
  BY DEF Retold
<1>14. m \in Cached(b) \/ m \in ToSet(Manifest)
  BY DEF Once
<1> HIDE DEF B, E, ids, q
<1>15. CASE m \in Cached(b)
  <2>1. Single(c, m)
    BY <1>4, <1>5, <1>6, <1>7, <1>15, SingleInFirst
  <2>2. Missing(q, m)
    BY <1>9, <1>10, <1>15
  <2> HIDE DEF c
  <2>3. Single(c \o q, m)
    BY <1>11, <1>12, <2>1, <2>2, SingleInFirst
  <2> QED BY <1>13, <2>3, SingleIsOnce
<1>16. CASE m \notin Cached(b)
  <2>1. Missing(c, m)
    BY <1>4, <1>5, <1>6, <1>7, <1>16, MissingInBoth
  <2>2. Single(q, m)
    BY <1>8, <1>9, <1>10, <1>14, <1>16
  <2> HIDE DEF c
  <2>3. Single(c \o q, m)
    BY <1>11, <1>12, <2>1, <2>2, SingleInLast
  <2> QED BY <1>13, <2>3, SingleIsOnce
<1> QED BY <1>15, <1>16

\* The turns of the full payload.
Original(i)  == <<UserContent(history[i].user), ModelContent(history[i].answer)>>
Originals(n) == [i \in 1..n |-> Original(i)]

\* Without the moved files, a turn as committed and as projected are the same,
LEMMA OriginalIs ==
  ASSUME HistoryOK, NEW b, NEW i \in 1..Len(history)
  PROVE  /\ Original(i) \in Seq(Message)
         /\ Without(Original(i), Moved(b)) = Without(Piece(b, i), Moved(b))
<1> DEFINE M == Moved(b)
           N == {}
<1>1. i \in Nat
  BY DEF HistoryOK
<1>2. PICK ids \in Seq(Materials), k \in BOOLEAN : history[i] = TurnOf(ids, i, k)
  BY DEF HistoryOK
<1>3. history[i].user = Said(ids, i, k) /\ history[i].answer = i
  BY <1>1, <1>2, TurnIs
<1>4. Outside(ids, N) = ids
  <2> DEFINE S == Materials
             D == S \ N
  <2>1. Outside(ids, N) = Within(ids, D)
    <3> HIDE DEF N
    <3> QED BY OutsideIsWithin
  <2>2. S \subseteq D
    OBVIOUS
  <2> HIDE DEF D
  <2>3. Within(ids, D) = ids
    BY <2>2, WithinAll
  <2> QED BY <2>1, <2>3
<1>5. Original(i) = Spoken(ids, i, k, N)
  BY <1>3, <1>4 DEF Original, Spoken
<1> HIDE DEF N
<1>6. Spoken(ids, i, k, N) \in Seq(Message)
  BY <1>1, SpokenIsSeq
<1>7. Without(Spoken(ids, i, k, N), M) = Spoken(ids, i, k, N \union M)
  BY <1>1, SpokenWithout
<1>8. Without(Spoken(ids, i, k, M), M) = Spoken(ids, i, k, M \union M)
  BY <1>1, SpokenWithout
<1>9. N \union M = M /\ M \union M = M
  BY DEF N
<1>10. Piece(b, i) = Spoken(ids, i, k, M)
  BY <1>2, PieceIs
<1> QED BY <1>5, <1>6, <1>7, <1>8, <1>9, <1>10

\* and so are the turns together.
LEMMA OriginalsAreRetold ==
  ASSUME HistoryOK, NEW b, NEW n \in 0..Len(history)
  PROVE  /\ FlattenSeq(Originals(n)) \in Seq(Message)
         /\ Without(Entries(b, 1, n), Moved(b)) = Without(FlattenSeq(Originals(n)), Moved(b))
<1> DEFINE M == Moved(b)
           V == Seq(Message)
           Q == {k \in Nat : k <= Len(history) =>
                   /\ Originals(k) \in Seq(V)
                   /\ Entries(b, 1, k) \in V
                   /\ Without(Entries(b, 1, k), M) = Without(FlattenSeq(Originals(k)), M)}
<1>1. Len(history) \in Nat
  BY DEF HistoryOK
<1>2. ASSUME NEW k \in Nat, k <= Len(history) PROVE Originals(k) \in Seq(V)
  <2>1. \A i \in 1..k : i \in 1..Len(history)
    BY <1>1, <1>2
  <2>2. \A i \in 1..k : Original(i) \in V
    BY <2>1, OriginalIs
  <2> HIDE DEF V
  <2> QED BY <2>2, SeqDef DEF Originals
<1>3. ASSUME NEW k \in Nat, k <= Len(history) PROVE Entries(b, 1, k) \in V
  <2>1. k \in 0..Len(history)
    BY <1>1, <1>3
  <2>2. Entries(b, 1, k) \in Seq(Dry(M))
    BY <2>1, EntriesAreDry
  <2> QED BY <2>2, DryIsMessage
<1>4. 0 \in Q
  <2>1. Entries(b, 1, 0) = <<>>
    <3>1. Entries(b, 0 + 1, 0) = <<>> /\ 0 + 1 = 1
      BY NoEntries
    <3> QED BY <3>1
  <2>2. Originals(0) = <<>>
    BY DEF Originals
  <2>3. FlattenSeq(Originals(0)) = <<>>
    BY <2>2, FlattenOfEmpty
  <2>4. Originals(0) \in Seq(V) /\ Entries(b, 1, 0) \in V
    BY <1>1, <1>2, <1>3
  <2> QED BY <2>1, <2>3, <2>4
<1>5. ASSUME NEW k \in Nat, k \in Q PROVE k + 1 \in Q
  <2> SUFFICES ASSUME k + 1 <= Len(history)
               PROVE  Without(Entries(b, 1, k + 1), M) = Without(FlattenSeq(Originals(k + 1)), M)
    BY <1>2, <1>3
  <2>1. k <= Len(history) /\ k < Len(history) /\ k + 1 \in 1..Len(history)
    BY <1>1
  <2>2. /\ Originals(k) \in Seq(V) /\ Entries(b, 1, k) \in V
        /\ Without(Entries(b, 1, k), M) = Without(FlattenSeq(Originals(k)), M)
    BY <1>5, <2>1
  <2> DEFINE o == Original(k + 1)
             p == Piece(b, k + 1)
             s == Originals(k)
             e == Entries(b, 1, k)
  <2>3. o \in V /\ Without(o, M) = Without(p, M) /\ p \in V
    BY <2>1, OriginalIs, PieceIs
  <2>4. Originals(k + 1) = Append(s, o)
    <3> DEFINE t == Originals(k + 1)
               a == Append(s, o)
    <3>1. Len(s) = k /\ (\A i \in 1..k : s[i] = Original(i))
      BY DEF Originals
    <3>2. Len(t) = k + 1 /\ (\A i \in 1..(k + 1) : t[i] = Original(i))
      BY DEF Originals
    <3>3. t \in Seq(V)
      BY <1>2
    <3> HIDE DEF o, s, t, V
    <3>4. s \in Seq(V) /\ o \in V
      BY <2>2, <2>3 DEF s
    <3>5. /\ a \in Seq(V) /\ Len(a) = k + 1 /\ (\A i \in 1..k : a[i] = s[i]) /\ a[k + 1] = o
      BY <3>1, <3>4, AppendProperties
    <3> HIDE DEF a
    <3>6. \A i \in 1..Len(t) : t[i] = a[i]
      <4> TAKE i \in 1..Len(t)
      <4>1. i \in 1..k \/ i = k + 1
        BY <3>2
      <4> QED BY <3>1, <3>2, <3>5, <4>1 DEF o
    <3>7. Len(t) = Len(a)
      BY <3>2, <3>5
    <3>8. a \in Seq(V)
      BY <3>5
    <3>9. t = a
      BY <3>3, <3>6, <3>7, <3>8, SeqEqual
    <3> QED BY <3>9 DEF t, a
  <2>5. Entries(b, 1, k + 1) = e \o p
    <3> DEFINE f == 1
    <3>1. f \in Nat \ {0} /\ f <= k + 1
      OBVIOUS
    <3> HIDE DEF f
    <3>2. f \in Nat \ {0}
      BY <3>1
    <3>3. f <= k + 1
      BY <3>1
    <3>4. Entries(b, f, k + 1) = Entries(b, f, k) \o Piece(b, k + 1)
      BY <2>1, <3>2, <3>3, EntriesGrow
    <3> QED BY <3>4 DEF f
  <2>6. e \in Seq(Message) /\ s \in Seq(Seq(Message)) /\ p \in Seq(Message) /\ o \in Seq(Message)
    BY <2>2, <2>3
  <2> HIDE DEF e, s, p, o, M
  <2>7. FlattenSeq(Append(s, o)) = FlattenSeq(s) \o o
    BY <2>6, FlattenOfAppend
  <2>8. FlattenSeq(s) \in Seq(Message)
    BY <2>6, FlattenIsSeq
  <2>9. Without(FlattenSeq(s) \o o, M) = Without(FlattenSeq(s), M) \o Without(o, M)
    BY <2>6, <2>8, WithoutOfConcat
  <2>10. Without(e \o p, M) = Without(e, M) \o Without(p, M)
    BY <2>6, WithoutOfConcat
  <2>11. Without(e, M) = Without(FlattenSeq(s), M)
    BY <2>2 DEF e, s, M
  <2>12. Without(o, M) = Without(p, M)
    BY <2>3 DEF M
  <2> QED BY <2>4, <2>5, <2>7, <2>9, <2>10, <2>11, <2>12 DEF M
<1>6. n \in Nat /\ n <= Len(history)
  BY <1>1
<1>7. n \in Q
  <2> HIDE DEF Q
  <2>1. \A k \in Nat : k \in Q
    BY <1>4, <1>5, NumbersFrom0
  <2> QED BY <1>6, <2>1
<1>8. Originals(n) \in Seq(V) /\ Without(Entries(b, 1, n), M) = Without(FlattenSeq(Originals(n)), M)
  BY <1>6, <1>7
<1>9. FlattenSeq(Originals(n)) \in Seq(Message)
  BY <1>8, FlattenIsSeq
<1> QED BY <1>8, <1>9

\* Without those files the full payload and the retold one are the same.
LEMMA FullIsRetold ==
  ASSUME HistoryOK, NEW b \in contract.asks
  PROVE  Without(Retold(b, Len(history)), Once(b)) = Without(FullPayload(b).contents, Once(b))
<1> DEFINE n == Len(history)
           M == Moved(b)
           C == Cached(b)
           B == BaseContents(b)
           E == Entries(b, 1, n)
           F == FlattenSeq(Originals(n))
           x == Asked(b, n)
           u == FullUser(b)
           ids == MaterialIds(b)
           e == <<>>
<1>1. n \in Nat /\ n + 1 \in Nat /\ b.blank \in BOOLEAN /\ ids \in Seq(Materials)
  BY AskKinds, IdsKinds DEF HistoryOK
<1>2. C \subseteq M /\ Once(b) = M
  BY CacheKinds DEF Moved, Once
<1>3. Without(B, M) = e
  <2> DEFINE k == CacheIds(b)
             c == UserContent(Files(k))
  <2>1. CASE k = <<>>
    <3>1. B = <<>>
      BY <2>1 DEF BaseContents
    <3> QED BY <3>1, WithoutOfEmpty
  <2>2. CASE k # <<>>
    <3>1. B = <<c>>
      BY <2>2 DEF BaseContents
    <3>2. k \in Seq(Materials)
      BY CacheKinds
    <3>3. ToSet(k) \subseteq M
      BY <1>2 DEF Cached
    <3> HIDE DEF k, M
    <3>4. Bare(Files(k), M) = Files(Outside(k, M))
      BY <3>2, FilesWithout
    <3>5. Outside(k, M) = <<>>
      BY <3>2, <3>3, NothingLeft
    <3>6. Bare(Files(k), M) = <<>>
      BY <3>4, <3>5, FilesOfEmpty
    <3>7. Files(k) \in Seq(Stuff)
      BY <3>2, FilesAreStuff
    <3>8. c \in Message /\ c.parts = Files(k)
      BY <3>7, MessageKinds DEF UserContent
    <3> HIDE DEF c
    <3>9. Without(<<c>>, M) = <<>>
      BY <3>6, <3>8, WithoutOfOne
    <3> QED BY <3>1, <3>9
  <2> QED BY <2>1, <2>2
<1>4. F \in Seq(Message) /\ Without(E, M) = Without(F, M)
  <2>1. n \in 0..Len(history)
    BY <1>1
  <2> QED BY <2>1, OriginalsAreRetold
<1>5. E \in Seq(Message)
  <2>1. n \in 0..Len(history)
    BY <1>1
  <2>2. E \in Seq(Dry(M))
    BY <2>1, EntriesAreDry
  <2> QED BY <2>2, DryIsMessage
<1>6. B \in Seq(Message)
  BY BaseKinds
<1>7. x \in Message
  BY <1>1, AskedKinds
<1>8. u = UserContent(Said(ids, n + 1, b.blank)) /\ u \in Message
  <2>1. u = UserContent(Said(ids, n + 1, b.blank))
    BY AskedIsUncached
  <2>2. Said(ids, n + 1, b.blank) \in Seq(Stuff)
    <3> DEFINE k == n + 1
    <3> HIDE DEF k, ids
    <3>1. k \in Nat /\ ids \in Seq(Materials) /\ b.blank \in BOOLEAN
      BY <1>1 DEF k
    <3>2. Said(ids, k, b.blank) \in Seq(Stuff)
      BY <3>1, SaidIsStuff
    <3> QED BY <3>2 DEF k
  <2> QED BY <2>1, <2>2, MessageKinds
<1>9. Without(<<x>>, M) = Without(<<u>>, M)
  <2> DEFINE k == n + 1
             o == Outside(ids, C)
  <2>1. k \in Nat /\ b.blank \in BOOLEAN /\ ids \in Seq(Materials)
    BY <1>1
  <2>2. x = UserContent(Said(o, k, b.blank)) /\ u = UserContent(Said(ids, k, b.blank))
    BY <1>8 DEF Asked
  <2>3. C \union M = M
    BY <1>2
  <2> HIDE DEF k, ids, M, C, x, u
  <2>4. o \in Seq(Materials)
    BY <2>1, OutsideIsSeq
  <2>5. Outside(o, M) = Outside(ids, C \union M)
    BY <2>1, OutsideTwice
  <2> HIDE DEF o
  <2>6. Without(<<UserContent(Said(o, k, b.blank))>>, M) = <<UserContent(Said(Outside(o, M), k, b.blank))>>
    BY <2>1, <2>4, SaysWithout
  <2>7. Without(<<UserContent(Said(ids, k, b.blank))>>, M) = <<UserContent(Said(Outside(ids, M), k, b.blank))>>
    BY <2>1, SaysWithout
  <2> QED BY <2>2, <2>3, <2>5, <2>6, <2>7
<1>10. Retold(b, n) = (B \o E) \o <<x>>
  BY DEF Retold
<1>11. FullPayload(b).contents = F \o <<u>>
  <2>1. history = [i \in 1..Len(history) |-> history[i]]
    BY DEF HistoryOK
  <2>2. DOMAIN history = 1..n
    BY <2>1
  <2>3. [i \in DOMAIN history |-> <<UserContent(history[i].user), ModelContent(history[i].answer)>>] = Originals(n)
    BY <2>2 DEF Originals, Original
  <2> QED BY <2>3 DEF FullPayload
<1> HIDE DEF B, E, F, x, u, M, e
<1>12. <<x>> \in Seq(Message) /\ <<u>> \in Seq(Message)
  BY <1>7, <1>8
<1> DEFINE y == <<x>>
           w == <<u>>
           BE == B \o E
<1>13. y \in Seq(Message)
  BY <1>12
<1>14. w \in Seq(Message)
  BY <1>12
<1>15. F \in Seq(Message)
  BY <1>4
<1> HIDE DEF y, w
<1>16. BE \in Seq(Message) /\ Without(BE, M) = Without(B, M) \o Without(E, M)
  BY <1>5, <1>6, ConcatProperties, WithoutOfConcat
<1> HIDE DEF BE
<1>17. BE \in Seq(Message)
  BY <1>16
<1>18. Without(BE \o y, M) = Without(BE, M) \o Without(y, M)
  BY <1>13, <1>17, WithoutOfConcat
<1>19. Without(F \o w, M) = Without(F, M) \o Without(w, M)
  BY <1>14, <1>15, WithoutOfConcat
<1>20. Without(E, M) \in Seq(Message)
  BY <1>5, WithoutIsSeq
<1>21. e \o Without(E, M) = Without(E, M)
  <2> DEFINE s == Without(E, M)
  <2>1. s \in Seq(Message)
    BY <1>20
  <2> HIDE DEF s
  <2>2. <<>> \o s = s
    BY <2>1, ConcatEmptySeq
  <2> QED BY <2>2 DEF e, s
<1>22. Without(BE, M) = Without(F, M)
  BY <1>3, <1>4, <1>16, <1>21
<1>23. Without(y, M) = Without(w, M)
  BY <1>9 DEF y, w
<1> QED BY <1>2, <1>10, <1>11, <1>18, <1>19, <1>22, <1>23 DEF BE, y, w

\* Both together.
LEMMA WiresAgree ==
  ASSUME PlanInv
  PROVE  WireSaysTheSame
<1> SUFFICES ASSUME wire # None, wire.how \in {"cached", "implicit"}
             PROVE  /\ wire.instr = FullPayload(ask).instr
                    /\ wire.tools = FullPayload(ask).tools
                    /\ Without(wire.contents, Once(ask)) = Without(FullPayload(ask).contents, Once(ask))
                    /\ \A m \in Once(ask) : Times(wire.contents, m) = 1
  BY DEF WireSaysTheSame
<1>1. HistoryOK /\ ask # None /\ Sent(ask, Len(history))
  BY DEF PlanInv, WireOK
<1>2. PICK b \in contract.asks : b = ask
  BY <1>1 DEF PlanInv, AskOK
<1>3. wire.contents = Retold(b, Len(history)) /\ wire.instr = b.instr /\ wire.tools = IF Upgraded THEN b.tools ELSE None
  BY <1>1, <1>2 DEF Sent
<1>4. FullPayload(b).instr = b.instr /\ FullPayload(b).tools = IF Upgraded THEN b.tools ELSE None
  BY DEF FullPayload
<1>5. Without(Retold(b, Len(history)), Once(b)) = Without(FullPayload(b).contents, Once(b))
  BY <1>1, FullIsRetold
<1>6. PICK n \in 0..Len(history) : n = Len(history)
  BY <1>1 DEF HistoryOK
<1>7. \A m \in Once(b) : Times(Retold(b, n), m) = 1
  BY <1>1, RetoldHoldsOnce
<1> QED BY <1>2, <1>3, <1>4, <1>5, <1>6, <1>7

-----------------------------------------------------------------------------
(* What was sent begins what is sent next.                                 *)

LEMMA PrefixOfConcat ==
  ASSUME NEW S, NEW s \in Seq(S), NEW t \in Seq(S)
  PROVE  IsPrefix(s, s \o t)
<1> DEFINE u == s \o t
           n == Len(s)
           a == SubSeq(s, 1, n)
           b == SubSeq(u, 1, n)
<1>1. n \in Nat /\ Len(t) \in Nat
  BY LenProperties
<1>2. /\ u \in Seq(S) /\ Len(u) = n + Len(t)
      /\ \A k \in 1..Len(u) : u[k] = IF k <= n THEN s[k] ELSE t[k - n]
  BY ConcatProperties
<1> HIDE DEF u
<1>3. a = [k \in 1..n |-> s[k]]
  BY <1>1 DEF a
<1>4. b = [k \in 1..n |-> u[k]]
  BY <1>1, <1>2 DEF b
<1>5. \A k \in 1..n : u[k] = s[k]
  BY <1>1, <1>2
<1>6. a = b
  BY <1>3, <1>4, <1>5
<1> HIDE DEF a, b
<1> QED BY <1>1, <1>2, <1>6 DEF IsPrefix, u, a, b

\* All but the last.
LEMMA FrontOfAppend ==
  ASSUME NEW S, NEW s \in Seq(S), NEW x \in S
  PROVE  Front(s \o <<x>>) = s
<1> DEFINE v == <<x>>
           u == s \o v
           n == Len(s)
<1>1. v \in Seq(S) /\ Len(v) = 1
  OBVIOUS
<1> HIDE DEF v
<1>2. n \in Nat
  BY LenProperties
<1>3. v \in Seq(S)
  BY <1>1
<1>4. /\ u \in Seq(S) /\ Len(u) = n + 1
      /\ \A k \in 1..Len(u) : u[k] = IF k <= n THEN s[k] ELSE v[k - n]
  BY <1>1, <1>3, ConcatProperties
<1> HIDE DEF u
<1>5. SubSeq(u, 1, n) = [k \in 1..n |-> u[k]]
  BY <1>2, <1>4
<1>6. \A k \in 1..n : u[k] = s[k]
  BY <1>2, <1>4
<1>7. s = [k \in 1..n |-> s[k]]
  BY LenProperties
<1>8. SubSeq(u, 1, n) = s
  BY <1>5, <1>6, <1>7
<1>9. Front(u) = SubSeq(u, 1, n)
  <2>1. Len(u) - 1 = n
    BY <1>2, <1>4
  <2> QED BY <2>1 DEF Front
<1> QED BY <1>8, <1>9 DEF u, v

\* The old payload, or all but its question, begins the new one.
LEMMA ImplicitPayloadsGrow ==
  ASSUME PlanInv
  PROVE  ImplicitPrefixGrows
<1> SUFFICES ASSUME Planned, prior # None, ImplicitEligible(ask), prior.head = HeadOf(ask)
             PROVE  IsPrefix(IF prior.committed THEN prior.contents ELSE Front(prior.contents),
                             ImplicitPayload(ask).contents)
  BY DEF ImplicitPrefixGrows
<1>1. HistoryOK
  BY DEF PlanInv
<1>2. PICK a \in contract.asks : a = ask
  BY DEF PlanInv, AskOK, Planned
<1>3. PICK b \in contract.asks, n \in 0..Len(history), k \in BOOLEAN : Layout = 9 /\ PriorIs(b, n, k)
  BY DEF PlanInv, PriorOK
<1> DEFINE N == Len(history)
           B == BaseContents(a)
           E == Entries(a, 1, n)
           G == Entries(a, 1, n + 1)
           R == Entries(a, n + 1, N)
           T == Entries(a, n + 2, N)
           x == Asked(b, n)
           y == Asked(a, N)
           z == ModelContent(n + 1)
<1>4. N \in Nat /\ n \in Nat /\ n <= N
  BY <1>1 DEF HistoryOK
<1>5. prior.contents = Retold(b, n) /\ prior.head = HeadOf(b) /\ prior.committed = k
  BY <1>3 DEF PriorIs
<1>6. HeadOf(a) = HeadOf(b)
  BY <1>2, <1>5
<1>7. BaseContents(b) = B /\ Entries(b, 1, n) = E /\ Cached(a) = Cached(b)
  BY <1>6, HeadDecides
<1>8. prior.contents = (B \o E) \o <<x>>
  BY <1>5, <1>7 DEF Retold
<1>9. ImplicitPayload(a).contents = (B \o Entries(a, 1, N)) \o <<y>>
  <2> DEFINE v == SafeVersion(a)
  <2>1. v \in 0..Len(history)
    BY <1>1, SafeVersionIs
  <2>2. ImplicitPayload(a).contents = Prefix(a, v).contents \o Suffix(a, v)
    BY DEF ImplicitPayload
  <2> HIDE DEF v
  <2>3. ImplicitPayload(a).contents = Retold(a, N)
    BY <1>1, <2>1, <2>2, RetoldIsSent
  <2> QED BY <2>3 DEF Retold
<1>10. B \in Seq(Message)
  BY <1>1, BaseKinds
<1>11. x \in Message /\ y \in Message /\ z \in Message
  <2>1. n + 1 \in Nat
    BY <1>4
  <2> QED BY <1>1, <1>4, <2>1, AskedKinds, MessageKinds
<1>12. E \in Seq(Message)
  <2>1. E \in Seq(Dry(Moved(a)))
    BY <1>1, EntriesAreDry
  <2> QED BY <2>1, DryIsMessage
<1>13. R \in Seq(Message) /\ E \o R = Entries(a, 1, N)
  <2> DEFINE f == n + 1
  <2>1. f \in Nat \ {0} /\ f <= N + 1
    BY <1>4
  <2> HIDE DEF f, N
  <2>2. f \in Nat \ {0}
    BY <2>1
  <2>3. f <= N + 1
    BY <2>1
  <2>4. N \in Nat
    BY <1>4
  <2>5. N <= Len(history)
    BY DEF N, HistoryOK
  <2>6. Entries(a, f, N) \in Seq(Message)
    BY <1>1, <2>2, <2>3, <2>4, <2>5, EntriesGrow
  <2>7. Entries(a, 1, n) \o Entries(a, n + 1, N) = Entries(a, 1, N)
    BY <1>1, <1>4, <2>5, EntriesJoin
  <2> QED BY <2>6, <2>7 DEF f
<1>14. CASE ~k
  <2> HIDE DEF B, E, R, x, y, N
  <2> DEFINE BE == B \o E
             w == <<y>>
  <2>1. BE \in Seq(Message)
    BY <1>10, <1>12, ConcatProperties
  <2> HIDE DEF BE
  <2>2. Front(BE \o <<x>>) = BE
    BY <1>11, <2>1, FrontOfAppend
  <2>3. w \in Seq(Message)
    BY <1>11
  <2> HIDE DEF w
  <2>4. R \in Seq(Message)
    BY <1>13
  <2>5. B \o (E \o R) = BE \o R
    <3>1. (B \o E) \o R = B \o (E \o R)
      BY <1>10, <1>12, <2>4, ConcatAssociative
    <3> QED BY <3>1 DEF BE
  <2>6. (BE \o R) \o w = BE \o (R \o w)
    BY <2>1, <2>3, <2>4, ConcatAssociative
  <2>7. R \o w \in Seq(Message)
    BY <2>3, <2>4, ConcatProperties
  <2> DEFINE t == R \o w
  <2>8. t \in Seq(Message)
    BY <2>7
  <2> HIDE DEF t
  <2>9. IsPrefix(BE, BE \o t)
    BY <2>1, <2>8, PrefixOfConcat
  <2>10. ImplicitPayload(a).contents = BE \o t
    BY <1>9, <1>13, <2>5, <2>6 DEF t, w
  <2>11. Front(prior.contents) = BE
    BY <1>8, <2>2 DEF BE
  <2> QED BY <1>2, <1>5, <1>14, <2>9, <2>10, <2>11
<1>15. CASE k
  <2>1. n < N /\ history[n + 1] = TurnOf(MaterialIds(b), n + 1, b.blank)
    BY <1>3, <1>15 DEF PriorIs
  <2>2. MaterialIds(b) \in Seq(Materials) /\ b.blank \in BOOLEAN /\ n + 1 \in 1..N
    BY <1>1, <1>4, <2>1, IdsKinds, AskKinds
  <2>3. Piece(a, n + 1) = <<x, z>>
    <3>1. \E i, ids : i = n + 1 /\ ids = MaterialIds(b)
      OBVIOUS
    <3>2. PICK i, ids : i = n + 1 /\ ids = MaterialIds(b)
      BY <3>1
    <3>3. i \in 1..Len(history) /\ ids \in Seq(Materials) /\ history[i] = TurnOf(ids, i, b.blank)
      BY <2>1, <2>2, <3>2
    <3>4. Piece(a, i) = Spoken(ids, i, b.blank, Moved(a))
      BY <1>1, <2>2, <3>3, PieceIs
    <3>5. Moved(a) = Cached(b)
      BY <1>3, <1>7 DEF Moved
    <3>6. Spoken(ids, i, b.blank, Cached(b)) = <<x, z>>
      BY <3>2 DEF Spoken, Asked
    <3> QED BY <3>2, <3>4, <3>5, <3>6
  <2>4. G = E \o <<x, z>>
    <3> DEFINE f == 1
    <3>1. f \in Nat \ {0} /\ f <= n + 1
      BY <1>4
    <3> HIDE DEF f
    <3>2. f \in Nat \ {0}
      BY <3>1
    <3>3. f <= n + 1
      BY <3>1
    <3>4. Entries(a, f, n + 1) = Entries(a, f, n) \o Piece(a, n + 1)
      BY <1>1, <1>4, <2>1, <3>2, <3>3, EntriesGrow
    <3> QED BY <2>3, <3>4 DEF f
  <2>5. T \in Seq(Message) /\ G \o T = Entries(a, 1, N)
    <3> DEFINE f == n + 1
               g == n + 2
    <3>1. f \in Nat /\ f <= N /\ g \in Nat \ {0} /\ g <= N + 1 /\ f + 1 = g
      BY <1>4, <2>1
    <3> HIDE DEF f, g, N
    <3>2. g \in Nat \ {0}
      BY <3>1
    <3>3. g <= N + 1
      BY <3>1
    <3>4. N \in Nat
      BY <1>4
    <3>5. N <= Len(history)
      BY DEF N, HistoryOK
    <3>6. Entries(a, g, N) \in Seq(Message)
      BY <1>1, <3>2, <3>3, <3>4, <3>5, EntriesGrow
    <3>7. f \in Nat /\ f <= N
      BY <3>1
    <3>8. Entries(a, 1, f) \o Entries(a, f + 1, N) = Entries(a, 1, N)
      BY <1>1, <3>4, <3>5, <3>7, EntriesJoin
    <3> QED BY <3>1, <3>6, <3>8 DEF f, g
  <2> HIDE DEF B, E, R, T, G, x, y, z, N
  <2> DEFINE X == <<x>>
             Z == <<z>>
             w == <<y>>
             BE == B \o E
             P == BE \o X
             ZT == Z \o T
             t == ZT \o w
  <2>6. X \in Seq(Message) /\ Z \in Seq(Message) /\ w \in Seq(Message) /\ <<x, z>> = X \o Z
    BY <1>11, TwoInOne
  <2> HIDE DEF X, Z, w
  <2>7. X \in Seq(Message)
    BY <2>6
  <2>8. Z \in Seq(Message)
    BY <2>6
  <2>9. w \in Seq(Message)
    BY <2>6
  <2>10. T \in Seq(Message)
    BY <2>5
  <2>11. /\ P \in Seq(Message) /\ t \in Seq(Message)
         /\ (B \o ((E \o (X \o Z)) \o T)) \o w = P \o t
    <3>1. BE \in Seq(Message) /\ ZT \in Seq(Message)
      BY <1>10, <1>12, <2>8, <2>10, ConcatProperties
    <3>2. (B \o ((E \o (X \o Z)) \o T)) \o w = P \o t
      <4> DEFINE XZ == X \o Z
                 Y  == X \o ZT
      <4>1. XZ \in Seq(Message)
        BY <2>7, <2>8, ConcatProperties
      <4>2. XZ \o T = Y
        BY <2>7, <2>8, <2>10, ConcatAssociative
      <4>3. Y \in Seq(Message)
        <5> HIDE DEF ZT
        <5> QED BY <2>7, <3>1, ConcatProperties
      <4>4. (E \o XZ) \o T = E \o (XZ \o T)
        <5> HIDE DEF XZ
        <5> QED BY <1>12, <2>10, <4>1, ConcatAssociative
      <4>5. BE \o Y = B \o (E \o Y)
        <5> HIDE DEF Y
        <5> QED BY <1>10, <1>12, <4>3, ConcatAssociative
      <4>6. ZT \in Seq(Message)
        BY <3>1
      <4>7. BE \in Seq(Message)
        BY <3>1
      <4>8. P \o ZT = BE \o Y
        <5> HIDE DEF BE, ZT
        <5>1. (BE \o X) \o ZT = BE \o (X \o ZT)
          BY <2>7, <4>6, <4>7, ConcatAssociative
        <5> QED BY <5>1
      <4>9. P \in Seq(Message)
        <5> HIDE DEF BE
        <5> QED BY <2>7, <4>7, ConcatProperties
      <4>10. (P \o ZT) \o w = P \o t
        <5> HIDE DEF P, ZT
        <5>1. (P \o ZT) \o w = P \o (ZT \o w)
          BY <2>9, <4>6, <4>9, ConcatAssociative
        <5> QED BY <5>1
      <4> HIDE DEF Y, XZ, BE, ZT, P, t
      <4>11. (B \o ((E \o XZ) \o T)) \o w = P \o t
        BY <4>2, <4>4, <4>5, <4>8, <4>10
      <4> QED BY <4>11 DEF XZ
    <3>3. P \in Seq(Message) /\ t \in Seq(Message)
      <4> HIDE DEF BE, ZT
      <4> QED BY <2>7, <2>9, <3>1, ConcatProperties
    <3> QED BY <3>2, <3>3
  <2>12. ImplicitPayload(a).contents = P \o t
    BY <1>9, <2>4, <2>5, <2>6, <2>11 DEF w
  <2>13. prior.contents = P
    BY <1>8 DEF X
  <2> HIDE DEF P, t
  <2>14. P \in Seq(Message)
    BY <2>11
  <2>15. t \in Seq(Message)
    BY <2>11
  <2>16. IsPrefix(P, P \o t)
    BY <2>14, <2>15, PrefixOfConcat
  <2> QED BY <1>2, <1>5, <1>15, <2>12, <2>13, <2>16
<1> QED BY <1>14, <1>15

-----------------------------------------------------------------------------
(* The bytes of a selection.                                               *)

LastPlace   == Len(Priority)
Share(S, i) == IF Priority[i] \in S THEN Size[Priority[i]] ELSE 0

Summed(S, f) ==
  /\ f \in [0..LastPlace -> Nat]
  /\ f[0] = 0
  /\ \A i \in 1..LastPlace : f[i] = f[i - 1] + Share(S, i)

\* The materials by priority.
LEMMA PriorityKinds ==
  /\ LastPlace \in Nat /\ DOMAIN Priority = 1..LastPlace
  /\ \A i \in 1..LastPlace : Priority[i] \in Materials
  /\ \A m \in Materials : Size[m] \in Nat
  /\ \A S : \A i \in 1..LastPlace : Share(S, i) \in Nat
  /\ \A m \in Materials : Rank(m) \in 1..LastPlace /\ Priority[Rank(m)] = m
  /\ \A m \in Materials : \A i \in 1..LastPlace : Priority[i] = m => i = Rank(m)
<1>1. Priority \in Seq(Materials)
  BY MaterialAssumption DEF Materials
<1>2. LastPlace \in Nat /\ DOMAIN Priority = 1..LastPlace
  BY <1>1, LenProperties DEF LastPlace
<1>3. \A i \in 1..LastPlace : Priority[i] \in Materials
  BY <1>1, ElementOfSeq DEF LastPlace
<1>4. \A m \in Materials : Size[m] \in Nat
  BY MaterialAssumption DEF Materials
<1>5. \A S : \A i \in 1..LastPlace : Share(S, i) \in Nat
  BY <1>3, <1>4 DEF Share
<1>6. ASSUME NEW m \in Materials PROVE Rank(m) \in 1..LastPlace /\ Priority[Rank(m)] = m
  <2>1. \E i \in DOMAIN Priority : Priority[i] = m
    BY DEF Materials, ToSet
  <2> QED BY <1>2, <2>1 DEF Rank
<1>7. ASSUME NEW m \in Materials, NEW i \in 1..LastPlace, Priority[i] = m PROVE i = Rank(m)
  BY <1>2, <1>6, <1>7, MaterialAssumption DEF IsInjective
<1> QED BY <1>2, <1>3, <1>4, <1>5, <1>6, <1>7

\* Bytes is a sum along the priorities,
LEMMA SumExists ==
  ASSUME NEW S
  PROVE  \E f : Summed(S, f)
<1> DEFINE n == LastPlace
           V == Nat
           v == 0
           step == [i \in 1..n |-> [t \in V |-> t + Share(S, i)]]
<1>1. n \in Nat /\ v \in V
  BY PriorityKinds
<1>2. step \in [1..n -> [V -> V]]
  BY PriorityKinds
<1>3. PICK f \in [0..n -> V] : f[0] = v /\ \A i \in 1..n : f[i] = step[i][f[i - 1]]
  <2> HIDE DEF V, n, v, step
  <2>1. v \in V
    BY <1>1
  <2>2. n \in Nat
    BY <1>1
  <2>3. Reached(V, n, v, step)
    BY <1>2, <2>1, <2>2, Recursion
  <2> QED BY <2>3 DEF Reached
<1>4. ASSUME NEW i \in 1..n PROVE f[i] = f[i - 1] + Share(S, i)
  <2>1. f[i - 1] \in V
    BY <1>1
  <2>2. step[i][f[i - 1]] = f[i - 1] + Share(S, i)
    BY <2>1
  <2> HIDE DEF step
  <2> QED BY <1>3, <2>2
<1> QED BY <1>3, <1>4 DEF Summed

\* and it is that sum.
LEMMA BytesIs ==
  ASSUME NEW S
  PROVE  \E f : Summed(S, f) /\ Bytes(S) = f[LastPlace]
<1> DEFINE n == LastPlace
           Rule(g) == [i \in 0..Len(Priority) |->
                        IF i = 0 THEN 0
                        ELSE g[i - 1] + (IF Priority[i] \in S THEN Size[Priority[i]] ELSE 0)]
<1>1. n \in Nat /\ \A i \in 1..n : Share(S, i) \in Nat
  BY PriorityKinds
<1>2. PICK f : Summed(S, f)
  BY SumExists
<1>3. f \in [0..n -> Nat] /\ f[0] = 0 /\ \A i \in 1..n : f[i] = f[i - 1] + Share(S, i)
  BY <1>2 DEF Summed
<1>4. f = Rule(f)
  <2>1. ASSUME NEW i \in 0..n PROVE f[i] = Rule(f)[i]
    <3>1. CASE i = 0
      BY <1>3, <3>1 DEF LastPlace
    <3>2. CASE i # 0
      <4>1. i \in 1..n
        BY <1>1, <3>2
      <4>2. f[i] = f[i - 1] + Share(S, i)
        BY <1>3, <4>1
      <4> QED BY <3>2, <4>2 DEF Share, LastPlace
    <3> QED BY <3>1, <3>2
  <2>2. f = [i \in 0..n |-> f[i]] /\ Rule(f) = [i \in 0..n |-> Rule(f)[i]]
    BY <1>3 DEF LastPlace
  <2> HIDE DEF Rule
  <2> QED BY <2>1, <2>2
<1> DEFINE h == CHOOSE g : g = Rule(g)
<1>5. Bytes(S) = h[n]
  BY DEF Bytes, LastPlace
<1>6. h = Rule(h)
  <2> HIDE DEF Rule
  <2> QED BY <1>4, Zenon
<1> HIDE DEF h
<1>7. h[0] = 0
  <2>1. Rule(h)[0] = 0
    BY <1>1 DEF LastPlace
  <2> HIDE DEF Rule
  <2> QED BY <1>6, <2>1
<1>8. ASSUME NEW i \in 1..n PROVE h[i] = h[i - 1] + Share(S, i)
  <2>1. i \in 0..n /\ i # 0
    BY <1>1
  <2>2. Rule(h)[i] = h[i - 1] + Share(S, i)
    BY <2>1 DEF Share, LastPlace
  <2> HIDE DEF Rule
  <2> QED BY <1>6, <2>2
<1> DEFINE Q == {k \in Nat : k <= n => h[k] \in Nat}
<1>9. 0 \in Q
  BY <1>7
<1>10. ASSUME NEW k \in Nat, k \in Q PROVE k + 1 \in Q
  <2> SUFFICES ASSUME k + 1 <= n PROVE h[k + 1] \in Nat
    OBVIOUS
  <2>1. k + 1 \in 1..n /\ (k + 1) - 1 = k /\ h[k] \in Nat
    BY <1>1, <1>10
  <2>2. h[k + 1] = h[(k + 1) - 1] + Share(S, k + 1) /\ Share(S, k + 1) \in Nat
    BY <1>1, <1>8, <2>1
  <2> QED BY <2>1, <2>2
<1>11. \A k \in Nat : k \in Q
  <2> HIDE DEF Q
  <2> QED BY <1>9, <1>10, NumbersFrom0
<1>12. h \in [0..n -> Nat]
  <2>1. \A k \in 0..n : h[k] \in Nat
    BY <1>1, <1>11
  <2>2. Rule(h) = [k \in 0..n |-> Rule(h)[k]]
    BY DEF LastPlace
  <2>3. h = [k \in 0..n |-> h[k]]
    <3> HIDE DEF Rule
    <3> QED BY <1>6, <2>2
  <2> QED BY <2>1, <2>3
<1>13. Summed(S, h)
  BY <1>7, <1>8, <1>12 DEF Summed
<1> QED BY <1>5, <1>13

\* Nothing has no bytes.
LEMMA BytesOfNone == Bytes({}) = 0
<1> DEFINE n == LastPlace
           N == {}
<1>1. PICK f : Summed(N, f) /\ Bytes(N) = f[n]
  <2> HIDE DEF N
  <2> QED BY BytesIs
<1>2. n \in Nat
  BY PriorityKinds
<1> DEFINE Q == {k \in Nat : k <= n => f[k] = 0}
<1>3. f[0] = 0 /\ \A i \in 1..n : f[i] = f[i - 1] + 0
  BY <1>1 DEF Summed, Share
<1>4. 0 \in Q
  BY <1>3
<1>5. ASSUME NEW k \in Nat, k \in Q PROVE k + 1 \in Q
  <2> SUFFICES ASSUME k + 1 <= n PROVE f[k + 1] = 0
    OBVIOUS
  <2>1. k + 1 \in 1..n /\ (k + 1) - 1 = k /\ f[k] = 0
    BY <1>2, <1>5
  <2> QED BY <1>3, <2>1
<1>6. n \in Q
  <2> HIDE DEF Q
  <2> QED BY <1>2, <1>4, <1>5, NumbersFrom0
<1> QED BY <1>1, <1>2, <1>6

\* More materials have no fewer bytes.
LEMMA BytesGrow ==
  ASSUME NEW S, NEW T, S \subseteq T
  PROVE  Bytes(S) \in Nat /\ Bytes(T) \in Nat /\ Bytes(S) <= Bytes(T)
<1> DEFINE n == LastPlace
<1>1. PICK f : Summed(S, f) /\ Bytes(S) = f[n]
  BY BytesIs
<1>2. PICK g : Summed(T, g) /\ Bytes(T) = g[n]
  BY BytesIs
<1>3. n \in Nat /\ \A i \in 1..n : Share(S, i) \in Nat /\ Share(T, i) \in Nat
  BY PriorityKinds
<1>4. \A i \in 1..n : Share(S, i) <= Share(T, i)
  <2> TAKE i \in 1..n
  <2>1. Size[Priority[i]] \in Nat
    BY PriorityKinds
  <2> QED BY <2>1 DEF Share
<1>5. /\ f \in [0..n -> Nat] /\ f[0] = 0 /\ \A i \in 1..n : f[i] = f[i - 1] + Share(S, i)
      /\ g \in [0..n -> Nat] /\ g[0] = 0 /\ \A i \in 1..n : g[i] = g[i - 1] + Share(T, i)
  BY <1>1, <1>2 DEF Summed
<1> DEFINE Q == {k \in Nat : k <= n => f[k] <= g[k]}
<1>6. 0 \in Q
  BY <1>5
<1>7. ASSUME NEW k \in Nat, k \in Q PROVE k + 1 \in Q
  <2> SUFFICES ASSUME k + 1 <= n PROVE f[k + 1] <= g[k + 1]
    OBVIOUS
  <2>1. k + 1 \in 1..n /\ (k + 1) - 1 = k /\ f[k] <= g[k] /\ f[k] \in Nat /\ g[k] \in Nat
    BY <1>3, <1>5, <1>7
  <2>2. f[k + 1] = f[k] + Share(S, k + 1) /\ g[k + 1] = g[k] + Share(T, k + 1)
    BY <1>5, <2>1
  <2>3. Share(S, k + 1) \in Nat /\ Share(T, k + 1) \in Nat /\ Share(S, k + 1) <= Share(T, k + 1)
    BY <1>3, <1>4, <2>1
  <2> QED BY <2>1, <2>2, <2>3
<1>8. n \in Q
  <2> HIDE DEF Q
  <2> QED BY <1>3, <1>6, <1>7, NumbersFrom0
<1> QED BY <1>1, <1>2, <1>3, <1>5, <1>8

\* One more material adds its size.
LEMMA BytesOfOneMore ==
  ASSUME NEW S, NEW m \in Materials, m \notin S
  PROVE  Bytes(S \union {m}) = Bytes(S) + Size[m]
<1> DEFINE n == LastPlace
           T == S \union {m}
           r == Rank(m)
           d == Size[m]
<1>1. PICK f : Summed(S, f) /\ Bytes(S) = f[n]
  BY BytesIs
<1>2. PICK g : Summed(T, g) /\ Bytes(T) = g[n]
  <2> HIDE DEF T
  <2> QED BY BytesIs
<1>3. n \in Nat /\ \A i \in 1..n : Share(S, i) \in Nat /\ Share(T, i) \in Nat
  BY PriorityKinds
<1>4. d \in Nat /\ r \in 1..n /\ Priority[r] = m /\ \A i \in 1..n : Priority[i] = m => i = r
  BY PriorityKinds
<1>5. \A i \in 1..n : Share(T, i) = Share(S, i) + IF i = r THEN d ELSE 0
  <2> TAKE i \in 1..n
  <2>1. CASE i = r
    <3>1. Share(T, i) = d /\ Share(S, i) = 0
      BY <1>4, <2>1 DEF Share
    <3> QED BY <1>4, <2>1, <3>1
  <2>2. CASE i # r
    <3>1. Priority[i] # m
      BY <1>4, <2>2
    <3>2. Share(T, i) = Share(S, i) /\ Share(S, i) \in Nat
      BY <1>3, <3>1 DEF Share
    <3> QED BY <2>2, <3>2
  <2> QED BY <2>1, <2>2
<1>6. /\ f \in [0..n -> Nat] /\ f[0] = 0 /\ \A i \in 1..n : f[i] = f[i - 1] + Share(S, i)
      /\ g \in [0..n -> Nat] /\ g[0] = 0 /\ \A i \in 1..n : g[i] = g[i - 1] + Share(T, i)
  BY <1>1, <1>2 DEF Summed
<1> HIDE DEF T, r, d
<1> DEFINE Q == {k \in Nat : k <= n => g[k] = f[k] + IF r <= k THEN d ELSE 0}
<1>7. 0 \in Q
  BY <1>3, <1>4, <1>6
<1>8. ASSUME NEW k \in Nat, k \in Q PROVE k + 1 \in Q
  <2> SUFFICES ASSUME k + 1 <= n PROVE g[k + 1] = f[k + 1] + IF r <= k + 1 THEN d ELSE 0
    OBVIOUS
  <2>1. k + 1 \in 1..n /\ (k + 1) - 1 = k /\ f[k] \in Nat /\ g[k] = f[k] + IF r <= k THEN d ELSE 0
    BY <1>3, <1>6, <1>8
  <2>2. f[k + 1] = f[k] + Share(S, k + 1) /\ g[k + 1] = g[k] + Share(T, k + 1)
    BY <1>6, <2>1
  <2>3. Share(S, k + 1) \in Nat /\ Share(T, k + 1) = Share(S, k + 1) + IF k + 1 = r THEN d ELSE 0
    BY <1>3, <1>5, <2>1
  <2>4. r \in Int /\ (r <= k + 1 <=> r <= k \/ r = k + 1) /\ ~(r <= k /\ r = k + 1)
    BY <1>3, <1>4
  <2>5. CASE r <= k
    BY <1>4, <2>1, <2>2, <2>3, <2>4, <2>5
  <2>6. CASE r = k + 1
    BY <1>4, <2>1, <2>2, <2>3, <2>4, <2>6
  <2>7. CASE ~(r <= k) /\ r # k + 1
    BY <1>4, <2>1, <2>2, <2>3, <2>4, <2>7
  <2> QED BY <2>5, <2>6, <2>7
<1>9. n \in Q
  <2> HIDE DEF Q
  <2> QED BY <1>3, <1>7, <1>8, NumbersFrom0
<1>10. g[n] = f[n] + d
  BY <1>3, <1>4, <1>6, <1>9
<1> QED BY <1>1, <1>2, <1>10 DEF T, d

-----------------------------------------------------------------------------
(* The selection stays in its budget.                                      *)

LEMMA FirstIs ==
  ASSUME NEW c, c.density \in BOOLEAN, NEW S, S \subseteq Materials, S # {}
  PROVE  First(c, S) \in S
<1> DEFINE K == {Size[x] : x \in S}
           k == Min(K)
           T == IF c.density THEN S ELSE {x \in S : Size[x] = k}
           R == {Rank(x) : x \in T}
           r == Min(R)
<1>1. /\ \A m \in S : Size[m] \in Nat /\ Rank(m) \in 1..LastPlace
      /\ LastPlace \in Nat
  BY PriorityKinds
<1>2. K \subseteq Nat /\ K # {}
  BY <1>1
<1>3. k \in K /\ \A i \in K : k <= i
  <2> HIDE DEF K
  <2>1. K \subseteq Nat
    BY <1>2
  <2> QED BY <1>2, <2>1, FirstRank
<1>4. T \subseteq S /\ T # {}
  <2> HIDE DEF k
  <2> QED BY <1>3
<1>5. c.density \/ \A x \in T, y \in S : Size[x] = k /\ k <= Size[y]
  BY <1>3
<1> HIDE DEF T, k, K
<1>6. R \subseteq Nat /\ R # {}
  <2>1. \A x \in T : Rank(x) \in Nat
    BY <1>1, <1>4
  <2> QED BY <1>4, <2>1
<1>7. r \in R /\ \A i \in R : r <= i
  <2> HIDE DEF R
  <2>1. R \subseteq Nat
    BY <1>6
  <2> QED BY <1>6, <2>1, FirstRank
<1>8. PICK m \in T : \A x \in T : Rank(m) <= Rank(x)
  <2> HIDE DEF r
  <2> QED BY <1>7
<1>9. \A x \in S : Precedes(c, m, x)
  <2> TAKE x \in S
  <2>1. CASE c.density
    <3>1. x \in T
      BY <2>1 DEF T
    <3> QED BY <1>8, <2>1, <3>1 DEF Precedes
  <2>2. CASE ~c.density
    <3>1. Size[m] = k /\ k <= Size[x] /\ Size[x] \in Nat /\ Size[m] \in Nat
      BY <1>1, <1>4, <1>5, <1>8, <2>2
    <3>2. CASE Size[x] = k
      <4>1. x \in T
        BY <2>2, <3>2 DEF T
      <4> QED BY <1>8, <3>1, <3>2, <4>1 DEF Precedes
    <3>3. CASE Size[x] # k
      <4>1. Size[m] < Size[x]
        BY <3>1, <3>3
      <4> QED BY <2>2, <4>1 DEF Precedes
    <3> QED BY <3>2, <3>3
  <2> QED BY <2>1, <2>2
<1>10. m \in S
  BY <1>4
<1> QED BY <1>9, <1>10 DEF First

\* After a candidate: n are left, and the bytes used are those of what is in.
Selection == [left : SUBSET Materials, in : SUBSET Materials, used : Nat]

Kept(c, s, n) ==
  /\ s \in Selection
  /\ IsFiniteSet(s.left) /\ Cardinality(s.left) = n
  /\ s.left \intersect s.in = {}
  /\ s.used = Bytes(s.in)
  /\ StaysInBudget(c, s.used)

\* One candidate is looked at: the selection stays in budget.
LEMMA TakeKeeps ==
  ASSUME NEW c, c.density \in BOOLEAN, NEW s, NEW n \in Nat, Kept(c, s, n + 1)
  PROVE  Kept(c, TakeIfFits(c, s), n)
<1> DEFINE m == First(c, s.left)
           fits == StaysInBudget(c, s.used + Size[m])
           t == TakeIfFits(c, s)
           e == {}
<1>1. /\ s \in Selection /\ IsFiniteSet(s.left) /\ Cardinality(s.left) = n + 1
      /\ s.left \intersect s.in = {} /\ s.used = Bytes(s.in) /\ StaysInBudget(c, s.used)
  BY DEF Kept
<1>2. s.left \subseteq Materials /\ s.in \subseteq Materials /\ s.used \in Nat
  BY <1>1 DEF Selection
<1>3. s.left # {}
  <2> SUFFICES ASSUME s.left = {} PROVE FALSE
    OBVIOUS
  <2>1. Cardinality({}) = 0
    BY FS_EmptySet
  <2> QED BY <1>1, <2>1
<1>4. m \in s.left
  BY <1>2, <1>3, FirstIs
<1>5. m \in Materials /\ m \notin s.in /\ Size[m] \in Nat
  BY <1>1, <1>2, <1>4, PriorityKinds
<1>6. Bytes(s.in \union {m}) = Bytes(s.in) + Size[m]
  <2> HIDE DEF m
  <2> QED BY <1>5, BytesOfOneMore
<1>7. IsFiniteSet(s.left \ {m}) /\ Cardinality(s.left \ {m}) = n
  <2> DEFINE L == s.left
  <2> HIDE DEF m, L
  <2>1. IsFiniteSet(L) /\ m \in L /\ Cardinality(L) = n + 1
    BY <1>1, <1>4 DEF L
  <2>2. IsFiniteSet(L)
    BY <2>1
  <2>3. IsFiniteSet(L \ {m}) /\ Cardinality(L \ {m}) = IF m \in L THEN Cardinality(L) - 1 ELSE Cardinality(L)
    BY <2>2, FS_RemoveElement
  <2> QED BY <2>1, <2>3 DEF L
<1>8. /\ t.left = s.left \ {m}
      /\ t.in = IF fits THEN s.in \union {m} ELSE s.in
      /\ t.used = IF fits THEN s.used + Size[m] ELSE s.used
      /\ t = [left |-> s.left \ {m}, in |-> IF fits THEN s.in \union {m} ELSE s.in,
              used |-> IF fits THEN s.used + Size[m] ELSE s.used]
  BY DEF TakeIfFits
<1> HIDE DEF m, t
<1>9. t \in Selection
  BY <1>2, <1>5, <1>8 DEF Selection
<1>10. t.left \intersect t.in = {}
  BY <1>1, <1>8
<1>11. t.used = Bytes(t.in) /\ StaysInBudget(c, t.used)
  <2>1. CASE fits
    BY <1>1, <1>6, <1>8, <2>1
  <2>2. CASE ~fits
    BY <1>1, <1>8, <2>2
  <2> QED BY <2>1, <2>2
<1>12. Kept(c, t, n)
  BY <1>7, <1>8, <1>9, <1>10, <1>11 DEF Kept
<1> QED BY <1>12 DEF t

\* An injective sequence has as many elements as positions.
LEMMA InjectiveCounts ==
  ASSUME NEW S, NEW s \in Seq(S), IsInjective(s)
  PROVE  IsFiniteSet(ToSet(s)) /\ Cardinality(ToSet(s)) = Len(s)
<1> DEFINE P == {t \in Seq(S) : IsInjective(t) => IsFiniteSet(ToSet(t)) /\ Cardinality(ToSet(t)) = Len(t)}
           e == <<>>
<1>1. e \in P
  <2>1. ToSet(e) = {} /\ Len(e) = 0 /\ e \in Seq(S)
    BY ToSetOfEmpty, EmptySeq
  <2> HIDE DEF e
  <2> QED BY <2>1, FS_EmptySet
<1>2. ASSUME NEW t \in Seq(S), NEW x \in S, t \in P PROVE Append(t, x) \in P
  <2> DEFINE a == Append(t, x)
  <2>1. a \in Seq(S) /\ Len(a) = Len(t) + 1
    BY AppendProperties
  <2>2. ToSet(a) = ToSet(t) \union {x}
    BY ToSetOfAppend
  <2>3. IsInjective(a) <=> IsInjective(t) /\ x \notin ToSet(t)
    BY InjectiveAppend
  <2> HIDE DEF a
  <2>4. ASSUME IsInjective(a) PROVE IsFiniteSet(ToSet(a)) /\ Cardinality(ToSet(a)) = Len(a)
    <3> DEFINE T == ToSet(t)
    <3>1. IsFiniteSet(T) /\ Cardinality(T) = Len(t) /\ x \notin T
      BY <1>2, <2>3, <2>4
    <3> HIDE DEF T
    <3>2. IsFiniteSet(T)
      BY <3>1
    <3>3. /\ IsFiniteSet(T \union {x})
          /\ Cardinality(T \union {x}) = IF x \in T THEN Cardinality(T) ELSE Cardinality(T) + 1
      BY <3>2, FS_AddElement
    <3> QED BY <2>1, <2>2, <3>1, <3>3 DEF T
  <2> QED BY <2>1, <2>4 DEF a
<1>3. s \in P
  <2> HIDE DEF P, e
  <2>1. \A t \in Seq(S) : t \in P
    BY <1>1, <1>2, SequencesFromEmpty DEF e
  <2> QED BY <2>1
<1> QED BY <1>3

\* From the start, candidate by candidate.
Walked(c, h, n) == \A i \in 1..n : h[i - 1].left # {} => h[i] = TakeIfFits(c, h[i - 1])

\* So it does along all candidates,
LEMMA KeptAlong ==
  ASSUME NEW c, c.density \in BOOLEAN, NEW n \in Nat, NEW h, Kept(c, h[0], n), Walked(c, h, n)
  PROVE  \A k \in 0..n : Kept(c, h[k], n - k)
<1> DEFINE Q == {k \in Nat : k <= n => Kept(c, h[k], n - k)}
<1>1. 0 \in Q
  OBVIOUS
<1>2. ASSUME NEW k \in Nat, k \in Q PROVE k + 1 \in Q
  <2> SUFFICES ASSUME k + 1 <= n PROVE Kept(c, h[k + 1], n - (k + 1))
    OBVIOUS
  <2> DEFINE j == n - (k + 1)
             s == h[k]
  <2>1. j \in Nat /\ n - k = j + 1 /\ Kept(c, s, n - k) /\ k + 1 \in 1..n /\ (k + 1) - 1 = k
    BY <1>2
  <2> HIDE DEF j, s
  <2>2. Kept(c, s, j + 1) /\ j \in Nat
    BY <2>1
  <2>3. Kept(c, TakeIfFits(c, s), j)
    BY <2>2, TakeKeeps
  <2>4. s.left # {}
    <3> SUFFICES ASSUME s.left = {} PROVE FALSE
      OBVIOUS
    <3>1. Cardinality({}) = 0
      BY FS_EmptySet
    <3> QED BY <2>2, <3>1 DEF Kept
  <2>5. h[k + 1] = TakeIfFits(c, s)
    BY <2>1, <2>4 DEF s, Walked
  <2> QED BY <2>3, <2>5 DEF j
<1>3. \A k \in Nat : k \in Q
  <2> HIDE DEF Q
  <2> QED BY <1>1, <1>2, NumbersFrom0
<1> QED BY <1>3

\* which is how the selection of a manifest is made.
LEMMA AdmissionIs ==
  ASSUME NEW c, c.density \in BOOLEAN, NEW start, start = [left |-> ToSet(c.manifest), in |-> {}, used |-> 0],
         NEW n \in Nat, n = Len(c.manifest), Kept(c, start, n)
  PROVE  Kept(c, Admission(c)[n], 0)
<1> DEFINE V == {s \in Selection : \E j \in Nat : Kept(c, s, j)}
           Step(s) == IF s.left = {} THEN s ELSE TakeIfFits(c, s)
           step == [i \in 1..n |-> [s \in V |-> Step(s)]]
           Rule(g) == [k \in 0..Len(c.manifest) |->
                        IF k = 0 THEN [left |-> ToSet(c.manifest), in |-> {}, used |-> 0]
                        ELSE TakeIfFits(c, g[k - 1])]
<1>1. ASSUME NEW s \in V PROVE Step(s) \in V
  <2>1. PICK j \in Nat : Kept(c, s, j)
    OBVIOUS
  <2>2. CASE s.left = {}
    BY <2>2
  <2>3. CASE s.left # {}
    <3>1. j # 0
      <4> DEFINE L == s.left
      <4>1. IsFiniteSet(L) /\ Cardinality(L) = j
        BY <2>1 DEF Kept
      <4> HIDE DEF L
      <4>2. Cardinality(L) = 0 <=> L = {}
        BY <4>1, FS_EmptySet
      <4> QED BY <2>3, <4>1, <4>2 DEF L
    <3> DEFINE i == j - 1
    <3>2. i \in Nat /\ i + 1 = j
      BY <3>1
    <3> HIDE DEF i
    <3>3. Kept(c, s, i + 1) /\ i \in Nat
      BY <2>1, <3>2
    <3>4. Kept(c, TakeIfFits(c, s), i)
      BY <3>3, TakeKeeps
    <3>5. TakeIfFits(c, s) \in Selection
      BY <3>4 DEF Kept
    <3> QED BY <2>3, <3>2, <3>4, <3>5
  <2> QED BY <2>2, <2>3
<1>2. start \in V
  BY DEF Kept
<1>3. step \in [1..n -> [V -> V]]
  <2> HIDE DEF V, Step
  <2> QED BY <1>1
<1>4. PICK f \in [0..n -> V] : f[0] = start /\ \A i \in 1..n : f[i] = step[i][f[i - 1]]
  <2> HIDE DEF V, step
  <2>1. Reached(V, n, start, step)
    BY <1>2, <1>3, Recursion
  <2> QED BY <2>1 DEF Reached
<1>5. ASSUME NEW i \in 1..n PROVE f[i] = Step(f[i - 1])
  <2>1. f[i - 1] \in V
    <3> HIDE DEF V
    <3>1. i - 1 \in 0..n
      OBVIOUS
    <3> QED BY <1>4, <3>1
  <2>2. step[i][f[i - 1]] = Step(f[i - 1])
    <3> HIDE DEF Step, V
    <3> QED BY <2>1
  <2> HIDE DEF step, Step
  <2> QED BY <1>4, <2>2
<1>6. \A k \in 0..n : Kept(c, f[k], n - k)
  <2>1. Walked(c, f, n)
    BY <1>5 DEF Walked
  <2>2. Kept(c, f[0], n)
    BY <1>4
  <2> HIDE DEF step, V, Step, Rule
  <2>3. PICK g : g = f
    OBVIOUS
  <2>4. Walked(c, g, n)
    BY <2>1, <2>3
  <2>5. Kept(c, g[0], n)
    BY <2>2, <2>3
  <2>6. \A k \in 0..n : Kept(c, g[k], n - k)
    BY <2>4, <2>5, KeptAlong
  <2> QED BY <2>3, <2>6
<1>7. ASSUME NEW i \in 1..n PROVE f[i] = TakeIfFits(c, f[i - 1])
  <2> DEFINE L == f[i - 1].left
             j == n - (i - 1)
  <2>1. i - 1 \in 0..n /\ j # 0
    OBVIOUS
  <2>2. IsFiniteSet(L) /\ Cardinality(L) = j
    BY <1>6, <2>1 DEF Kept
  <2>3. L # {}
    <3> HIDE DEF L, j
    <3>1. Cardinality({}) = 0
      BY FS_EmptySet
    <3> QED BY <2>1, <2>2, <3>1
  <2> QED BY <1>5, <2>3
<1>8. f = Rule(f)
  <2>1. ASSUME NEW i \in 0..n PROVE f[i] = Rule(f)[i]
    <3>1. CASE i = 0
      BY <1>4, <3>1
    <3>2. CASE i # 0
      <4>1. i \in 1..n
        BY <3>2
      <4>2. f[i] = TakeIfFits(c, f[i - 1])
        BY <1>7, <4>1
      <4> QED BY <3>2, <4>2
    <3> QED BY <3>1, <3>2
  <2>2. f = [i \in 0..n |-> f[i]] /\ Rule(f) = [i \in 0..n |-> Rule(f)[i]]
    <3>1. f = [i \in 0..n |-> f[i]]
      <4> HIDE DEF V, step
      <4> QED OBVIOUS
    <3> QED BY <3>1
  <2> HIDE DEF Rule
  <2> QED BY <2>1, <2>2
<1> DEFINE h == CHOOSE g : g = Rule(g)
<1>9. Admission(c) = h
  BY DEF Admission
<1>10. h = Rule(h)
  <2> HIDE DEF Rule
  <2> QED BY <1>8, Zenon
<1> HIDE DEF h
<1>11. h[0] = start
  <2>1. Rule(h)[0] = start
    OBVIOUS
  <2> HIDE DEF Rule
  <2> QED BY <1>10, <2>1
<1>12. ASSUME NEW i \in 1..n PROVE h[i] = TakeIfFits(c, h[i - 1])
  <2>1. i \in 0..n /\ i # 0
    OBVIOUS
  <2>2. Rule(h)[i] = TakeIfFits(c, h[i - 1])
    BY <2>1
  <2> HIDE DEF Rule
  <2> QED BY <1>10, <2>2
<1>13. \A k \in 0..n : Kept(c, h[k], n - k)
  <2>1. Kept(c, h[0], n)
    BY <1>11
  <2> HIDE DEF Rule, step
  <2>2. Walked(c, h, n)
    BY <1>12 DEF Walked
  <2> QED BY <2>1, <2>2, KeptAlong
<1>14. Kept(c, h[n], n - n)
  <2>1. n \in 0..n
    OBVIOUS
  <2> QED BY <1>13, <2>1
<1>15. n - n = 0
  OBVIOUS
<1> QED BY <1>9, <1>14, <1>15

\* All of them together stay below the limit, or their selection does.
LEMMA SelectionsFit ==
  ASSUME PlanInv
  PROVE  SelectionFitsBudget
<1> SUFFICES ASSUME ask # None
             PROVE  StaysInBudget(contract, Bytes(ToSet(SelectedOf(contract, ask))))
  BY DEF SelectionFitsBudget
<1>1. HistoryOK
  BY DEF PlanInv
<1>2. PICK a \in contract.asks : a = ask
  BY DEF PlanInv, AskOK
<1> DEFINE M == ToSet(Manifest)
           n == Len(Manifest)
           start == [left |-> M, in |-> {}, used |-> 0]
           A == Admission(contract)[n].in
           W == Within(Manifest, A)
<1>3. /\ contract.density \in BOOLEAN /\ contract.limit \in Nat /\ contract.limit # 0
      /\ Manifest \in Seq(Materials) /\ IsInjective(Manifest)
  BY <1>1, ContractAssumption, ContractKinds DEF HistoryOK
<1>4. M \subseteq Materials /\ n \in Nat /\ IsFiniteSet(M) /\ Cardinality(M) = n
  <2> DEFINE s == Manifest
  <2>1. s \in Seq(Materials) /\ IsInjective(s)
    BY <1>3
  <2> HIDE DEF s
  <2>2. s \in Seq(Materials)
    BY <2>1
  <2>3. IsFiniteSet(ToSet(s)) /\ Cardinality(ToSet(s)) = Len(s)
    BY <2>1, <2>2, InjectiveCounts
  <2>4. DOMAIN s = 1..Len(s) /\ Len(s) \in Nat
    BY <2>2, LenProperties
  <2>5. \A i \in DOMAIN s : s[i] \in Materials
    BY <2>2, <2>4, ElementOfSeq
  <2>6. ToSet(s) \subseteq Materials
    BY <2>5 DEF ToSet
  <2> QED BY <2>3, <2>4, <2>6 DEF s
<1>5. Kept(contract, start, n)
  <2>1. start \in Selection
    BY <1>4 DEF Selection
  <2>2. StaysInBudget(contract, 0)
    BY <1>3 DEF StaysInBudget
  <2> QED BY <1>4, <2>1, <2>2, BytesOfNone DEF Kept
<1>6. Kept(contract, Admission(contract)[n], 0)
  <2>1. n = Len(contract.manifest) /\ start = [left |-> ToSet(contract.manifest), in |-> {}, used |-> 0]
    BY DEF Manifest
  <2>2. n \in Nat
    BY <1>4
  <2> HIDE DEF n, start
  <2> QED BY <1>3, <1>5, <2>1, <2>2, AdmissionIs
<1>7. A \subseteq Materials /\ Bytes(A) \in Nat /\ StaysInBudget(contract, Bytes(A))
  BY <1>6 DEF Kept, Selection
<1>8. StaysInBudget(contract, Bytes(ToSet(W)))
  <2>1. ToSet(W) = M \intersect A
    <3> HIDE DEF A
    <3> QED BY <1>3, WithinToSet
  <2>2. ToSet(W) \subseteq A
    BY <2>1
  <2> DEFINE T == ToSet(W)
  <2> HIDE DEF T, A
  <2>3. Bytes(T) \in Nat /\ Bytes(A) \in Nat /\ Bytes(T) <= Bytes(A)
    <3>1. T \subseteq A
      BY <2>2 DEF T
    <3> QED BY <3>1, BytesGrow
  <2>4. StaysInBudget(contract, Bytes(T))
    BY <1>3, <1>7, <2>3 DEF StaysInBudget
  <2> QED BY <2>4 DEF T
<1>9. ASSUME ~contract.density, Bytes(ToSet(MaterialIds(a))) < contract.limit
      PROVE  StaysInBudget(contract, Bytes(M))
  <2> DEFINE T == ToSet(MaterialIds(a))
  <2>1. M \subseteq T
    BY <1>1, IdsAreInjective
  <2>2. Bytes(T) < contract.limit
    BY <1>9
  <2> HIDE DEF T, M
  <2>3. Bytes(M) \in Nat /\ Bytes(T) \in Nat /\ Bytes(M) <= Bytes(T)
    BY <2>1, BytesGrow
  <2> QED BY <1>3, <1>9, <2>2, <2>3 DEF StaysInBudget
<1>10. SelectedOf(contract, a) =
         IF ~contract.density /\ Bytes(ToSet(MaterialIds(a))) < contract.limit THEN Manifest ELSE W
  BY DEF SelectedOf, MaterialIds, Manifest
<1> HIDE DEF W, M
<1> QED BY <1>2, <1>8, <1>9, <1>10 DEF M

-----------------------------------------------------------------------------
(* The theorems.                                                           *)

\* In every state of every session: turns and resources of their types,
\* resources that stay usable and hold the session's files only, messages sent
\* whole, budgets kept, and no plan that the adapter refuses.
THEOREM PlansAreSafe == PlanSpec => []PlanSafe
<1>1. PlanInv => PlanSafe
  BY TypesAreKept, ExplicitMessagesAreWhole, ResourcesHoldNoTurnFile, ResourcesStayCompatible,
     NoneIsRefused, SelectionsFit DEF PlanSafe
<1> QED BY <1>1, PlansAreFounded, PTL

\* What is sent with a resource or an implicit prefix says what the full
\* payload says, whatever was committed and however long the history is.
THEOREM WiresSayTheSame == PlanSpec => []WireSaysTheSame
<1>1. PlanInv => WireSaysTheSame
  BY WiresAgree
<1> QED BY <1>1, PlansAreFounded, PTL

\* What the provider may keep of an implicit payload begins the next one.
THEOREM ImplicitPrefixesGrow == PlanSpec => []ImplicitPrefixGrows
<1>1. PlanInv => ImplicitPrefixGrows
  BY ImplicitPayloadsGrow
<1> QED BY <1>1, PlansAreFounded, PTL
=============================================================================

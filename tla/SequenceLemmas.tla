--------------------------- MODULE SequenceLemmas ---------------------------
(***************************************************************************)
(* What the sequence operators the modules are built from return, and      *)
(* induction over the numbers, on which what they compute rests.           *)
(***************************************************************************)
EXTENDS SequencesExt, SequenceTheorems, FiniteSetTheorems, WellFoundedInduction,
        TLAPS

(* What sequences of messages and traces do under the operators used.      *)
LEMMA SeqFacts ==
  ASSUME NEW S, NEW s \in Seq(S), s # << >>
  PROVE  /\ Head(s) \in S
         /\ Tail(s) \in Seq(S)
         /\ Len(Tail(s)) = Len(s) - 1
         /\ Len(s) \in Nat \ {0}
         /\ Tail(s) = << >> <=> Len(s) = 1
  <1>1. /\ Head(s) \in S
        /\ Tail(s) \in Seq(S)
        /\ Len(Tail(s)) = Len(s) - 1
    BY HeadTailProperties
  <1>2. Len(s) \in Nat \ {0}
    BY EmptySeq
  <1>3. Tail(s) = << >> => Len(Tail(s)) = 0
    BY EmptySeq
  <1>4. Tail(s) # << >> => Len(Tail(s)) \in Nat \ {0}
    BY <1>1, EmptySeq
  <1> QED
    BY <1>1, <1>2, <1>3, <1>4

(* A prefix or a suffix of a sequence is one over the same set.            *)
LEMMA SubSeqType ==
  ASSUME NEW S, NEW s \in Seq(S), NEW m \in Nat \ {0}, NEW n \in 0..Len(s)
  PROVE  SubSeq(s, m, n) \in Seq(S)
  <1>1. \A i \in m..n : s[i] \in S
    BY ElementOfSeq, LenProperties
  <1> QED
    BY <1>1, SubSeqProperties, LenProperties

(* Cutting nothing off.                                                    *)
LEMMA WholeSeq ==
  ASSUME NEW S, NEW s \in Seq(S)
  PROVE  /\ Len(s) \in 0..Len(s)
         /\ SubSeq(s, 1, Len(s)) = s
         /\ Range(SubSeq(s, Len(s) + 1, Len(s))) = {}
  <1> DEFINE t == SubSeq(s, 1, Len(s))
             r == SubSeq(s, Len(s) + 1, Len(s))
  <1>1. Len(s) \in Nat /\ \A i \in 1..Len(s) : s[i] \in S
    BY LenProperties, ElementOfSeq
  <1>2. t \in Seq(S) /\ Len(t) = Len(s) /\ \A i \in 1..Len(s) : t[i] = s[i]
    BY <1>1, SubSeqProperties
  <1>3. Len(r) = 0 /\ r \in Seq(S)
    BY <1>1, SubSeqProperties
  <1> HIDE DEF t, r
  <1>4. t = s
    BY <1>2, SeqEqual
  <1>5. Range(r) = {}
    BY <1>3, EmptySeq DEF Range
  <1> QED
    BY <1>1, <1>4, <1>5 DEF t, r

(* Leaving an element out of a sequence.                                   *)
LEMMA RemoveAtFacts ==
  ASSUME NEW S, NEW s \in Seq(S), NEW i \in 1..Len(s)
  PROVE  /\ RemoveAt(s, i) \in Seq(S)
         /\ Len(RemoveAt(s, i)) = Len(s) - 1
         /\ \A j \in 1..(Len(s) - 1) :
              RemoveAt(s, i)[j] = IF j < i THEN s[j] ELSE s[j + 1]
  <1> DEFINE a == SubSeq(s, 1, i - 1)
             b == SubSeq(s, i + 1, Len(s))
  <1>1. \A j \in 1..Len(s) : s[j] \in S
    BY ElementOfSeq
  <1>2. Len(s) \in Nat
    BY LenProperties
  <1>3. /\ a \in Seq(S)
        /\ Len(a) = i - 1
        /\ \A j \in 1..(i - 1) : a[j] = s[j]
    <2>1. \A j \in 1..(i - 1) : s[j] \in S
      BY <1>1, <1>2
    <2> QED
      BY <2>1, <1>2, SubSeqProperties
  <1>4. /\ b \in Seq(S)
        /\ Len(b) = Len(s) - i
        /\ \A j \in 1..(Len(s) - i) : b[j] = s[i + j]
    <2>1. \A j \in (i + 1)..Len(s) : s[j] \in S
      BY <1>1, <1>2
    <2> HIDE DEF b
    <2>2. /\ SubSeq(s, i + 1, Len(s)) \in Seq(S)
          /\ Len(SubSeq(s, i + 1, Len(s))) =
               IF i + 1 <= Len(s) THEN Len(s) - (i + 1) + 1 ELSE 0
          /\ \A j \in 1..(Len(s) - (i + 1) + 1) :
               SubSeq(s, i + 1, Len(s))[j] = s[i + 1 + j - 1]
      BY <2>1, <1>2, SubSeqProperties
    <2> QED
      BY <2>2, <1>2 DEF b
  <1>5. RemoveAt(s, i) = a \o b
    BY DEF RemoveAt
  <1> HIDE DEF a, b
  <1>6. /\ a \o b \in Seq(S)
        /\ Len(a \o b) = Len(a) + Len(b)
        /\ \A j \in 1..(Len(a) + Len(b)) :
             (a \o b)[j] = IF j <= Len(a) THEN a[j] ELSE b[j - Len(a)]
    BY <1>3, <1>4, ConcatProperties
  <1> QED
    BY <1>2, <1>3, <1>4, <1>5, <1>6

-----------------------------------------------------------------------------
(* The elements of a sequence, and sequences without repetition            *)

(* Range and IsInjective in terms of indices.                              *)
LEMMA RangeIndexed ==
  ASSUME NEW S, NEW s \in Seq(S)
  PROVE  /\ DOMAIN s = 1..Len(s)
         /\ Len(s) \in Nat
         /\ \A x : x \in Range(s) <=> \E i \in 1..Len(s) : s[i] = x
         /\ IsInjective(s) <=> \A i, j \in 1..Len(s) : s[i] = s[j] => i = j
  BY LenProperties DEF Range, IsInjective

(* The empty sequence has no elements.                                     *)
LEMMA RangeEmpty == Range(<< >>) = {} /\ IsInjective(<< >>)
  BY DEF Range, IsInjective

(* Taking the first element.                                               *)
LEMMA RangeTail ==
  ASSUME NEW S, NEW s \in Seq(S), s # << >>
  PROVE  /\ Range(s) = {Head(s)} \cup Range(Tail(s))
         /\ IsInjective(s) => IsInjective(Tail(s)) /\ Head(s) \notin Range(Tail(s))
  <1> DEFINE t == Tail(s)
  <1>1. /\ Len(s) \in Nat \ {0}
        /\ t \in Seq(S)
        /\ Len(t) = Len(s) - 1
        /\ \A i \in 1..(Len(s) - 1) : t[i] = s[i + 1]
        /\ Head(s) = s[1]
    BY SeqFacts, HeadTailProperties
  <1> HIDE DEF t
  <1>2. /\ \A x : x \in Range(s) <=> \E i \in 1..Len(s) : s[i] = x
        /\ IsInjective(s) <=> \A i, j \in 1..Len(s) : s[i] = s[j] => i = j
    BY RangeIndexed
  <1>3. /\ \A x : x \in Range(t) <=> \E i \in 1..Len(t) : t[i] = x
        /\ IsInjective(t) <=> \A i, j \in 1..Len(t) : t[i] = t[j] => i = j
    BY <1>1, RangeIndexed
  <1>4. ASSUME NEW x
        PROVE  x \in Range(s) <=> x = Head(s) \/ x \in Range(t)
    <2>1. ASSUME x \in Range(s), x # Head(s) PROVE x \in Range(t)
      <3>1. PICK i \in 1..Len(s) : s[i] = x
        BY <1>2, <2>1
      <3>2. i - 1 \in 1..(Len(s) - 1) /\ t[i - 1] = x
        BY <1>1, <2>1, <3>1
      <3> QED
        BY <1>1, <1>3, <3>2
    <2>2. ASSUME x \in Range(t) PROVE x \in Range(s)
      <3>1. PICK i \in 1..(Len(s) - 1) : t[i] = x
        BY <1>1, <1>3, <2>2
      <3>2. i + 1 \in 1..Len(s) /\ s[i + 1] = x
        BY <1>1, <3>1
      <3> QED
        BY <1>2, <3>2
    <2>3. Head(s) \in Range(s)
      BY <1>1, <1>2
    <2> QED
      BY <2>1, <2>2, <2>3
  <1>5. ASSUME IsInjective(s)
        PROVE  IsInjective(t) /\ Head(s) \notin Range(t)
    <2>1. IsInjective(t)
      <3>1. ASSUME NEW i \in 1..(Len(s) - 1), NEW j \in 1..(Len(s) - 1),
                   t[i] = t[j]
            PROVE  i = j
        <4>1. /\ i + 1 \in 1..Len(s) /\ j + 1 \in 1..Len(s)
              /\ s[i + 1] = s[j + 1]
          BY <1>1, <3>1
        <4>2. i + 1 = j + 1
          BY <1>2, <1>5, <4>1
        <4> QED
          BY <4>2
      <3> QED
        BY <1>1, <1>3, <3>1
    <2>2. ASSUME Head(s) \in Range(t) PROVE FALSE
      <3>1. PICK i \in 1..(Len(s) - 1) : t[i] = s[1]
        BY <1>1, <1>3, <2>2
      <3>2. s[i + 1] = s[1] /\ i + 1 \in 1..Len(s) /\ 1 \in 1..Len(s)
        BY <1>1, <3>1
      <3> QED
        BY <1>2, <1>5, <3>2
    <2> QED
      BY <2>1, <2>2
  <1> QED
    BY <1>4, <1>5 DEF t

(* Adding a last element.                                                  *)
LEMMA RangeAppend ==
  ASSUME NEW S, NEW s \in Seq(S), NEW x \in S
  PROVE  /\ Range(Append(s, x)) = Range(s) \cup {x}
         /\ IsInjective(s) /\ x \notin Range(s) => IsInjective(Append(s, x))
  <1> DEFINE t == Append(s, x)
  <1>1. /\ Len(s) \in Nat
        /\ t \in Seq(S)
        /\ Len(t) = Len(s) + 1
        /\ \A i \in 1..Len(s) : t[i] = s[i]
        /\ t[Len(s) + 1] = x
    BY LenProperties, AppendProperties
  <1> HIDE DEF t
  <1>2. /\ \A y : y \in Range(s) <=> \E i \in 1..Len(s) : s[i] = y
        /\ IsInjective(s) <=> \A i, j \in 1..Len(s) : s[i] = s[j] => i = j
    BY RangeIndexed
  <1>3. /\ \A y : y \in Range(t) <=>
                    \E i \in 1..(Len(s) + 1) : t[i] = y
        /\ IsInjective(t) <=>
             \A i, j \in 1..(Len(s) + 1) :
                t[i] = t[j] => i = j
    BY <1>1, RangeIndexed
  <1>4. Range(t) = Range(s) \cup {x}
    <2>1. ASSUME NEW y \in Range(t) PROVE y \in Range(s) \cup {x}
      BY <1>1, <1>2, <1>3
    <2>2. ASSUME NEW y \in Range(s) PROVE y \in Range(t)
      BY <1>1, <1>2, <1>3
    <2>3. x \in Range(t)
      BY <1>1, <1>3
    <2> QED
      BY <2>1, <2>2, <2>3
  <1>5. ASSUME IsInjective(s), x \notin Range(s)
        PROVE  IsInjective(t)
    <2>1. ASSUME NEW i \in 1..(Len(s) + 1), NEW j \in 1..(Len(s) + 1),
                 t[i] = t[j]
          PROVE  i = j
      <3>1. CASE i \in 1..Len(s) /\ j \in 1..Len(s)
        BY <1>1, <1>2, <1>5, <2>1, <3>1
      <3>2. CASE i = Len(s) + 1 /\ j \in 1..Len(s)
        <4>1. j \in 1..Len(s) /\ s[j] = x
          BY <1>1, <2>1, <3>2
        <4> QED
          BY <1>2, <1>5, <4>1
      <3>3. CASE j = Len(s) + 1 /\ i \in 1..Len(s)
        <4>1. i \in 1..Len(s) /\ s[i] = x
          BY <1>1, <2>1, <3>3
        <4> QED
          BY <1>2, <1>5, <4>1
      <3> QED
        BY <1>1, <3>1, <3>2, <3>3
    <2> QED
      BY <1>1, <1>3, <2>1
  <1> QED
    BY <1>4, <1>5 DEF t

(* Cutting a sequence in two.                                              *)
LEMMA RangeSplit ==
  ASSUME NEW S, NEW s \in Seq(S), NEW k \in 0..Len(s)
  PROVE  /\ Range(s) = Range(SubSeq(s, 1, k)) \cup Range(SubSeq(s, k + 1, Len(s)))
         /\ IsInjective(s) =>
              /\ IsInjective(SubSeq(s, 1, k))
              /\ Range(SubSeq(s, 1, k)) \cap Range(SubSeq(s, k + 1, Len(s))) = {}
  <1> DEFINE a == SubSeq(s, 1, k)
             b == SubSeq(s, k + 1, Len(s))
  <1>1. Len(s) \in Nat /\ \A i \in 1..Len(s) : s[i] \in S
    BY LenProperties, ElementOfSeq
  <1>2. /\ a \in Seq(S)
        /\ Len(a) = k
        /\ \A i \in 1..k : a[i] = s[i]
    <2>1. \A i \in 1..k : s[i] \in S
      BY <1>1
    <2> QED
      BY <1>1, <2>1, SubSeqProperties
  <1>3. /\ b \in Seq(S)
        /\ Len(b) = Len(s) - k
        /\ \A i \in 1..(Len(s) - k) : b[i] = s[k + i]
    <2>1. \A i \in (k + 1)..Len(s) : s[i] \in S
      BY <1>1
    <2>2. /\ SubSeq(s, k + 1, Len(s)) \in Seq(S)
          /\ Len(SubSeq(s, k + 1, Len(s))) =
               IF k + 1 <= Len(s) THEN Len(s) - (k + 1) + 1 ELSE 0
          /\ \A i \in 1..(Len(s) - (k + 1) + 1) :
               SubSeq(s, k + 1, Len(s))[i] = s[k + 1 + i - 1]
      BY <1>1, <2>1, SubSeqProperties
    <2> QED
      BY <1>1, <2>2
  <1> HIDE DEF a, b
  <1>4. /\ \A x : x \in Range(s) <=> \E i \in 1..Len(s) : s[i] = x
        /\ IsInjective(s) <=> \A i, j \in 1..Len(s) : s[i] = s[j] => i = j
    BY RangeIndexed
  <1>5. /\ \A x : x \in Range(a) <=> \E i \in 1..k : a[i] = x
        /\ IsInjective(a) <=> \A i, j \in 1..k : a[i] = a[j] => i = j
    BY <1>2, RangeIndexed
  <1>6. \A x : x \in Range(b) <=> \E i \in 1..(Len(s) - k) : b[i] = x
    BY <1>3, RangeIndexed
  <1>7. Range(s) = Range(a) \cup Range(b)
    <2>1. ASSUME NEW x \in Range(s) PROVE x \in Range(a) \cup Range(b)
      <3>1. PICK i \in 1..Len(s) : s[i] = x
        BY <1>4
      <3>2. CASE i <= k
        BY <1>1, <1>2, <1>5, <3>1, <3>2
      <3>3. CASE i > k
        <4>1. i - k \in 1..(Len(s) - k) /\ b[i - k] = x
          BY <1>1, <1>3, <3>1, <3>3
        <4> QED
          BY <1>6, <4>1
      <3> QED
        BY <1>1, <3>2, <3>3
    <2>2. ASSUME NEW x \in Range(a) PROVE x \in Range(s)
      BY <1>1, <1>2, <1>4, <1>5
    <2>3. ASSUME NEW x \in Range(b) PROVE x \in Range(s)
      <3>1. PICK i \in 1..(Len(s) - k) : b[i] = x
        BY <1>6
      <3>2. k + i \in 1..Len(s) /\ s[k + i] = x
        BY <1>1, <1>3, <3>1
      <3> QED
        BY <1>4, <3>2
    <2> QED
      BY <2>1, <2>2, <2>3
  <1>8. ASSUME IsInjective(s) PROVE IsInjective(a) /\ Range(a) \cap Range(b) = {}
    <2>1. IsInjective(a)
      BY <1>1, <1>2, <1>4, <1>5, <1>8
    <2>2. ASSUME NEW x \in Range(a), x \in Range(b) PROVE FALSE
      <3>1. PICK i \in 1..k : a[i] = x
        BY <1>5
      <3>2. PICK j \in 1..(Len(s) - k) : b[j] = x
        BY <1>6, <2>2
      <3>3. s[i] = s[k + j] /\ i \in 1..Len(s) /\ k + j \in 1..Len(s) /\ i # k + j
        BY <1>1, <1>2, <1>3, <3>1, <3>2
      <3> QED
        BY <1>4, <1>8, <3>3
    <2> QED
      BY <2>1, <2>2
  <1> QED
    BY <1>7, <1>8 DEF a, b

(* Leaving one element out.                                                *)
LEMMA RangeRemoveAt ==
  ASSUME NEW S, NEW s \in Seq(S), NEW i \in 1..Len(s)
  PROVE  /\ Range(s) = Range(RemoveAt(s, i)) \cup {s[i]}
         /\ IsInjective(s) =>
              IsInjective(RemoveAt(s, i)) /\ s[i] \notin Range(RemoveAt(s, i))
  <1> DEFINE r == RemoveAt(s, i)
  <1>1. /\ Len(s) \in Nat
        /\ r \in Seq(S)
        /\ Len(r) = Len(s) - 1
        /\ \A j \in 1..(Len(s) - 1) : r[j] = IF j < i THEN s[j] ELSE s[j + 1]
    BY LenProperties, RemoveAtFacts
  <1> HIDE DEF r
  <1>2. /\ \A x : x \in Range(s) <=> \E j \in 1..Len(s) : s[j] = x
        /\ IsInjective(s) <=> \A j, k \in 1..Len(s) : s[j] = s[k] => j = k
    BY RangeIndexed
  <1>3. /\ \A x : x \in Range(r) <=> \E j \in 1..(Len(s) - 1) : r[j] = x
        /\ IsInjective(r) <=> \A j, k \in 1..(Len(s) - 1) : r[j] = r[k] => j = k
    BY SMTT(60), <1>1, RangeIndexed
  <1>4. Range(s) = Range(r) \cup {s[i]}
    <2>1. ASSUME NEW x \in Range(s), x # s[i] PROVE x \in Range(r)
      <3>1. PICK j \in 1..Len(s) : s[j] = x
        BY <1>2
      <3>2. CASE j < i
        <4>1. j \in 1..(Len(s) - 1) /\ r[j] = x
          BY <1>1, <3>1, <3>2
        <4> QED
          BY <1>3, <4>1
      <3>3. CASE j > i
        <4>1. j - 1 \in 1..(Len(s) - 1) /\ r[j - 1] = x
          BY <1>1, <3>1, <3>3
        <4> QED
          BY <1>3, <4>1
      <3>4. j # i
        BY <2>1, <3>1
      <3> QED
        BY <1>1, <3>2, <3>3, <3>4
    <2>2. ASSUME NEW x \in Range(r) PROVE x \in Range(s)
      <3>1. PICK j \in 1..(Len(s) - 1) : r[j] = x
        BY <1>3
      <3>2. (j \in 1..Len(s) /\ s[j] = x) \/ (j + 1 \in 1..Len(s) /\ s[j + 1] = x)
        BY <1>1, <3>1
      <3> QED
        BY <1>2, <3>2
    <2>3. s[i] \in Range(s)
      BY <1>2
    <2> QED
      BY <2>1, <2>2, <2>3
  <1>5. ASSUME IsInjective(s) PROVE IsInjective(r) /\ s[i] \notin Range(r)
    <2>1. \A j, k \in 1..(Len(s) - 1) : r[j] = r[k] => j = k
      BY <1>1, <1>2, <1>5
    <2>2. \A j \in 1..(Len(s) - 1) : r[j] # s[i]
      BY <1>1, <1>2, <1>5
    <2> QED
      BY <1>3, <2>1, <2>2
  <1> QED
    BY <1>4, <1>5 DEF r

-----------------------------------------------------------------------------
(* Induction and recursion over the numbers                                *)

(* A set of numbers that is not empty has a least one.                     *)
LEMMA LeastNumber ==
  ASSUME NEW T \in SUBSET Nat, T # {}
  PROVE  \E x \in T : \A y \in T : x <= y
  <1> DEFINE Below(n) == 1..n
             U == {Below(n) : n \in T}
  <1>1. U \subseteq FiniteSubsetsOf(Nat) /\ U # {}
    <2> SUFFICES ASSUME NEW n \in T PROVE IsFiniteSet(Below(n)) /\ Below(n) \subseteq Nat
      BY DEF FiniteSubsetsOf
    <2> QED
      BY FS_Interval
  <1>2. \E m \in U : \A v \in U : ~(<<v, m>> \in StrictSubsetOrdering(Nat))
    BY <1>1, WFMin, FS_StrictSubsetOrderingWellFounded
  <1>3. PICK x \in T : \A v \in U : ~(<<v, Below(x)>> \in StrictSubsetOrdering(Nat))
    BY <1>2
  <1>4. ASSUME NEW y \in T, ~(x <= y)
        PROVE  FALSE
    <2>1. Below(y) \subseteq Below(x) /\ Below(x) \subseteq Nat /\ Below(y) \subseteq Nat
      BY <1>4
    <2>2. x \in Below(x) /\ x \notin Below(y)
      BY <1>4
    <2>3. <<Below(y), Below(x)>> \in StrictSubsetOrdering(Nat)
      BY <2>1, <2>2 DEF StrictSubsetOrdering
    <2> QED
      BY <1>3, <2>3
  <1> QED
    BY <1>4

(* Induction over the numbers, with the property as the set that has it.   *)
LEMMA InductionOnNat ==
  ASSUME NEW P, 0 \in P, \A n \in Nat : n \in P => n + 1 \in P
  PROVE  Nat \subseteq P
  <1> SUFFICES ASSUME Nat \ P # {} PROVE FALSE
    OBVIOUS
  <1>1. PICK n \in Nat \ P : \A y \in Nat \ P : n <= y
    BY LeastNumber
  <1>2. n # 0
    OBVIOUS
  <1>3. n - 1 \in Nat /\ n - 1 \in P
    BY <1>1, <1>2
  <1> QED
    BY <1>1, <1>3

(* F starts with v and goes on by step.                                    *)
Iterates(F, V, v, step) ==
  F \in [Nat -> V] /\ F[0] = v /\ \A n \in Nat : F[n + 1] = step[<<n, F[n]>>]

(* A recursion over the numbers has a solution.                            *)
LEMMA Recursion ==
  ASSUME NEW V, NEW v \in V, NEW step \in [Nat \X V -> V]
  PROVE  \E F : Iterates(F, V, v, step)
  <1> DEFINE Solves(f, n) == /\ f \in [0..n -> V] /\ f[0] = v
                             /\ \A i \in 0..(n - 1) : f[i + 1] = step[<<i, f[i]>>]
             P == {n \in Nat : \E f : Solves(f, n)}
             Q == {n \in Nat : \A f, g : Solves(f, n) /\ Solves(g, n) => f[n] = g[n]}
  <1>1. 0 \in P
    <2> DEFINE f == [i \in 0..0 |-> v]
    <2>1. Solves(f, 0)
      OBVIOUS
    <2> QED
      BY <2>1
  <1>2. ASSUME NEW n \in Nat, n \in P
        PROVE  n + 1 \in P
    <2>1. PICK f : Solves(f, n)
      BY <1>2
    <2> DEFINE g == [i \in 0..(n + 1) |-> IF i <= n THEN f[i] ELSE step[<<n, f[n]>>]]
    <2>2. step[<<n, f[n]>>] \in V
      BY <2>1
    <2>3. g \in [0..(n + 1) -> V] /\ g[0] = v
      BY <2>1, <2>2
    <2>4. ASSUME NEW i \in 0..n
          PROVE  g[i + 1] = step[<<i, g[i]>>]
      <3>1. CASE i = n
        BY <3>1
      <3>2. CASE i < n
        <4>1. i \in 0..(n - 1) /\ i + 1 <= n /\ i <= n /\ i + 1 \in 0..(n + 1) /\ i \in 0..(n + 1)
          BY <3>2
        <4>2. g[i + 1] = f[i + 1] /\ g[i] = f[i]
          BY <4>1
        <4> QED
          BY <2>1, <4>1, <4>2
      <3> QED
        BY <3>1, <3>2
    <2>5. Solves(g, n + 1)
      <3> HIDE DEF g
      <3>1. 0..((n + 1) - 1) = 0..n
        OBVIOUS
      <3> QED
        BY <2>3, <2>4, <3>1
    <2> HIDE DEF g, Solves
    <2> QED
      BY <2>5
  <1>3. Nat \subseteq P
    <2> HIDE DEF P
    <2> QED
      BY <1>1, <1>2, InductionOnNat
  <1>4. 0 \in Q
    OBVIOUS
  <1>5. ASSUME NEW n \in Nat, n \in Q
        PROVE  n + 1 \in Q
    <2> SUFFICES ASSUME NEW f, NEW g, Solves(f, n + 1), Solves(g, n + 1)
                 PROVE  f[n + 1] = g[n + 1]
      OBVIOUS
    <2> DEFINE r == [i \in 0..n |-> f[i]]
               s == [i \in 0..n |-> g[i]]
    <2>1. Solves(r, n) /\ Solves(s, n)
      OBVIOUS
    <2>2. r[n] = s[n]
      <3> HIDE DEF r, s, Solves
      <3> QED
        BY <1>5, <2>1
    <2>3. f[n] = g[n]
      BY <2>2
    <2>4. n \in 0..((n + 1) - 1)
      OBVIOUS
    <2> QED
      BY <2>3, <2>4
  <1>6. Nat \subseteq Q
    <2> HIDE DEF Q
    <2> QED
      BY <1>4, <1>5, InductionOnNat
  <1> DEFINE sol(n) == CHOOSE f : Solves(f, n)
             F == [n \in Nat |-> sol(n)[n]]
  <1>7. \A n \in Nat : Solves(sol(n), n)
    <2> HIDE DEF Solves
    <2> QED
      BY <1>3
  <1> HIDE DEF sol
  <1>8. F \in [Nat -> V] /\ F[0] = v
    BY <1>7
  <1>9. ASSUME NEW n \in Nat
        PROVE  F[n + 1] = step[<<n, F[n]>>]
    <2> DEFINE r == [i \in 0..n |-> sol(n + 1)[i]]
    <2>1. Solves(sol(n), n) /\ Solves(sol(n + 1), n + 1)
      BY <1>7
    <2>2. Solves(r, n)
      BY <2>1
    <2>3. r[n] = sol(n)[n]
      <3> HIDE DEF r, Solves
      <3> QED
        BY <1>6, <2>1, <2>2
    <2>4. sol(n + 1)[n] = F[n]
      BY <2>3
    <2>5. n \in 0..((n + 1) - 1) /\ n + 1 \in Nat
      OBVIOUS
    <2> QED
      BY <2>1, <2>4, <2>5
  <1> QED
    BY <1>8, <1>9 DEF Iterates

Agree(f, g, n) == \A i \in 0..n : f[i] = g[i]

(* Two functions that take the same steps from the same value agree.       *)
LEMMA SameSteps ==
  ASSUME NEW n \in Nat, NEW f, NEW g, f[0] = g[0],
         \A i \in 1..n : f[i - 1] = g[i - 1] => f[i] = g[i]
  PROVE  Agree(f, g, n)
  <1> DEFINE P == {i \in Nat : i <= n => f[i] = g[i]}
  <1>1. 0 \in P
    OBVIOUS
  <1>2. ASSUME NEW i \in Nat, i \in P
        PROVE  i + 1 \in P
    <2> SUFFICES ASSUME i + 1 <= n PROVE f[i + 1] = g[i + 1]
      OBVIOUS
    <2>1. i + 1 \in 1..n /\ (i + 1) - 1 = i /\ i <= n
      OBVIOUS
    <2>2. f[i] = g[i]
      BY <1>2, <2>1
    <2> QED
      BY <2>1, <2>2
  <1>3. Nat \subseteq P
    <2> HIDE DEF P
    <2> QED
      BY <1>1, <1>2, InductionOnNat
  <1> QED
    BY <1>3 DEF Agree

-----------------------------------------------------------------------------
(* Sequences of sequences                                                  *)

(* U holds the concatenations of the first sequences of ss.                *)
FlattensBy(U, S, ss) ==
  /\ U \in [0..Len(ss) -> Seq(S)] /\ U[0] = << >> /\ U[Len(ss)] = FlattenSeq(ss)
  /\ \A n \in 1..Len(ss) : U[n] = U[n - 1] \o ss[n]

(* FlattenSeq is built up one sequence after the other.                    *)
LEMMA FlattenSteps ==
  ASSUME NEW S, NEW ss \in Seq(Seq(S))
  PROVE  \E U : FlattensBy(U, S, ss)
  <1> DEFINE N == Len(ss)
             join(n, r) == IF n + 1 \in 1..N THEN r \o ss[n + 1] ELSE r
             step == [a \in Nat \X Seq(S) |-> join(a[1], a[2])]
             flat(G) == [i \in 1..N |-> IF i = 1 THEN ss[i] ELSE G[i - 1] \o ss[i]]
  <1>1. N \in Nat /\ \A i \in 1..N : ss[i] \in Seq(S)
    BY LenProperties, ElementOfSeq
  <1>2. \A n \in Nat, r \in Seq(S) : join(n, r) \in Seq(S)
    BY <1>1, ConcatProperties
  <1>3. step \in [Nat \X Seq(S) -> Seq(S)]
    <2>1. \A a \in Nat \X Seq(S) : a[1] \in Nat /\ a[2] \in Seq(S)
      OBVIOUS
    <2> HIDE DEF join
    <2> QED
      BY <1>2, <2>1
  <1>4. \A n \in Nat, r \in Seq(S) : step[<<n, r>>] = join(n, r)
    OBVIOUS
  <1>5. PICK F \in [Nat -> Seq(S)] :
           F[0] = << >> /\ \A n \in Nat : F[n + 1] = step[<<n, F[n]>>]
    <2> DEFINE V == Seq(S)
               v == << >>
    <2>1. v \in V /\ step \in [Nat \X V -> V]
      BY <1>3, EmptySeq
    <2> HIDE DEF step, V, v
    <2>2. \E F : Iterates(F, V, v, step)
      BY <2>1, Recursion
    <2> QED
      BY <2>2 DEF V, v, Iterates
  <1>6. ASSUME NEW n \in 1..N
        PROVE  n - 1 \in 0..N /\ n \in 0..N /\ F[n] = F[n - 1] \o ss[n]
    <2>1. n - 1 \in Nat /\ (n - 1) + 1 = n /\ n - 1 \in 0..N /\ n \in 0..N
      BY <1>1
    <2>2. F[n] = join(n - 1, F[n - 1])
      <3> HIDE DEF step, join
      <3> QED
        BY <1>4, <1>5, <2>1
    <2> QED
      BY <2>1, <2>2
  <1> DEFINE U == [i \in 0..N |-> F[i]]
  <1> HIDE DEF step
  <1>7. U \in [0..N -> Seq(S)] /\ U[0] = << >> /\ \A n \in 1..N : U[n] = U[n - 1] \o ss[n]
    <2>1. 0 \in 0..N /\ \A n \in 0..N : n \in Nat
      BY <1>1
    <2>2. U \in [0..N -> Seq(S)] /\ U[0] = << >>
      BY <1>5, <2>1
    <2>3. \A n \in 1..N : U[n] = F[n] /\ U[n - 1] = F[n - 1]
      BY <1>6
    <2> HIDE DEF U, N
    <2> QED
      BY <1>6, <2>2, <2>3
  <1>8. CASE N = 0
    <2>1. FlattenSeq(ss) = ss /\ ss = << >>
      BY <1>8, EmptySeq DEF FlattenSeq
    <2>2. FlattensBy(U, S, ss)
      BY <1>7, <1>8, <2>1 DEF FlattensBy
    <2> QED
      BY <2>2
  <1>9. CASE N # 0
    <2> DEFINE G == [i \in 1..N |-> F[i]]
               H == CHOOSE f : f = flat(f)
    <2>1. F[1] = ss[1]
      <3>1. F[1] = F[0] \o ss[1] /\ ss[1] \in Seq(S)
        <4>1. 1 \in 1..N /\ 1 - 1 = 0
          BY <1>1, <1>9
        <4> HIDE DEF N
        <4> QED
          BY <1>1, <1>6, <4>1
      <3> QED
        BY <1>5, <3>1, ConcatEmptySeq
    <2>2. \A i \in 1..N : i = 1 \/ i - 1 \in 1..N
      BY <1>1
    <2>3. G = flat(G)
      <3> HIDE DEF N
      <3> QED
        BY <1>6, <2>1, <2>2
    <2>4. H = flat(H)
      <3> HIDE DEF G, flat
      <3> QED
        BY <2>3
    <2>5. FlattenSeq(ss) = H[N]
      BY <1>9 DEF FlattenSeq
    <2> HIDE DEF H
    <2>6. ASSUME NEW i \in 1..N
          PROVE  H[i] = IF i = 1 THEN ss[i] ELSE H[i - 1] \o ss[i]
      <3>1. flat(H)[i] = IF i = 1 THEN ss[i] ELSE H[i - 1] \o ss[i]
        OBVIOUS
      <3> HIDE DEF flat
      <3> QED
        BY <2>4, <3>1
    <2> DEFINE K == [i \in 0..N |-> IF i = 0 THEN << >> ELSE H[i]]
    <2>7. \A i \in 1..N : K[i - 1] = F[i - 1] => K[i] = F[i]
      <3>1. SUFFICES ASSUME NEW i \in 1..N, K[i - 1] = F[i - 1]
                     PROVE  K[i] = F[i]
        OBVIOUS
      <3>2. K[i] = H[i] /\ i - 1 \in 0..N
        <4>1. i \in 0..N /\ i - 1 \in 0..N /\ i # 0
          BY <1>1
        <4> QED
          BY <4>1
      <3>3. CASE i = 1
        BY <2>1, <2>6, <3>2, <3>3
      <3>4. CASE i # 1
        <4>1. K[i - 1] = H[i - 1]
          BY <1>1, <3>2, <3>4
        <4>2. H[i] = H[i - 1] \o ss[i]
          BY <2>6, <3>4
        <4> HIDE DEF K
        <4> QED
          BY <1>6, <3>1, <3>2, <4>1, <4>2
      <3> QED
        BY <3>3, <3>4
    <2>8. K[0] = F[0] /\ K[N] = H[N]
      BY <1>1, <1>5, <1>9
    <2>9. U[N] = F[N] /\ N \in 0..N
      BY <1>1
    <2> HIDE DEF K, N, U
    <2>10. Agree(K, F, N)
      BY <1>1, <2>7, <2>8, SameSteps
    <2>11. U[N] = FlattenSeq(ss)
      BY <2>5, <2>8, <2>9, <2>10 DEF Agree
    <2>12. FlattensBy(U, S, ss)
      BY <1>7, <2>11 DEF FlattensBy, N
    <2> QED
      BY <2>12
  <1> QED
    BY <1>8, <1>9

(* Concatenated sequences are a sequence.                                  *)
LEMMA FlattenType ==
  ASSUME NEW S, NEW ss \in Seq(Seq(S))
  PROVE  FlattenSeq(ss) \in Seq(S)
  <1>1. Len(ss) \in 0..Len(ss)
    BY LenProperties
  <1>2. PICK U : FlattensBy(U, S, ss)
    BY FlattenSteps
  <1> QED
    BY <1>1, <1>2 DEF FlattensBy

(* Of no sequences, the concatenation is empty.                            *)
LEMMA FlattenEmpty == FlattenSeq(<< >>) = << >>
  BY DEF FlattenSeq

(* One more sequence at the end.                                           *)
LEMMA FlattenAppend ==
  ASSUME NEW S, NEW ss \in Seq(Seq(S)), NEW s \in Seq(S)
  PROVE  FlattenSeq(Append(ss, s)) = FlattenSeq(ss) \o s
  <1> DEFINE n == Len(ss)
             tt == Append(ss, s)
             T == Seq(S)
  <1>1. /\ n \in Nat /\ tt \in Seq(T) /\ Len(tt) = n + 1 /\ tt[n + 1] = s
        /\ \A i \in 1..n : tt[i] = ss[i]
    BY AppendProperties, LenProperties
  <1>2. PICK U : FlattensBy(U, S, ss)
    BY FlattenSteps
  <1>3. /\ U[0] = << >> /\ U[n] = FlattenSeq(ss)
        /\ \A i \in 1..n : U[i] = U[i - 1] \o ss[i]
    BY <1>2 DEF FlattensBy
  <1> HIDE DEF tt
  <1>4. PICK W : FlattensBy(W, S, tt)
    BY <1>1, FlattenSteps
  <1>5. /\ W[0] = << >> /\ W[Len(tt)] = FlattenSeq(tt)
        /\ \A i \in 1..Len(tt) : W[i] = W[i - 1] \o tt[i]
    BY <1>4 DEF FlattensBy
  <1> HIDE DEF n
  <1>6. \A i \in 1..n : U[i - 1] = W[i - 1] => U[i] = W[i]
    <2>1. \A i \in 1..n : i \in 1..Len(tt)
      BY <1>1
    <2> QED
      BY <1>1, <1>3, <1>5, <2>1
  <1>7. U[0] = W[0]
    BY <1>3, <1>5
  <1>8. Agree(U, W, n)
    BY <1>1, <1>6, <1>7, SameSteps
  <1>9. n \in 0..n /\ n + 1 \in 1..Len(tt) /\ (n + 1) - 1 = n
    BY <1>1
  <1>10. W[n] = FlattenSeq(ss)
    BY <1>3, <1>8, <1>9 DEF Agree
  <1>11. W[n + 1] = W[n] \o s
    BY <1>1, <1>5, <1>9
  <1> QED
    BY <1>1, <1>5, <1>10, <1>11 DEF tt

(* The first sequence comes first.                                         *)
LEMMA FlattenFirst ==
  ASSUME NEW S, NEW ss \in Seq(Seq(S)), ss # << >>
  PROVE  FlattenSeq(ss) = Head(ss) \o FlattenSeq(Tail(ss))
  <1> DEFINE tt == Tail(ss)
             n == Len(tt)
             h == ss[1]
             T == Seq(S)
  <1>1. /\ n \in Nat /\ tt \in Seq(T) /\ Len(ss) = n + 1 /\ h \in Seq(S) /\ Head(ss) = h
        /\ \A i \in 1..n : tt[i] = ss[i + 1] /\ tt[i] \in Seq(S)
    <2>1. /\ tt \in Seq(T) /\ Len(tt) = Len(ss) - 1 /\ Len(ss) \in Nat \ {0}
          /\ \A i \in 1..Len(tt) : tt[i] = ss[i + 1]
      BY SeqFacts, HeadTailProperties
    <2>2. h \in Seq(S) /\ \A i \in 1..Len(tt) : tt[i] \in Seq(S)
      BY <2>1, ElementOfSeq
    <2> QED
      BY <2>1, <2>2
  <1>2. PICK U : FlattensBy(U, S, ss)
    BY FlattenSteps
  <1>3. /\ U[0] = << >> /\ U[Len(ss)] = FlattenSeq(ss)
        /\ \A i \in 1..Len(ss) : U[i] = U[i - 1] \o ss[i]
    BY <1>2 DEF FlattensBy
  <1> HIDE DEF tt
  <1>4. PICK W : FlattensBy(W, S, tt)
    BY <1>1, FlattenSteps
  <1>5. /\ W \in [0..n -> Seq(S)] /\ W[0] = << >> /\ W[n] = FlattenSeq(tt)
        /\ \A i \in 1..n : W[i] = W[i - 1] \o tt[i]
    BY <1>4 DEF FlattensBy
  <1> HIDE DEF n, h
  <1> DEFINE f == [i \in 0..n |-> U[i + 1]]
             g == [i \in 0..n |-> h \o W[i]]
  <1>6. f[0] = g[0]
    <2>1. U[1] = << >> \o h /\ 0 \in 0..n
      <3>1. 1 \in 1..Len(ss) /\ 1 - 1 = 0 /\ 0 \in 0..n
        BY <1>1
      <3>2. U[1] = U[0] \o ss[1]
        BY <1>3, <3>1
      <3> QED
        BY <1>3, <3>1, <3>2 DEF h
    <2>2. << >> \o h = h \o << >>
      BY <1>1, ConcatEmptySeq
    <2>3. f[0] = U[0 + 1] /\ g[0] = h \o W[0] /\ 0 + 1 = 1
      BY <2>1
    <2> QED
      BY <1>5, <2>1, <2>2, <2>3
  <1>7. ASSUME NEW i \in 1..n, f[i - 1] = g[i - 1]
        PROVE  f[i] = g[i]
    <2>1. i - 1 \in 0..n /\ i \in 0..n /\ i + 1 \in 1..Len(ss) /\ (i + 1) - 1 = i /\ (i - 1) + 1 = i
      BY <1>1
    <2>2. U[i + 1] = U[i] \o tt[i]
      BY <1>1, <1>3, <2>1
    <2>3. U[i] = h \o W[i - 1] /\ W[i - 1] \in Seq(S) /\ tt[i] \in Seq(S)
      BY <1>1, <1>5, <1>7, <2>1
    <2>4. (h \o W[i - 1]) \o tt[i] = h \o (W[i - 1] \o tt[i])
      <3> DEFINE w == W[i - 1]
                 v == tt[i]
      <3>1. h \in Seq(S) /\ w \in Seq(S) /\ v \in Seq(S)
        BY <1>1, <2>3
      <3> HIDE DEF w, v
      <3>2. (h \o w) \o v = h \o (w \o v)
        BY SMTT(60), <3>1, ConcatAssociative
      <3> QED
        BY <3>2 DEF w, v
    <2>5. f[i] = U[i + 1] /\ g[i] = h \o W[i] /\ W[i] = W[i - 1] \o tt[i]
      BY <1>5, <2>1
    <2> QED
      BY <2>2, <2>3, <2>4, <2>5
  <1>8. Agree(f, g, n)
    <2> HIDE DEF f, g
    <2> QED
      BY <1>1, <1>6, <1>7, SameSteps
  <1>9. U[n + 1] = h \o W[n]
    <2>1. n \in 0..n
      BY <1>1
    <2>2. f[n] = g[n] /\ f[n] = U[n + 1] /\ g[n] = h \o W[n]
      BY <1>8, <2>1 DEF Agree
    <2> QED
      BY <2>2
  <1> QED
    BY <1>1, <1>3, <1>5, <1>9 DEF tt
=============================================================================

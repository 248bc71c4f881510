-------------------------- MODULE ReForwarderProofs --------------------------
(***************************************************************************)
(* The re-forwarder passes traces on in order: to a downstream that lags,  *)
(* is cut short or reconnects, and to the forwarder through a queue that   *)
(* several tasks wait for.  For every number of tasks, downstreams and     *)
(* batches, every queue size and every filter.                             *)
(***************************************************************************)
EXTENDS ReForwarder, SequenceLemmas

-----------------------------------------------------------------------------
(* Choosing elements of a sequence                                         *)

(* U holds what is chosen from s up to each of its places.                 *)
ChoosesBy(U, S, s, K) ==
  /\ U \in [0..Len(s) -> Seq(S)] /\ U[0] = << >> /\ U[Len(s)] = Chosen(s, K)
  /\ \A n \in 1..Len(s) : U[n] = IF n \in K THEN Append(U[n - 1], s[n]) ELSE U[n - 1]

(* Chosen is built up one element after the other.                         *)
LEMMA ChosenSteps ==
  ASSUME NEW S, NEW s \in Seq(S), NEW K
  PROVE  \E U : ChoosesBy(U, S, s, K)
  <1> DEFINE N == Len(s)
             add(n, r) == IF n + 1 \in K /\ n + 1 \in 1..N THEN Append(r, s[n + 1]) ELSE r
             step == [a \in Nat \X Seq(S) |-> add(a[1], a[2])]
             upto(G) == [n \in 0..N |-> IF n = 0 THEN << >>
                           ELSE IF n \in K THEN Append(G[n - 1], s[n]) ELSE G[n - 1]]
  <1>1. N \in Nat /\ \A i \in 1..N : s[i] \in S
    BY LenProperties, ElementOfSeq
  <1>2. \A n \in Nat, r \in Seq(S) : add(n, r) \in Seq(S)
    BY <1>1, AppendProperties
  <1>3. step \in [Nat \X Seq(S) -> Seq(S)]
    <2>1. \A a \in Nat \X Seq(S) : a[1] \in Nat /\ a[2] \in Seq(S)
      OBVIOUS
    <2> HIDE DEF add
    <2> QED
      BY <1>2, <2>1
  <1>4. \A n \in Nat, r \in Seq(S) : step[<<n, r>>] = add(n, r)
    OBVIOUS
  <1>5. PICK F \in [Nat -> Seq(S)] :
           F[0] = << >> /\ \A n \in Nat : F[n + 1] = step[<<n, F[n]>>]
    <2> DEFINE V == Seq(S)
               v == << >>
    <2>1. v \in V /\ step \in [Nat \X V -> V]
      BY <1>3, EmptySeq
    <2> HIDE DEF step, V, v
    <2>2. \E F : Iterates(F, V, v, step)
      BY <2>1, Recursion
    <2> QED
      BY <2>2 DEF V, v, Iterates
  <1> DEFINE G == [n \in 0..N |-> F[n]]
  <1>6. ASSUME NEW n \in 1..N
        PROVE  /\ n - 1 \in 0..N /\ n \in 0..N /\ n # 0
               /\ F[n] = IF n \in K THEN Append(F[n - 1], s[n]) ELSE F[n - 1]
    <2>1. n - 1 \in Nat /\ (n - 1) + 1 = n /\ n - 1 \in 0..N /\ n \in 0..N /\ n # 0
      BY SMTT(60), <1>1
    <2>2. F[n] = add(n - 1, F[n - 1])
      <3> HIDE DEF step, add
      <3> QED
        BY <1>4, <1>5, <2>1
    <2> QED
      BY <2>1, <2>2
  <1>7. G = upto(G)
    <2>1. \A n \in 0..N : n = 0 \/ n \in 1..N
      BY <1>1
    <2>2. 0 \in 0..N
      BY <1>1
    <2> HIDE DEF N
    <2> QED
      BY <1>5, <1>6, <2>1, <2>2
  <1> DEFINE U == CHOOSE H : H = upto(H)
  <1>8. U = upto(U)
    <2> HIDE DEF G, upto
    <2> QED
      BY <1>7
  <1>9. Chosen(s, K) = U[N]
    BY DEF Chosen
  <1> HIDE DEF U
  <1>10. DOMAIN U = 0..N /\ U[0] = << >>
    BY <1>1, <1>8
  <1>11. ASSUME NEW n \in 1..N
         PROVE  U[n] = IF n \in K THEN Append(U[n - 1], s[n]) ELSE U[n - 1]
    <2>1. n \in 0..N /\ n # 0
      BY <1>6
    <2>2. upto(U)[n] = IF n \in K THEN Append(U[n - 1], s[n]) ELSE U[n - 1]
      BY <2>1
    <2> HIDE DEF upto
    <2> QED
      BY <1>8, <2>2
  <1>12. \A n \in 0..N : U[n] = F[n]
    <2>1. U[0] = F[0]
      BY <1>5, <1>10
    <2>2. \A n \in 1..N : U[n - 1] = F[n - 1] => U[n] = F[n]
      BY <1>6, <1>11
    <2> HIDE DEF N, step
    <2>3. Agree(U, F, N)
      BY <1>1, <2>1, <2>2, SameSteps
    <2> QED
      BY <2>3 DEF Agree
  <1>13. U \in [0..N -> Seq(S)]
    <2>1. U = [n \in 0..N |-> U[n]]
      BY <1>8
    <2> HIDE DEF N, step
    <2> QED
      BY <1>1, <1>5, <1>12, <2>1
  <1> QED
    BY <1>9, <1>10, <1>11, <1>13 DEF ChoosesBy

(* The elements chosen from s, in a sequence that goes on.                 *)
LEMMA ChosenAppend ==
  ASSUME NEW S, NEW s \in Seq(S), NEW x \in S, NEW K, NEW L,
         \A i \in 1..Len(s) : i \in K <=> i \in L
  PROVE  Chosen(Append(s, x), L) = IF Len(s) + 1 \in L THEN Append(Chosen(s, K), x)
                                                       ELSE Chosen(s, K)
  <1> DEFINE t == Append(s, x)
             n == Len(s)
  <1>1. /\ n \in Nat /\ t \in Seq(S) /\ Len(t) = n + 1 /\ t[n + 1] = x
        /\ \A i \in 1..n : t[i] = s[i]
    BY AppendProperties, LenProperties
  <1> HIDE DEF t
  <1>u. PICK U : ChoosesBy(U, S, s, K)
    BY ChosenSteps
  <1>2. /\ U \in [0..n -> Seq(S)] /\ U[0] = << >> /\ U[n] = Chosen(s, K)
        /\ \A i \in 1..n : U[i] = IF i \in K THEN Append(U[i - 1], s[i]) ELSE U[i - 1]
    BY <1>u DEF ChoosesBy
  <1>w. PICK W : ChoosesBy(W, S, t, L)
    BY <1>1, ChosenSteps
  <1>3. /\ W \in [0..Len(t) -> Seq(S)] /\ W[0] = << >> /\ W[Len(t)] = Chosen(t, L)
        /\ \A i \in 1..Len(t) : W[i] = IF i \in L THEN Append(W[i - 1], t[i]) ELSE W[i - 1]
    BY <1>w DEF ChoosesBy
  <1> HIDE DEF n
  <1>4. \A i \in 1..n : U[i - 1] = W[i - 1] => U[i] = W[i]
    <2>1. \A i \in 1..n : i \in 1..Len(t)
      BY <1>1
    <2> QED
      BY <1>1, <1>2, <1>3, <2>1 DEF n
  <1>5. Agree(U, W, n)
    BY <1>1, <1>2, <1>3, <1>4, SameSteps
  <1>6. n \in 0..n /\ n + 1 \in 1..Len(t) /\ (n + 1) - 1 = n
    BY <1>1
  <1>7. W[n] = Chosen(s, K)
    BY <1>2, <1>5, <1>6 DEF Agree, n
  <1>8. W[n + 1] = IF n + 1 \in L THEN Append(W[n], x) ELSE W[n]
    BY <1>1, <1>3, <1>6
  <1> QED
    BY <1>1, <1>3, <1>7, <1>8 DEF t, n

(* Chosen asks K only for the places of s.                                 *)
LEMMA ChosenSame ==
  ASSUME NEW S, NEW s \in Seq(S), NEW K, NEW L,
         \A i \in 1..Len(s) : i \in K <=> i \in L
  PROVE  Chosen(s, K) = Chosen(s, L)
  <1> DEFINE n == Len(s)
  <1>u. PICK U : ChoosesBy(U, S, s, K)
    BY ChosenSteps
  <1>1. /\ U \in [0..n -> Seq(S)] /\ U[0] = << >> /\ U[n] = Chosen(s, K)
        /\ \A i \in 1..n : U[i] = IF i \in K THEN Append(U[i - 1], s[i]) ELSE U[i - 1]
    BY <1>u DEF ChoosesBy
  <1>w. PICK W : ChoosesBy(W, S, s, L)
    BY ChosenSteps
  <1>2. /\ W \in [0..n -> Seq(S)] /\ W[0] = << >> /\ W[n] = Chosen(s, L)
        /\ \A i \in 1..n : W[i] = IF i \in L THEN Append(W[i - 1], s[i]) ELSE W[i - 1]
    BY <1>w DEF ChoosesBy
  <1>3. n \in Nat
    BY LenProperties
  <1>4. \A i \in 1..n : U[i - 1] = W[i - 1] => U[i] = W[i]
    BY <1>1, <1>2
  <1> HIDE DEF n
  <1>5. Agree(U, W, n)
    BY <1>1, <1>2, <1>3, <1>4, SameSteps
  <1> QED
    BY <1>1, <1>2, <1>3, <1>5 DEF Agree, n

(* A selection of a sequence is a sequence.                                *)
LEMMA ChosenType ==
  ASSUME NEW S, NEW s \in Seq(S), NEW K
  PROVE  Chosen(s, K) \in Seq(S)
  <1>1. Len(s) \in 0..Len(s)
    BY LenProperties
  <1> QED
    BY <1>1, ChosenSteps DEF ChoosesBy

(* Of nothing, nothing is selected.                                        *)
LEMMA ChosenEmpty ==
  ASSUME NEW K
  PROVE  Chosen(<< >>, K) = << >>
  <1>1. << >> \in Seq({}) /\ Len(<< >>) = 0
    BY EmptySeq
  <1> DEFINE e == << >>
  <1>2. e \in Seq({}) /\ Len(e) = 0
    BY <1>1
  <1> HIDE DEF e
  <1>3. PICK U : ChoosesBy(U, {}, e, K)
    BY <1>2, ChosenSteps
  <1> QED
    BY <1>2, <1>3 DEF e, ChoosesBy

(* The places of L are those of M after the m-th, n of them.               *)
PlacesAfter(m, L, M, n) == \A i \in 1..n : i \in L <=> m + i \in M

(* What is chosen from two sequences in a row.                             *)
LEMMA ChosenConcat ==
  ASSUME NEW S, NEW s \in Seq(S), NEW t \in Seq(S), NEW K, NEW L, NEW M,
         PlacesAfter(0, K, M, Len(s)), PlacesAfter(Len(s), L, M, Len(t))
  PROVE  Chosen(s \o t, M) = Chosen(s, K) \o Chosen(t, L)
  <1> DEFINE m == Len(s)
             n == Len(t)
             a == Chosen(s, K)
             u == s \o t
  <1>1. /\ m \in Nat /\ n \in Nat /\ u \in Seq(S) /\ Len(u) = m + n /\ a \in Seq(S)
        /\ \A i \in 1..m : u[i] = s[i]
        /\ \A i \in 1..n : u[m + i] = t[i] /\ t[i] \in S
    BY ConcatProperties, LenProperties, ElementOfSeq, ChosenType
  <1>u. PICK U : ChoosesBy(U, S, s, K)
    BY ChosenSteps
  <1>2. /\ U \in [0..m -> Seq(S)] /\ U[0] = << >> /\ U[m] = Chosen(s, K)
        /\ \A i \in 1..m : U[i] = IF i \in K THEN Append(U[i - 1], s[i]) ELSE U[i - 1]
    BY <1>u DEF ChoosesBy
  <1>v. PICK V : ChoosesBy(V, S, t, L)
    BY ChosenSteps
  <1>3. /\ V \in [0..n -> Seq(S)] /\ V[0] = << >> /\ V[n] = Chosen(t, L)
        /\ \A i \in 1..n : V[i] = IF i \in L THEN Append(V[i - 1], t[i]) ELSE V[i - 1]
    BY <1>v DEF ChoosesBy
  <1> HIDE DEF u
  <1>w. PICK W : ChoosesBy(W, S, u, M)
    BY <1>1, ChosenSteps
  <1>4. /\ W \in [0..Len(u) -> Seq(S)] /\ W[0] = << >> /\ W[Len(u)] = Chosen(u, M)
        /\ \A i \in 1..Len(u) : W[i] = IF i \in M THEN Append(W[i - 1], u[i]) ELSE W[i - 1]
    BY <1>w DEF ChoosesBy
  <1> HIDE DEF m, n, a
  <1>5. W[m] = a
    <2>1. \A i \in 1..m : U[i - 1] = W[i - 1] => U[i] = W[i]
      <3>1. \A i \in 1..m : i \in 1..Len(u)
        BY <1>1
      <3>2. \A i \in 1..m : i \in K <=> i \in M
        <4>1. \A i \in 1..m : 0 + i = i
          BY <1>1
        <4> QED
          BY <4>1 DEF m, PlacesAfter
      <3> QED
        BY <1>1, <1>2, <1>4, <3>1, <3>2
    <2>2. U[0] = W[0]
      BY <1>2, <1>4
    <2>3. Agree(U, W, m)
      BY <1>1, <2>1, <2>2, SameSteps
    <2> QED
      BY <1>1, <1>2, <2>3 DEF Agree, a
  <1> DEFINE f == [i \in 0..n |-> W[m + i]]
             g == [i \in 0..n |-> a \o V[i]]
  <1>6. f[0] = g[0]
    <2>1. f[0] = W[m] /\ g[0] = a \o << >>
      BY <1>1, <1>3
    <2> QED
      BY <1>1, <1>5, <2>1, ConcatEmptySeq
  <1>7. ASSUME NEW i \in 1..n, f[i - 1] = g[i - 1]
        PROVE  f[i] = g[i]
    <2>1. /\ i - 1 \in 0..n /\ i \in 0..n /\ m + i \in 1..Len(u)
          /\ (m + i) - 1 = m + (i - 1)
      BY <1>1
    <2>2. W[m + i] = IF i \in L THEN Append(W[m + (i - 1)], t[i]) ELSE W[m + (i - 1)]
      BY <1>1, <1>4, <2>1 DEF m, n, PlacesAfter
    <2>3. W[m + (i - 1)] = a \o V[i - 1] /\ V[i - 1] \in Seq(S)
      BY <1>3, <1>7, <2>1
    <2>4. Append(a \o V[i - 1], t[i]) = a \o Append(V[i - 1], t[i])
      <3> DEFINE b == V[i - 1]
      <3>1. a \in Seq(S) /\ b \in Seq(S) /\ t[i] \in S /\ <<t[i]>> \in Seq(S)
        BY <1>1, <2>3
      <3> HIDE DEF b
      <3>2. Append(a \o b, t[i]) = (a \o b) \o <<t[i]>> /\ Append(b, t[i]) = b \o <<t[i]>>
        BY <3>1, AppendIsConcat, ConcatProperties
      <3>3. (a \o b) \o <<t[i]>> = a \o (b \o <<t[i]>>)
        BY SMTT(60), <3>1, ConcatAssociative
      <3> QED
        BY <3>2, <3>3 DEF b
    <2>5. V[i] = IF i \in L THEN Append(V[i - 1], t[i]) ELSE V[i - 1]
      BY <1>3
    <2>6. f[i] = W[m + i] /\ g[i] = a \o V[i]
      BY <2>1
    <2> QED
      BY <2>2, <2>3, <2>4, <2>5, <2>6
  <1>8. Agree(f, g, n)
    <2> HIDE DEF f, g
    <2> QED
      BY <1>1, <1>6, <1>7, SameSteps
  <1>9. W[m + n] = a \o V[n]
    <2>1. n \in 0..n
      BY <1>1
    <2>2. f[n] = g[n] /\ f[n] = W[m + n] /\ g[n] = a \o V[n]
      BY <1>8, <2>1 DEF Agree
    <2> QED
      BY <2>2
  <1> QED
    BY <1>1, <1>3, <1>4, <1>9 DEF u, a

(* Chosen keeps the order: its elements come from places that increase.    *)
LEMMA ChosenPlaces ==
  ASSUME NEW S, NEW s \in Seq(S), NEW K
  PROVE  \E g \in [1..Len(Chosen(s, K)) -> 1..Len(s)] :
           \A i \in 1..Len(Chosen(s, K)) :
             /\ Chosen(s, K)[i] = s[g[i]] /\ g[i] \in K
             /\ \A j \in 1..Len(Chosen(s, K)) : i < j => g[i] < g[j]
  <1> DEFINE n == Len(s)
             From(r, k, g) == /\ g \in [1..Len(r) -> 1..k]
                              /\ \A i \in 1..Len(r) : r[i] = s[g[i]] /\ g[i] \in K
                              /\ \A i, j \in 1..Len(r) : i < j => g[i] < g[j]
  <1>u. PICK U : ChoosesBy(U, S, s, K)
    BY ChosenSteps
  <1>1. /\ U \in [0..n -> Seq(S)] /\ U[0] = << >> /\ U[n] = Chosen(s, K)
        /\ \A i \in 1..n : U[i] = IF i \in K THEN Append(U[i - 1], s[i]) ELSE U[i - 1]
    BY <1>u DEF ChoosesBy
  <1>2. n \in Nat /\ \A i \in 1..n : s[i] \in S
    BY LenProperties, ElementOfSeq
  <1> HIDE DEF n
  <1> DEFINE P == {k \in Nat : k <= n => \E g : From(U[k], k, g)}
  <1>3. 0 \in P
    <2>1. From(<< >>, 0, << >>)
      OBVIOUS
    <2> HIDE DEF From
    <2> QED
      BY <1>1, <2>1
  <1>4. ASSUME NEW k \in Nat, k \in P, k + 1 <= n
        PROVE  \E g : From(U[k + 1], k + 1, g)
    <2>1. PICK g : From(U[k], k, g)
      BY <1>2, <1>4
    <2>2. k + 1 \in 1..n /\ (k + 1) - 1 = k /\ k \in 0..n /\ U[k] \in Seq(S) /\ s[k + 1] \in S
      BY <1>1, <1>2, <1>4
    <2> DEFINE r == U[k]
    <2>3. Len(r) \in Nat
      BY <2>2, LenProperties
    <2>4. CASE k + 1 \notin K
      <3>1. U[k + 1] = r
        BY <1>1, <2>2, <2>4
      <3>2. From(r, k + 1, g)
        BY <2>1, <2>2, <2>3
      <3> QED
        BY <3>1, <3>2
    <2>5. CASE k + 1 \in K
      <3> DEFINE q == Append(r, s[k + 1])
                 h == [i \in 1..(Len(r) + 1) |-> IF i = Len(r) + 1 THEN k + 1 ELSE g[i]]
      <3>1. U[k + 1] = q
        BY <1>1, <2>2, <2>5
      <3>2. /\ Len(q) = Len(r) + 1 /\ q[Len(r) + 1] = s[k + 1]
            /\ \A i \in 1..Len(r) : q[i] = r[i]
        BY <2>2, AppendProperties
      <3> HIDE DEF q
      <3>3. From(r, k, g)
        BY <2>1
      <3> HIDE DEF r
      <3>4. h \in [1..Len(q) -> 1..(k + 1)]
        BY <2>3, <3>2, <3>3
      <3>5. \A i \in 1..Len(q) : q[i] = s[h[i]] /\ h[i] \in K
        BY <2>3, <2>5, <3>2, <3>3
      <3>6. \A i, j \in 1..Len(q) : i < j => h[i] < h[j]
        <4>1. \A i \in 1..Len(r) : h[i] = g[i] /\ g[i] \in 1..k
          BY <2>3, <3>3
        <4>2. h[Len(r) + 1] = k + 1
          BY <2>3
        <4>3. \A i, j \in 1..Len(r) : i < j => g[i] < g[j]
          BY <3>3
        <4> HIDE DEF h, From
        <4>4. SUFFICES ASSUME NEW i \in 1..Len(q), NEW j \in 1..Len(q), i < j
                       PROVE  h[i] < h[j]
          OBVIOUS
        <4>5. i \in 1..Len(r) /\ (j \in 1..Len(r) \/ j = Len(r) + 1)
          BY <2>3, <3>2, <4>4
        <4>6. h[i] = g[i] /\ g[i] \in 1..k
          BY <4>1, <4>5
        <4> QED
          BY <4>1, <4>2, <4>3, <4>4, <4>5, <4>6
      <3>7. From(q, k + 1, h)
        BY <3>4, <3>5, <3>6
      <3> QED
        BY <3>1, <3>7
    <2> QED
      BY <2>4, <2>5
  <1>5. Nat \subseteq P
    <2>1. \A k \in Nat : k \in P => k + 1 \in P
      <3> HIDE DEF From
      <3> QED
        BY <1>4
    <2> HIDE DEF P
    <2> QED
      BY <1>3, <2>1, InductionOnNat
  <1>6. PICK g : From(Chosen(s, K), n, g)
    <2> HIDE DEF From
    <2> QED
      BY <1>1, <1>2, <1>5
  <1> QED
    BY <1>6 DEF n
-----------------------------------------------------------------------------
(* Numbers                                                                 *)

(* A power of two is at least its exponent, and not 0.                     *)
LEMMA PowersGrow ==
  \A n \in Nat : PowerOfTwo[n] \in Nat \ {0} /\ PowerOfTwo[n] >= n
  <1> DEFINE step == [a \in Nat \X Nat |-> 2 * a[2]]
             double(G) == [i \in Nat |-> IF i = 0 THEN 1 ELSE 2 * G[i - 1]]
             P == {n \in Nat : PowerOfTwo[n] \in Nat \ {0} /\ PowerOfTwo[n] >= n}
  <1>1. PICK F : Iterates(F, Nat, 1, step)
    <2>1. step \in [Nat \X Nat -> Nat] /\ 1 \in Nat
      OBVIOUS
    <2> HIDE DEF step
    <2> QED
      BY <2>1, Recursion
  <1>2. F \in [Nat -> Nat] /\ F[0] = 1 /\ \A n \in Nat : F[n + 1] = 2 * F[n]
    BY <1>1 DEF Iterates
  <1>3. F = double(F)
    <2>1. \A n \in Nat \ {0} : n - 1 \in Nat /\ (n - 1) + 1 = n
      OBVIOUS
    <2>2. \A n \in Nat \ {0} : F[n] = 2 * F[n - 1]
      BY <1>2, <2>1
    <2> QED
      BY <1>2, <2>2
  <1>4. PowerOfTwo = double(PowerOfTwo)
    <2> HIDE DEF double
    <2>1. PowerOfTwo = CHOOSE f : f = double(f)
      BY DEF PowerOfTwo, double
    <2> QED
      BY <1>3, <2>1
  <1>5. PowerOfTwo[0] = 1 /\ \A n \in Nat : PowerOfTwo[n + 1] = 2 * PowerOfTwo[n]
    <2>1. \A n \in Nat : double(PowerOfTwo)[n + 1] = 2 * PowerOfTwo[n]
      <3>1. \A n \in Nat : n + 1 \in Nat /\ n + 1 # 0 /\ (n + 1) - 1 = n
        OBVIOUS
      <3> QED
        BY <3>1
    <2>2. double(PowerOfTwo)[0] = 1
      OBVIOUS
    <2> HIDE DEF double
    <2> QED
      BY <1>4, <2>1, <2>2
  <1>6. 0 \in P
    BY <1>5
  <1>7. ASSUME NEW n \in Nat, n \in P
        PROVE  n + 1 \in P
    BY <1>5, <1>7
  <1>8. Nat \subseteq P
    <2> HIDE DEF P
    <2> QED
      BY <1>6, <1>7, InductionOnNat
  <1> QED
    BY <1>8

(* The channel holds at least one batch.                                   *)
LEMMA CapacityType == Capacity \in Nat \ {0}
  <1> DEFINE big == {p \in {PowerOfTwo[i] : i \in 0..QueueSize} : p >= QueueSize}
  <1>1. QueueSize \in Nat
    BY ReForwarderAssumption DEF ReForwarderAssumption
  <1>2. big \in SUBSET Nat /\ big # {}
    <2>1. PowerOfTwo[QueueSize] \in big
      BY <1>1, PowersGrow
    <2> QED
      BY <1>1, <2>1, PowersGrow
  <1>3. \E p \in big : \A q \in big : p <= q
    <2> HIDE DEF big
    <2> QED
      BY <1>2, LeastNumber
  <1>4. \E p \in {PowerOfTwo[i] : i \in 0..QueueSize} :
           /\ p >= QueueSize
           /\ \A i \in 0..QueueSize : PowerOfTwo[i] >= QueueSize => p <= PowerOfTwo[i]
    BY <1>3
  <1>5. Capacity \in {PowerOfTwo[i] : i \in 0..QueueSize}
    BY <1>4 DEF Capacity
  <1> QED
    BY <1>1, <1>5, PowersGrow

-----------------------------------------------------------------------------
(* Types                                                                   *)

TypeInv == RfTypeOK /\ next \in [Downstreams -> Nat]

(* What forward() makes of a batch: traces of that batch, in their order.  *)
LEMMA TracesOfFacts ==
  ASSUME NEW b \in Batches, NEW n \in Nat
  PROVE  /\ TracesOf(b, n) \in Seq(TraceType)
         /\ DOMAIN TracesOf(b, n) = 1..Len(b) /\ Len(TracesOf(b, n)) = Len(b)
         /\ \A i \in 1..Len(b) : TracesOf(b, n)[i].batch = n /\ TracesOf(b, n)[i].place = i
  <1>1. b \in Seq(Seq(STRING))
    BY ReForwarderAssumption DEF ReForwarderAssumption
  <1>2. Len(b) \in Nat /\ DOMAIN b = 1..Len(b)
    BY <1>1, LenProperties
  <1> DEFINE ts == TracesOf(b, n)
  <1>3. ts = [i \in 1..Len(b) |-> [batch |-> n, place |-> i, namespace |-> b[i]]]
    BY <1>2 DEF TracesOf
  <1>4. \A i \in 1..Len(b) : b[i] \in UNION {Range(c) : c \in Batches}
    BY <1>2 DEF Range
  <1>5. \A i \in 1..Len(b) : ts[i] \in TraceType /\ ts[i].batch = n /\ ts[i].place = i
    BY <1>2, <1>3, <1>4 DEF TraceType
  <1> HIDE DEF ts
  <1>6. ts \in [1..Len(b) -> TraceType]
    BY <1>3, <1>5
  <1>7. ts \in Seq(TraceType) /\ Len(ts) = Len(b) /\ DOMAIN ts = 1..Len(b)
    BY <1>2, <1>6
  <1> QED
    BY <1>5, <1>7 DEF ts

(* Filtering keeps the type.                                               *)
LEMMA MatchingType ==
  ASSUME NEW S, NEW s \in Seq(S)
  PROVE  Matching(s) \in Seq(S)
  BY ChosenType DEF Matching

(* Where a receiver that lags is put.                                      *)
LEMMA OldestType ==
  ASSUME RfTypeOK
  PROVE  Oldest \in 1..(Len(sent) + 1) /\ Len(sent) \in Nat
  <1>1. Len(sent) \in Nat
    BY LenProperties DEF RfTypeOK
  <1> QED
    BY <1>1, CapacityType DEF Oldest

(* Every variable starts with its type.                                    *)
LEMMA TypeInit == RfInit => TypeInv
  <1> SUFFICES ASSUME RfInit PROVE TypeInv
    OBVIOUS
  <1>1. QueueSize \in Nat
    BY ReForwarderAssumption DEF ReForwarderAssumption
  <1>2. Len(<< >>) = 0
    OBVIOUS
  <1>3. stopped \in BOOLEAN /\ lost \in Seq(TraceType) /\ went \in Seq(TraceType)
    BY EmptySeq DEF RfInit
  <1> QED
    BY <1>1, <1>2, <1>3 DEF RfInit, TypeInv, RfTypeOK

(* forward()                                                               *)
LEMMA TypeForward ==
  ASSUME TypeInv, NEW t \in Tasks, NEW b \in Batches, Forward(t, b)
  PROVE  TypeInv'
  <1> DEFINE traces == TracesOf(b, Len(handled) + 1)
             filtered == Matching(traces)
             call == [by |-> t, traces |-> traces]
  <1>1. Len(handled) + 1 \in Nat
    BY LenProperties DEF TypeInv, RfTypeOK
  <1>2. traces \in Seq(TraceType) /\ filtered \in Seq(TraceType)
    BY <1>1, TracesOfFacts, MatchingType
  <1>3. /\ handled' = Append(handled, call)
        /\ \/ todo' = [todo EXCEPT ![t] = filtered] /\ UNCHANGED sent
           \/ sent' = Append(sent, filtered) /\ filtered # << >> /\ UNCHANGED todo
           \/ UNCHANGED <<sent, todo>>
        /\ UNCHANGED <<mode, aborted, queue, went, stopped, lost, connVars>>
    BY DEF Forward
  <1>4. call \in [by : Tasks, traces : Seq(TraceType)]
    BY <1>2
  <1> HIDE DEF traces, filtered, call
  <1>5. handled' \in Seq([by : Tasks, traces : Seq(TraceType)])
    BY <1>3, <1>4, AppendProperties DEF TypeInv, RfTypeOK
  <1>6. todo' \in [Tasks -> Seq(TraceType)]
    BY <1>2, <1>3 DEF TypeInv, RfTypeOK
  <1>7. /\ sent' \in Seq(Seq(TraceType) \ {<< >>})
        /\ Len(sent) \in Nat /\ Len(sent') \in Nat /\ Len(sent') >= Len(sent)
    <2> DEFINE T == Seq(TraceType) \ {<< >>}
    <2>1. sent \in Seq(T) /\ (filtered # << >> => filtered \in T)
      BY <1>2 DEF TypeInv, RfTypeOK
    <2> HIDE DEF T
    <2>2. sent' \in Seq(T) /\ Len(sent) \in Nat /\ (sent' = sent \/ Len(sent') = Len(sent) + 1)
      BY <1>3, <2>1, AppendProperties, LenProperties
    <2> QED
      BY <2>2 DEF T
  <1>8. \A d \in Downstreams : next'[d] \in 1..(Len(sent') + 1)
    BY <1>3, <1>7 DEF TypeInv, RfTypeOK, connVars
  <1> QED
    BY <1>3, <1>5, <1>6, <1>7, <1>8 DEF TypeInv, RfTypeOK, connVars

(* The tasks that wait, and the forwarder.                                 *)
LEMMA TypeOutbound ==
  ASSUME TypeInv, ForwarderTakes \/ ForwarderStops \/ \E t \in Tasks : Outbound(t)
  PROVE  TypeInv'
  <1>1. ASSUME NEW t \in Tasks, SendNext(t)
        PROVE  TypeInv'
    <2>1. todo[t] \in Seq(TraceType) /\ queue \in Seq(TraceType)
      BY DEF TypeInv, RfTypeOK
    <2>2. Head(todo[t]) \in TraceType /\ Tail(todo[t]) \in Seq(TraceType)
      BY <1>1, <2>1, HeadTailProperties DEF SendNext
    <2>3. /\ Append(queue, Head(todo[t])) \in Seq(TraceType)
          /\ Len(Append(queue, Head(todo[t]))) = Len(queue) + 1
      BY <2>1, <2>2, AppendProperties
    <2>4. Len(queue) + 1 <= QueueSize
      <3>1. Len(queue) \in Nat /\ QueueSize \in Nat /\ Len(queue) < QueueSize
        BY <1>1, <2>1, LenProperties, ReForwarderAssumption
        DEF SendNext, ReForwarderAssumption
      <3> QED
        BY <3>1
    <2> QED
      BY <1>1, <2>2, <2>3, <2>4 DEF SendNext, TypeInv, RfTypeOK, connVars
  <1>2. ASSUME NEW t \in Tasks, Abort(t)
        PROVE  TypeInv'
    BY <1>2, EmptySeq DEF Abort, TypeInv, RfTypeOK, connVars
  <1>3. CASE ForwarderTakes
    <2>1. /\ Head(queue) \in TraceType /\ Tail(queue) \in Seq(TraceType)
          /\ Len(Tail(queue)) = Len(queue) - 1 /\ Len(queue) \in Nat /\ QueueSize \in Nat
      BY <1>3, HeadTailProperties, LenProperties, ReForwarderAssumption
      DEF ForwarderTakes, TypeInv, RfTypeOK, ReForwarderAssumption
    <2>2. Append(went, Head(queue)) \in Seq(TraceType)
      BY <2>1, AppendProperties DEF TypeInv, RfTypeOK
    <2>3. Len(Tail(queue)) <= QueueSize
      <3> DEFINE n == Len(queue)
                 m == Len(Tail(queue))
      <3>1. n \in Nat /\ m = n - 1 /\ n <= QueueSize /\ QueueSize \in Nat
        BY <2>1 DEF TypeInv, RfTypeOK
      <3> HIDE DEF n, m
      <3>2. m <= QueueSize
        BY <3>1
      <3> QED
        BY <3>2 DEF m
    <2> QED
      BY <1>3, <2>1, <2>2, <2>3 DEF ForwarderTakes, TypeInv, RfTypeOK, connVars
  <1>4. CASE ForwarderStops
    <2>1. << >> \in Seq(TraceType) /\ Len(<< >>) <= QueueSize
      BY EmptySeq, ReForwarderAssumption DEF ReForwarderAssumption
    <2> QED
      BY <1>4, <2>1 DEF ForwarderStops, TypeInv, RfTypeOK, connVars
  <1>5. ASSUME NEW t \in Tasks, SendFails(t)
        PROVE  TypeInv'
    <2>1. todo[t] \in Seq(TraceType) /\ lost \in Seq(TraceType)
      BY DEF TypeInv, RfTypeOK
    <2>2. Head(todo[t]) \in TraceType /\ Tail(todo[t]) \in Seq(TraceType)
      BY <1>5, <2>1, HeadTailProperties DEF SendFails
    <2>3. Append(lost, Head(todo[t])) \in Seq(TraceType)
      BY <2>1, <2>2, AppendProperties
    <2> QED
      BY <1>5, <2>2, <2>3 DEF SendFails, TypeInv, RfTypeOK, connVars
  <1> QED
    BY <1>1, <1>2, <1>3, <1>4, <1>5 DEF Outbound

(* The downstream, and a handler before it receives.                       *)
LEMMA TypeConnections ==
  ASSUME TypeInv, NEW d \in Downstreams,
         \/ Accept(d) \/ HandshakeDone(d) \/ HandshakeFails(d) \/ Break(d)
         \/ \E n \in RequestCounts \cup {Done} : Ask(d, n)
  PROVE  TypeInv'
  <1>1. CASE Accept(d)
    <2>1. Len(handled) \in Nat /\ Len(sent) \in Nat
      BY LenProperties DEF TypeInv, RfTypeOK
    <2>2. Len(sent) + 1 \in 1..(Len(sent) + 1)
      BY <2>1
    <2>3. next' \in [Downstreams -> Nat] /\ \A e \in Downstreams : next'[e] \in 1..(Len(sent') + 1)
      BY <1>1, <2>1, <2>2 DEF Accept, TypeInv, RfTypeOK
    <2> QED
      BY <1>1, <2>1, <2>3 DEF Accept, TypeInv, RfTypeOK, outVars
  <1>2. CASE HandshakeDone(d) \/ Break(d)
    BY <1>2 DEF HandshakeDone, Break, TypeInv, RfTypeOK, outVars
  <1>3. CASE HandshakeFails(d)
    BY <1>3, EmptySeq DEF HandshakeFails, Ends, TypeInv, RfTypeOK, outVars
  <1>4. CASE \E n \in RequestCounts \cup {Done} : Ask(d, n)
    BY <1>4 DEF Ask, TypeInv, RfTypeOK, outVars
  <1> QED
    BY <1>1, <1>2, <1>3, <1>4

(* A receiver gets a batch or an error.                                    *)
LEMMA TypeRecv ==
  ASSUME TypeInv, NEW d \in Downstreams, UNCHANGED sent,
         TakeBatch(d) \/ (SkipToOldest(d) /\ UNCHANGED hand)
  PROVE  /\ next' \in [Downstreams -> Nat]
         /\ \A e \in Downstreams : next'[e] \in 1..(Len(sent') + 1)
         /\ hand' \in [Downstreams -> Seq(TraceType)]
         /\ hurt' \in [Downstreams -> SUBSET {"lag", "cut", "break"}]
  <1>1. /\ Len(sent) \in Nat /\ next[d] \in Nat \ {0}
        /\ \A e \in Downstreams : next[e] \in 1..(Len(sent) + 1)
    BY LenProperties DEF TypeInv, RfTypeOK
  <1>2. CASE TakeBatch(d)
    <2>1. sent[next[d]] \in Seq(TraceType) /\ hand[d] \in Seq(TraceType)
      <3> DEFINE T == Seq(TraceType) \ {<< >>}
      <3>1. sent \in Seq(T) /\ next[d] \in 1..Len(sent)
        BY <1>1, <1>2 DEF TakeBatch, TypeInv, RfTypeOK
      <3> HIDE DEF T
      <3>2. sent[next[d]] \in T
        BY <3>1, ElementOfSeq
      <3> QED
        BY <3>2 DEF T, TypeInv, RfTypeOK
    <2>2. hand[d] \o sent[next[d]] \in Seq(TraceType)
      BY <2>1, ConcatProperties
    <2>3. next[d] + 1 \in 1..(Len(sent) + 1)
      BY <1>1, <1>2 DEF TakeBatch
    <2> QED
      BY SMTT(60), <1>1, <1>2, <2>2, <2>3 DEF TakeBatch, TypeInv, RfTypeOK
  <1>3. CASE SkipToOldest(d) /\ UNCHANGED hand
    <2>1. /\ next' = [next EXCEPT ![d] = Oldest] /\ Oldest \in 1..(Len(sent) + 1)
          /\ hurt' = [hurt EXCEPT ![d] = hurt[d] \cup {"lag"}]
      BY <1>3, OldestType DEF SkipToOldest, TypeInv
    <2>2. Oldest \in Nat
      BY <1>1, <2>1
    <2> QED
      BY <1>1, <1>3, <2>1, <2>2 DEF TypeInv, RfTypeOK
  <1> QED
    BY <1>2, <1>3

(* The handler of a downstream.                                            *)
LEMMA TypeHandler ==
  ASSUME TypeInv, NEW d \in Downstreams, DownstreamHandler(d)
  PROVE  TypeInv'
  <1>1. CASE Receive(d)
    BY <1>1, TypeRecv DEF Receive, TakeBatch, SkipToOldest, TypeInv, RfTypeOK, outVars
  <1>2. CASE Drain(d)
    BY <1>2, TypeRecv DEF Drain, TakeBatch, SkipToOldest, TypeInv, RfTypeOK, outVars
  <1>3. CASE Answer(d)
    <2> DEFINE k == Min({asked[d], Len(hand[d])})
    <2>1. /\ got[d] \in Seq(TraceType) /\ hand[d] \in Seq(TraceType)
          /\ asked[d] \in Nat /\ Len(hand[d]) \in Nat
      BY <1>3, LenProperties, ReForwarderAssumption
      DEF Answer, TypeInv, RfTypeOK, ReForwarderAssumption
    <2>2. k \in 0..Len(hand[d])
      <3>1. \E x \in {asked[d], Len(hand[d])} : \A y \in {asked[d], Len(hand[d])} : x <= y
        BY <2>1
      <3>2. k \in {asked[d], Len(hand[d])} /\ k <= Len(hand[d])
        BY <3>1 DEF Min
      <3> QED
        BY <2>1, <3>2
    <2> HIDE DEF k
    <2>3. got[d] \o SubSeq(hand[d], 1, k) \in Seq(TraceType)
      BY <2>1, <2>2, SubSeqType, ConcatProperties
    <2>4. got' = [got EXCEPT ![d] = got[d] \o SubSeq(hand[d], 1, k)]
      BY <1>3 DEF Answer, k
    <2>5. got' \in [Downstreams -> Seq(TraceType)]
      BY <2>3, <2>4 DEF TypeInv, RfTypeOK
    <2> QED
      BY <1>3, <2>5, EmptySeq DEF Answer, Cut, TypeInv, RfTypeOK, outVars
  <1>4. CASE AnswerUnread(d) \/ Leave(d)
    <2>1. /\ hpc' \in {[hpc EXCEPT ![d] = "ended"], [hpc EXCEPT ![d] = "receiving"]}
          /\ hand' = [hand EXCEPT ![d] = << >>] /\ asked' = [asked EXCEPT ![d] = None]
          /\ hurt' = [hurt EXCEPT ![d] = hurt[d] \cup {"break"}]
          /\ UNCHANGED <<mode, handled, outVars, sent, link, next, got, joined>>
      BY <1>4 DEF AnswerUnread, Leave, Ends
    <2>2. << >> \in Seq(TraceType)
      BY EmptySeq
    <2>3. hurt' \in [Downstreams -> SUBSET {"lag", "cut", "break"}]
      BY <2>1 DEF TypeInv, RfTypeOK
    <2>4. /\ hpc' \in [Downstreams -> {"none", "handshake", "receiving", "draining",
                                       "answering", "ended"}]
          /\ hand' \in [Downstreams -> Seq(TraceType)]
          /\ asked' \in [Downstreams -> RequestCounts \cup {None, Done}]
      BY <2>1, <2>2 DEF TypeInv, RfTypeOK
    <2> QED
      BY <2>1, <2>3, <2>4 DEF TypeInv, RfTypeOK, outVars
  <1> QED
    BY <1>1, <1>2, <1>3, <1>4 DEF DownstreamHandler

(* Every step keeps the types.                                             *)
LEMMA TypeStep == TypeInv /\ [RfNext]_rfVars => TypeInv'
  <1> SUFFICES ASSUME TypeInv, [RfNext]_rfVars PROVE TypeInv'
    OBVIOUS
  <1>1. CASE UNCHANGED rfVars
    BY <1>1 DEF rfVars, outVars, connVars, TypeInv, RfTypeOK
  <1>2. CASE RfNext
    BY <1>2, TypeForward, TypeOutbound, TypeConnections, TypeHandler DEF RfNext
  <1> QED
    BY <1>1, <1>2

(* Every variable of the re-forwarder keeps its type, the bound of the     *)
(* forwarder's queue and the range of every receiver's cursor included.    *)
THEOREM ReForwarderTypes == RfSpec => []RfTypeOK
  <1>1. TypeInv => RfTypeOK
    BY DEF TypeInv
  <1> QED
    BY TypeInit, TypeStep, <1>1, PTL DEF RfSpec

-----------------------------------------------------------------------------
(* The invariants                                                          *)

Ordered(s) == \A i, j \in DOMAIN s : i < j => Before(s[i], s[j])

Precedes(s, t) == \A i \in DOMAIN s, j \in DOMAIN t : Before(s[i], t[j])

(* Traces of the first k batches that forward() was called with.           *)
FromCalls(s, k) == \A i \in DOMAIN s : s[i].batch \in 1..k

(* The broadcast batches are in order, each and one after the other.       *)
SentInv ==
  /\ \A n \in DOMAIN sent : Ordered(sent[n]) /\ FromCalls(sent[n], Len(handled))
  /\ \A m, n \in DOMAIN sent : m < n => Precedes(sent[m], sent[n])

(* What a downstream holds comes before what its receiver has yet to take. *)
HeldInv ==
  \A d \in Downstreams :
    /\ Ordered(Held(d)) /\ FromCalls(Held(d), Len(handled))
    /\ \A n \in DOMAIN sent : next[d] <= n => Precedes(Held(d), sent[n])

(* t has all the traces of s or none of them.                              *)
Whole(s, t) == Range(s) \cap Range(t) # {} => Range(s) \subseteq Range(t)

(* A lag skips batches, and only a small request divides them.             *)
WholeInv ==
  \A d \in Downstreams : "cut" \notin hurt[d] =>
    \A n \in DOMAIN sent : Whole(sent[n], got[d]) /\ Whole(sent[n], hand[d])

(* A downstream that has not connected has nothing, and none connects to a *)
(* re-forwarder that dials out.                                            *)
JoinInv ==
  \A d \in Downstreams :
    /\ joined[d] \in 0..Len(handled)
    /\ link[d] = "unused" => hpc[d] = "none" /\ got[d] = << >> /\ hand[d] = << >>
    /\ mode = "Outbound" => hpc[d] = "none"

TracesOfCalls(calls) == FlattenSeq([i \in DOMAIN calls |-> calls[i].traces])

(* The calls of forward() after the first k.                               *)
Since(k) == SubSeq(handled, k + 1, Len(handled))

(* The batches the receiver of a downstream has yet to take.               *)
Left(d) == SubSeq(sent, next[d], Len(sent))

(* A downstream that has missed nothing has, or will get, all that matches.*)
OwedInv ==
  \A d \in Downstreams : hpc[d] \notin {"none", "ended"} /\ hurt[d] = {} =>
    Held(d) \o FlattenSeq(Left(d)) = Matching(TracesOfCalls(Since(joined[d])))

(* The traces of s that task t had forwarded.                              *)
By(t, s) == Chosen(s, {i \in DOMAIN s : handled[s[i].batch].by = t})

(* What was sent: what the forwarder took, what it will take, and what was *)
(* sent to it in vain.                                                     *)
Taken == (went \o queue) \o lost

CallsOf(t) == Chosen(handled, {i \in DOMAIN handled : handled[i].by = t})

Begins(s, t) == Len(s) <= Len(t) /\ \A i \in 1..Len(s) : s[i] = t[i]

(* All that task t has to forward.                                         *)
All(t) == Matching(TracesOfCalls(CallsOf(t)))

(* A task's traces stand in line: those that were sent, then those it has  *)
(* yet to send.                                                            *)
Line(t) == By(t, Taken) \o todo[t]

LineInv ==
  mode = "Outbound" =>
    /\ FromCalls(Taken, Len(handled))
    /\ ~stopped => lost = << >>
    /\ stopped => queue = << >>
    /\ \A t \in Tasks :
         /\ FromCalls(todo[t], Len(handled))
         /\ \A i \in DOMAIN todo[t] : handled[todo[t][i].batch].by = t
         /\ Ordered(Line(t))
         /\ Begins(Line(t), All(t))
         /\ t \notin aborted => Line(t) = All(t)

-----------------------------------------------------------------------------
(* Sequences in order                                                      *)

(* A sequence in order stays so when it loses its end.                     *)
LEMMA OrderedPrefix ==
  ASSUME NEW S, NEW s \in Seq(S), NEW t \in Seq(S), Len(s) <= Len(t),
         \A i \in 1..Len(s) : s[i] = t[i]
  PROVE  /\ Ordered(t) => Ordered(s)
         /\ \A k : FromCalls(t, k) => FromCalls(s, k)
         /\ \A u : Precedes(t, u) => Precedes(s, u)
  <1>1. /\ DOMAIN s = 1..Len(s) /\ DOMAIN t = 1..Len(t)
        /\ Len(s) \in Nat /\ Len(t) \in Nat
    BY LenProperties
  <1>2. DOMAIN s \subseteq DOMAIN t
    BY <1>1
  <1> QED
    BY <1>1, <1>2 DEF Ordered, FromCalls, Precedes

(* Two sequences in a row.                                                 *)
LEMMA OrderedConcat ==
  ASSUME NEW S, NEW s \in Seq(S), NEW t \in Seq(S)
  PROVE  /\ Ordered(s) /\ Ordered(t) /\ Precedes(s, t) => Ordered(s \o t)
         /\ \A k : FromCalls(s, k) /\ FromCalls(t, k) => FromCalls(s \o t, k)
         /\ \A u : Precedes(s, u) /\ Precedes(t, u) => Precedes(s \o t, u)
         /\ \A k : FromCalls(s \o t, k) => FromCalls(s, k) /\ FromCalls(t, k)
  <1> DEFINE m == Len(s)
             n == Len(t)
             c == s \o t
  <1>1. /\ m \in Nat /\ n \in Nat /\ DOMAIN s = 1..m /\ DOMAIN t = 1..n
        /\ c \in Seq(S) /\ Len(c) = m + n
        /\ \A i \in 1..(m + n) : c[i] = IF i <= m THEN s[i] ELSE t[i - m]
    BY LenProperties, ConcatProperties
  <1>2. DOMAIN c = 1..(m + n)
    BY <1>1, LenProperties
  <1> HIDE DEF m, n, c
  <1>3. /\ \A i \in DOMAIN s : i \in DOMAIN c /\ c[i] = s[i]
        /\ \A i \in DOMAIN t : m + i \in DOMAIN c /\ c[m + i] = t[i]
    <2>1. \A i \in 1..m : i \in 1..(m + n) /\ c[i] = s[i]
      BY <1>1
    <2>2. ASSUME NEW i \in 1..n
          PROVE  m + i \in 1..(m + n) /\ c[m + i] = t[i]
      <3>1. m + i \in 1..(m + n) /\ ~(m + i <= m) /\ (m + i) - m = i
        BY <1>1
      <3>2. c[m + i] = t[(m + i) - m]
        BY <1>1, <3>1
      <3> QED
        BY <3>1, <3>2
    <2> QED
      BY <1>1, <1>2, <2>1, <2>2
  <1>4. \A i \in DOMAIN c : \/ i \in DOMAIN s /\ c[i] = s[i]
                            \/ i - m \in DOMAIN t /\ c[i] = t[i - m] /\ ~(i \in DOMAIN s)
    BY <1>1, <1>2
  <1>5. ASSUME Ordered(s), Ordered(t), Precedes(s, t)
        PROVE  Ordered(c)
    <2>1. SUFFICES ASSUME NEW i \in DOMAIN c, NEW j \in DOMAIN c, i < j
                   PROVE  Before(c[i], c[j])
      BY DEF Ordered
    <2>2. CASE i \in DOMAIN s /\ j \in DOMAIN s
      BY <1>3, <1>5, <2>1, <2>2 DEF Ordered
    <2>3. CASE i \in DOMAIN s /\ j \notin DOMAIN s
      BY <1>3, <1>4, <1>5, <2>1, <2>3 DEF Precedes
    <2>4. CASE i \notin DOMAIN s
      <3>1. j \notin DOMAIN s
        BY <1>1, <1>2, <2>1, <2>4
      <3>2. /\ i - m \in DOMAIN t /\ j - m \in DOMAIN t
            /\ c[i] = t[i - m] /\ c[j] = t[j - m]
        BY <1>4, <2>1, <2>4, <3>1
      <3>3. i - m < j - m
        BY <1>1, <1>2, <2>1
      <3> QED
        BY <1>5, <3>2, <3>3 DEF Ordered
    <2> QED
      BY <2>2, <2>3, <2>4
  <1>6. \A k : FromCalls(s, k) /\ FromCalls(t, k) => FromCalls(c, k)
    BY <1>4 DEF FromCalls
  <1>7. \A u : Precedes(s, u) /\ Precedes(t, u) => Precedes(c, u)
    BY <1>4 DEF Precedes
  <1>8. \A k : FromCalls(c, k) => FromCalls(s, k) /\ FromCalls(t, k)
    BY <1>3 DEF FromCalls
  <1> QED
    BY <1>5, <1>6, <1>7, <1>8 DEF c

(* What is chosen from a sequence in order is in order.                    *)
LEMMA OrderedChosen ==
  ASSUME NEW S, NEW s \in Seq(S), NEW K
  PROVE  /\ \A i \in DOMAIN Chosen(s, K) : \E j \in DOMAIN s \cap K : Chosen(s, K)[i] = s[j]
         /\ Ordered(s) => Ordered(Chosen(s, K))
  <1> DEFINE r == Chosen(s, K)
  <1>1. /\ DOMAIN s = 1..Len(s) /\ DOMAIN r = 1..Len(r)
    BY LenProperties, ChosenType
  <1>2. PICK g \in [1..Len(r) -> 1..Len(s)] :
          \A i \in 1..Len(r) :
            /\ r[i] = s[g[i]] /\ g[i] \in K
            /\ \A j \in 1..Len(r) : i < j => g[i] < g[j]
    BY ChosenPlaces
  <1> HIDE DEF r
  <1>3. \A i \in DOMAIN r : \E j \in DOMAIN s \cap K : r[i] = s[j]
    BY <1>1, <1>2
  <1>4. Ordered(s) => Ordered(r)
    BY <1>1, <1>2 DEF Ordered
  <1> QED
    BY <1>3, <1>4 DEF r

(* What is in order without repetition is an increasing sequence.          *)
LEMMA OrderedIncreasing ==
  ASSUME NEW S, NEW s \in Seq(S), Ordered(s)
  PROVE  Increasing(s)
  <1>1. DOMAIN s = 1..Len(s) /\ Len(s) \in Nat
    BY LenProperties
  <1> DEFINE n == Len(s)
  <1> HIDE DEF n
  <1>2. \A i \in 1..(n - 1) : i \in 1..n /\ i + 1 \in 1..n /\ i < i + 1
    BY <1>1 DEF n
  <1> QED
    BY <1>1, <1>2 DEF Ordered, Increasing, n

(* The types of what a downstream holds and of the broadcast batches.      *)
LEMMA HeldTypes ==
  ASSUME TypeInv
  PROVE  /\ \A d \in Downstreams : /\ Held(d) \in Seq(TraceType)
                                   /\ got[d] \in Seq(TraceType) /\ hand[d] \in Seq(TraceType)
         /\ \A n \in DOMAIN sent : sent[n] \in Seq(TraceType) /\ sent[n] # << >>
         /\ DOMAIN sent = 1..Len(sent) /\ Len(sent) \in Nat
         /\ Len(handled) \in Nat
  <1>1. ASSUME NEW d \in Downstreams
        PROVE  Held(d) \in Seq(TraceType) /\ got[d] \in Seq(TraceType) /\ hand[d] \in Seq(TraceType)
    <2>1. got[d] \in Seq(TraceType) /\ hand[d] \in Seq(TraceType)
      BY DEF TypeInv, RfTypeOK
    <2> QED
      BY <2>1, ConcatProperties DEF Held
  <1> DEFINE T == Seq(TraceType) \ {<< >>}
  <1>2. sent \in Seq(T)
    BY DEF TypeInv, RfTypeOK
  <1>3. Len(handled) \in Nat
    BY LenProperties DEF TypeInv, RfTypeOK
  <1>4. DOMAIN sent = 1..Len(sent) /\ Len(sent) \in Nat /\ \A n \in DOMAIN sent : sent[n] \in T
    <2> HIDE DEF T
    <2> QED
      BY <1>2, LenProperties, ElementOfSeq
  <1> QED
    BY <1>1, <1>3, <1>4

-----------------------------------------------------------------------------
(* Downstreams get traces in order                                         *)

OrderInv == SentInv /\ HeldInv

(* At first nothing is sent or held.                                       *)
LEMMA OrderInit == RfInit => OrderInv
  <1> SUFFICES ASSUME RfInit PROVE OrderInv
    OBVIOUS
  <1>1. sent = << >> /\ DOMAIN sent = {} /\ \A d \in Downstreams : Held(d) = << >> /\ DOMAIN Held(d) = {}
    <2>1. << >> \o << >> = << >>
      BY EmptySeq, ConcatEmptySeq
    <2> QED
      BY <2>1 DEF RfInit, Held
  <1> QED
    BY <1>1 DEF OrderInv, SentInv, HeldInv, Ordered, FromCalls

(* Nothing is forwarded, broadcast or received; cursors may advance.       *)
LEMMA OrderKept ==
  ASSUME TypeInv, TypeInv', OrderInv, UNCHANGED <<handled, sent>>,
         \A d \in Downstreams :
           /\ next[d] <= next'[d]
           /\ Len(Held(d)') <= Len(Held(d))
           /\ \A i \in 1..Len(Held(d)') : Held(d)'[i] = Held(d)[i]
  PROVE  OrderInv'
  <1>1. SentInv'
    BY DEF OrderInv, SentInv, FromCalls
  <1>2. ASSUME NEW d \in Downstreams
        PROVE  /\ Ordered(Held(d)') /\ FromCalls(Held(d)', Len(handled))
               /\ \A n \in DOMAIN sent : next'[d] <= n => Precedes(Held(d)', sent[n])
    <2> DEFINE h == Held(d)
               k == Held(d)'
    <2>1. h \in Seq(TraceType)
      BY HeldTypes
    <2>2. k \in Seq(TraceType)
      <3>1. got'[d] \in Seq(TraceType) /\ hand'[d] \in Seq(TraceType)
        BY DEF TypeInv, RfTypeOK
      <3> QED
        BY <3>1, ConcatProperties DEF Held
    <2>3. Len(k) <= Len(h) /\ \A i \in 1..Len(k) : k[i] = h[i]
      OBVIOUS
    <2>4. Ordered(h) /\ FromCalls(h, Len(handled)) /\ \A n \in DOMAIN sent : next[d] <= n => Precedes(h, sent[n])
      BY DEF OrderInv, HeldInv
    <2>5. \A n \in DOMAIN sent : next'[d] <= n => next[d] <= n
      <3>1. next[d] \in Nat /\ next'[d] \in Nat /\ next[d] <= next'[d] /\ DOMAIN sent \subseteq Nat
        BY HeldTypes DEF TypeInv
      <3> QED
        BY <3>1
    <2> HIDE DEF h, k
    <2>6. Ordered(k) /\ FromCalls(k, Len(handled)) /\ \A u : Precedes(h, u) => Precedes(k, u)
      BY <2>1, <2>2, <2>3, <2>4, OrderedPrefix
    <2> QED
      BY <2>4, <2>5, <2>6 DEF k
  <1>3. HeldInv'
    BY <1>2 DEF HeldInv, FromCalls
  <1> QED
    BY <1>1, <1>3 DEF OrderInv

(* A receiver takes the batch its cursor is at.                            *)
LEMMA OrderTake ==
  ASSUME TypeInv, OrderInv, NEW d \in Downstreams, TakeBatch(d),
         UNCHANGED <<handled, sent, got>>
  PROVE  OrderInv'
  <1> DEFINE n == next[d]
             h == Held(d)
             b == sent[n]
  <1>1. SentInv'
    BY DEF OrderInv, SentInv, FromCalls
  <1>2. /\ n \in DOMAIN sent /\ n \in Nat /\ b \in Seq(TraceType) /\ h \in Seq(TraceType)
        /\ next' = [next EXCEPT ![d] = n + 1]
        /\ hand' = [hand EXCEPT ![d] = hand[d] \o b]
    BY SMTT(60), HeldTypes DEF TakeBatch, TypeInv, RfTypeOK
  <1>3. Held(d)' = h \o b
    <2>1. got[d] \in Seq(TraceType) /\ hand[d] \in Seq(TraceType)
      BY HeldTypes
    <2>2. Held(d)' = got[d] \o (hand[d] \o b)
      BY <1>2 DEF Held, TypeInv, RfTypeOK
    <2>3. got[d] \o (hand[d] \o b) = (got[d] \o hand[d]) \o b
      <3> DEFINE x == got[d]
                 y == hand[d]
      <3>1. x \in Seq(TraceType) /\ y \in Seq(TraceType) /\ b \in Seq(TraceType)
        BY <1>2, <2>1
      <3> HIDE DEF b, x, y
      <3>2. x \o (y \o b) = (x \o y) \o b
        BY SMTT(30), <3>1, ConcatAssociative
      <3> QED
        BY <3>2 DEF x, y
    <2> QED
      BY <2>2, <2>3 DEF Held
  <1>4. \A e \in Downstreams \ {d} : Held(e)' = Held(e) /\ next'[e] = next[e]
    BY <1>2 DEF Held, TypeInv, RfTypeOK
  <1>5. /\ Ordered(h) /\ FromCalls(h, Len(handled)) /\ Ordered(b) /\ FromCalls(b, Len(handled)) /\ Precedes(h, b)
        /\ \A m \in DOMAIN sent : n + 1 <= m => Precedes(h, sent[m]) /\ Precedes(b, sent[m])
    <2>1. \A m \in DOMAIN sent : n + 1 <= m => n <= m /\ n < m
      BY <1>2, HeldTypes
    <2> QED
      BY <1>2, <2>1 DEF OrderInv, SentInv, HeldInv
  <1> HIDE DEF h, b
  <1>6. /\ Ordered(h \o b) /\ FromCalls(h \o b, Len(handled))
        /\ \A m \in DOMAIN sent : n + 1 <= m => Precedes(h \o b, sent[m])
    BY <1>2, <1>5, OrderedConcat
  <1>7. next'[d] = n + 1
    BY <1>2 DEF TypeInv
  <1>8. ASSUME NEW e \in Downstreams
        PROVE  /\ Ordered(Held(e)') /\ FromCalls(Held(e)', Len(handled))
               /\ \A m \in DOMAIN sent : next'[e] <= m => Precedes(Held(e)', sent[m])
    <2>1. CASE e = d
      BY <1>3, <1>6, <1>7, <2>1
    <2>2. CASE e # d
      <3>1. Held(e)' = Held(e) /\ next'[e] = next[e]
        BY <1>4, <2>2
      <3> QED
        BY <3>1 DEF OrderInv, HeldInv
    <2> QED
      BY <2>1, <2>2
  <1>9. HeldInv'
    BY <1>8 DEF HeldInv, FromCalls
  <1> QED
    BY <1>1, <1>9 DEF OrderInv

(* The traces of a call are all of its batch, in order, after earlier ones.*)
LEMMA FilteredFacts ==
  ASSUME TypeInv, NEW b \in Batches
  PROVE  LET traces == TracesOf(b, Len(handled) + 1)
             filtered == Matching(traces)
         IN  /\ traces \in Seq(TraceType) /\ filtered \in Seq(TraceType)
             /\ Ordered(filtered)
             /\ \A i \in DOMAIN filtered : filtered[i].batch = Len(handled) + 1
             /\ \A s \in Seq(TraceType) : FromCalls(s, Len(handled)) => Precedes(s, filtered)
  <1> DEFINE n == Len(handled) + 1
             traces == TracesOf(b, n)
             filtered == Matching(traces)
  <1>1. Len(handled) \in Nat /\ n \in Nat
    BY HeldTypes
  <1>2. /\ traces \in Seq(TraceType) /\ filtered \in Seq(TraceType)
        /\ DOMAIN traces = 1..Len(b)
        /\ \A i \in 1..Len(b) : traces[i].batch = n /\ traces[i].place = i
    BY <1>1, TracesOfFacts, MatchingType
  <1> HIDE DEF n, traces
  <1>3. Ordered(traces)
    BY <1>2 DEF Ordered, Before
  <1>4. /\ Ordered(filtered)
        /\ \A i \in DOMAIN filtered : \E j \in DOMAIN traces : filtered[i] = traces[j]
    <2> DEFINE K == {i \in DOMAIN traces : MatchesFilter(traces[i])}
    <2>1. filtered = Chosen(traces, K)
      BY DEF Matching
    <2> HIDE DEF K, filtered
    <2> QED
      BY SMTT(60), <1>2, <1>3, <2>1, OrderedChosen
  <1> HIDE DEF filtered
  <1>5. \A i \in DOMAIN filtered : filtered[i].batch = n
    BY <1>2, <1>4
  <1>6. ASSUME NEW s \in Seq(TraceType), FromCalls(s, Len(handled))
        PROVE  Precedes(s, filtered)
    <2>1. \A i \in DOMAIN s : s[i].batch \in 1..Len(handled) /\ s[i].batch < n
      BY <1>1, <1>6 DEF FromCalls, n
    <2> QED
      BY <1>5, <2>1 DEF Precedes, Before
  <1> QED
    BY <1>2, <1>4, <1>5, <1>6 DEF n, traces, filtered

(* A batch is forwarded.                                                   *)
LEMMA OrderForward ==
  ASSUME TypeInv, OrderInv, NEW t \in Tasks, NEW b \in Batches, Forward(t, b)
  PROVE  OrderInv'
  <1> DEFINE traces == TracesOf(b, Len(handled) + 1)
             new == Matching(traces)
             call == [by |-> t, traces |-> traces]
             T == Seq(TraceType) \ {<< >>}
  <1>1. /\ new \in Seq(TraceType) /\ traces \in Seq(TraceType) /\ Ordered(new)
        /\ \A i \in DOMAIN new : new[i].batch = Len(handled) + 1
        /\ \A s \in Seq(TraceType) : FromCalls(s, Len(handled)) => Precedes(s, new)
    BY FilteredFacts
  <1>2. /\ handled' = Append(handled, call)
        /\ \/ sent' = Append(sent, new) /\ new # << >>
           \/ UNCHANGED sent
        /\ UNCHANGED <<next, hand, got>>
    BY DEF Forward, connVars
  <1> HIDE DEF traces, new
  <1>3. Len(handled') = Len(handled) + 1 /\ Len(handled) \in Nat
    <2>1. call \in [by : Tasks, traces : Seq(TraceType)]
      BY <1>1
    <2> HIDE DEF call
    <2> QED
      BY <1>2, <2>1, AppendProperties, HeldTypes DEF TypeInv, RfTypeOK
  <1> HIDE DEF call
  <1>4. \A s : FromCalls(s, Len(handled)) => FromCalls(s, Len(handled'))
    BY <1>3 DEF FromCalls
  <1>5. FromCalls(new, Len(handled'))
    BY <1>1, <1>3 DEF FromCalls
  <1>6. CASE UNCHANGED sent
    <2>1. SentInv'
      BY <1>4, <1>6 DEF OrderInv, SentInv
    <2>2. \A d \in Downstreams : Held(d)' = Held(d) /\ next'[d] = next[d]
      BY <1>2 DEF Held
    <2>3. HeldInv'
      BY <1>4, <1>6, <2>2 DEF OrderInv, HeldInv
    <2> QED
      BY <2>1, <2>3 DEF OrderInv
  <1>7. CASE sent' = Append(sent, new) /\ new # << >>
    <2> DEFINE n == Len(sent)
    <2>1. /\ n \in Nat /\ DOMAIN sent = 1..n /\ DOMAIN sent' = 1..(n + 1)
          /\ sent'[n + 1] = new /\ \A i \in 1..n : sent'[i] = sent[i]
      <3>1. sent \in Seq(T) /\ new \in T
        BY <1>1, <1>7 DEF TypeInv, RfTypeOK
      <3> HIDE DEF T
      <3>2. /\ sent' \in Seq(T) /\ Len(sent') = n + 1 /\ sent'[n + 1] = new
            /\ \A i \in 1..n : sent'[i] = sent[i]
        BY <1>7, <3>1, AppendProperties
      <3> QED
        BY <3>1, <3>2, LenProperties
    <2> HIDE DEF n
    <2>2. \A i \in DOMAIN sent' : (i \in 1..n /\ sent'[i] = sent[i]) \/ (i = n + 1 /\ sent'[i] = new)
      BY <2>1
    <2>3. \A i \in 1..n : sent[i] \in Seq(TraceType) /\ FromCalls(sent[i], Len(handled)) /\ Ordered(sent[i])
      BY <2>1, HeldTypes DEF OrderInv, SentInv
    <2>4. \A i \in DOMAIN sent' : Ordered(sent'[i]) /\ FromCalls(sent'[i], Len(handled'))
      BY <1>1, <1>4, <1>5, <2>2, <2>3
    <2>5. ASSUME NEW i \in DOMAIN sent', NEW j \in DOMAIN sent', i < j
          PROVE  Precedes(sent'[i], sent'[j])
      <3>1. i \in 1..n /\ sent'[i] = sent[i]
        BY <2>1, <2>2, <2>5
      <3>2. CASE j = n + 1
        BY <1>1, <2>1, <2>3, <3>1, <3>2
      <3>3. CASE j \in 1..n
        BY <2>1, <2>5, <3>1, <3>3 DEF OrderInv, SentInv
      <3> QED
        BY <2>2, <3>2, <3>3
    <2>6. SentInv'
      BY <2>4, <2>5 DEF SentInv
    <2>7. ASSUME NEW d \in Downstreams
          PROVE  /\ Held(d)' = Held(d) /\ Ordered(Held(d)) /\ FromCalls(Held(d), Len(handled'))
                 /\ \A i \in DOMAIN sent' : next'[d] <= i => Precedes(Held(d), sent'[i])
      <3>1. /\ Held(d)' = Held(d) /\ next'[d] = next[d]
            /\ Ordered(Held(d)) /\ FromCalls(Held(d), Len(handled)) /\ Held(d) \in Seq(TraceType)
            /\ \A i \in 1..n : next[d] <= i => Precedes(Held(d), sent[i])
        BY <1>2, <2>1, HeldTypes DEF OrderInv, HeldInv, Held
      <3> DEFINE h == Held(d)
      <3>2. FromCalls(h, Len(handled'))
        BY <1>4, <3>1 DEF FromCalls
      <3>3. Precedes(h, new)
        BY <1>1, <3>1
      <3> QED
        BY <2>2, <3>1, <3>2, <3>3
    <2>8. HeldInv'
      BY <2>7 DEF HeldInv
    <2> QED
      BY <2>6, <2>8 DEF OrderInv
  <1> QED
    BY <1>2, <1>6, <1>7

(* A request is answered with the first traces of the hand.                *)
LEMMA AnswerFacts ==
  ASSUME TypeInv, NEW d \in Downstreams, Answer(d)
  PROVE  \E k \in 0..Len(hand[d]) :
           /\ got' = [got EXCEPT ![d] = got[d] \o SubSeq(hand[d], 1, k)]
           /\ hand' = [hand EXCEPT ![d] = << >>]
           /\ "cut" \notin hurt'[d] => k = Len(hand[d]) /\ "cut" \notin hurt[d]
           /\ hurt[d] \subseteq hurt'[d]
  <1> DEFINE k == Min({asked[d], Len(hand[d])})
  <1>1. asked[d] \in Nat /\ Len(hand[d]) \in Nat
    BY LenProperties, ReForwarderAssumption
    DEF Answer, TypeInv, RfTypeOK, ReForwarderAssumption
  <1>2. k \in 0..Len(hand[d]) /\ (k = Len(hand[d]) \/ asked[d] < Len(hand[d]))
    <2>1. \E x \in {asked[d], Len(hand[d])} : \A y \in {asked[d], Len(hand[d])} : x <= y
      BY <1>1
    <2>2. k \in {asked[d], Len(hand[d])} /\ k <= Len(hand[d])
      BY <2>1 DEF Min
    <2> QED
      BY <1>1, <2>2
  <1>3. hurt'[d] = hurt[d] \cup Cut(d)
    BY DEF Answer, TypeInv, RfTypeOK
  <1>4. "cut" \notin hurt'[d] => k = Len(hand[d]) /\ "cut" \notin hurt[d]
    BY <1>2, <1>3 DEF Cut
  <1>5. /\ got' = [got EXCEPT ![d] = got[d] \o SubSeq(hand[d], 1, k)]
        /\ hand' = [hand EXCEPT ![d] = << >>]
    BY DEF Answer
  <1> HIDE DEF k
  <1> QED
    BY <1>2, <1>3, <1>4, <1>5

(* A handler that answers or ends holds no more than it did.               *)
LEMMA HeldShrinks ==
  ASSUME TypeInv, NEW d \in Downstreams,
         \E k \in 0..Len(hand[d]) :
           got' = [got EXCEPT ![d] = got[d] \o SubSeq(hand[d], 1, k)],
         hand' = [hand EXCEPT ![d] = << >>]
  PROVE  \A e \in Downstreams : /\ Len(Held(e)') <= Len(Held(e))
                                /\ \A i \in 1..Len(Held(e)') : Held(e)'[i] = Held(e)[i]
  <1>1. ASSUME NEW e \in Downstreams \ {d}
        PROVE  Held(e)' = Held(e) /\ Len(Held(e)) \in Nat
    <2>1. Held(e)' = Held(e)
      BY DEF Held, TypeInv, RfTypeOK
    <2> QED
      BY <2>1, HeldTypes, LenProperties
  <1>2. PICK k \in 0..Len(hand[d]) :
          got' = [got EXCEPT ![d] = got[d] \o SubSeq(hand[d], 1, k)]
    OBVIOUS
  <1> DEFINE g == got[d]
             h == hand[d]
             p == SubSeq(h, 1, k)
  <1>3. g \in Seq(TraceType) /\ h \in Seq(TraceType) /\ k \in 0..Len(h)
    BY <1>2, HeldTypes
  <1>4. Held(d)' = (g \o p) \o << >> /\ Held(d) = g \o h
    BY <1>2 DEF Held, TypeInv, RfTypeOK
  <1> HIDE DEF g, h
  <1>5. p \in Seq(TraceType)
    BY <1>3, SubSeqType
  <1>6. Len(h) \in Nat /\ k \in Nat /\ k <= Len(h) /\ Len(g) \in Nat
    BY <1>3, LenProperties
  <1>7. Len(p) = k /\ \A i \in 1..k : p[i] = h[i]
    <2>1. 1 \in Int /\ k \in Int /\ \A i \in 1..k : h[i] \in TraceType
      BY <1>3, <1>6, ElementOfSeq
    <2>2. /\ Len(p) = IF 1 <= k THEN k - 1 + 1 ELSE 0
          /\ \A i \in 1..(k - 1 + 1) : p[i] = h[1 + i - 1]
      BY <2>1, SubSeqProperties
    <2> HIDE DEF p
    <2> QED
      BY <1>6, <2>2
  <1> HIDE DEF p
  <1>8. Held(d)' = g \o p
    <2>1. g \o p \in Seq(TraceType)
      BY <1>3, <1>5, ConcatProperties
    <2> QED
      BY <1>4, <2>1, ConcatEmptySeq
  <1>9. /\ Len(g \o p) = Len(g) + k /\ Len(g \o h) = Len(g) + Len(h)
        /\ \A i \in 1..(Len(g) + k) : (g \o p)[i] = IF i <= Len(g) THEN g[i] ELSE p[i - Len(g)]
        /\ \A i \in 1..(Len(g) + Len(h)) : (g \o h)[i] = IF i <= Len(g) THEN g[i] ELSE h[i - Len(g)]
    BY <1>3, <1>5, <1>7, ConcatProperties
  <1> DEFINE a == g \o p
             b == g \o h
             m == Len(g)
             n == Len(h)
  <1>10. /\ Len(a) = m + k /\ Len(b) = m + n /\ m \in Nat /\ n \in Nat /\ k \in Nat /\ k <= n
         /\ \A i \in 1..(m + k) : a[i] = IF i <= m THEN g[i] ELSE p[i - m]
         /\ \A i \in 1..(m + n) : b[i] = IF i <= m THEN g[i] ELSE h[i - m]
    BY <1>6, <1>9
  <1> HIDE DEF a, b, m, n
  <1>11. Len(a) <= Len(b) /\ \A i \in 1..Len(a) : a[i] = b[i]
    <2>1. \A i \in 1..(m + k) : i \in 1..(m + n) /\ (i <= m \/ i - m \in 1..k)
      BY <1>10
    <2> QED
      BY <1>7, <1>10, <2>1
  <1>12. Held(d)' = a /\ Held(d) = b
    BY <1>4, <1>8 DEF a, b
  <1> QED
    BY <1>1, <1>11, <1>12

(* A handler that ends, or answers to nobody, drops what it holds.         *)
LEMMA DropFacts ==
  ASSUME TypeInv, NEW d \in Downstreams, HandshakeFails(d) \/ AnswerUnread(d) \/ Leave(d)
  PROVE  /\ hand' = [hand EXCEPT ![d] = << >>]
         /\ UNCHANGED <<mode, handled, outVars, sent, link, next, got, joined>>
         /\ \E k \in 0..Len(hand[d]) :
              got' = [got EXCEPT ![d] = got[d] \o SubSeq(hand[d], 1, k)]
  <1>1. /\ hand' = [hand EXCEPT ![d] = << >>]
        /\ UNCHANGED <<mode, handled, outVars, sent, link, next, got, joined>>
    BY DEF HandshakeFails, AnswerUnread, Leave, Ends
  <1>2. got[d] \in Seq(TraceType) /\ hand[d] \in Seq(TraceType)
    BY HeldTypes
  <1>3. 0 \in 0..Len(hand[d]) /\ SubSeq(hand[d], 1, 0) = << >> /\ got[d] \o << >> = got[d]
    BY <1>2, LenProperties, SubSeqEmpty, ConcatEmptySeq
  <1>4. got' = [got EXCEPT ![d] = got[d] \o SubSeq(hand[d], 1, 0)]
    BY <1>1, <1>3 DEF TypeInv, RfTypeOK
  <1> QED
    BY <1>1, <1>3, <1>4

(* Every step keeps the order.                                             *)
LEMMA OrderStep == TypeInv /\ OrderInv /\ [RfNext]_rfVars => OrderInv'
  <1> SUFFICES ASSUME TypeInv, OrderInv, [RfNext]_rfVars PROVE OrderInv'
    OBVIOUS
  <1>1. TypeInv'
    BY TypeStep
  <1>2. \A d \in Downstreams : Len(Held(d)) \in Nat /\ next[d] \in Nat
    BY HeldTypes, LenProperties DEF TypeInv
  <1>3. CASE UNCHANGED <<handled, sent, next, hand, got>>
    <2>1. \A d \in Downstreams : Held(d)' = Held(d) /\ next'[d] = next[d]
      BY <1>3 DEF Held
    <2> QED
      BY <1>1, <1>2, <1>3, <2>1, OrderKept
  <1>4. ASSUME NEW t \in Tasks, NEW b \in Batches, Forward(t, b)
        PROVE  OrderInv'
    BY <1>4, OrderForward
  <1>5. CASE ForwarderTakes \/ ForwarderStops \/ \E t \in Tasks : Outbound(t)
    BY <1>3, <1>5 DEF Outbound, SendNext, SendFails, Abort, ForwarderTakes, ForwarderStops,
                     connVars
  <1>6. ASSUME NEW d \in Downstreams, HandshakeDone(d) \/ Break(d) \/ \E n \in RequestCounts \cup {Done} : Ask(d, n)
        PROVE  OrderInv'
    BY <1>3, <1>6 DEF HandshakeDone, Break, Ask
  <1>7. ASSUME NEW d \in Downstreams, UNCHANGED <<handled, sent, hand, got>>,
               Accept(d) \/ SkipToOldest(d)
        PROVE  OrderInv'
    <2>1. \A e \in Downstreams : Held(e)' = Held(e)
      BY <1>7 DEF Held
    <2>2. \A e \in Downstreams : next[e] <= next'[e]
      <3>1. /\ Len(sent) \in Nat /\ Oldest \in Nat
            /\ \A e \in Downstreams : next[e] \in 1..(Len(sent) + 1)
        BY OldestType DEF TypeInv, RfTypeOK
      <3>2. CASE Accept(d)
        BY <1>2, <3>1, <3>2 DEF Accept, TypeInv
      <3>3. CASE SkipToOldest(d)
        <4>1. next' = [next EXCEPT ![d] = Oldest] /\ next[d] < Oldest
          BY <3>3 DEF SkipToOldest, Lagging
        <4> QED
          BY <1>2, <3>1, <4>1 DEF TypeInv
      <3> QED
        BY <1>7, <3>2, <3>3
    <2> QED
      BY <1>1, <1>2, <1>7, <2>1, <2>2, OrderKept
  <1>8. ASSUME NEW d \in Downstreams, Receive(d) \/ Drain(d)
        PROVE  OrderInv'
    <2>1. CASE TakeBatch(d)
      BY <1>8, <2>1, OrderTake DEF Receive, Drain
    <2>2. CASE SkipToOldest(d) /\ UNCHANGED hand
      BY <1>7, <1>8, <2>2 DEF Receive, Drain
    <2>3. CASE UNCHANGED <<next, hand>>
      BY <1>3, <1>8, <2>3 DEF Receive, Drain
    <2> QED
      BY <1>8, <2>1, <2>2, <2>3 DEF Receive, Drain
  <1>9. ASSUME NEW d \in Downstreams,
               Answer(d) \/ HandshakeFails(d) \/ AnswerUnread(d) \/ Leave(d)
        PROVE  OrderInv'
    <2>1. /\ hand' = [hand EXCEPT ![d] = << >>]
          /\ UNCHANGED <<handled, sent, next>>
          /\ \E k \in 0..Len(hand[d]) :
               got' = [got EXCEPT ![d] = got[d] \o SubSeq(hand[d], 1, k)]
      BY <1>9, AnswerFacts, DropFacts DEF Answer
    <2>2. \A e \in Downstreams : /\ Len(Held(e)') <= Len(Held(e))
                                 /\ \A i \in 1..Len(Held(e)') : Held(e)'[i] = Held(e)[i]
      BY <2>1, HeldShrinks
    <2> QED
      BY <1>1, <1>2, <2>1, <2>2, OrderKept
  <1>10. ASSUME NEW d \in Downstreams, Accept(d)
         PROVE  OrderInv'
    BY <1>7, <1>10 DEF Accept
  <1>11. CASE UNCHANGED rfVars
    BY <1>3, <1>11 DEF rfVars, connVars
  <1> QED
    BY <1>4, <1>5, <1>6, <1>8, <1>9, <1>10, <1>11 DEF RfNext, DownstreamHandler

(* The order holds throughout every behaviour.                             *)
LEMMA OrderCorrect == RfSpec => [](TypeInv /\ OrderInv)
  BY TypeInit, TypeStep, OrderInit, OrderStep, PTL DEF RfSpec

(* Whatever a downstream missed, it gets traces in the order they were     *)
(* forwarded and none twice, across lags, requests and drains.             *)
THEOREM DownstreamsReadInOrder == RfSpec => []DownstreamInOrder
  <1>1. TypeInv /\ OrderInv => DownstreamInOrder
    BY HeldTypes, OrderedIncreasing DEF OrderInv, HeldInv, DownstreamInOrder
  <1> QED
    BY OrderCorrect, <1>1, PTL

-----------------------------------------------------------------------------
(* Lags lose whole batches                                                 *)

(* Having all or nothing of s is kept when both parts have it.             *)
LEMMA WholeConcat ==
  ASSUME NEW S, NEW g \in Seq(S), NEW h \in Seq(S), NEW s, Whole(s, g), Whole(s, h)
  PROVE  Whole(s, g \o h)
  <1>1. Range(g \o h) = Range(g) \cup Range(h)
    BY RangeConcatenation
  <1> QED
    BY <1>1 DEF Whole

(* What holds nothing holds no part of a batch.                            *)
LEMMA WholeEmpty == \A s : Whole(s, << >>)
  BY RangeEmpty DEF Whole

(* No trace is in two batches.                                             *)
LEMMA SentDisjoint ==
  ASSUME TypeInv, SentInv, NEW m \in DOMAIN sent, NEW n \in DOMAIN sent, m # n
  PROVE  Range(sent[m]) \cap Range(sent[n]) = {}
  <1>1. SUFFICES ASSUME NEW x \in Range(sent[m]), x \in Range(sent[n]) PROVE FALSE
    OBVIOUS
  <1>2. /\ sent[m] \in Seq(TraceType) /\ sent[n] \in Seq(TraceType)
        /\ m \in Nat /\ n \in Nat
    BY HeldTypes
  <1>3. PICK i \in DOMAIN sent[m] : sent[m][i] = x
    BY <1>1 DEF Range
  <1>4. PICK j \in DOMAIN sent[n] : sent[n][j] = x
    BY <1>1 DEF Range
  <1>5. x \in TraceType
    BY <1>2, <1>3, ElementOfSeq, LenProperties
  <1>6. Before(x, x)
    <2>1. m < n \/ n < m
      BY <1>2
    <2> QED
      BY <1>3, <1>4, <2>1 DEF SentInv, Precedes
  <1> QED
    BY <1>5, <1>6 DEF Before, TraceType

(* At first no batch is held in part.                                      *)
LEMMA WholeInit == RfInit => WholeInv
  BY DEF RfInit, WholeInv

(* What a handler holds moves to its downstream as a whole, or is dropped. *)
LEMMA WholeKept ==
  ASSUME TypeInv, WholeInv, UNCHANGED sent,
         \A d \in Downstreams : "cut" \notin hurt'[d] =>
           /\ "cut" \notin hurt[d]
           /\ \/ got'[d] = got[d] /\ hand'[d] \in {hand[d], << >>}
              \/ got'[d] = got[d] \o hand[d] /\ hand'[d] = << >>
  PROVE  WholeInv'
  <1> SUFFICES ASSUME NEW d \in Downstreams, "cut" \notin hurt'[d], NEW n \in DOMAIN sent
               PROVE  Whole(sent[n], got'[d]) /\ Whole(sent[n], hand'[d])
    BY DEF WholeInv
  <1>1. Whole(sent[n], got[d]) /\ Whole(sent[n], hand[d]) /\ Whole(sent[n], << >>)
    BY WholeEmpty DEF WholeInv
  <1>2. Whole(sent[n], got[d] \o hand[d])
    BY <1>1, HeldTypes, WholeConcat
  <1> QED
    BY <1>1, <1>2

(* A batch is taken whole.                                                 *)
LEMMA WholeTake ==
  ASSUME TypeInv, SentInv, WholeInv, NEW d \in Downstreams, TakeBatch(d), UNCHANGED <<sent, got>>
  PROVE  WholeInv'
  <1> DEFINE b == sent[next[d]]
  <1>1. /\ next[d] \in DOMAIN sent /\ b \in Seq(TraceType) /\ hand[d] \in Seq(TraceType)
        /\ hand' = [hand EXCEPT ![d] = hand[d] \o b] /\ UNCHANGED hurt
    BY HeldTypes DEF TakeBatch, TypeInv, RfTypeOK
  <1>2. ASSUME NEW n \in DOMAIN sent, Whole(sent[n], hand[d])
        PROVE  Whole(sent[n], hand[d] \o b)
    <2>1. Whole(sent[n], b)
      BY <1>1, SentDisjoint DEF Whole
    <2> HIDE DEF b
    <2> QED
      BY <1>1, <1>2, <2>1, WholeConcat
  <1> HIDE DEF b
  <1>3. \A e \in Downstreams : hand'[e] = IF e = d THEN hand[d] \o b ELSE hand[e]
    BY <1>1 DEF TypeInv, RfTypeOK
  <1> QED
    BY <1>1, <1>2, <1>3 DEF WholeInv

(* The traces of a new batch are new to every downstream.                  *)
LEMMA WholeForward ==
  ASSUME TypeInv, OrderInv, WholeInv, NEW t \in Tasks, NEW b \in Batches, Forward(t, b)
  PROVE  WholeInv'
  <1> DEFINE new == Matching(TracesOf(b, Len(handled) + 1))
             T == Seq(TraceType) \ {<< >>}
  <1>1. /\ new \in Seq(TraceType)
        /\ \A s \in Seq(TraceType) : FromCalls(s, Len(handled)) => Precedes(s, new)
    BY FilteredFacts
  <1>2. /\ \/ sent' = Append(sent, new) /\ new # << >>
           \/ UNCHANGED sent
        /\ UNCHANGED <<hand, got, hurt>>
    BY DEF Forward, connVars
  <1> HIDE DEF new
  <1>3. CASE UNCHANGED sent
    BY <1>2, <1>3 DEF WholeInv
  <1>4. CASE sent' = Append(sent, new) /\ new # << >>
    <2> DEFINE n == Len(sent)
    <2>1. \A i \in DOMAIN sent' : (i \in DOMAIN sent /\ sent'[i] = sent[i]) \/ sent'[i] = new
      <3>1. sent \in Seq(T) /\ new \in T
        BY <1>1, <1>4 DEF TypeInv, RfTypeOK
      <3> HIDE DEF T
      <3>2. /\ sent' \in Seq(T) /\ Len(sent') = n + 1 /\ sent'[n + 1] = new
            /\ \A i \in 1..n : sent'[i] = sent[i]
        BY <1>4, <3>1, AppendProperties
      <3>3. DOMAIN sent' = 1..(n + 1) /\ DOMAIN sent = 1..n /\ n \in Nat
        BY <3>1, <3>2, LenProperties
      <3> HIDE DEF n
      <3> QED
        BY <3>2, <3>3
    <2>2. ASSUME NEW d \in Downstreams
          PROVE  Whole(new, got[d]) /\ Whole(new, hand[d])
      <3>1. /\ got[d] \in Seq(TraceType) /\ hand[d] \in Seq(TraceType) /\ Held(d) \in Seq(TraceType)
            /\ FromCalls(Held(d), Len(handled))
        BY HeldTypes DEF OrderInv, HeldInv
      <3>2. FromCalls(got[d], Len(handled)) /\ FromCalls(hand[d], Len(handled))
        BY <3>1, OrderedConcat DEF Held
      <3>3. Precedes(got[d], new) /\ Precedes(hand[d], new)
        BY <1>1, <3>1, <3>2
      <3>4. ASSUME NEW s \in Seq(TraceType), Precedes(s, new)
            PROVE  Range(new) \cap Range(s) = {}
        <4>1. SUFFICES ASSUME NEW i \in DOMAIN s, NEW j \in DOMAIN new, s[i] = new[j] PROVE FALSE
          BY DEF Range
        <4>2. Before(s[i], s[i]) /\ s[i] \in TraceType
          BY <3>4, <4>1, ElementOfSeq, LenProperties DEF Precedes
        <4> QED
          BY <4>2 DEF Before, TraceType
      <3> QED
        BY <3>1, <3>3, <3>4 DEF Whole
    <2> QED
      BY <1>2, <2>1, <2>2 DEF WholeInv
  <1> QED
    BY <1>2, <1>3, <1>4

(* Every step keeps batches whole.                                         *)
LEMMA WholeStep == TypeInv /\ OrderInv /\ WholeInv /\ [RfNext]_rfVars => WholeInv'
  <1> SUFFICES ASSUME TypeInv, OrderInv, WholeInv, [RfNext]_rfVars PROVE WholeInv'
    OBVIOUS
  <1>1. CASE UNCHANGED <<sent, got, hand, hurt>>
    BY <1>1, WholeKept
  <1>2. CASE ForwarderTakes \/ ForwarderStops \/ \E t \in Tasks : Outbound(t)
    BY <1>1, <1>2 DEF Outbound, SendNext, SendFails, Abort, ForwarderTakes, ForwarderStops,
                     connVars
  <1>3. ASSUME NEW d \in Downstreams,
               Accept(d) \/ HandshakeDone(d) \/ Break(d) \/ \E n \in RequestCounts \cup {Done} : Ask(d, n)
        PROVE  WholeInv'
    BY <1>1, <1>3 DEF Accept, HandshakeDone, Break, Ask
  <1>4. ASSUME NEW d \in Downstreams, Receive(d) \/ Drain(d)
        PROVE  WholeInv'
    <2>1. CASE TakeBatch(d)
      BY <1>4, <2>1, WholeTake DEF Receive, Drain, OrderInv
    <2>2. CASE SkipToOldest(d) /\ UNCHANGED hand
      <3>1. hurt' = [hurt EXCEPT ![d] = hurt[d] \cup {"lag"}] /\ UNCHANGED <<sent, got, hand>>
        BY <1>4, <2>2 DEF Receive, Drain, SkipToOldest
      <3>2. \A e \in Downstreams : "cut" \notin hurt'[e] => "cut" \notin hurt[e]
        BY <3>1 DEF TypeInv, RfTypeOK
      <3> QED
        BY <3>1, <3>2, WholeKept
    <2>3. CASE UNCHANGED <<next, hand, hurt>>
      BY <1>1, <1>4, <2>3 DEF Receive, Drain
    <2> QED
      BY <1>4, <2>1, <2>2, <2>3 DEF Receive, Drain
  <1>5. ASSUME NEW d \in Downstreams, Answer(d)
        PROVE  WholeInv'
    <2>1. PICK k \in 0..Len(hand[d]) :
            /\ got' = [got EXCEPT ![d] = got[d] \o SubSeq(hand[d], 1, k)]
            /\ hand' = [hand EXCEPT ![d] = << >>]
            /\ "cut" \notin hurt'[d] => k = Len(hand[d]) /\ "cut" \notin hurt[d]
      BY <1>5, AnswerFacts
    <2>2. SubSeq(hand[d], 1, Len(hand[d])) = hand[d]
      BY HeldTypes, SubSeqFull
    <2>3. \A e \in Downstreams \ {d} : got'[e] = got[e] /\ hand'[e] = hand[e] /\ hurt'[e] = hurt[e]
      BY <1>5 DEF Answer, TypeInv, RfTypeOK
    <2>4. /\ got'[d] = got[d] \o SubSeq(hand[d], 1, k) /\ hand'[d] = << >> /\ UNCHANGED sent
      BY <1>5, <2>1 DEF Answer, TypeInv, RfTypeOK
    <2> QED
      BY <2>1, <2>2, <2>3, <2>4, WholeKept
  <1>6. ASSUME NEW d \in Downstreams, HandshakeFails(d) \/ AnswerUnread(d) \/ Leave(d)
        PROVE  WholeInv'
    <2>1. hand' = [hand EXCEPT ![d] = << >>] /\ UNCHANGED <<sent, got>>
      BY <1>6, DropFacts
    <2>2. \A e \in Downstreams : "cut" \notin hurt'[e] => "cut" \notin hurt[e]
      <3>1. hurt' \in {hurt, [hurt EXCEPT ![d] = hurt[d] \cup {"break"}]}
        BY <1>6 DEF HandshakeFails, AnswerUnread, Leave
      <3>2. hurt \in [Downstreams -> SUBSET {"lag", "cut", "break"}]
        BY DEF TypeInv, RfTypeOK
      <3>3. \A e \in Downstreams : hurt'[e] \in {hurt[e], hurt[e] \cup {"break"}}
        BY <3>1, <3>2
      <3> QED
        BY <3>3
    <2>3. \A e \in Downstreams : hand'[e] \in {hand[e], << >>}
      BY <2>1 DEF TypeInv, RfTypeOK
    <2> QED
      BY <2>1, <2>2, <2>3, WholeKept
  <1>7. CASE UNCHANGED rfVars
    BY <1>1, <1>7 DEF rfVars, connVars
  <1> QED
    BY <1>2, <1>3, <1>4, <1>5, <1>6, <1>7, WholeForward DEF RfNext, DownstreamHandler

(* A lag loses whole batches: a batch is divided only by a request that    *)
(* was too small for what the handler had taken.                           *)
THEOREM LagsLoseWholeBatches == RfSpec => []LagLosesWholeBatches
  <1>1. TypeInv /\ WholeInv => LagLosesWholeBatches
    <2> SUFFICES ASSUME TypeInv, WholeInv, NEW d \in Downstreams, "cut" \notin hurt[d],
                        NEW n \in DOMAIN sent
                 PROVE  Whole(sent[n], Held(d))
      BY DEF LagLosesWholeBatches, Whole
    <2>1. /\ Whole(sent[n], got[d]) /\ Whole(sent[n], hand[d])
          /\ got[d] \in Seq(TraceType) /\ hand[d] \in Seq(TraceType)
      BY HeldTypes DEF WholeInv
    <2> QED
      BY <2>1, WholeConcat DEF Held
  <1>2. TypeInv /\ OrderInv /\ [RfNext]_rfVars => (WholeInv => WholeInv')
    BY WholeStep
  <1> QED
    BY OrderCorrect, WholeInit, <1>1, <1>2, PTL DEF RfSpec

-----------------------------------------------------------------------------
(* Who keeps up gets all                                                   *)

Call == [by : Tasks, traces : Seq(TraceType)]

(* One more call adds its traces.                                          *)
LEMMA TracesOfCallsFacts ==
  ASSUME NEW calls \in Seq(Call)
  PROVE  /\ TracesOfCalls(calls) \in Seq(TraceType)
         /\ \A c \in Call :
              TracesOfCalls(Append(calls, c)) = TracesOfCalls(calls) \o c.traces
  <1> DEFINE n == Len(calls)
             ss == [i \in 1..n |-> calls[i].traces]
             T == Seq(TraceType)
  <1>1. n \in Nat /\ DOMAIN calls = 1..n /\ \A i \in 1..n : calls[i].traces \in T
    <2>1. n \in Nat /\ DOMAIN calls = 1..n /\ \A i \in 1..n : calls[i] \in Call
      BY LenProperties, ElementOfSeq
    <2> QED
      BY <2>1 DEF Call
  <1>2. ss \in Seq(T) /\ TracesOfCalls(calls) = FlattenSeq(ss)
    BY <1>1 DEF TracesOfCalls
  <1>3. ASSUME NEW c \in Call
        PROVE  TracesOfCalls(Append(calls, c)) = TracesOfCalls(calls) \o c.traces
    <2> DEFINE more == Append(calls, c)
               mm == [i \in 1..(n + 1) |-> more[i].traces]
               tr == c.traces
    <2>1. tr \in T
      BY DEF Call
    <2>2. /\ more \in Seq(Call) /\ Len(more) = n + 1 /\ more[n + 1] = c
          /\ \A i \in 1..n : more[i] = calls[i]
      BY AppendProperties
    <2>3. DOMAIN more = 1..(n + 1)
      BY <2>2, LenProperties
    <2> HIDE DEF more
    <2>4. TracesOfCalls(more) = FlattenSeq(mm)
      BY <2>3 DEF TracesOfCalls
    <2>5. mm = Append(ss, tr)
      <3>1. Append(ss, tr) \in Seq(T) /\ Len(Append(ss, tr)) = n + 1
        <4>1. Len(ss) = n
          BY <1>1
        <4> HIDE DEF ss, T, tr, n
        <4> QED
          BY <1>2, <2>1, <4>1, AppendProperties
      <3>2. \A i \in 1..(n + 1) : Append(ss, tr)[i] = mm[i]
        <4>1. Len(ss) = n /\ \A i \in 1..n : ss[i] = mm[i]
          BY <1>1, <2>2
        <4>2. mm[n + 1] = tr
          BY <1>1, <2>2
        <4>3. \A i \in 1..(n + 1) : i \in 1..n \/ i = n + 1
          BY <1>1
        <4> HIDE DEF ss, mm, tr, T, n
        <4> QED
          BY <1>2, <2>1, <4>1, <4>2, <4>3, AppendProperties
      <3>3. mm \in [1..(n + 1) -> T]
        <4>1. \A i \in 1..(n + 1) : more[i] \in Call
          BY <2>2, ElementOfSeq
        <4> HIDE DEF n
        <4> QED
          BY <4>1 DEF Call
      <3>4. mm \in Seq(T) /\ Len(mm) = n + 1
        <4> HIDE DEF n
        <4> n \in Nat
          BY <1>1
        <4> QED
          BY <3>3
      <3> HIDE DEF mm, ss, tr, T, n
      <3> QED
        BY <3>1, <3>2, <3>4, SeqEqual
    <2> HIDE DEF ss, mm
    <2> QED
      BY <1>2, <2>1, <2>4, <2>5, FlattenAppend DEF more
  <1> HIDE DEF ss
  <1> QED
    BY <1>2, <1>3, FlattenType

(* Of nothing, nothing matches.                                            *)
LEMMA MatchingEmpty == Matching(<< >>) = << >>
  BY ChosenEmpty DEF Matching

(* Two parts are filtered one after the other.                             *)
LEMMA MatchingConcat ==
  ASSUME NEW S, NEW s \in Seq(S), NEW t \in Seq(S)
  PROVE  Matching(s \o t) = Matching(s) \o Matching(t)
  <1> DEFINE c == s \o t
             K == {i \in DOMAIN s : MatchesFilter(s[i])}
             L == {i \in DOMAIN t : MatchesFilter(t[i])}
             M == {i \in DOMAIN c : MatchesFilter(c[i])}
  <1>1. /\ Len(s) \in Nat /\ Len(t) \in Nat /\ DOMAIN s = 1..Len(s) /\ DOMAIN t = 1..Len(t)
        /\ Len(c) = Len(s) + Len(t) /\ c \in Seq(S)
        /\ \A i \in 1..Len(s) + Len(t) : c[i] = IF i <= Len(s) THEN s[i] ELSE t[i - Len(s)]
    BY LenProperties, ConcatProperties
  <1>2. DOMAIN c = 1..(Len(s) + Len(t))
    BY <1>1, LenProperties
  <1> HIDE DEF c
  <1>3. PlacesAfter(0, K, M, Len(s))
    BY <1>1, <1>2 DEF PlacesAfter
  <1>4. ASSUME NEW i \in 1..Len(t)
        PROVE  i \in L <=> Len(s) + i \in M
    <2>1. /\ Len(s) + i \in 1..(Len(s) + Len(t)) /\ ~(Len(s) + i <= Len(s))
          /\ (Len(s) + i) - Len(s) = i
      BY <1>1
    <2>2. c[Len(s) + i] = t[i]
      BY <1>1, <2>1
    <2> QED
      BY <1>1, <1>2, <2>1, <2>2
  <1>5. Matching(c) = Chosen(c, M) /\ Matching(s) = Chosen(s, K) /\ Matching(t) = Chosen(t, L)
    BY DEF Matching
  <1> HIDE DEF K, L, M
  <1>6. PlacesAfter(Len(s), L, M, Len(t))
    BY <1>4 DEF PlacesAfter
  <1>7. Chosen(s \o t, M) = Chosen(s, K) \o Chosen(t, L)
    BY <1>3, <1>6, ChosenConcat
  <1> QED
    BY <1>5, <1>7 DEF c

(* At first no downstream has joined, and none is owed anything.           *)
LEMMA JoinInit == RfInit => JoinInv /\ OwedInv
  <1> SUFFICES ASSUME RfInit PROVE JoinInv /\ OwedInv
    OBVIOUS
  <1>1. Len(handled) = 0
    BY EmptySeq DEF RfInit
  <1> QED
    BY <1>1 DEF RfInit, JoinInv, OwedInv

(* Every step keeps the place at which a downstream joined.                *)
LEMMA JoinStep == TypeInv /\ JoinInv /\ [RfNext]_rfVars => JoinInv'
  <1> SUFFICES ASSUME TypeInv, JoinInv, [RfNext]_rfVars PROVE JoinInv'
    OBVIOUS
  <1>1. Len(handled) \in Nat
    BY HeldTypes
  <1>2. ASSUME NEW t \in Tasks, NEW b \in Batches, Forward(t, b)
        PROVE  JoinInv'
    <2> DEFINE call == [by |-> t, traces |-> TracesOf(b, Len(handled) + 1)]
    <2>1. call \in Call /\ handled' = Append(handled, call)
      BY <1>1, <1>2, TracesOfFacts DEF Forward, Call
    <2> HIDE DEF call
    <2>2. Len(handled') = Len(handled) + 1
      BY <2>1, AppendProperties DEF TypeInv, RfTypeOK, Call
    <2> QED
      BY <1>1, <1>2, <2>2 DEF Forward, JoinInv, connVars
  <1>3. CASE ForwarderTakes \/ ForwarderStops \/ \E t \in Tasks : Outbound(t)
    BY <1>3 DEF Outbound, SendNext, SendFails, Abort, ForwarderTakes, ForwarderStops,
                     connVars, JoinInv
  <1>4. ASSUME NEW d \in Downstreams, Accept(d)
        PROVE  JoinInv'
    BY <1>1, <1>4 DEF Accept, JoinInv, TypeInv, RfTypeOK
  <1>5. ASSUME NEW d \in Downstreams,
               HandshakeDone(d) \/ Break(d) \/ \E n \in RequestCounts \cup {Done} : Ask(d, n)
        PROVE  JoinInv'
    BY <1>5 DEF HandshakeDone, Break, Ask, JoinInv, TypeInv, RfTypeOK
  <1>6. ASSUME NEW d \in Downstreams, DownstreamHandler(d) \/ HandshakeFails(d)
        PROVE  JoinInv'
    <2>1. hpc[d] # "none" /\ UNCHANGED <<mode, handled, link, joined>>
      BY <1>6 DEF DownstreamHandler, HandshakeFails, Receive, Drain, Answer, AnswerUnread, Leave, Ends
    <2>2. \A e \in Downstreams \ {d} : hpc'[e] = hpc[e] /\ got'[e] = got[e] /\ hand'[e] = hand[e]
      BY <1>6 DEF DownstreamHandler, HandshakeFails, Receive, Drain, Answer, AnswerUnread, Leave,
                  Ends, TakeBatch, TypeInv, RfTypeOK
    <2> QED
      BY <2>1, <2>2 DEF JoinInv
  <1>7. CASE UNCHANGED rfVars
    BY <1>7 DEF rfVars, connVars, JoinInv
  <1> QED
    BY <1>2, <1>3, <1>4, <1>5, <1>6, <1>7 DEF RfNext, DownstreamHandler

(* Nothing is forwarded or broadcast, and who has missed nothing still has *)
(* what it had and the same to come.                                       *)
LEMMA OwedKept ==
  ASSUME OwedInv, UNCHANGED <<handled, sent>>,
         \A d \in Downstreams : hpc'[d] \notin {"none", "ended"} /\ hurt'[d] = {} =>
           /\ hpc[d] \notin {"none", "ended"} /\ hurt[d] = {}
           /\ Held(d)' = Held(d) /\ next'[d] = next[d] /\ joined'[d] = joined[d]
  PROVE  OwedInv'
  <1> SUFFICES ASSUME NEW d \in Downstreams, hpc'[d] \notin {"none", "ended"}, hurt'[d] = {}
               PROVE  Held(d)' \o FlattenSeq(Left(d)') = Matching(TracesOfCalls(Since(joined[d])'))
    BY DEF OwedInv
  <1>1. /\ Held(d) \o FlattenSeq(Left(d)) = Matching(TracesOfCalls(Since(joined[d])))
        /\ Held(d)' = Held(d) /\ next'[d] = next[d] /\ joined'[d] = joined[d]
    BY DEF OwedInv
  <1>2. Left(d)' = Left(d) /\ Since(joined[d])' = Since(joined[d])
    BY <1>1 DEF Left, Since
  <1> QED
    BY <1>1, <1>2

(* A downstream joins: nothing has been forwarded to it, nothing is owed.  *)
LEMMA OwedAccept ==
  ASSUME TypeInv, JoinInv, OwedInv, NEW d \in Downstreams, Accept(d)
  PROVE  OwedInv'
  <1>1. /\ UNCHANGED <<handled, sent, hand, got, hurt>>
        /\ next' = [next EXCEPT ![d] = Len(sent) + 1]
        /\ joined' = [joined EXCEPT ![d] = Len(handled)]
        /\ hpc' = [hpc EXCEPT ![d] = "handshake"]
        /\ got[d] = << >> /\ hand[d] = << >>
        /\ Len(sent) \in Nat /\ Len(handled) \in Nat
    BY HeldTypes DEF Accept, JoinInv
  <1>2. Held(d)' = << >>
    BY <1>1, EmptySeq, ConcatEmptySeq DEF Held
  <1>3. Left(d)' = << >> /\ Since(joined[d])' = << >>
    <2>1. next'[d] = Len(sent) + 1 /\ joined'[d] = Len(handled)
      BY <1>1 DEF TypeInv, RfTypeOK
    <2>2. SubSeq(sent, Len(sent) + 1, Len(sent)) = << >>
      BY <1>1, SubSeqEmpty
    <2>3. SubSeq(handled, Len(handled) + 1, Len(handled)) = << >>
      BY <1>1, SubSeqEmpty
    <2> QED
      BY <1>1, <2>1, <2>2, <2>3 DEF Left, Since
  <1>4. TracesOfCalls(<< >>) = << >>
    <2>1. [i \in DOMAIN << >> |-> << >>[i].traces] = << >>
      OBVIOUS
    <2> QED
      BY <2>1, FlattenEmpty DEF TracesOfCalls
  <1>5. Held(d)' \o FlattenSeq(Left(d)') = Matching(TracesOfCalls(Since(joined[d])'))
    <2>1. << >> \o << >> = << >>
      BY EmptySeq, ConcatEmptySeq
    <2> QED
      BY <1>2, <1>3, <1>4, <2>1, FlattenEmpty, MatchingEmpty
  <1>6. ASSUME NEW e \in Downstreams \ {d}, hpc'[e] \notin {"none", "ended"}, hurt'[e] = {}
        PROVE  Held(e)' \o FlattenSeq(Left(e)') = Matching(TracesOfCalls(Since(joined[e])'))
    <2>1. /\ Held(e)' = Held(e) /\ next'[e] = next[e] /\ joined'[e] = joined[e]
          /\ hpc[e] = hpc'[e] /\ hurt[e] = hurt'[e]
      BY <1>1 DEF Held, TypeInv, RfTypeOK
    <2>2. Left(e)' = Left(e) /\ Since(joined[e])' = Since(joined[e])
      BY <1>1, <2>1 DEF Left, Since
    <2> QED
      BY <1>6, <2>1, <2>2 DEF OwedInv
  <1> QED
    BY <1>5, <1>6 DEF OwedInv

(* Appending to the middle one of three sequences.                         *)
LEMMA ConcatRegroups ==
  ASSUME NEW S, NEW g \in Seq(S), NEW h \in Seq(S), NEW b \in Seq(S), NEW r \in Seq(S)
  PROVE  (g \o (h \o b)) \o r = (g \o h) \o (b \o r)
  <1>1. g \o (h \o b) = (g \o h) \o b
    BY SMTT(30), ConcatAssociative
  <1> DEFINE f == g \o h
  <1>2. f \in Seq(S)
    BY ConcatProperties
  <1> HIDE DEF f
  <1>3. (f \o b) \o r = f \o (b \o r)
    BY SMTT(30), <1>2, ConcatAssociative
  <1> QED
    BY <1>1, <1>3 DEF f

(* A batch that is taken moves from what is left to what is held.          *)
LEMMA OwedTake ==
  ASSUME TypeInv, OwedInv, NEW d \in Downstreams, TakeBatch(d),
         UNCHANGED <<handled, sent, got, joined>>,
         \A e \in Downstreams : hpc'[e] \notin {"none", "ended"} => hpc[e] \notin {"none", "ended"}
  PROVE  OwedInv'
  <1> DEFINE n == next[d]
             b == sent[n]
             g == got[d]
             h == hand[d]
             r == FlattenSeq(SubSeq(sent, n + 1, Len(sent)))
             T == Seq(TraceType)
  <1>1. /\ n \in 1..Len(sent) /\ b \in T /\ g \in T /\ h \in T /\ sent \in Seq(T)
        /\ Len(sent) \in Nat
        /\ next' = [next EXCEPT ![d] = n + 1]
        /\ hand' = [hand EXCEPT ![d] = h \o b]
        /\ UNCHANGED hurt
    <2>1. sent \in Seq(T)
      BY SeqMonotonic DEF TypeInv, RfTypeOK
    <2>2. /\ n \in 1..Len(sent)
          /\ next' = [next EXCEPT ![d] = n + 1]
          /\ hand' = [hand EXCEPT ![d] = h \o b]
          /\ UNCHANGED hurt
      BY HeldTypes DEF TakeBatch, TypeInv, RfTypeOK
    <2>3. /\ g \in T /\ h \in T /\ Len(sent) \in Nat
          /\ \A k \in 1..Len(sent) : sent[k] \in T
      BY HeldTypes
    <2> HIDE DEF n, g, h, T
    <2> QED
      BY <2>1, <2>2, <2>3
  <1>2. /\ next'[d] = n + 1 /\ hand'[d] = h \o b
        /\ \A e \in Downstreams \ {d} : next'[e] = next[e] /\ hand'[e] = hand[e]
    BY <1>1 DEF TypeInv, RfTypeOK
  <1>3. FlattenSeq(Left(d)) = b \o r
    <2> DEFINE left == SubSeq(sent, n, Len(sent))
    <2>1. /\ Head(left) = b /\ Tail(left) = SubSeq(sent, n + 1, Len(sent))
      <3>1. Len(sent) \in n..Len(sent)
        BY <1>1
      <3> HIDE DEF T, n
      <3> QED
        BY <1>1, <3>1, HeadTailOfSubSeq
    <2>2. left \in Seq(T) /\ left # << >>
      <3>1. /\ n \in Int /\ Len(sent) \in Int /\ n <= Len(sent)
            /\ \A i \in n..Len(sent) : sent[i] \in T
        BY <1>1, ElementOfSeq
      <3>2. left \in Seq(T) /\ Len(left) = Len(sent) - n + 1
        <4> HIDE DEF T, n
        <4> QED
          BY <3>1, SubSeqProperties
      <3> HIDE DEF left, T, n
      <3>3. Len(left) # 0
        BY <3>1, <3>2
      <3> QED
        BY <3>2, <3>3, EmptySeq
    <2> HIDE DEF left
    <2> QED
      BY <2>1, <2>2, FlattenFirst DEF left, Left
  <1>4. r \in T
    <2> DEFINE rest == SubSeq(sent, n + 1, Len(sent))
    <2>1. rest \in Seq(T)
      <3>1. \A i \in (n + 1)..Len(sent) : sent[i] \in T
        BY <1>1, ElementOfSeq
      <3>2. n + 1 \in Int /\ Len(sent) \in Int
        BY <1>1
      <3> HIDE DEF T, n
      <3> QED
        BY <3>1, <3>2, SubSeqProperties
    <2> HIDE DEF rest
    <2>2. FlattenSeq(rest) \in T
      BY <2>1, FlattenType
    <2> QED
      BY <2>2 DEF rest
  <1>5. FlattenSeq(Left(d)') = r
    BY <1>1, <1>2 DEF Left
  <1> HIDE DEF b, r, g, h, T, n
  <1>6. (g \o (h \o b)) \o r = (g \o h) \o (b \o r)
    <2>1. g \in Seq(TraceType) /\ h \in Seq(TraceType) /\ b \in Seq(TraceType) /\ r \in Seq(TraceType)
      BY <1>1, <1>4 DEF T
    <2> QED
      BY ONLY SMTT(60), <2>1, ConcatRegroups
  <1>7. ASSUME NEW e \in Downstreams, hpc'[e] \notin {"none", "ended"}, hurt'[e] = {}
        PROVE  Held(e)' \o FlattenSeq(Left(e)') = Matching(TracesOfCalls(Since(joined[e])'))
    <2>1. /\ Held(e) \o FlattenSeq(Left(e)) = Matching(TracesOfCalls(Since(joined[e])))
          /\ Since(joined[e])' = Since(joined[e])
      BY <1>1, <1>7 DEF OwedInv, Since
    <2>2. CASE e = d
      <3>1. Held(d)' = g \o (h \o b) /\ Held(d) = g \o h
        BY <1>2 DEF Held, g, h
      <3> QED
        BY <1>3, <1>5, <1>6, <2>1, <2>2, <3>1
    <2>3. CASE e # d
      <3>1. Held(e)' = Held(e) /\ Left(e)' = Left(e)
        BY <1>2, <2>3 DEF Held, Left
      <3> QED
        BY <2>1, <3>1
    <2> QED
      BY <2>2, <2>3
  <1> QED
    BY <1>7 DEF OwedInv

(* The end of a sequence that grows.                                       *)
LEMMA SubSeqAppend ==
  ASSUME NEW S, NEW s \in Seq(S), NEW x \in S, NEW k \in 1..(Len(s) + 1)
  PROVE  /\ SubSeq(s, k, Len(s)) \in Seq(S)
         /\ SubSeq(Append(s, x), k, Len(s) + 1) = Append(SubSeq(s, k, Len(s)), x)
  <1> DEFINE n == Len(s)
             t == Append(s, x)
             p == SubSeq(s, k, n)
             q == SubSeq(t, k, n + 1)
             r == Append(p, x)
  <1>1. n \in Nat /\ k \in Nat /\ k >= 1 /\ k <= n + 1
    BY LenProperties
  <1>2. /\ t \in Seq(S) /\ Len(t) = n + 1 /\ t[n + 1] = x
        /\ \A i \in 1..n : t[i] = s[i]
    BY AppendProperties
  <1> HIDE DEF n, t
  <1>3. p \in Seq(S) /\ Len(p) = n - k + 1 /\ \A i \in 1..(n - k + 1) : p[i] = s[k + i - 1]
    <2>1. \A i \in k..n : s[i] \in S
      BY <1>1, ElementOfSeq DEF n
    <2> HIDE DEF p
    <2>2. /\ p \in Seq(S) /\ Len(p) = (IF k <= n THEN n - k + 1 ELSE 0)
          /\ \A i \in 1..(n - k + 1) : p[i] = s[k + i - 1]
      BY <1>1, <2>1, SubSeqProperties DEF p
    <2> QED
      BY <1>1, <2>2
  <1>4. q \in Seq(S) /\ Len(q) = n - k + 2 /\ \A i \in 1..(n - k + 2) : q[i] = t[k + i - 1]
    <2>1. \A i \in k..(n + 1) : t[i] \in S
      BY <1>1, <1>2, ElementOfSeq
    <2> DEFINE m == n + 1
    <2> HIDE DEF q, m
    <2>2. m \in Int /\ k \in Int /\ k <= m
      BY <1>1 DEF m
    <2>3. /\ q \in Seq(S) /\ Len(q) = m - k + 1
          /\ \A i \in 1..(m - k + 1) : q[i] = t[k + i - 1]
      BY <2>1, <2>2, SubSeqProperties DEF q, m
    <2>4. m - k + 1 = n - k + 2
      BY <1>1 DEF m
    <2> QED
      BY <2>3, <2>4
  <1> HIDE DEF p, q
  <1>5. r \in Seq(S) /\ Len(r) = Len(p) + 1 /\ r[Len(p) + 1] = x /\ \A i \in 1..Len(p) : r[i] = p[i]
    <2>1. p \in Seq(S)
      BY <1>3
    <2> QED
      BY <2>1, AppendProperties
  <1> HIDE DEF r
  <1>6. Len(r) = n - k + 2
    BY <1>1, <1>3, <1>5
  <1>7. ASSUME NEW i \in 1..(n - k + 2)
        PROVE  q[i] = r[i]
    <2>1. CASE i = n - k + 2
      <3>1. k + i - 1 = n + 1 /\ i = Len(p) + 1
        BY <1>1, <1>3, <2>1
      <3> QED
        BY <1>2, <1>4, <1>5, <3>1
    <2>2. CASE i # n - k + 2
      <3>1. i \in 1..(n - k + 1) /\ k + i - 1 \in 1..n
        BY <1>1, <2>2
      <3> QED
        BY <1>2, <1>3, <1>4, <1>5, <3>1
    <2> QED
      BY <2>1, <2>2
  <1>8. q = r
    BY <1>4, <1>5, <1>6, <1>7, SeqEqual
  <1> QED
    BY <1>3, <1>8 DEF p, q, r, t, n

(* A batch is forwarded to all who joined before: as many traces are owed  *)
(* as are broadcast.                                                       *)
LEMMA OwedForward ==
  ASSUME TypeInv, JoinInv, OwedInv, NEW t \in Tasks, NEW b \in Batches, Forward(t, b)
  PROVE  OwedInv'
  <1> DEFINE traces == TracesOf(b, Len(handled) + 1)
             new == Matching(traces)
             call == [by |-> t, traces |-> traces]
             n == Len(handled)
  <1>1. new \in Seq(TraceType) /\ traces \in Seq(TraceType)
    BY FilteredFacts
  <1>2. /\ handled' = Append(handled, call)
        /\ mode = "Inbound" => sent' = IF new = << >> THEN sent ELSE Append(sent, new)
        /\ UNCHANGED <<next, hand, got, hpc, hurt, joined>>
    BY DEF Forward, connVars, TypeInv, RfTypeOK
  <1> HIDE DEF traces, new
  <1>3. call \in Call /\ handled \in Seq(Call) /\ call.traces = traces
    BY <1>1 DEF Call, TypeInv, RfTypeOK
  <1> HIDE DEF call
  <1>4. n \in Nat /\ Len(handled') = n + 1
    BY <1>2, <1>3, AppendProperties, LenProperties
  <1> SUFFICES ASSUME NEW d \in Downstreams, hpc'[d] \notin {"none", "ended"}, hurt'[d] = {}
               PROVE  Held(d)' \o FlattenSeq(Left(d)') = Matching(TracesOfCalls(Since(joined[d])'))
    BY DEF OwedInv
  <1>5. /\ Held(d) \o FlattenSeq(Left(d)) = Matching(TracesOfCalls(Since(joined[d])))
        /\ mode = "Inbound" /\ joined[d] \in 0..n
    BY <1>2 DEF OwedInv, JoinInv, TypeInv, RfTypeOK
  <1> DEFINE k == joined[d] + 1
             since == Since(joined[d])
             left == Left(d)
             T == Seq(TraceType)
  <1>6. since \in Seq(Call) /\ Since(joined[d])' = Append(since, call)
    <2>1. k \in 1..(n + 1)
      BY <1>4, <1>5
    <2>2. since = SubSeq(handled, k, n) /\ Since(joined[d])' = SubSeq(Append(handled, call), k, n + 1)
      BY <1>2, <1>4 DEF Since
    <2> HIDE DEF k, since
    <2> QED
      BY <1>3, <2>1, <2>2, SubSeqAppend
  <1> HIDE DEF since
  <1>7. /\ TracesOfCalls(since) \in T
        /\ TracesOfCalls(Append(since, call)) = TracesOfCalls(since) \o traces
    BY <1>3, <1>6, TracesOfCallsFacts
  <1>8. Matching(TracesOfCalls(Append(since, call))) = Matching(TracesOfCalls(since)) \o new
    <2> DEFINE c == TracesOfCalls(since)
    <2> HIDE DEF c
    <2>1. c \in Seq(TraceType) /\ TracesOfCalls(Append(since, call)) = c \o traces
      BY <1>7 DEF c
    <2>2. Matching(c \o traces) = Matching(c) \o new
      BY <1>1, <2>1, MatchingConcat DEF new
    <2> QED
      BY <2>1, <2>2 DEF c
  <1>9. sent \in Seq(T) /\ next[d] \in 1..(Len(sent) + 1) /\ Held(d) \in T
    <2>1. sent \in Seq(Seq(TraceType) \ {<< >>}) /\ next[d] \in 1..(Len(sent) + 1)
      BY DEF TypeInv, RfTypeOK
    <2> QED
      BY <2>1, SeqMonotonic, HeldTypes
  <1>10. new \in T
    BY <1>1
  <1>11. left \in Seq(T) /\ (sent' = Append(sent, new) => Left(d)' = Append(left, new))
    <2> HIDE DEF T, left
    <2> DEFINE m == next[d]
               l == Len(sent)
    <2>1. m \in 1..(Len(sent) + 1) /\ next'[d] = m
      BY <1>2, <1>9
    <2>2. Len(Append(sent, new)) = Len(sent) + 1
      BY <1>9, <1>10, AppendProperties
    <2>3. /\ SubSeq(sent, m, Len(sent)) \in Seq(T)
          /\ SubSeq(Append(sent, new), m, Len(sent) + 1) = Append(SubSeq(sent, m, Len(sent)), new)
      <3> HIDE DEF m
      <3> QED
        BY SMTT(60), <1>9, <1>10, <2>1, SubSeqAppend
    <2> QED
      BY <2>1, <2>2, <2>3 DEF left, Left
  <1>12. Held(d)' = Held(d)
    BY <1>2 DEF Held
  <1> DEFINE h == Held(d)
             f == FlattenSeq(left)
  <1>13. h \in Seq(TraceType) /\ f \in Seq(TraceType)
    <2> HIDE DEF left
    <2> QED
      BY <1>9, <1>11, FlattenType
  <1>14. Matching(TracesOfCalls(Since(joined[d])')) = (h \o f) \o new
    BY <1>5, <1>6, <1>8 DEF since
  <1>15. CASE new = << >>
    <2>1. Left(d)' = Left(d)
      BY <1>2, <1>5, <1>15 DEF Left
    <2>2. h \o f \in Seq(TraceType)
      <3> HIDE DEF h, f
      <3> QED
        BY <1>13, ConcatProperties
    <2>3. (h \o f) \o new = h \o f
      <3> DEFINE a == h \o f
      <3> HIDE DEF a
      <3>1. a \o << >> = a
        BY <2>2, ConcatEmptySeq DEF a
      <3> QED
        BY <1>15, <3>1 DEF a
    <2> QED
      BY <1>12, <1>14, <2>1, <2>3
  <1>16. CASE new # << >>
    <2>1. Left(d)' = Append(left, new)
      BY <1>2, <1>5, <1>11, <1>16
    <2>2. FlattenSeq(Append(left, new)) = f \o new
      <3> HIDE DEF left
      <3> QED
        BY <1>1, <1>11, FlattenAppend
    <2>3. h \o (f \o new) = (h \o f) \o new
      <3> HIDE DEF h, f
      <3> QED
        BY SMTT(60), <1>1, <1>13, ConcatAssociative
    <2> QED
      BY <1>12, <1>14, <2>1, <2>2, <2>3
  <1> QED
    BY <1>15, <1>16

(* Every step leaves a downstream with what it is owed.                    *)
LEMMA OwedStep == TypeInv /\ JoinInv /\ OwedInv /\ [RfNext]_rfVars => OwedInv'
  <1> SUFFICES ASSUME TypeInv, JoinInv, OwedInv, [RfNext]_rfVars PROVE OwedInv'
    OBVIOUS
  <1>1. CASE UNCHANGED <<handled, sent, hpc, hurt, got, hand, next, joined>>
    BY <1>1, OwedKept DEF Held
  <1>2. CASE ForwarderTakes \/ ForwarderStops \/ (\E t \in Tasks : Outbound(t)) \/ UNCHANGED rfVars
    BY <1>1, <1>2 DEF Outbound, SendNext, SendFails, Abort, ForwarderTakes, ForwarderStops,
                     connVars, rfVars
  <1>3. ASSUME NEW d \in Downstreams, Break(d) \/ \E n \in RequestCounts \cup {Done} : Ask(d, n)
        PROVE  OwedInv'
    BY <1>1, <1>3 DEF Break, Ask
  <1>4. ASSUME NEW d \in Downstreams, HandshakeDone(d)
        PROVE  OwedInv'
    <2>1. /\ UNCHANGED <<handled, sent, hurt, got, hand, next, joined>>
          /\ \A e \in Downstreams : hpc'[e] \notin {"none", "ended"} => hpc[e] \notin {"none", "ended"}
      BY <1>4 DEF HandshakeDone, TypeInv, RfTypeOK
    <2> QED
      BY <2>1, OwedKept DEF Held
  <1>5. ASSUME NEW d \in Downstreams, Receive(d) \/ Drain(d)
        PROVE  OwedInv'
    <2>1. /\ UNCHANGED <<handled, sent, got, joined>>
          /\ \A e \in Downstreams : hpc'[e] \notin {"none", "ended"} => hpc[e] \notin {"none", "ended"}
      BY <1>5 DEF Receive, Drain, TypeInv, RfTypeOK
    <2>2. CASE TakeBatch(d)
      BY <2>1, <2>2, OwedTake
    <2>3. CASE SkipToOldest(d) /\ UNCHANGED hand
      <3>1. hurt' = [hurt EXCEPT ![d] = hurt[d] \cup {"lag"}] /\ next' = [next EXCEPT ![d] = Oldest]
        BY <2>3 DEF SkipToOldest
      <3>2. hurt'[d] # {} /\ \A e \in Downstreams \ {d} : hurt'[e] = hurt[e] /\ next'[e] = next[e]
        BY <3>1 DEF TypeInv, RfTypeOK
      <3> QED
        BY <2>1, <2>3, <3>2, OwedKept DEF Held
    <2>4. CASE UNCHANGED <<next, hand, hurt>>
      BY <2>1, <2>4, OwedKept DEF Held
    <2> QED
      BY <1>5, <2>2, <2>3, <2>4 DEF Receive, Drain
  <1>6. ASSUME NEW d \in Downstreams, Answer(d)
        PROVE  OwedInv'
    <2>1. PICK k \in 0..Len(hand[d]) :
            /\ got' = [got EXCEPT ![d] = got[d] \o SubSeq(hand[d], 1, k)]
            /\ hand' = [hand EXCEPT ![d] = << >>]
            /\ "cut" \notin hurt'[d] => k = Len(hand[d])
            /\ hurt[d] \subseteq hurt'[d]
      BY <1>6, AnswerFacts
    <2>2. SubSeq(hand[d], 1, Len(hand[d])) = hand[d] /\ got[d] \o hand[d] \in Seq(TraceType)
      BY HeldTypes, SubSeqFull, ConcatProperties
    <2>3. hurt'[d] = {} => Held(d)' = Held(d)
      <3> DEFINE a == got[d] \o hand[d]
      <3>1. a \o << >> = a
        <4> HIDE DEF a
        <4>1. a \in Seq(TraceType)
          BY <2>2 DEF a
        <4> QED
          BY <4>1, ConcatEmptySeq
      <3>2. hurt'[d] = {} => got'[d] = a /\ hand'[d] = << >>
        BY <2>1, <2>2 DEF TypeInv, RfTypeOK
      <3> QED
        BY <3>1, <3>2 DEF Held
    <2>4. \A e \in Downstreams \ {d} : got'[e] = got[e] /\ hand'[e] = hand[e] /\ hurt'[e] = hurt[e] /\ hpc'[e] = hpc[e]
      BY <1>6 DEF Answer, TypeInv, RfTypeOK
    <2>5. hpc[d] = "answering" /\ UNCHANGED <<handled, sent, next, joined>>
      BY <1>6 DEF Answer
    <2> QED
      BY <2>1, <2>3, <2>4, <2>5, OwedKept DEF Held
  <1>7. ASSUME NEW d \in Downstreams, HandshakeFails(d) \/ AnswerUnread(d) \/ Leave(d)
        PROVE  OwedInv'
    <2>1. /\ UNCHANGED <<handled, sent, got, next, joined>>
          /\ \A e \in Downstreams \ {d} : hand'[e] = hand[e] /\ hpc'[e] = hpc[e] /\ hurt'[e] = hurt[e]
      BY <1>7 DEF HandshakeFails, AnswerUnread, Leave, Ends, TypeInv, RfTypeOK
    <2>2. hpc'[d] = "ended" \/ "break" \in hurt'[d]
      <3>1. CASE HandshakeFails(d)
        BY <3>1 DEF HandshakeFails, Ends, TypeInv, RfTypeOK
      <3>2. CASE AnswerUnread(d) \/ Leave(d)
        <4>1. hurt' = [hurt EXCEPT ![d] = hurt[d] \cup {"break"}]
          BY <3>2 DEF AnswerUnread, Leave
        <4> QED
          BY <4>1 DEF TypeInv, RfTypeOK
      <3> QED
        BY <1>7, <3>1, <3>2
    <2> QED
      BY <2>1, <2>2, OwedKept DEF Held
  <1> QED
    BY <1>2, <1>3, <1>4, <1>5, <1>6, <1>7, OwedForward, OwedAccept DEF RfNext, DownstreamHandler

(* A downstream that did not lag, whose requests were large enough and     *)
(* whose connection lasts gets every trace that matches the filters and    *)
(* that came after it was accepted.                                        *)
THEOREM DownstreamsThatKeepUpGetAll == RfSpec => []KeepsUpGetsAll
  <1>1. ASSUME OwedInv, TypeInv
        PROVE  KeepsUpGetsAll
    <2> SUFFICES ASSUME NEW d \in Downstreams, hpc[d] \notin {"none", "ended"}, hurt[d] = {}
                 PROVE  LET all == TracesOfCalls(Since(joined[d]))
                        IN  Held(d) \o FlattenSeq(Left(d))
                              = Chosen(all, {i \in DOMAIN all :
                                  \/ NamespaceFilters = None
                                  \/ \E p \in NamespaceFilters :
                                       /\ Len(p) <= Len(all[i].namespace)
                                       /\ p = SubSeq(all[i].namespace, 1, Len(p))})
      BY DEF KeepsUpGetsAll, TracesOfCalls, Since, Left
    <2> DEFINE all == TracesOfCalls(Since(joined[d]))
               K == {i \in DOMAIN all : MatchesFilter(all[i])}
               L == {i \in DOMAIN all :
                       \/ NamespaceFilters = None
                       \/ \E p \in NamespaceFilters :
                            /\ Len(p) <= Len(all[i].namespace)
                            /\ p = SubSeq(all[i].namespace, 1, Len(p))}
    <2>1. Held(d) \o FlattenSeq(Left(d)) = Chosen(all, K)
      BY <1>1 DEF OwedInv, Matching
    <2>2. K = L
      <3> SUFFICES ASSUME NamespaceFilters # None, NEW p \in NamespaceFilters, NEW i \in DOMAIN all
                   PROVE  IsPrefix(p, all[i].namespace) <=>
                            /\ Len(p) <= Len(all[i].namespace)
                            /\ p = SubSeq(all[i].namespace, 1, Len(p))
        <4> HIDE DEF all
        <4> QED
          BY DEF MatchesFilter
      <3>1. p \in Seq(STRING)
        BY ReForwarderAssumption DEF ReForwarderAssumption
      <3>2. SubSeq(p, 1, Len(p)) = p
        BY <3>1, SubSeqFull
      <3> HIDE DEF all
      <3> QED
        BY <3>2 DEF IsPrefix
    <2> QED
      BY <2>1, <2>2
  <1> QED
    BY TypeInit, TypeStep, JoinInit, JoinStep, OwedStep, <1>1, PTL DEF RfSpec

-----------------------------------------------------------------------------
(* The traces of a task are taken in order                                 *)

(* An element moves from the head of a sequence to the end of another.     *)
LEMMA MoveHead ==
  ASSUME NEW S, NEW a \in Seq(S), NEW b \in Seq(S), b # << >>
  PROVE  /\ Head(b) \in S /\ Tail(b) \in Seq(S)
         /\ Append(a, Head(b)) \in Seq(S)
         /\ Append(a, Head(b)) \o Tail(b) = a \o b
  <1> DEFINE x == Head(b)
             r == Tail(b)
             o == <<x>>
  <1>1. x \in S /\ r \in Seq(S) /\ o \in Seq(S) /\ b = o \o r
    <2>1. x \in S /\ r \in Seq(S)
      BY HeadTailProperties
    <2>2. o \in Seq(S)
      BY <2>1
    <2>3. b = o \o r
      <3> DEFINE c == o \o r
      <3>1. Len(b) \in Nat /\ Len(b) >= 1 /\ Len(r) = Len(b) - 1 /\ b[1] = x
            /\ \A i \in 1..Len(r) : r[i] = b[i + 1]
        BY HeadTailProperties, LenProperties, EmptySeq
      <3>2. Len(o) = 1 /\ o[1] = x
        OBVIOUS
      <3> HIDE DEF x, r, o
      <3>3. /\ c \in Seq(S) /\ Len(c) = 1 + Len(r)
            /\ \A i \in 1..(1 + Len(r)) : c[i] = IF i <= 1 THEN o[i] ELSE r[i - 1]
        <4>1. /\ c \in Seq(S) /\ Len(c) = Len(o) + Len(r)
              /\ \A i \in 1..(Len(o) + Len(r)) : c[i] = IF i <= Len(o) THEN o[i] ELSE r[i - Len(o)]
          BY <2>1, <2>2, ConcatProperties
        <4> HIDE DEF c
        <4> QED
          BY <3>2, <4>1
      <3> HIDE DEF c
      <3>4. Len(c) = Len(b)
        BY <3>1, <3>3
      <3>5. ASSUME NEW i \in 1..Len(b)
            PROVE  c[i] = b[i]
        <4>1. CASE i = 1
          BY <3>1, <3>2, <3>3, <4>1
        <4>2. CASE i # 1
          <5>1. i \in 1..(1 + Len(r)) /\ ~(i <= 1) /\ i - 1 \in 1..Len(r) /\ (i - 1) + 1 = i
            BY <3>1, <4>2
          <5> QED
            BY <3>1, <3>3, <5>1
        <4> QED
          BY <4>1, <4>2
      <3> QED
        BY <3>3, <3>4, <3>5, SeqEqual DEF c
    <2> QED
      BY <2>1, <2>2, <2>3
  <1>2. Append(a, x) = a \o o /\ Append(a, x) \in Seq(S)
    BY <1>1, AppendIsConcat, AppendProperties
  <1> HIDE DEF x, r, o
  <1>3. (a \o o) \o r = a \o (o \o r)
    BY SMTT(60), <1>1, ConcatAssociative
  <1> QED
    BY <1>1, <1>2, <1>3 DEF x, r

(* The first of two sequences that are in order in a row.                  *)
LEMMA OrderedFirst ==
  ASSUME NEW S, NEW a \in Seq(S), NEW b \in Seq(S), Ordered(a \o b)
  PROVE  Ordered(a)
  <1> DEFINE c == a \o b
  <1>1. /\ c \in Seq(S) /\ Len(a) <= Len(c)
        /\ \A i \in 1..Len(a) : a[i] = c[i]
    <2>1. Len(a) \in Nat /\ Len(b) \in Nat
      BY LenProperties
    <2>2. /\ c \in Seq(S) /\ Len(c) = Len(a) + Len(b)
          /\ \A i \in 1..(Len(a) + Len(b)) : c[i] = IF i <= Len(a) THEN a[i] ELSE b[i - Len(a)]
      BY ConcatProperties
    <2> HIDE DEF c
    <2> QED
      BY <2>1, <2>2
  <1>2. Ordered(c)
    OBVIOUS
  <1> HIDE DEF c
  <1> QED
    BY <1>1, <1>2, OrderedPrefix

(* A sequence begins itself.                                               *)
LEMMA BeginsItself ==
  ASSUME NEW S, NEW s \in Seq(S)
  PROVE  Begins(s, s)
  <1>1. Len(s) \in Nat
    BY LenProperties
  <1> QED
    BY <1>1 DEF Begins

(* The first of two sequences in a row begins what the two begin.          *)
LEMMA BeginsFirst ==
  ASSUME NEW S, NEW a \in Seq(S), NEW b \in Seq(S), NEW m \in Seq(S), Begins(a \o b, m)
  PROVE  Begins(a, m)
  <1> DEFINE c == a \o b
  <1>1. Len(a) \in Nat /\ Len(b) \in Nat /\ Len(m) \in Nat
    BY LenProperties
  <1>2. /\ Len(c) = Len(a) + Len(b)
        /\ \A i \in 1..(Len(a) + Len(b)) : c[i] = IF i <= Len(a) THEN a[i] ELSE b[i - Len(a)]
    BY ConcatProperties
  <1>3. Len(c) <= Len(m) /\ \A i \in 1..Len(c) : c[i] = m[i]
    BY DEF Begins
  <1> HIDE DEF c
  <1> QED
    BY <1>1, <1>2, <1>3 DEF Begins

(* A sequence that begins another is a prefix of it.                       *)
LEMMA BeginsIsPrefix ==
  ASSUME NEW S, NEW s \in Seq(S), NEW t \in Seq(S), Begins(s, t)
  PROVE  IsPrefix(s, t)
  <1>1. Len(s) \in Nat /\ Len(t) \in Nat /\ Len(s) <= Len(t)
    BY LenProperties DEF Begins
  <1> DEFINE n == Len(s)
             p == SubSeq(s, 1, n)
             q == SubSeq(t, 1, n)
  <1>2. p \in Seq(S) /\ Len(p) = n /\ \A i \in 1..n : p[i] = s[i]
    BY <1>1, SubSeqProperties
  <1>3. q \in Seq(S) /\ Len(q) = n /\ \A i \in 1..n : q[i] = t[i]
    BY <1>1, SubSeqProperties
  <1>4. \A i \in 1..n : s[i] = t[i]
    BY DEF Begins
  <1> HIDE DEF p, q, n
  <1>5. p = q
    BY <1>2, <1>3, <1>4, SeqEqual
  <1> QED
    BY <1>1, <1>5 DEF IsPrefix, p, q, n

(* The lines of the tasks and of the queue are sequences of traces.        *)
LEMMA LineTypes ==
  ASSUME TypeInv
  PROVE  /\ Taken \in Seq(TraceType) /\ Len(handled) \in Nat
         /\ handled \in Seq(Call)
         /\ \A t \in Tasks : /\ todo[t] \in Seq(TraceType)
                             /\ By(t, Taken) \in Seq(TraceType)
                             /\ Line(t) \in Seq(TraceType)
                             /\ CallsOf(t) \in Seq(Call)
                             /\ All(t) \in Seq(TraceType)
  <1>1. /\ went \in Seq(TraceType) /\ queue \in Seq(TraceType) /\ lost \in Seq(TraceType)
        /\ handled \in Seq(Call)
    BY DEF TypeInv, RfTypeOK, Call
  <1>2. Taken \in Seq(TraceType)
    <2>1. went \o queue \in Seq(TraceType)
      BY <1>1, ConcatProperties
    <2> QED
      BY <1>1, <2>1, ConcatProperties DEF Taken
  <1>3. ASSUME NEW t \in Tasks
        PROVE  /\ todo[t] \in Seq(TraceType) /\ By(t, Taken) \in Seq(TraceType)
               /\ Line(t) \in Seq(TraceType) /\ CallsOf(t) \in Seq(Call)
               /\ All(t) \in Seq(TraceType)
    <2>1. todo[t] \in Seq(TraceType)
      BY DEF TypeInv, RfTypeOK
    <2>2. By(t, Taken) \in Seq(TraceType)
      BY <1>2, ChosenType DEF By
    <2>3. CallsOf(t) \in Seq(Call)
      BY <1>1, ChosenType DEF CallsOf
    <2>4. All(t) \in Seq(TraceType)
      BY <2>3, TracesOfCallsFacts, MatchingType DEF All
    <2> QED
      BY <2>1, <2>2, <2>3, <2>4, ConcatProperties DEF Line
  <1> QED
    BY <1>1, <1>2, <1>3, LenProperties

(* At first no task has a line.                                            *)
LEMMA LineInit == RfInit => LineInv
  <1> SUFFICES ASSUME RfInit PROVE LineInv
    OBVIOUS
  <1>1. << >> \o << >> = << >> /\ DOMAIN << >> = {}
    BY EmptySeq, ConcatEmptySeq
  <1>2. /\ Taken = << >> /\ \A t \in Tasks : todo[t] = << >>
        /\ handled = << >> /\ lost = << >> /\ queue = << >>
    BY <1>1 DEF RfInit, Taken
  <1>3. TracesOfCalls(<< >>) = << >>
    <2>1. [i \in DOMAIN << >> |-> << >>[i].traces] = << >>
      OBVIOUS
    <2> QED
      BY <2>1, FlattenEmpty DEF TracesOfCalls
  <1>4. \A t \in Tasks : Line(t) = << >> /\ CallsOf(t) = << >>
    BY <1>1, <1>2, ChosenEmpty DEF Line, By, CallsOf
  <1>5. FromCalls(<< >>, Len(handled)) /\ Ordered(<< >>) /\ Begins(<< >>, << >>)
    BY <1>1, EmptySeq DEF FromCalls, Ordered, Begins
  <1> QED
    BY <1>1, <1>2, <1>3, <1>4, <1>5, MatchingEmpty DEF LineInv, All

(* What is chosen from a sequence that grows by x.                         *)
LEMMA ByAppend ==
  ASSUME TypeInv, NEW x \in TraceType, NEW t \in Tasks
  PROVE  By(t, Append(Taken, x)) = IF handled[x.batch].by = t THEN Append(By(t, Taken), x)
                                                              ELSE By(t, Taken)
  <1> DEFINE s == Taken
             n == Len(s)
             u == Append(s, x)
             K == {i \in DOMAIN s : handled[s[i].batch].by = t}
             L == {i \in DOMAIN u : handled[u[i].batch].by = t}
  <1>1. s \in Seq(TraceType)
    BY LineTypes
  <1> HIDE DEF s
  <1>2. /\ n \in Nat /\ DOMAIN s = 1..n /\ u \in Seq(TraceType) /\ Len(u) = n + 1 /\ u[n + 1] = x
        /\ \A i \in 1..n : u[i] = s[i]
    BY <1>1, AppendProperties, LenProperties
  <1>3. DOMAIN u = 1..(n + 1)
    BY <1>2, LenProperties
  <1> HIDE DEF n, u
  <1>4. \A i \in 1..n : i \in K <=> i \in L
    BY <1>2, <1>3
  <1>5. n + 1 \in L <=> handled[x.batch].by = t
    BY <1>2, <1>3
  <1>6. By(t, s) = Chosen(s, K) /\ By(t, u) = Chosen(u, L)
    BY DEF By
  <1> HIDE DEF K, L
  <1>7. Chosen(Append(s, x), L) = IF Len(s) + 1 \in L THEN Append(Chosen(s, K), x)
                                                      ELSE Chosen(s, K)
    BY <1>1, <1>4, ChosenAppend DEF n
  <1> QED
    BY <1>5, <1>6, <1>7 DEF n, u, s

(* A task sends the next of its traces, to a forwarder that runs or in     *)
(* vain: it moves along its line.                                          *)
LEMMA LineSend ==
  ASSUME TypeInv, LineInv, NEW t \in Tasks, SendNext(t) \/ SendFails(t)
  PROVE  LineInv'
  <1> SUFFICES ASSUME mode = "Outbound" PROVE LineInv'
    BY DEF LineInv, SendNext, SendFails
  <1> DEFINE x == Head(todo[t])
             r == Tail(todo[t])
  <1>1. /\ todo[t] \in Seq(TraceType) /\ todo[t] # << >>
        /\ todo' = [todo EXCEPT ![t] = r]
        /\ \/ ~stopped /\ queue' = Append(queue, x) /\ UNCHANGED lost
           \/ stopped /\ lost' = Append(lost, x) /\ UNCHANGED queue
        /\ UNCHANGED <<mode, handled, aborted, went, stopped>>
    BY LineTypes DEF SendNext, SendFails
  <1>2. /\ x \in TraceType /\ r \in Seq(TraceType) /\ x = todo[t][1] /\ 1 \in DOMAIN todo[t]
        /\ \A i \in DOMAIN r : i + 1 \in DOMAIN todo[t] /\ r[i] = todo[t][i + 1]
    <2>1. /\ x \in TraceType /\ r \in Seq(TraceType) /\ x = todo[t][1]
          /\ Len(r) = Len(todo[t]) - 1 /\ \A i \in 1..Len(r) : r[i] = todo[t][i + 1]
      BY <1>1, HeadTailProperties
    <2>2. /\ DOMAIN todo[t] = 1..Len(todo[t]) /\ DOMAIN r = 1..Len(r)
          /\ Len(todo[t]) \in Nat \ {0}
      BY <1>1, <2>1, LenProperties, EmptySeq
    <2> HIDE DEF r, x
    <2> QED
      BY <2>1, <2>2
  <1>3. x.batch \in 1..Len(handled) /\ handled[x.batch].by = t
    BY <1>2 DEF LineInv, FromCalls
  <1> HIDE DEF x, r
  <1>4. Taken' = Append(Taken, x)
    <2> DEFINE o == <<x>>
               a == went \o queue
    <2>1. /\ went \in Seq(TraceType) /\ queue \in Seq(TraceType) /\ lost \in Seq(TraceType)
          /\ o \in Seq(TraceType)
      BY <1>2 DEF TypeInv, RfTypeOK
    <2>2. a \in Seq(TraceType)
      BY <2>1, ConcatProperties
    <2>3. CASE ~stopped
      <3>1. lost = << >> /\ lost' = << >> /\ queue' = Append(queue, x) /\ went' = went
        BY <1>1, <2>3 DEF LineInv
      <3>2. a \o << >> = a
        <4> HIDE DEF a
        <4> QED
          BY <2>2, ConcatEmptySeq
      <3>3. Append(queue, x) = queue \o o /\ Append(a, x) = a \o o
        <4> HIDE DEF a
        <4> QED
          BY <1>2, <2>1, <2>2, AppendIsConcat
      <3> HIDE DEF o
      <3>4. went \o (queue \o o) = a \o o
        <4> DEFINE T == TraceType
        <4>1. went \in Seq(T) /\ queue \in Seq(T) /\ o \in Seq(T)
          BY <2>1
        <4> HIDE DEF T
        <4>2. (went \o queue) \o o = went \o (queue \o o)
          BY ONLY SMTT(30), <4>1, ConcatAssociative
        <4> QED
          BY ONLY <4>2
      <3>5. a \o o \in Seq(TraceType)
        <4> HIDE DEF a
        <4> QED
          BY <2>1, <2>2, ConcatProperties
      <3>6. (a \o o) \o << >> = a \o o
        <4> DEFINE c == a \o o
        <4> HIDE DEF c
        <4>1. c \o << >> = c
          BY <3>5, ConcatEmptySeq DEF c
        <4> QED
          BY <4>1 DEF c
      <3>7. Taken = a /\ Taken' = (went \o (queue \o o)) \o << >>
        BY <3>1, <3>2, <3>3 DEF Taken
      <3> QED
        BY <3>3, <3>4, <3>6, <3>7
    <2>4. CASE stopped
      <3>1. lost' = Append(lost, x) /\ queue' = queue /\ went' = went
        BY <1>1, <2>4
      <3> HIDE DEF a
      <3>2. a \o lost \in Seq(TraceType)
        BY <2>1, <2>2, ConcatProperties
      <3>3. Append(lost, x) = lost \o o /\ Append(a \o lost, x) = (a \o lost) \o o
        <4> DEFINE c == a \o lost
        <4> HIDE DEF c
        <4>1. Append(c, x) = c \o o
          BY <1>2, <3>2, AppendIsConcat DEF c
        <4> QED
          BY <1>2, <2>1, <4>1, AppendIsConcat DEF c
      <3> HIDE DEF o
      <3>4. a \o (lost \o o) = (a \o lost) \o o
        BY SMTT(60), <2>1, <2>2, ConcatAssociative
      <3> QED
        BY <3>1, <3>3, <3>4 DEF Taken, a
    <2> QED
      BY <2>3, <2>4
  <1>5. FromCalls(Append(Taken, x), Len(handled))
    <2>1. Taken \in Seq(TraceType) /\ FromCalls(Taken, Len(handled))
      BY LineTypes DEF LineInv
    <2>2. /\ DOMAIN Taken = 1..Len(Taken) /\ Len(Taken) \in Nat
          /\ DOMAIN Append(Taken, x) = 1..(Len(Taken) + 1)
          /\ Append(Taken, x)[Len(Taken) + 1] = x
          /\ \A i \in 1..Len(Taken) : Append(Taken, x)[i] = Taken[i]
      BY <1>2, <2>1, AppendProperties, LenProperties
    <2> HIDE DEF Taken
    <2> QED
      BY <1>3, <2>1, <2>2 DEF FromCalls
  <1>6. \A u \in Tasks : By(u, Taken)' = By(u, Append(Taken, x))
    BY <1>1, <1>4 DEF By
  <1>7. Line(t)' = Line(t)
    <2> DEFINE a == By(t, Taken)
               b == todo[t]
    <2>1. By(t, Taken)' = Append(a, x)
      BY <1>2, <1>3, <1>6, ByAppend
    <2>2. todo'[t] = r
      BY <1>1 DEF TypeInv, RfTypeOK
    <2>3. a \in Seq(TraceType) /\ b \in Seq(TraceType) /\ b # << >>
      BY <1>1, LineTypes
    <2>4. x = Head(b) /\ r = Tail(b)
      BY DEF x, r
    <2> HIDE DEF a, b
    <2>5. Append(a, x) \o r = a \o b
      BY <2>3, <2>4, MoveHead
    <2> QED
      BY <2>1, <2>2, <2>5 DEF Line, a, b
  <1>8. \A u \in Tasks \ {t} : Line(u)' = Line(u) /\ todo'[u] = todo[u]
    <2>1. \A u \in Tasks \ {t} : By(u, Taken)' = By(u, Taken)
      BY <1>2, <1>3, <1>6, ByAppend
    <2> QED
      BY <1>1, <2>1 DEF Line, TypeInv, RfTypeOK
  <1>9. ASSUME NEW u \in Tasks
        PROVE  /\ FromCalls(todo'[u], Len(handled))
               /\ \A i \in DOMAIN todo'[u] : handled[todo'[u][i].batch].by = u
               /\ Line(u)' = Line(u)
    <2>1. CASE u = t
      <3>1. todo'[u] = r
        BY <1>1, <2>1 DEF TypeInv, RfTypeOK
      <3>2. \A i \in DOMAIN todo[t] : todo[t][i].batch \in 1..Len(handled) /\ handled[todo[t][i].batch].by = t
        BY DEF LineInv, FromCalls
      <3> QED
        BY <1>2, <1>7, <2>1, <3>1, <3>2 DEF FromCalls
    <2>2. CASE u # t
      BY <1>8, <2>2 DEF LineInv
    <2> QED
      BY <2>1, <2>2
  <1>10. \A u \in Tasks : All(u)' = All(u)
    BY <1>1 DEF All, CallsOf, TracesOfCalls
  <1>11. (~stopped' => lost' = << >>) /\ (stopped' => queue' = << >>)
    BY <1>1 DEF LineInv
  <1> QED
    BY <1>1, <1>4, <1>5, <1>9, <1>10, <1>11 DEF LineInv, FromCalls, Ordered, Begins

(* A task is cancelled: what it had yet to send is lost.                   *)
LEMMA LineAbort ==
  ASSUME TypeInv, LineInv, NEW t \in Tasks, Abort(t)
  PROVE  LineInv'
  <1> SUFFICES ASSUME mode = "Outbound" PROVE LineInv'
    BY DEF LineInv, Abort
  <1>1. /\ todo' = [todo EXCEPT ![t] = << >>] /\ aborted' = aborted \cup {t}
        /\ UNCHANGED <<mode, handled, queue, went, stopped, lost>>
    BY DEF Abort
  <1>2. Taken' = Taken /\ \A u \in Tasks : By(u, Taken)' = By(u, Taken) /\ All(u)' = All(u)
    BY <1>1 DEF Taken, By, CallsOf, All, TracesOfCalls
  <1>3. Ordered(Line(t)') /\ Begins(Line(t)', All(t))
    <2> DEFINE a == By(t, Taken)
               b == todo[t]
    <2>1. a \in Seq(TraceType) /\ b \in Seq(TraceType) /\ Ordered(a \o b)
      BY LineTypes DEF LineInv, Line
    <2>2. Line(t)' = a \o << >>
      BY <1>1, <1>2 DEF Line, TypeInv, RfTypeOK
    <2> HIDE DEF a, b
    <2>3. a \o << >> = a
      BY <2>1, ConcatEmptySeq
    <2>4. Ordered(a)
      BY <2>1, OrderedFirst
    <2>5. Begins(a \o b, All(t)) /\ All(t) \in Seq(TraceType)
      BY LineTypes DEF LineInv, Line, a, b
    <2>6. Begins(a, All(t))
      BY <2>1, <2>5, BeginsFirst
    <2> QED
      BY <2>2, <2>3, <2>4, <2>6
  <1>4. \A u \in Tasks \ {t} : Line(u)' = Line(u) /\ todo'[u] = todo[u]
    BY <1>1, <1>2 DEF Line, TypeInv, RfTypeOK
  <1>5. todo'[t] = << >> /\ DOMAIN << >> = {}
    BY <1>1 DEF TypeInv, RfTypeOK
  <1>6. ASSUME NEW u \in Tasks
        PROVE  /\ FromCalls(todo'[u], Len(handled))
               /\ \A i \in DOMAIN todo'[u] : handled[todo'[u][i].batch].by = u
               /\ Ordered(Line(u)') /\ Begins(Line(u)', All(u))
               /\ u \notin aborted' => Line(u)' = All(u)
    <2>1. CASE u = t
      BY <1>1, <1>3, <1>5, <2>1 DEF FromCalls
    <2>2. CASE u # t
      BY <1>1, <1>4, <2>2 DEF LineInv
    <2> QED
      BY <2>1, <2>2
  <1> QED
    BY <1>1, <1>2, <1>6 DEF LineInv, FromCalls, Ordered, Begins

(* What was sent is the same: no task's line moves.                        *)
LEMMA LineSame ==
  ASSUME LineInv, Taken' = Taken, UNCHANGED <<mode, handled, aborted, todo>>,
         ~stopped' => lost' = << >>, stopped' => queue' = << >>
  PROVE  LineInv'
  <1>1. \A t \in Tasks : Line(t)' = Line(t) /\ All(t)' = All(t)
    BY DEF Line, By, CallsOf, All, TracesOfCalls
  <1> QED
    BY <1>1 DEF LineInv, FromCalls, Ordered, Begins

(* The forwarder takes a trace, or returns and drops its queue.            *)
LEMMA LineTakes ==
  ASSUME TypeInv, LineInv, ForwarderTakes \/ ForwarderStops
  PROVE  LineInv'
  <1> SUFFICES ASSUME mode = "Outbound" PROVE LineInv'
    BY DEF LineInv, ForwarderTakes, ForwarderStops
  <1>1. queue \in Seq(TraceType) /\ went \in Seq(TraceType)
    BY DEF TypeInv, RfTypeOK
  <1>2. CASE ForwarderTakes
    <2>1. /\ queue # << >> /\ went' = Append(went, Head(queue)) /\ queue' = Tail(queue)
          /\ UNCHANGED <<mode, handled, aborted, todo, stopped, lost>>
      BY <1>2 DEF ForwarderTakes
    <2>2. Append(went, Head(queue)) \o Tail(queue) = went \o queue
      BY <1>1, <2>1, MoveHead
    <2>3. Taken' = Taken
      BY <2>1, <2>2 DEF Taken
    <2>4. (~stopped' => lost' = << >>) /\ (stopped' => queue' = << >>)
      BY <2>1 DEF LineInv
    <2> QED
      BY <2>1, <2>3, <2>4, LineSame
  <1>3. CASE ForwarderStops
    <2>1. /\ ~stopped /\ stopped' = TRUE /\ lost' = queue /\ queue' = << >>
          /\ UNCHANGED <<mode, handled, aborted, todo, went>>
      BY <1>3 DEF ForwarderStops
    <2>2. went \o << >> = went
      BY <1>1, ConcatEmptySeq
    <2> DEFINE a == went \o queue
    <2>3. a \in Seq(TraceType)
      BY <1>1, ConcatProperties
    <2>4. a \o << >> = a
      <3> HIDE DEF a
      <3> QED
        BY <2>3, ConcatEmptySeq
    <2> QED
      BY <2>1, <2>2, <2>4, LineSame DEF Taken, LineInv
  <1> QED
    BY <1>2, <1>3

(* A task calls forward(): its line gets the traces that match.            *)
LEMMA LineForward ==
  ASSUME TypeInv, LineInv, NEW t \in Tasks, NEW b \in Batches, Forward(t, b)
  PROVE  LineInv'
  <1> SUFFICES ASSUME mode = "Outbound" PROVE LineInv'
    BY DEF LineInv, Forward
  <1> DEFINE n == Len(handled)
             traces == TracesOf(b, n + 1)
             new == Matching(traces)
             call == [by |-> t, traces |-> traces]
  <1>1. /\ new \in Seq(TraceType) /\ traces \in Seq(TraceType) /\ Ordered(new)
        /\ \A i \in DOMAIN new : new[i].batch = n + 1
        /\ \A s \in Seq(TraceType) : FromCalls(s, n) => Precedes(s, new)
    BY FilteredFacts
  <1>2. /\ handled' = Append(handled, call) /\ todo' = [todo EXCEPT ![t] = new]
        /\ todo[t] = << >> /\ t \notin aborted
        /\ UNCHANGED <<mode, aborted, queue, went, stopped, lost>>
    BY DEF Forward
  <1> HIDE DEF traces, new
  <1>3. call \in Call /\ handled \in Seq(Call) /\ call.traces = traces /\ call.by = t
    BY <1>1 DEF Call, TypeInv, RfTypeOK
  <1> HIDE DEF call
  <1>4. /\ n \in Nat /\ Len(handled') = n + 1 /\ handled'[n + 1] = call
        /\ \A i \in 1..n : handled'[i] = handled[i]
        /\ DOMAIN handled = 1..n /\ DOMAIN handled' = 1..(n + 1)
    BY <1>2, <1>3, AppendProperties, LenProperties
  <1>5. \A s : FromCalls(s, n) => FromCalls(s, n + 1)
    BY <1>4 DEF FromCalls
  <1>6. Taken' = Taken /\ FromCalls(Taken, n)
    BY <1>2 DEF Taken, LineInv
  <1>7. ASSUME NEW u \in Tasks
        PROVE  By(u, Taken)' = By(u, Taken)
    <2> DEFINE s == Taken
               K == {i \in DOMAIN s : handled[s[i].batch].by = u}
               L == {i \in DOMAIN s : handled'[s[i].batch].by = u}
    <2>1. s \in Seq(TraceType) /\ FromCalls(s, n)
      BY <1>6, LineTypes
    <2>2. By(u, Taken) = Chosen(s, K) /\ By(u, Taken)' = Chosen(s, L)
      BY <1>6 DEF By
    <2> HIDE DEF s
    <2>3. DOMAIN s = 1..Len(s)
      BY <2>1, LenProperties
    <2>4. \A i \in 1..Len(s) : i \in K <=> i \in L
      BY <1>4, <2>1, <2>3 DEF FromCalls
    <2> HIDE DEF K, L
    <2>5. Chosen(s, K) = Chosen(s, L)
      BY <2>1, <2>4, ChosenSame
    <2> QED
      BY <2>2, <2>5
  <1>8. ASSUME NEW u \in Tasks
        PROVE  CallsOf(u)' = IF u = t THEN Append(CallsOf(u), call) ELSE CallsOf(u)
    <2> DEFINE h == handled'
               K == {i \in DOMAIN handled : handled[i].by = u}
               L == {i \in DOMAIN h : h[i].by = u}
    <2>1. CallsOf(u) = Chosen(handled, K) /\ CallsOf(u)' = Chosen(h, L)
      BY DEF CallsOf
    <2>2. h = Append(handled, call)
      BY <1>2
    <2> HIDE DEF h
    <2>3. /\ DOMAIN h = 1..(n + 1) /\ h[n + 1] = call /\ \A i \in 1..n : h[i] = handled[i]
      BY <1>4 DEF h
    <2>4. \A i \in 1..n : i \in K <=> i \in L
      BY <1>4, <2>3
    <2>5. n + 1 \in L <=> u = t
      BY <1>3, <1>4, <2>3
    <2> HIDE DEF K, L
    <2>6. Chosen(Append(handled, call), L) = IF Len(handled) + 1 \in L
            THEN Append(Chosen(handled, K), call) ELSE Chosen(handled, K)
      BY <1>3, <2>4, ChosenAppend
    <2> QED
      BY <2>1, <2>2, <2>5, <2>6
  <1>9. ASSUME NEW u \in Tasks \ {t}
        PROVE  /\ FromCalls(todo'[u], n + 1)
               /\ \A i \in DOMAIN todo'[u] : handled'[todo'[u][i].batch].by = u
               /\ Ordered(Line(u)') /\ Begins(Line(u)', All(u)')
               /\ u \notin aborted => Line(u)' = All(u)'
    <2>1. todo'[u] = todo[u] /\ FromCalls(todo[u], n)
      BY <1>2 DEF LineInv, TypeInv, RfTypeOK
    <2>2. \A i \in DOMAIN todo[u] : todo[u][i].batch \in 1..n /\ handled[todo[u][i].batch].by = u
      BY <2>1 DEF LineInv, FromCalls
    <2>3. Line(u)' = Line(u)
      BY <1>7, <2>1 DEF Line
    <2>4. All(u)' = All(u)
      <3>1. CallsOf(u)' = CallsOf(u)
        BY <1>8
      <3> QED
        BY <3>1 DEF All, TracesOfCalls
    <2>5. /\ Ordered(Line(u)) /\ Begins(Line(u), All(u))
          /\ u \notin aborted => Line(u) = All(u)
      BY DEF LineInv
    <2> QED
      BY <1>4, <1>5, <2>1, <2>2, <2>3, <2>4, <2>5
  <1> DEFINE a == By(t, Taken)
             c == TracesOfCalls(CallsOf(t))
  <1>10. /\ a \in Seq(TraceType) /\ c \in Seq(TraceType)
         /\ TracesOfCalls(CallsOf(t)') = c \o traces
    <2>1. a \in Seq(TraceType) /\ CallsOf(t) \in Seq(Call)
      BY LineTypes
    <2>2. CallsOf(t)' = Append(CallsOf(t), call)
      BY <1>8
    <2> HIDE DEF a
    <2>3. /\ c \in Seq(TraceType)
          /\ TracesOfCalls(Append(CallsOf(t), call)) = TracesOfCalls(CallsOf(t)) \o traces
      BY <1>3, <2>1, TracesOfCallsFacts
    <2> QED
      BY <2>1, <2>2, <2>3
  <1>11. a = Matching(c) /\ Ordered(a)
    <2>1. Line(t) = a \o << >> /\ Line(t) = Matching(c) /\ Ordered(Line(t))
      BY <1>2 DEF LineInv, Line, All
    <2> HIDE DEF a, c
    <2>2. a \o << >> = a
      BY <1>10, ConcatEmptySeq
    <2> QED
      BY <2>1, <2>2
  <1>12. Line(t)' = a \o new
    <2>1. todo'[t] = new
      BY <1>2 DEF TypeInv, RfTypeOK
    <2> QED
      BY <1>7, <2>1 DEF Line
  <1>13. FromCalls(a, n)
    <2> DEFINE s == Taken
               K == {i \in DOMAIN s : handled[s[i].batch].by = t}
    <2>1. a = Chosen(s, K) /\ s \in Seq(TraceType) /\ FromCalls(s, n)
      BY <1>6, LineTypes DEF By
    <2> HIDE DEF a, s, K
    <2>2. \A i \in DOMAIN Chosen(s, K) : \E j \in DOMAIN s \cap K : Chosen(s, K)[i] = s[j]
      BY <2>1, OrderedChosen
    <2> QED
      BY <2>1, <2>2 DEF FromCalls
  <1> HIDE DEF a, c
  <1>14. All(t)' = a \o new
    <2>1. Matching(c \o traces) = Matching(c) \o new
      BY <1>1, <1>10, MatchingConcat DEF new
    <2>2. All(t)' = Matching(TracesOfCalls(CallsOf(t)'))
      BY DEF All, TracesOfCalls, Matching, MatchesFilter
    <2> QED
      BY <1>10, <1>11, <2>1, <2>2
  <1>15. Ordered(a \o new) /\ Begins(a \o new, a \o new)
    <2>1. a \o new \in Seq(TraceType)
      BY <1>1, <1>10, ConcatProperties
    <2> QED
      BY <1>1, <1>10, <1>11, <1>13, <2>1, OrderedConcat, BeginsItself
  <1>16. /\ FromCalls(todo'[t], n + 1)
         /\ \A i \in DOMAIN todo'[t] : handled'[todo'[t][i].batch].by = t
    <2>1. todo'[t] = new
      BY <1>2 DEF TypeInv, RfTypeOK
    <2>2. n + 1 \in 1..(n + 1)
      BY <1>4
    <2> HIDE DEF n
    <2> QED
      BY <1>1, <1>3, <1>4, <2>1, <2>2 DEF FromCalls
  <1>17. ASSUME NEW u \in Tasks
         PROVE  /\ FromCalls(todo'[u], n + 1)
                /\ \A i \in DOMAIN todo'[u] : handled'[todo'[u][i].batch].by = u
                /\ Ordered(Line(u)') /\ Begins(Line(u)', All(u)')
                /\ u \notin aborted => Line(u)' = All(u)'
    BY <1>9, <1>12, <1>14, <1>15, <1>16
  <1>18. FromCalls(Taken', n + 1) /\ Len(handled') = n + 1 /\ aborted' = aborted
    BY <1>2, <1>4, <1>5, <1>6
  <1>19. (~stopped' => lost' = << >>) /\ (stopped' => queue' = << >>)
    BY <1>2 DEF LineInv
  <1> HIDE DEF n
  <1> QED
    BY <1>17, <1>18, <1>19 DEF LineInv, FromCalls, Ordered, Begins

(* Every step keeps each task's line.                                      *)
LEMMA LineStep == TypeInv /\ LineInv /\ [RfNext]_rfVars => LineInv'
  <1> SUFFICES ASSUME TypeInv, LineInv, [RfNext]_rfVars PROVE LineInv'
    OBVIOUS
  <1>1. CASE UNCHANGED <<mode, handled, outVars>>
    <2>1. Taken' = Taken /\ UNCHANGED <<mode, handled, aborted, todo, queue, stopped, lost>>
      BY <1>1 DEF Taken, outVars
    <2>2. CASE mode = "Outbound"
      BY <2>1, <2>2, LineSame DEF LineInv
    <2>3. CASE mode # "Outbound"
      BY <2>1, <2>3 DEF LineInv
    <2> QED
      BY <2>2, <2>3
  <1>2. ASSUME NEW d \in Downstreams,
               \/ Accept(d) \/ HandshakeDone(d) \/ Break(d)
               \/ \E n \in RequestCounts \cup {Done} : Ask(d, n)
        PROVE  LineInv'
    BY <1>1, <1>2 DEF Accept, HandshakeDone, Break, Ask
  <1>3. ASSUME NEW d \in Downstreams, HandshakeFails(d) \/ DownstreamHandler(d)
        PROVE  LineInv'
    BY <1>1, <1>3 DEF HandshakeFails, DownstreamHandler, Receive, Drain, Answer, AnswerUnread,
                      Leave, Ends
  <1>4. CASE UNCHANGED rfVars
    BY <1>1, <1>4 DEF rfVars
  <1> QED
    BY <1>2, <1>3, <1>4, LineForward, LineSend, LineAbort, LineTakes
    DEF RfNext, Outbound

(* Outbound, the traces of one task are sent in order and without a gap,   *)
(* and none is lost while the forwarder runs and the task is not           *)
(* cancelled, however the tasks take turns at a full queue.                *)
THEOREM TasksAreForwardedInOrder == RfSpec => []TasksKeepTheirOrder
  <1>1. ASSUME TypeInv, LineInv
        PROVE  TasksKeepTheirOrder
    <2> SUFFICES ASSUME mode = "Outbound"
                 PROVE  /\ ~stopped => lost = << >>
                        /\ \A t \in Tasks :
                             /\ Increasing(By(t, Taken))
                             /\ IsPrefix(By(t, Taken), All(t))
                             /\ t \notin aborted => By(t, Taken) \o todo[t] = All(t)
      BY DEF TasksKeepTheirOrder, By, Taken, CallsOf, TracesOfCalls, All
    <2>4. ~stopped => lost = << >>
      BY <1>1 DEF LineInv
    <2> SUFFICES ASSUME NEW t \in Tasks
                 PROVE  /\ Increasing(By(t, Taken))
                        /\ IsPrefix(By(t, Taken), All(t))
                        /\ t \notin aborted => By(t, Taken) \o todo[t] = All(t)
      BY <2>4
    <2> DEFINE a == By(t, Taken)
               b == todo[t]
               m == All(t)
    <2>1. a \in Seq(TraceType) /\ b \in Seq(TraceType) /\ Ordered(a \o b)
      BY <1>1, LineTypes DEF LineInv, Line
    <2>2. t \notin aborted => a \o b = m
      BY <1>1 DEF LineInv, Line
    <2>3. m \in Seq(TraceType) /\ Begins(a \o b, m)
      BY <1>1, LineTypes DEF LineInv, Line
    <2> HIDE DEF a, b, m
    <2>5. Ordered(a)
      BY <2>1, OrderedFirst
    <2>6. IsPrefix(a, m)
      BY <2>1, <2>3, BeginsFirst, BeginsIsPrefix
    <2> QED
      BY <2>1, <2>2, <2>5, <2>6, OrderedIncreasing DEF a, b, m
  <1> QED
    BY TypeInit, TypeStep, LineInit, LineStep, <1>1, PTL DEF RfSpec

=============================================================================

----------------------------- MODULE WireProofs -----------------------------
(***************************************************************************)
(* Whatever the messages of the four protocols hold, and however the       *)
(* stream is cut, the decoders give back what was encoded, take no token   *)
(* too many or too few, and wait for more exactly while a message is not   *)
(* complete; and what follows for a session.                               *)
(***************************************************************************)
EXTENDS Wire, SequenceLemmas

-----------------------------------------------------------------------------
(* Vectors                                                                 *)

(* The elements and the length of a vector.                                *)
LEMMA VecFacts ==
  ASSUME NEW s, IsVec(s)
  PROVE  /\ s \in Seq(Range(s)) /\ Len(s) \in Nat /\ DOMAIN s = 1..Len(s)
         /\ \A x : x \in Range(s) <=> \E i \in 1..Len(s) : s[i] = x
  BY RangeIndexed DEF IsVec

(* What is a sequence of anything is a vector.                             *)
LEMMA SeqIsVec ==
  ASSUME NEW S, NEW s \in Seq(S)
  PROVE  IsVec(s)
  <1>1. Len(s) \in Nat /\ s \in [1..Len(s) -> S] /\ DOMAIN s = 1..Len(s)
    BY LenProperties
  <1>2. s \in [1..Len(s) -> Range(s)]
    BY <1>1 DEF Range
  <1> QED
    BY <1>1, <1>2, SeqDef DEF IsVec

(* One element more.                                                       *)
LEMMA VecAppend ==
  ASSUME NEW s, IsVec(s), NEW x
  PROVE  /\ IsVec(Append(s, x)) /\ Len(Append(s, x)) = Len(s) + 1
         /\ Append(s, x)[Len(s) + 1] = x /\ Last(Append(s, x)) = x
         /\ \A i \in 1..Len(s) : Append(s, x)[i] = s[i]
  <1>1. PICK S : S = Range(s) \cup {x}
    OBVIOUS
  <1>2. s \in Seq(S) /\ x \in S /\ Len(s) \in Nat
    BY <1>1, SeqMonotonic, VecFacts DEF IsVec
  <1>3. PICK t : t = Append(s, x)
    OBVIOUS
  <1>4. /\ t \in Seq(S) /\ Len(t) = Len(s) + 1 /\ t[Len(s) + 1] = x
        /\ \A i \in 1..Len(s) : t[i] = s[i]
    BY <1>2, <1>3, AppendProperties
  <1> QED
    BY <1>3, <1>4, SeqIsVec DEF Last

(* One vector after the other.                                             *)
LEMMA VecConcat ==
  ASSUME NEW s, IsVec(s), NEW t, IsVec(t)
  PROVE  /\ IsVec(s \o t) /\ Len(s \o t) = Len(s) + Len(t)
         /\ \A i \in 1..Len(s) : (s \o t)[i] = s[i]
         /\ \A i \in 1..Len(t) : (s \o t)[Len(s) + i] = t[i]
  <1>1. PICK S : S = Range(s) \cup Range(t)
    OBVIOUS
  <1>2. s \in Seq(S) /\ t \in Seq(S) /\ Len(s) \in Nat /\ Len(t) \in Nat
    BY <1>1, SeqMonotonic, VecFacts DEF IsVec
  <1>3. PICK u : u = s \o t
    OBVIOUS
  <1>4. /\ u \in Seq(S) /\ Len(u) = Len(s) + Len(t)
        /\ \A i \in 1..(Len(s) + Len(t)) : u[i] = IF i <= Len(s) THEN s[i] ELSE t[i - Len(s)]
    BY <1>2, <1>3, ConcatProperties
  <1>5. \A i \in 1..Len(t) : Len(s) + i \in 1..(Len(s) + Len(t)) /\ ~(Len(s) + i <= Len(s))
                              /\ (Len(s) + i) - Len(s) = i
    BY <1>2
  <1>6. \A i \in 1..Len(s) : i \in 1..(Len(s) + Len(t)) /\ i <= Len(s)
    BY <1>2
  <1> QED
    BY <1>3, <1>4, <1>5, <1>6, SeqIsVec

(* A part of a vector.                                                     *)
LEMMA VecPart ==
  ASSUME NEW s, IsVec(s), NEW a \in Nat \ {0}, NEW b \in 0..Len(s)
  PROVE  /\ IsVec(SubSeq(s, a, b)) /\ Len(SubSeq(s, a, b)) = IF a <= b THEN b - a + 1 ELSE 0
         /\ \A i \in 1..(b - a + 1) : SubSeq(s, a, b)[i] = s[a + i - 1]
  <1>1. Len(s) \in Nat /\ \A i \in a..b : s[i] \in Range(s)
    BY VecFacts
  <1>2. /\ SubSeq(s, a, b) \in Seq(Range(s))
        /\ Len(SubSeq(s, a, b)) = IF a <= b THEN b - a + 1 ELSE 0
        /\ \A i \in 1..(b - a + 1) : SubSeq(s, a, b)[i] = s[a + i - 1]
    BY <1>1, SubSeqProperties
  <1> QED
    BY <1>2, SeqIsVec

(* Vectors with the same elements are equal.                               *)
LEMMA VecEqual ==
  ASSUME NEW s, IsVec(s), NEW t, IsVec(t), Len(s) = Len(t), \A i \in 1..Len(s) : s[i] = t[i]
  PROVE  s = t
  <1>1. PICK S : S = Range(s) \cup Range(t)
    OBVIOUS
  <1>2. s \in Seq(S) /\ t \in Seq(S)
    BY <1>1, SeqMonotonic DEF IsVec
  <1> QED
    BY <1>2, SeqEqual

(* Appending to the last part.                                             *)
LEMMA ConcatAppend ==
  ASSUME NEW g, IsVec(g), NEW vs, IsVec(vs), NEW x
  PROVE  Append(g \o vs, x) = g \o Append(vs, x)
  <1>1. PICK s, t, u, gv : /\ gv = g \o vs /\ s = Append(gv, x)
                           /\ u = Append(vs, x) /\ t = g \o u
    OBVIOUS
  <1>2. PICK m, n : m = Len(g) /\ n = Len(vs)
    OBVIOUS
  <1>3. m \in Nat /\ n \in Nat
    BY <1>2, VecFacts
  <1>4. /\ IsVec(gv) /\ Len(gv) = m + n
        /\ \A i \in 1..m : gv[i] = g[i]
        /\ \A i \in 1..n : gv[m + i] = vs[i]
    BY <1>1, <1>2, VecConcat
  <1>5. /\ IsVec(s) /\ Len(s) = (m + n) + 1 /\ s[(m + n) + 1] = x
        /\ \A i \in 1..(m + n) : s[i] = gv[i]
    BY <1>1, <1>4, VecAppend
  <1>6. IsVec(u) /\ Len(u) = n + 1 /\ u[n + 1] = x /\ \A i \in 1..n : u[i] = vs[i]
    BY <1>1, <1>2, VecAppend
  <1>7. /\ IsVec(t) /\ Len(t) = m + (n + 1)
        /\ \A i \in 1..m : t[i] = g[i]
        /\ \A i \in 1..(n + 1) : t[m + i] = u[i]
    BY <1>1, <1>2, <1>6, VecConcat
  <1>8. ASSUME NEW i \in 1..((m + n) + 1)
        PROVE  s[i] = t[i]
    <2>1. CASE i \in 1..m
      <3>1. i \in 1..(m + n)
        BY <1>3, <2>1
      <3> QED
        BY <1>4, <1>5, <1>7, <2>1, <3>1
    <2>2. ASSUME NEW j \in 1..n, i = m + j
          PROVE  s[i] = t[i]
      <3>1. i \in 1..(m + n) /\ j \in 1..(n + 1)
        BY <1>3, <2>2
      <3> QED
        BY <1>4, <1>5, <1>6, <1>7, <2>2, <3>1
    <2>3. CASE i = m + (n + 1)
      <3>1. i = (m + n) + 1 /\ n + 1 \in 1..(n + 1)
        BY <1>3, <2>3
      <3> QED
        BY <1>5, <1>6, <1>7, <2>3, <3>1
    <2>4. i \in 1..m \/ i = m + (n + 1) \/ (i - m \in 1..n /\ i = m + (i - m))
      BY <1>3
    <2> QED
      BY <2>1, <2>2, <2>3, <2>4
  <1>9. Len(s) = Len(t) /\ \A i \in 1..Len(s) : s[i] = t[i]
    BY <1>3, <1>5, <1>7, <1>8
  <1> QED
    BY <1>1, <1>5, <1>7, <1>9, VecEqual

(* What was added, and what was there.                                     *)
LEMMA ConcatCut ==
  ASSUME NEW g, IsVec(g), NEW vs, IsVec(vs)
  PROVE  SubSeq(g \o vs, Len(g) + 1, Len(g \o vs)) = vs
  <1>1. PICK s, t : s = g \o vs /\ t = SubSeq(g \o vs, Len(g) + 1, Len(g \o vs))
    OBVIOUS
  <1>2. Len(g) \in Nat /\ Len(vs) \in Nat
    BY VecFacts
  <1>3. IsVec(s) /\ Len(s) = Len(g) + Len(vs) /\ \A i \in 1..Len(vs) : s[Len(g) + i] = vs[i]
    BY <1>1, VecConcat
  <1>4. PICK a, b : a = Len(g) + 1 /\ b = Len(s)
    OBVIOUS
  <1>5. a \in Nat \ {0} /\ b \in 0..Len(s) /\ b - a + 1 = Len(vs) /\ (a <= b \/ Len(vs) = 0)
    BY <1>2, <1>3, <1>4
  <1>6. /\ IsVec(t) /\ Len(t) = Len(vs)
        /\ \A i \in 1..Len(vs) : t[i] = s[a + i - 1]
    <2>1. t = SubSeq(s, a, b)
      BY <1>1, <1>4
    <2>2. /\ IsVec(t) /\ Len(t) = IF a <= b THEN b - a + 1 ELSE 0
      BY <1>3, <1>5, <2>1, VecPart
    <2>3. \A i \in 1..(b - a + 1) : t[i] = s[a + i - 1]
      BY <1>3, <1>5, <2>1, VecPart
    <2> QED
      BY <1>5, <2>2, <2>3
  <1>7. \A i \in 1..Len(vs) : a + i - 1 = Len(g) + i
    BY <1>2, <1>4
  <1>8. \A i \in 1..Len(vs) : t[i] = vs[i]
    BY <1>3, <1>6, <1>7
  <1> QED
    BY <1>1, <1>6, <1>8, VecEqual

(* A longer vector by its elements.                                        *)
LEMMA AppendIs ==
  ASSUME NEW r, IsVec(r), NEW x, NEW t, IsVec(t), Len(t) = Len(r) + 1, t[Len(r) + 1] = x,
         \A i \in 1..Len(r) : r[i] = t[i]
  PROVE  Append(r, x) = t
  <1>1. PICK s : s = Append(r, x)
    OBVIOUS
  <1>2. /\ IsVec(s) /\ Len(s) = Len(r) + 1 /\ s[Len(r) + 1] = x /\ Len(r) \in Nat
        /\ \A i \in 1..Len(r) : s[i] = r[i]
    BY <1>1, VecAppend, VecFacts
  <1>3. \A i \in 1..Len(s) : s[i] = t[i]
    BY <1>2
  <1> QED
    BY <1>1, <1>2, <1>3, VecEqual

(* Tuples are vectors, and longer by one when a value is added.            *)
LEMMA Tuples ==
  /\ IsVec(<< >>)
  /\ \A a : Append(<< >>, a) = <<a>> /\ IsVec(<<a>>)
  /\ \A a, b : Append(<<a>>, b) = <<a, b>> /\ IsVec(<<a, b>>)
  /\ \A a, b, c : Append(<<a, b>>, c) = <<a, b, c>> /\ IsVec(<<a, b, c>>)
  /\ \A a, b, c, d : Append(<<a, b, c>>, d) = <<a, b, c, d>> /\ IsVec(<<a, b, c, d>>)
  /\ \A a, b, c, d, e : Append(<<a, b, c, d>>, e) = <<a, b, c, d, e>> /\ IsVec(<<a, b, c, d, e>>)
  /\ \A a, b, c, d, e, f : Append(<<a, b, c, d, e>>, f) = <<a, b, c, d, e, f>> /\ IsVec(<<a, b, c, d, e, f>>)
  /\ \A a, b, c, d, e, f, h : Append(<<a, b, c, d, e, f>>, h) = <<a, b, c, d, e, f, h>> /\ IsVec(<<a, b, c, d, e, f, h>>)
  /\ \A a, b, c, d, e, f, h, k : Append(<<a, b, c, d, e, f, h>>, k) = <<a, b, c, d, e, f, h, k>> /\ IsVec(<<a, b, c, d, e, f, h, k>>)
  /\ \A a, b, c, d, e, f, h, k, l : Append(<<a, b, c, d, e, f, h, k>>, l) = <<a, b, c, d, e, f, h, k, l>> /\ IsVec(<<a, b, c, d, e, f, h, k, l>>)
  /\ \A a, b, c, d, e, f, h, k, l, m : Append(<<a, b, c, d, e, f, h, k, l>>, m) = <<a, b, c, d, e, f, h, k, l, m>> /\ IsVec(<<a, b, c, d, e, f, h, k, l, m>>)
  <1>0. IsVec(<< >>)
    BY SeqIsVec, EmptySeq
  <1>1. ASSUME NEW a
        PROVE  Append(<< >>, a) = <<a>> /\ IsVec(<<a>>)
    <2>1. PICK r, t : r = << >> /\ t = <<a>>
      OBVIOUS
    <2>2. t \in Seq({a}) /\ Len(t) = 1 /\ t[1] = a /\ Len(r) = 0
      BY <2>1
    <2>3. \A i \in 1..0 : r[i] = t[i]
      BY <2>1
    <2>4. IsVec(r) /\ IsVec(t)
      BY <1>0, <2>1, <2>2, SeqIsVec
    <2>5. Len(t) = Len(r) + 1 /\ t[Len(r) + 1] = a /\ \A i \in 1..Len(r) : r[i] = t[i]
      BY <2>2, <2>3
    <2>6. Append(r, a) = t
      BY <2>4, <2>5, AppendIs
    <2> QED
      BY <2>1, <2>4, <2>6
  <1>2. ASSUME NEW a, NEW b
        PROVE  Append(<<a>>, b) = <<a, b>> /\ IsVec(<<a, b>>)
    <2>1. PICK r, t : r = <<a>> /\ t = <<a, b>>
      OBVIOUS
    <2>2. t \in Seq({a, b}) /\ Len(t) = 2 /\ t[2] = b /\ Len(r) = 1
      BY <2>1
    <2>3. \A i \in 1..1 : r[i] = t[i]
      BY <2>1
    <2>4. IsVec(r) /\ IsVec(t)
      BY <1>1, <2>1, <2>2, SeqIsVec
    <2>5. Len(t) = Len(r) + 1 /\ t[Len(r) + 1] = b /\ \A i \in 1..Len(r) : r[i] = t[i]
      BY <2>2, <2>3
    <2>6. Append(r, b) = t
      BY <2>4, <2>5, AppendIs
    <2> QED
      BY <2>1, <2>4, <2>6
  <1>3. ASSUME NEW a, NEW b, NEW c
        PROVE  Append(<<a, b>>, c) = <<a, b, c>> /\ IsVec(<<a, b, c>>)
    <2>1. PICK r, t : r = <<a, b>> /\ t = <<a, b, c>>
      OBVIOUS
    <2>2. t \in Seq({a, b, c}) /\ Len(t) = 3 /\ t[3] = c /\ Len(r) = 2
      BY <2>1
    <2>3. \A i \in 1..2 : r[i] = t[i]
      BY <2>1
    <2>4. IsVec(r) /\ IsVec(t)
      BY <1>2, <2>1, <2>2, SeqIsVec
    <2>5. Len(t) = Len(r) + 1 /\ t[Len(r) + 1] = c /\ \A i \in 1..Len(r) : r[i] = t[i]
      BY <2>2, <2>3
    <2>6. Append(r, c) = t
      BY <2>4, <2>5, AppendIs
    <2> QED
      BY <2>1, <2>4, <2>6
  <1>4. ASSUME NEW a, NEW b, NEW c, NEW d
        PROVE  Append(<<a, b, c>>, d) = <<a, b, c, d>> /\ IsVec(<<a, b, c, d>>)
    <2>1. PICK r, t : r = <<a, b, c>> /\ t = <<a, b, c, d>>
      OBVIOUS
    <2>2. t \in Seq({a, b, c, d}) /\ Len(t) = 4 /\ t[4] = d /\ Len(r) = 3
      BY <2>1
    <2>3. \A i \in 1..3 : r[i] = t[i]
      BY <2>1
    <2>4. IsVec(r) /\ IsVec(t)
      BY <1>3, <2>1, <2>2, SeqIsVec
    <2>5. Len(t) = Len(r) + 1 /\ t[Len(r) + 1] = d /\ \A i \in 1..Len(r) : r[i] = t[i]
      BY <2>2, <2>3
    <2>6. Append(r, d) = t
      BY <2>4, <2>5, AppendIs
    <2> QED
      BY <2>1, <2>4, <2>6
  <1>5. ASSUME NEW a, NEW b, NEW c, NEW d, NEW e
        PROVE  Append(<<a, b, c, d>>, e) = <<a, b, c, d, e>> /\ IsVec(<<a, b, c, d, e>>)
    <2>1. PICK r, t : r = <<a, b, c, d>> /\ t = <<a, b, c, d, e>>
      OBVIOUS
    <2>2. t \in Seq({a, b, c, d, e}) /\ Len(t) = 5 /\ t[5] = e /\ Len(r) = 4
      BY <2>1
    <2>3. \A i \in 1..4 : r[i] = t[i]
      BY <2>1
    <2>4. IsVec(r) /\ IsVec(t)
      BY <1>4, <2>1, <2>2, SeqIsVec
    <2>5. Len(t) = Len(r) + 1 /\ t[Len(r) + 1] = e /\ \A i \in 1..Len(r) : r[i] = t[i]
      BY <2>2, <2>3
    <2>6. Append(r, e) = t
      BY <2>4, <2>5, AppendIs
    <2> QED
      BY <2>1, <2>4, <2>6
  <1>6. ASSUME NEW a, NEW b, NEW c, NEW d, NEW e, NEW f
        PROVE  Append(<<a, b, c, d, e>>, f) = <<a, b, c, d, e, f>> /\ IsVec(<<a, b, c, d, e, f>>)
    <2>1. PICK r, t : r = <<a, b, c, d, e>> /\ t = <<a, b, c, d, e, f>>
      OBVIOUS
    <2>2. t \in Seq({a, b, c, d, e, f}) /\ Len(t) = 6 /\ t[6] = f /\ Len(r) = 5
      BY <2>1
    <2>3. \A i \in 1..5 : r[i] = t[i]
      BY <2>1
    <2>4. IsVec(r) /\ IsVec(t)
      BY <1>5, <2>1, <2>2, SeqIsVec
    <2>5. Len(t) = Len(r) + 1 /\ t[Len(r) + 1] = f /\ \A i \in 1..Len(r) : r[i] = t[i]
      BY <2>2, <2>3
    <2>6. Append(r, f) = t
      BY <2>4, <2>5, AppendIs
    <2> QED
      BY <2>1, <2>4, <2>6
  <1>7. ASSUME NEW a, NEW b, NEW c, NEW d, NEW e, NEW f, NEW h
        PROVE  Append(<<a, b, c, d, e, f>>, h) = <<a, b, c, d, e, f, h>> /\ IsVec(<<a, b, c, d, e, f, h>>)
    <2>1. PICK r, t : r = <<a, b, c, d, e, f>> /\ t = <<a, b, c, d, e, f, h>>
      OBVIOUS
    <2>2. t \in Seq({a, b, c, d, e, f, h}) /\ Len(t) = 7 /\ t[7] = h /\ Len(r) = 6
      BY <2>1
    <2>3. \A i \in 1..6 : r[i] = t[i]
      BY <2>1
    <2>4. IsVec(r) /\ IsVec(t)
      BY <1>6, <2>1, <2>2, SeqIsVec
    <2>5. Len(t) = Len(r) + 1 /\ t[Len(r) + 1] = h /\ \A i \in 1..Len(r) : r[i] = t[i]
      BY <2>2, <2>3
    <2>6. Append(r, h) = t
      BY <2>4, <2>5, AppendIs
    <2> QED
      BY <2>1, <2>4, <2>6
  <1>8. ASSUME NEW a, NEW b, NEW c, NEW d, NEW e, NEW f, NEW h, NEW k
        PROVE  Append(<<a, b, c, d, e, f, h>>, k) = <<a, b, c, d, e, f, h, k>> /\ IsVec(<<a, b, c, d, e, f, h, k>>)
    <2>1. PICK r, t : r = <<a, b, c, d, e, f, h>> /\ t = <<a, b, c, d, e, f, h, k>>
      OBVIOUS
    <2>2. t \in Seq({a, b, c, d, e, f, h, k}) /\ Len(t) = 8 /\ t[8] = k /\ Len(r) = 7
      BY <2>1
    <2>3. \A i \in 1..7 : r[i] = t[i]
      BY <2>1
    <2>4. IsVec(r) /\ IsVec(t)
      BY <1>7, <2>1, <2>2, SeqIsVec
    <2>5. Len(t) = Len(r) + 1 /\ t[Len(r) + 1] = k /\ \A i \in 1..Len(r) : r[i] = t[i]
      BY <2>2, <2>3
    <2>6. Append(r, k) = t
      BY <2>4, <2>5, AppendIs
    <2> QED
      BY <2>1, <2>4, <2>6
  <1>9. ASSUME NEW a, NEW b, NEW c, NEW d, NEW e, NEW f, NEW h, NEW k, NEW l
        PROVE  Append(<<a, b, c, d, e, f, h, k>>, l) = <<a, b, c, d, e, f, h, k, l>> /\ IsVec(<<a, b, c, d, e, f, h, k, l>>)
    <2>1. PICK r, t : r = <<a, b, c, d, e, f, h, k>> /\ t = <<a, b, c, d, e, f, h, k, l>>
      OBVIOUS
    <2>2. t \in Seq({a, b, c, d, e, f, h, k, l}) /\ Len(t) = 9 /\ t[9] = l /\ Len(r) = 8
      BY <2>1
    <2>3. \A i \in 1..8 : r[i] = t[i]
      BY <2>1
    <2>4. IsVec(r) /\ IsVec(t)
      BY <1>8, <2>1, <2>2, SeqIsVec
    <2>5. Len(t) = Len(r) + 1 /\ t[Len(r) + 1] = l /\ \A i \in 1..Len(r) : r[i] = t[i]
      BY <2>2, <2>3
    <2>6. Append(r, l) = t
      BY <2>4, <2>5, AppendIs
    <2> QED
      BY <2>1, <2>4, <2>6
  <1>10. ASSUME NEW a, NEW b, NEW c, NEW d, NEW e, NEW f, NEW h, NEW k, NEW l, NEW m
        PROVE  Append(<<a, b, c, d, e, f, h, k, l>>, m) = <<a, b, c, d, e, f, h, k, l, m>> /\ IsVec(<<a, b, c, d, e, f, h, k, l, m>>)
    <2>1. PICK r, t : r = <<a, b, c, d, e, f, h, k, l>> /\ t = <<a, b, c, d, e, f, h, k, l, m>>
      OBVIOUS
    <2>2. t \in Seq({a, b, c, d, e, f, h, k, l, m}) /\ Len(t) = 10 /\ t[10] = m /\ Len(r) = 9
      BY <2>1
    <2>3. \A i \in 1..9 : r[i] = t[i]
      BY <2>1
    <2>4. IsVec(r) /\ IsVec(t)
      BY <1>9, <2>1, <2>2, SeqIsVec
    <2>5. Len(t) = Len(r) + 1 /\ t[Len(r) + 1] = m /\ \A i \in 1..Len(r) : r[i] = t[i]
      BY <2>2, <2>3
    <2>6. Append(r, m) = t
      BY <2>4, <2>5, AppendIs
    <2> QED
      BY <2>1, <2>4, <2>6
  <1> QED
    BY <1>0, <1>1, <1>2, <1>3, <1>4, <1>5, <1>6, <1>7, <1>8, <1>9, <1>10

(* Concatenation is associative, and the empty vector is neutral.          *)
Assoc(a, b, c) == (a \o b) \o c = a \o (b \o c)

(* Concatenation of vectors is associative.                                *)
LEMMA VecAssoc ==
  ASSUME NEW a, IsVec(a), NEW b, IsVec(b), NEW c, IsVec(c)
  PROVE  (a \o b) \o c = a \o (b \o c)
  <1>1. PICK S : S = (Range(a) \cup Range(b)) \cup Range(c)
    OBVIOUS
  <1>2. a \in Seq(S) /\ b \in Seq(S) /\ c \in Seq(S)
    BY <1>1, SeqMonotonic DEF IsVec
  <1> QED
    BY <1>2, ConcatAssociative

(* The same, as a predicate the provers match on.                          *)
LEMMA VecsAssoc ==
  ASSUME NEW a, IsVec(a), NEW b, IsVec(b), NEW c, IsVec(c)
  PROVE  Assoc(a, b, c)
  BY VecAssoc DEF Assoc

(* The empty vector is neutral for concatenation.                          *)
LEMMA VecNeutral ==
  ASSUME NEW a, IsVec(a)
  PROVE  a \o << >> = a /\ << >> \o a = a
  BY ConcatEmptySeq DEF IsVec

(* A vector of no elements is the empty one.                               *)
LEMMA VecEmpty ==
  ASSUME NEW a, IsVec(a)
  PROVE  a = << >> <=> Len(a) = 0
  BY EmptySeq DEF IsVec

(* A single element in front.                                              *)
LEMMA VecCons ==
  ASSUME NEW t, NEW r, IsVec(r)
  PROVE  /\ IsVec(Cons(t, r)) /\ Len(Cons(t, r)) = Len(r) + 1
         /\ Cons(t, r)[1] = t /\ \A i \in 1..Len(r) : Cons(t, r)[i + 1] = r[i]
  <1>1. PICK u : u = <<t>>
    OBVIOUS
  <1>2. Len(u) = 1 /\ u[1] = t
    BY <1>1
  <1>3. IsVec(u)
    BY <1>1, Tuples
  <1>4. /\ IsVec(u \o r) /\ Len(u \o r) = 1 + Len(r) /\ (u \o r)[1] = t
        /\ \A i \in 1..Len(r) : (u \o r)[1 + i] = r[i]
    <2>1. /\ IsVec(u \o r) /\ Len(u \o r) = Len(u) + Len(r)
          /\ \A i \in 1..Len(u) : (u \o r)[i] = u[i]
          /\ \A i \in 1..Len(r) : (u \o r)[Len(u) + i] = r[i]
      BY <1>3, VecConcat
    <2>2. 1 \in 1..Len(u)
      BY <1>2
    <2> QED
      BY <1>2, <2>1, <2>2
  <1>5. Len(r) \in Nat
    BY VecFacts
  <1>6. \A i \in 1..Len(r) : 1 + i = i + 1
    BY <1>5
  <1> QED
    BY <1>1, <1>4, <1>5, <1>6 DEF Cons

(* The head and the tail of a vector.                                      *)
LEMMA VecTail ==
  ASSUME NEW s, IsVec(s), s # << >>
  PROVE  /\ IsVec(Tail(s)) /\ Len(Tail(s)) + 1 = Len(s) /\ Len(s) \in Nat \ {0}
         /\ Head(s) = s[1] /\ \A i \in 1..Len(Tail(s)) : Tail(s)[i] = s[i + 1]
  <1>1. s \in Seq(Range(s))
    BY DEF IsVec
  <1>2. /\ Tail(s) \in Seq(Range(s)) /\ Len(Tail(s)) = Len(s) - 1
        /\ \A i \in 1..Len(Tail(s)) : Tail(s)[i] = s[i + 1]
    BY <1>1, HeadTailProperties
  <1>3. IsVec(Tail(s))
    BY <1>2, SeqIsVec
  <1>4. Len(s) \in Nat /\ Len(s) # 0
    BY VecFacts, VecEmpty
  <1>5. Head(s) = s[1]
    BY <1>1
  <1> QED
    BY <1>2, <1>3, <1>4, <1>5

(* The stream s \o m begins with t and goes on with r.                     *)
Begins(s, m, t, r) == s \o m = Cons(t, r)

(* What begins with t begins with t, and goes on as it does.               *)
LEMMA ConsConcat ==
  ASSUME NEW s, IsVec(s), s # << >>, NEW m, IsVec(m), NEW r, IsVec(r), NEW t,
         Begins(s, m, t, r)
  PROVE  Head(s) = t /\ IsVec(Tail(s)) /\ Tail(s) \o m = r
  <1>1. PICK h, k : h = Tail(s) /\ k = h \o m
    OBVIOUS
  <1>2. /\ IsVec(h) /\ Len(h) + 1 = Len(s) /\ Len(s) \in Nat \ {0}
        /\ Head(s) = s[1] /\ \A i \in 1..Len(h) : h[i] = s[i + 1]
    BY <1>1, VecTail
  <1>3. /\ Len(m) \in Nat /\ Len(r) \in Nat /\ Len(h) \in Nat
        /\ IsVec(k) /\ Len(k) = Len(h) + Len(m)
        /\ \A i \in 1..Len(h) : k[i] = h[i]
        /\ \A i \in 1..Len(m) : k[Len(h) + i] = m[i]
    <2>1. Len(m) \in Nat /\ Len(r) \in Nat /\ Len(h) \in Nat
      BY <1>2, VecFacts
    <2>2. /\ IsVec(h \o m) /\ Len(h \o m) = Len(h) + Len(m)
          /\ \A i \in 1..Len(h) : (h \o m)[i] = h[i]
          /\ \A i \in 1..Len(m) : (h \o m)[Len(h) + i] = m[i]
      BY <1>2, VecConcat
    <2> QED
      BY <1>1, <2>1, <2>2
  <1>4. PICK z : z = s \o m
    OBVIOUS
  <1>5. /\ Len(z) = Len(s) + Len(m)
        /\ \A i \in 1..Len(s) : z[i] = s[i]
        /\ \A i \in 1..Len(m) : z[Len(s) + i] = m[i]
    <2>1. /\ Len(s \o m) = Len(s) + Len(m)
          /\ \A i \in 1..Len(s) : (s \o m)[i] = s[i]
          /\ \A i \in 1..Len(m) : (s \o m)[Len(s) + i] = m[i]
      BY VecConcat
    <2> QED
      BY <1>4, <2>1
  <1>6. Len(z) = Len(r) + 1 /\ z[1] = t /\ \A i \in 1..Len(r) : z[i + 1] = r[i]
    <2>1. z = Cons(t, r)
      BY <1>4 DEF Begins
    <2> QED
      BY <2>1, VecCons
  <1>7. Len(k) = Len(r) /\ s[1] = t
    <2>1. 1 \in 1..Len(s)
      BY <1>2
    <2> QED
      BY <1>2, <1>3, <1>5, <1>6, <2>1
  <1>8. ASSUME NEW i \in 1..Len(k)
        PROVE  k[i] = r[i]
    <2>1. CASE i \in 1..Len(h)
      <3>1. i + 1 \in 1..Len(s) /\ i \in 1..Len(r)
        BY <1>2, <1>3, <1>7, <2>1
      <3> QED
        BY <1>2, <1>3, <1>5, <1>6, <2>1, <3>1
    <2>2. CASE i \notin 1..Len(h)
      <3>1. PICK j \in 1..Len(m) : i = Len(h) + j
        <4>1. i - Len(h) \in 1..Len(m) /\ i = Len(h) + (i - Len(h))
          BY <1>3, <2>2
        <4> QED
          BY <4>1
      <3>2. i + 1 = Len(s) + j
        <4>1. Len(h) \in Nat /\ j \in Nat /\ Len(h) + 1 = Len(s)
          BY <1>2, <1>3
        <4> QED
          BY <3>1, <4>1
      <3>3. i \in 1..Len(r)
        BY <1>7
      <3> QED
        BY <1>3, <1>5, <1>6, <3>1, <3>2, <3>3
    <2> QED
      BY <2>1, <2>2
  <1>9. k = r
    BY <1>3, <1>7, <1>8, VecEqual
  <1> QED
    BY <1>1, <1>2, <1>7, <1>9

(* Two short words.                                                        *)
LEMMA TwoWords ==
  /\ \A a, b : <<a>> \o <<b>> = <<a, b>>
  /\ \A a, b, c : <<a>> \o <<b, c>> = <<a, b, c>>
  /\ \A a, b, c, d : <<a>> \o <<b, c, d>> = <<a, b, c, d>>
  <1>1. ASSUME NEW a, NEW b
        PROVE  <<a>> \o <<b>> = <<a, b>>
    <2>1. PICK u, v : u = <<a>> /\ v = << >>
      OBVIOUS
    <2>2. IsVec(u) /\ IsVec(v)
      BY <2>1, Tuples
    <2>3. Append(u \o v, b) = u \o Append(v, b) /\ u \o v = u
      <3>1. u \o << >> = u
        BY <2>2, VecNeutral
      <3> QED
        BY <2>1, <2>2, <3>1, ConcatAppend
    <2>4. Append(u, b) = <<a, b>> /\ Append(v, b) = <<b>>
      BY <2>1, Tuples
    <2> QED
      BY <2>1, <2>3, <2>4
  <1>2. ASSUME NEW a, NEW b, NEW c
        PROVE  <<a>> \o <<b, c>> = <<a, b, c>>
    <2>1. PICK u, v, w : u = <<a>> /\ v = <<b>> /\ w = <<a, b>>
      OBVIOUS
    <2>2. IsVec(u) /\ IsVec(v) /\ u \o v = w
      BY <1>1, <2>1, Tuples
    <2>3. Append(w, c) = u \o Append(v, c)
      BY <2>2, ConcatAppend
    <2>4. Append(w, c) = <<a, b, c>> /\ Append(v, c) = <<b, c>>
      BY <2>1, Tuples
    <2> QED
      BY <2>1, <2>3, <2>4
  <1>3. ASSUME NEW a, NEW b, NEW c, NEW d
        PROVE  <<a>> \o <<b, c, d>> = <<a, b, c, d>>
    <2>1. PICK u, v, w : u = <<a>> /\ v = <<b, c>> /\ w = <<a, b, c>>
      OBVIOUS
    <2>2. IsVec(u) /\ IsVec(v) /\ u \o v = w
      BY <1>2, <2>1, Tuples
    <2>3. Append(w, d) = u \o Append(v, d)
      BY <2>2, ConcatAppend
    <2>4. Append(w, d) = <<a, b, c, d>> /\ Append(v, d) = <<b, c, d>>
      BY <2>1, Tuples
    <2> QED
      BY <2>1, <2>3, <2>4
  <1> QED
    BY <1>1, <1>2, <1>3

(* Words of several tokens, token by token.                                *)
Is2(w, a, b) == w = <<a, b>>
Is3(w, a, b, c) == w = <<a, b, c>>
Is4(w, a, b, c, d) == w = <<a, b, c, d>>

(* A word of two tokens in front of a stream puts its tokens there one by  *)
(* one.                                                                    *)
LEMMA Words2 ==
  ASSUME NEW a, NEW b, NEW r, IsVec(r), NEW w, Is2(w, a, b)
  PROVE  w \o r = Cons(a, Cons(b, r)) /\ IsVec(w)
  <1>1. PICK u, v : u = <<a>> /\ v = <<b>>
    OBVIOUS
  <1>2. u \o v = w
    BY <1>1, TwoWords DEF Is2
  <1>3. IsVec(u) /\ IsVec(v)
    BY <1>1, Tuples
  <1>4. (u \o v) \o r = u \o (v \o r)
    BY <1>3, VecAssoc
  <1>5. w \o r = <<a>> \o (<<b>> \o r)
    BY <1>1, <1>2, <1>4
  <1>6. IsVec(w)
    BY Tuples DEF Is2
  <1> QED
    BY <1>5, <1>6 DEF Cons

(* The same for a word of three tokens.                                    *)
LEMMA Words3 ==
  ASSUME NEW a, NEW b, NEW c, NEW r, IsVec(r), NEW w, Is3(w, a, b, c)
  PROVE  w \o r = Cons(a, Cons(b, Cons(c, r))) /\ IsVec(w)
  <1>1. PICK u, v : u = <<a>> /\ v = <<b, c>>
    OBVIOUS
  <1>2. u \o v = w
    BY <1>1, TwoWords DEF Is3
  <1>3. IsVec(u) /\ IsVec(v) /\ IsVec(w)
    BY <1>1, Tuples DEF Is3
  <1>4. (u \o v) \o r = u \o (v \o r)
    BY <1>3, VecAssoc
  <1>5. v \o r = Cons(b, Cons(c, r))
    <2>1. Is2(v, b, c)
      BY <1>1 DEF Is2
    <2> QED
      BY <2>1, Words2
  <1>6. u \o (v \o r) = Cons(a, v \o r)
    BY <1>1 DEF Cons
  <1> QED
    BY <1>2, <1>3, <1>4, <1>5, <1>6

(* The same for a word of four tokens.                                     *)
LEMMA Words4 ==
  ASSUME NEW a, NEW b, NEW c, NEW d, NEW r, IsVec(r), NEW w, Is4(w, a, b, c, d)
  PROVE  w \o r = Cons(a, Cons(b, Cons(c, Cons(d, r)))) /\ IsVec(w)
  <1>1. PICK u, v : u = <<a>> /\ v = <<b, c, d>>
    OBVIOUS
  <1>2. u \o v = w
    BY <1>1, TwoWords DEF Is4
  <1>3. IsVec(u) /\ IsVec(v) /\ IsVec(w)
    BY <1>1, Tuples DEF Is4
  <1>4. (u \o v) \o r = u \o (v \o r)
    BY <1>3, VecAssoc
  <1>5. v \o r = Cons(b, Cons(c, Cons(d, r)))
    <2>1. Is3(v, b, c, d)
      BY <1>1 DEF Is3
    <2> QED
      BY <2>1, Words3
  <1>6. u \o (v \o r) = Cons(a, v \o r)
    BY <1>1 DEF Cons
  <1> QED
    BY <1>2, <1>3, <1>4, <1>5, <1>6

(* Tuples of five and six from their head and tail.                        *)
LEMMA LongWords ==
  /\ \A a, b, c, d, e : <<a>> \o <<b, c, d, e>> = <<a, b, c, d, e>>
  /\ \A a, b, c, d, e, f : <<a>> \o <<b, c, d, e, f>> = <<a, b, c, d, e, f>>
  <1>1. ASSUME NEW a, NEW b, NEW c, NEW d, NEW e
        PROVE  <<a>> \o <<b, c, d, e>> = <<a, b, c, d, e>>
    <2>1. PICK u, v, w : u = <<a>> /\ v = <<b, c, d>> /\ w = <<a, b, c, d>>
      OBVIOUS
    <2>2. IsVec(u) /\ IsVec(v) /\ u \o v = w
      BY <2>1, TwoWords, Tuples
    <2>3. Append(w, e) = u \o Append(v, e)
      BY <2>2, ConcatAppend
    <2>4. Append(w, e) = <<a, b, c, d, e>> /\ Append(v, e) = <<b, c, d, e>>
      BY <2>1, Tuples
    <2> QED
      BY <2>1, <2>3, <2>4
  <1>2. ASSUME NEW a, NEW b, NEW c, NEW d, NEW e, NEW f
        PROVE  <<a>> \o <<b, c, d, e, f>> = <<a, b, c, d, e, f>>
    <2>1. PICK u, v, w : u = <<a>> /\ v = <<b, c, d, e>> /\ w = <<a, b, c, d, e>>
      OBVIOUS
    <2>2. IsVec(u) /\ IsVec(v) /\ u \o v = w
      BY <1>1, <2>1, Tuples
    <2>3. Append(w, f) = u \o Append(v, f)
      BY <2>2, ConcatAppend
    <2>4. Append(w, f) = <<a, b, c, d, e, f>> /\ Append(v, f) = <<b, c, d, e, f>>
      BY <2>1, Tuples
    <2> QED
      BY <2>1, <2>3, <2>4
  <1> QED
    BY <1>1, <1>2

(* And of five and six.                                                    *)
Is5(w, a, b, c, d, e) == w = <<a, b, c, d, e>>
Is6(w, a, b, c, d, e, f) == w = <<a, b, c, d, e, f>>

(* The same for a word of five tokens.                                     *)
LEMMA Words5 ==
  ASSUME NEW a, NEW b, NEW c, NEW d, NEW e, NEW r, IsVec(r), NEW w, Is5(w, a, b, c, d, e)
  PROVE  w \o r = Cons(a, Cons(b, Cons(c, Cons(d, Cons(e, r))))) /\ IsVec(w)
  <1>1. PICK u, v : u = <<a>> /\ v = <<b, c, d, e>>
    OBVIOUS
  <1>2. u \o v = w
    BY <1>1, LongWords DEF Is5
  <1>3. IsVec(u) /\ IsVec(v) /\ IsVec(w)
    BY <1>1, Tuples DEF Is5
  <1>4. (u \o v) \o r = u \o (v \o r)
    BY <1>3, VecAssoc
  <1>5. v \o r = Cons(b, Cons(c, Cons(d, Cons(e, r))))
    <2>1. Is4(v, b, c, d, e)
      BY <1>1 DEF Is4
    <2> QED
      BY <2>1, Words4
  <1>6. u \o (v \o r) = Cons(a, v \o r)
    BY <1>1 DEF Cons
  <1> QED
    BY <1>2, <1>3, <1>4, <1>5, <1>6

(* The same for a word of six tokens.                                      *)
LEMMA Words6 ==
  ASSUME NEW a, NEW b, NEW c, NEW d, NEW e, NEW f, NEW r, IsVec(r), NEW w, Is6(w, a, b, c, d, e, f)
  PROVE  w \o r = Cons(a, Cons(b, Cons(c, Cons(d, Cons(e, Cons(f, r)))))) /\ IsVec(w)
  <1>1. PICK u, v : u = <<a>> /\ v = <<b, c, d, e, f>>
    OBVIOUS
  <1>2. u \o v = w
    BY <1>1, LongWords DEF Is6
  <1>3. IsVec(u) /\ IsVec(v) /\ IsVec(w)
    BY <1>1, Tuples DEF Is6
  <1>4. (u \o v) \o r = u \o (v \o r)
    BY <1>3, VecAssoc
  <1>5. v \o r = Cons(b, Cons(c, Cons(d, Cons(e, Cons(f, r)))))
    <2>1. Is5(v, b, c, d, e, f)
      BY <1>1 DEF Is5
    <2> QED
      BY <2>1, Words5
  <1>6. u \o (v \o r) = Cons(a, v \o r)
    BY <1>1 DEF Cons
  <1> QED
    BY <1>2, <1>3, <1>4, <1>5, <1>6

-----------------------------------------------------------------------------
(* A decoder in the stream                                                 *)

(* r is the stream from the decoder on, m the end of it that has not       *)
(* arrived, and g the values read before; if the decoder stands after what *)
(* has arrived, the input has ended.                                       *)
Sees(r, m, g, d) ==
  /\ IsVec(r) /\ IsVec(m) /\ IsVec(g) /\ IsVec(d.rest)
  /\ d = [rest |-> d.rest, got |-> d.got, st |-> d.st]
  /\ Len(m) <= Len(r) => d.st = "ok" /\ d.rest \o m = r /\ d.got = g
  /\ Len(m) > Len(r) => d.st = "end"

(* A decoder in a stream keeps its fields and types; it is well exactly if *)
(* what is missing is not more than the stream, and the two lengths add    *)
(* up.                                                                     *)
LEMMA SeesTypes ==
  ASSUME NEW r, NEW m, NEW g, NEW d, Sees(r, m, g, d)
  PROVE  /\ IsVec(r) /\ IsVec(m) /\ IsVec(g) /\ IsVec(d.rest)
         /\ Len(r) \in Nat /\ Len(m) \in Nat /\ Len(d.rest) \in Nat
         /\ d.st \in {"ok", "end"}
         /\ d = [rest |-> d.rest, got |-> d.got, st |-> d.st]
         /\ d.st = "ok" <=> Len(m) <= Len(r)
         /\ d.st = "ok" => d.got = g /\ Len(d.rest) + Len(m) = Len(r)
  <1>1. IsVec(r) /\ IsVec(m) /\ IsVec(g) /\ IsVec(d.rest)
    BY DEF Sees
  <1>2. Len(r) \in Nat /\ Len(m) \in Nat /\ Len(d.rest) \in Nat
    BY <1>1, VecFacts
  <1>3. Len(d.rest \o m) = Len(d.rest) + Len(m)
    BY <1>1, VecConcat
  <1> QED
    BY <1>1, <1>2, <1>3 DEF Sees

(* It reads a token of the kind it wants.                                  *)
LEMMA ReadToken ==
  ASSUME NEW t, NEW r, IsVec(r), NEW m, NEW g, NEW d, Sees(Cons(t, r), m, g, d),
         NEW want, Fits(t, want)
  PROVE  Sees(r, m, Append(g, t[2]), Read(d, want))
  <1>1. PICK e, h, z : e = Read(d, want) /\ h = Append(g, t[2]) /\ z = Cons(t, r)
    OBVIOUS
  <1>2. /\ Len(r) \in Nat /\ Len(m) \in Nat /\ Len(d.rest) \in Nat /\ Len(z) = Len(r) + 1
        /\ IsVec(m) /\ IsVec(g) /\ IsVec(d.rest)
        /\ d = [rest |-> d.rest, got |-> d.got, st |-> d.st]
        /\ d.st = "ok" <=> Len(m) <= Len(z)
        /\ d.st = "ok" => d.got = g /\ Len(d.rest) + Len(m) = Len(z)
        /\ d.st \in {"ok", "end"}
    BY <1>1, SeesTypes, VecCons, VecFacts
  <1>3. IsVec(h)
    BY <1>1, <1>2, VecAppend
  <1>4. CASE Len(m) > Len(z)
    <2>1. e = d /\ d.st = "end" /\ Len(m) > Len(r) /\ ~(Len(m) <= Len(r))
      <3>1. d.st = "end" /\ Len(m) > Len(r) /\ ~(Len(m) <= Len(r))
        BY <1>2, <1>4
      <3>2. Read(d, want) = d
        BY <3>1 DEF Read
      <3> QED
        BY <1>1, <3>1, <3>2
    <2> QED
      BY <1>1, <1>2, <1>3, <2>1 DEF Sees
  <1>5. CASE Len(m) = Len(z)
    <2>1. Len(d.rest) = 0 /\ d.st = "ok" /\ Len(m) > Len(r) /\ ~(Len(m) <= Len(r))
      BY <1>2, <1>5
    <2>2. d.rest = << >>
      BY <1>2, <2>1, VecEmpty
    <2>3. e = [rest |-> d.rest, got |-> d.got, st |-> "end"]
      BY <1>1, <1>2, <2>1, <2>2 DEF Read, AtEnd
    <2>4. e = [rest |-> e.rest, got |-> e.got, st |-> e.st] /\ e.rest = d.rest /\ e.st = "end"
      BY <2>3
    <2> QED
      BY <1>1, <1>2, <1>3, <2>1, <2>4 DEF Sees
  <1>6. CASE Len(m) < Len(z)
    <2>1. Len(d.rest) # 0 /\ d.st = "ok" /\ Len(m) <= Len(r) /\ ~(Len(m) > Len(r)) /\ d.got = g
      BY <1>2, <1>6
    <2>2. d.rest # << >>
      BY <1>2, <2>1, VecEmpty
    <2>3. Begins(d.rest, m, t, r)
      BY <1>1, <1>2, <2>1 DEF Sees, Begins
    <2>4. Head(d.rest) = t /\ IsVec(Tail(d.rest)) /\ Tail(d.rest) \o m = r
      BY <1>2, <2>2, <2>3, ConsConcat
    <2>5. e = [rest |-> Tail(d.rest), got |-> h, st |-> "ok"]
      BY <1>1, <1>2, <2>1, <2>2, <2>4 DEF Read, AtEnd
    <2>6. e = [rest |-> e.rest, got |-> e.got, st |-> e.st] /\ e.rest = Tail(d.rest) /\ e.got = h /\ e.st = "ok"
      BY <2>5
    <2> QED
      BY <1>1, <1>2, <1>3, <2>1, <2>4, <2>6 DEF Sees
  <1> QED
    BY <1>2, <1>4, <1>5, <1>6

(* It has read vs since it had g.                                          *)
SeesSince(r, m, g, vs, d) == IsVec(g) /\ IsVec(vs) /\ Sees(r, m, g \o vs, d)

(* A decoder in a stream has read nothing since.                           *)
LEMMA StartsAt ==
  ASSUME NEW r, NEW m, NEW g, NEW d, Sees(r, m, g, d)
  PROVE  SeesSince(r, m, g, << >>, d)
  <1>1. IsVec(g) /\ g \o << >> = g /\ IsVec(<< >>)
    BY SeesTypes, VecNeutral, Tuples
  <1> QED
    BY <1>1 DEF SeesSince

(* One value more has been read since.                                     *)
LEMMA GoesOn ==
  ASSUME NEW r, NEW m, NEW g, NEW vs, IsVec(g), IsVec(vs), NEW x, NEW e,
         Sees(r, m, Append(g \o vs, x), e)
  PROVE  SeesSince(r, m, g, Append(vs, x), e)
  <1>1. IsVec(Append(vs, x)) /\ Append(g \o vs, x) = g \o Append(vs, x)
    BY VecAppend, ConcatAppend
  <1> QED
    BY <1>1 DEF SeesSince

(* What it expects.                                                        *)
LEMMA ExpectMet ==
  ASSUME NEW r, NEW m, NEW g, NEW d, Sees(r, m, g, d), NEW S, Last(g) \in S
  PROVE  Expect(d, S) = d
  BY SeesTypes DEF Expect

(* It makes one value of what it read since it had g.                      *)
LEMMA MadeOne ==
  ASSUME NEW r, NEW q, Len(q) <= Len(r), NEW m, NEW g, NEW h, NEW d, NEW e,
         Sees(r, m, g, d), Sees(q, m, h, e), NEW v, NEW w, e.st = "ok" => v = w
  PROVE  Sees(q, m, Append(g, w), Made(d, e, v))
  <1>1. PICK f, k : f = Made(d, e, v) /\ k = Append(g, w)
    OBVIOUS
  <1>2. /\ IsVec(g)
        /\ d.st = "ok" <=> Len(m) <= Len(r)
        /\ d.st = "ok" => d.got = g
        /\ Len(r) \in Nat /\ Len(m) \in Nat
    BY SeesTypes
  <1>3. IsVec(k)
    BY <1>1, <1>2, VecAppend
  <1>4. /\ IsVec(q) /\ IsVec(m) /\ IsVec(e.rest) /\ Len(q) \in Nat
        /\ e = [rest |-> e.rest, got |-> e.got, st |-> e.st]
        /\ e.st = "ok" <=> Len(m) <= Len(q)
        /\ e.st \in {"ok", "end"}
    BY SeesTypes
  <1>5. CASE Len(m) > Len(q)
    <2>1. f = e /\ e.st = "end" /\ ~(Len(m) <= Len(q))
      BY <1>1, <1>4, <1>5 DEF Made
    <2> QED
      BY <1>1, <1>3, <1>4, <2>1 DEF Sees
  <1>6. CASE Len(m) <= Len(q)
    <2>1. d.got = g /\ e.st = "ok" /\ v = w /\ ~(Len(m) > Len(q)) /\ e.rest \o m = q
      BY <1>2, <1>4, <1>6 DEF Sees
    <2>2. f = [rest |-> e.rest, got |-> k, st |-> "ok"]
      BY <1>1, <1>4, <2>1 DEF Made
    <2>3. f = [rest |-> f.rest, got |-> f.got, st |-> f.st] /\ f.rest = e.rest /\ f.got = k /\ f.st = "ok"
      BY <2>2
    <2> QED
      BY <1>1, <1>3, <1>4, <2>1, <2>3 DEF Sees
  <1> QED
    BY <1>4, <1>2, <1>5, <1>6

(* What it read since.                                                     *)
LEMMA SinceThen ==
  ASSUME NEW r, NEW q, Len(q) <= Len(r), NEW m, NEW g, NEW vs, NEW d, NEW e,
         Sees(r, m, g, d), SeesSince(q, m, g, vs, e), e.st = "ok"
  PROVE  Since(d, e) = vs /\ d.st = "ok"
  <1>1. IsVec(g) /\ IsVec(vs) /\ Sees(q, m, g \o vs, e)
    BY DEF SeesSince
  <1>2. Len(m) <= Len(q) /\ Len(q) \in Nat /\ Len(m) \in Nat /\ e.got = g \o vs
    <2>1. PICK h : h = g \o vs /\ Sees(q, m, h, e)
      BY <1>1
    <2>2. /\ Len(q) \in Nat /\ Len(m) \in Nat
          /\ e.st = "ok" <=> Len(m) <= Len(q)
          /\ e.st = "ok" => e.got = h
      BY <2>1, SeesTypes
    <2> QED
      BY <2>1, <2>2
  <1>3. Len(r) \in Nat /\ (Len(m) <= Len(r) => d.st = "ok" /\ d.got = g)
    BY SeesTypes
  <1>4. d.st = "ok" /\ d.got = g
    BY <1>2, <1>3
  <1> QED
    BY <1>1, <1>2, <1>4, ConcatCut DEF Since

(* What fits.                                                              *)
LEMMA FitsArr == ASSUME NEW n PROVE Fits(Arr(n), "array") /\ Arr(n)[2] = n
  BY DEF Fits, Arr
(* A map header is read as a map of its size.                              *)
LEMMA FitsMap == ASSUME NEW n PROVE Fits(MapOf(n), "map") /\ MapOf(n)[2] = n
  BY DEF Fits, MapOf
(* A tag is read as its number.                                            *)
LEMMA FitsTag == ASSUME NEW n PROVE Fits(Tag(n), "tag") /\ Tag(n)[2] = n
  BY DEF Fits, Tag
(* A text token is read as its text.                                       *)
LEMMA FitsStr == ASSUME NEW n PROVE Fits(Str(n), "str") /\ Str(n)[2] = n
  BY DEF Fits, Str
(* A byte token is read as its bytes.                                      *)
LEMMA FitsBytes == ASSUME NEW n PROVE Fits(Bytes(n), "bytes") /\ Bytes(n)[2] = n
  BY DEF Fits, Bytes
(* A Boolean token is read as its value.                                   *)
LEMMA FitsBool == ASSUME NEW n PROVE Fits(Bool(n), "bool") /\ Bool(n)[2] = n
  BY DEF Fits, Bool
(* The start of a byte string in chunks is read as of unknown length.      *)
LEMMA FitsRun == Fits(ByteRun, "byterun") /\ ByteRun[2] = Indefinite
  BY DEF Fits, ByteRun

(* A number is read as itself by every decoder whose range holds it.       *)
LEMMA FitsInt ==
  ASSUME NEW n
  PROVE  /\ Int64(n)[2] = n /\ Fits(Int64(n), "i64")
         /\ n \in Nat => Fits(Int64(n), "u64")
         /\ n \in U16 => Fits(Int64(n), "u16")
         /\ n \in U8 => Fits(Int64(n), "u8")
  <1>1. PICK t : t = Int64(n)
    OBVIOUS
  <1>2. t[1] = "int" /\ t[2] = n
    BY <1>1 DEF Int64
  <1>3. Fits(t, "i64")
    BY <1>2 DEF Fits
  <1>4. ASSUME n \in Nat
        PROVE  Fits(t, "u64")
    <2>1. t[2] >= 0
      BY <1>2, <1>4
    <2> QED
      BY <1>2, <2>1 DEF Fits
  <1>5. ASSUME n \in U16
        PROVE  Fits(t, "u16")
    BY <1>2, <1>5 DEF Fits
  <1>6. ASSUME n \in U8
        PROVE  Fits(t, "u8")
    BY <1>2, <1>6 DEF Fits
  <1> QED
    BY <1>1, <1>2, <1>3, <1>4, <1>5, <1>6

(* It reads on.                                                            *)
LEMMA ReadOn ==
  ASSUME NEW t, NEW r, IsVec(r), NEW m, NEW g, NEW vs, NEW d,
         SeesSince(Cons(t, r), m, g, vs, d), NEW want, Fits(t, want), NEW x, t[2] = x
  PROVE  SeesSince(r, m, g, Append(vs, x), Read(d, want))
  <1>1. Sees(r, m, Append(g \o vs, x), Read(d, want))
    BY ReadToken DEF SeesSince
  <1>2. IsVec(g) /\ IsVec(vs)
    BY DEF SeesSince
  <1> QED
    BY <1>1, <1>2, GoesOn

(* Two and three reads in a row.                                           *)
LEMMA TwoReads ==
  ASSUME NEW d, NEW a, NEW b
  PROVE  Reads(d, <<a, b>>) = Read(Read(d, a), b)
  <1> DEFINE w == <<a, b>>
             one == Read(d, a)
             two == Read(one, b)
             table(G) == [i \in 0..Len(w) |-> IF i = 0 THEN d ELSE Read(G[i - 1], w[i])]
             T == CHOOSE G : G = table(G)
  <1>1. Reads(d, w) = T[Len(w)]
    BY DEF Reads
  <1>2. Len(w) = 2 /\ w[1] = a /\ w[2] = b
    OBVIOUS
  <1> HIDE DEF w, one, two
  <1>3. PICK G : G = [i \in 0..2 |-> IF i = 0 THEN d ELSE IF i = 1 THEN one ELSE two]
    OBVIOUS
  <1>4. \A i \in 0..2 : G[i] = IF i = 0 THEN d ELSE Read(G[i - 1], w[i])
    <2>1. G[0] = d /\ G[1] = one /\ G[2] = two
      BY <1>3
    <2> QED
      BY <1>2, <2>1 DEF one, two
  <1>5. G = table(G)
    BY <1>2, <1>3, <1>4
  <1>6. T = table(T)
    <2> HIDE DEF table
    <2> QED
      BY <1>5
  <1> HIDE DEF T
  <1>7. T[0] = d /\ T[1] = Read(T[0], a) /\ T[2] = Read(T[1], b)
    BY <1>2, <1>6
  <1> QED
    BY <1>1, <1>2, <1>7 DEF w

(* Three reads in a row are three reads one after the other.               *)
LEMMA ThreeReads ==
  ASSUME NEW d, NEW a, NEW b, NEW c
  PROVE  Reads(d, <<a, b, c>>) = Read(Read(Read(d, a), b), c)
  <1> DEFINE w == <<a, b, c>>
             one == Read(d, a)
             two == Read(one, b)
             three == Read(two, c)
             table(G) == [i \in 0..Len(w) |-> IF i = 0 THEN d ELSE Read(G[i - 1], w[i])]
             T == CHOOSE G : G = table(G)
  <1>1. Reads(d, w) = T[Len(w)]
    BY DEF Reads
  <1>2. Len(w) = 3 /\ w[1] = a /\ w[2] = b /\ w[3] = c
    OBVIOUS
  <1> HIDE DEF w, one, two, three
  <1>3. PICK G : G = [i \in 0..3 |-> IF i = 0 THEN d ELSE IF i = 1 THEN one
                                     ELSE IF i = 2 THEN two ELSE three]
    OBVIOUS
  <1>4. \A i \in 0..3 : G[i] = IF i = 0 THEN d ELSE Read(G[i - 1], w[i])
    <2>1. G[0] = d /\ G[1] = one /\ G[2] = two /\ G[3] = three
      BY <1>3
    <2> QED
      BY <1>2, <2>1 DEF one, two, three
  <1>5. G = table(G)
    BY <1>2, <1>3, <1>4
  <1>6. T = table(T)
    <2> HIDE DEF table
    <2> QED
      BY <1>5
  <1> HIDE DEF T
  <1>7. T[0] = d /\ T[1] = Read(T[0], a) /\ T[2] = Read(T[1], b) /\ T[3] = Read(T[2], c)
    BY <1>2, <1>6
  <1> QED
    BY <1>1, <1>2, <1>7 DEF w

-----------------------------------------------------------------------------
(* Items                                                                   *)

(* The decoders of messages and of what they are made of.                  *)
ItemOf(kind, d) ==
  CASE kind = "text"        -> Text(d)
    [] kind = "bytes"       -> DecodeBytes(d)
    [] kind = "chunk"       -> Chunk(d)
    [] kind = "trace"       -> DecodeTraceObject(d)
    [] kind = "pair"        -> Pair(d)
    [] kind = "version"     -> Version(d)
    [] kind = "item"        -> decode_reply_item(d)
    [] kind = "metric"      -> DecodeMetric(d)
    [] kind = "texts"       -> ArrayOf(d, Text)
    [] kind = "maybe text"  -> DecodeMaybe(d, Text)
    [] kind = "maybe bytes" -> DecodeMaybe(d, DecodeBytes)
    [] kind = "severity"    -> DecodeSeverity(d)
    [] kind = "detail"      -> DecodeDetailLevel(d)
    [] kind = "time"        -> DecodeUTCTime(d)
    [] kind = "value"       -> DecodeValue(d)
    [] kind = "trace message"     -> DecodeMessage(d)
    [] kind = "handshake message" -> DecodeHandshake(d)
    [] kind = "datapoint message" -> DecodeDataPoint(d)
    [] kind = "ekg message"       -> DecodeEkg(d)

(* A word that does not begin with a break.                                *)
Leads(w) == IsVec(w) /\ w # << >> /\ w[1][1] # "break"

(* The decoder of the kind reads v from the word w, wherever w stands in   *)
(* a stream and however much of it has arrived.                            *)
Spells(kind, w, v) ==
  /\ Leads(w)
  /\ \A r, m, g, d : IsVec(r) /\ Sees(w \o r, m, g, d) => Sees(r, m, Append(g, v), ItemOf(kind, d))

(* The i-th step of Items; after the last of its items nothing is done.    *)
ItemStep(kind, n, i, p) ==
  CASE p.st # "ok" \/ n \in 0..(i - 1) -> p
    [] p.st = "ok" /\ n = Indefinite /\ AtBreak(p) -> [p EXCEPT !.rest = Tail(@), !.st = "done"]
    [] OTHER -> ItemOf(kind, p)

(* F is the decoder of Items after each item, from d on.                   *)
ItemTable(kind, n, d, F) ==
  F = [i \in 0..(Len(d.rest) + 1) |-> IF i = 0 THEN d ELSE ItemStep(kind, n, i, F[i - 1])]

(* The steps of Items over what is left of the input are well defined.     *)
LEMMA TableExists ==
  ASSUME NEW kind, NEW n, NEW d, Len(d.rest) \in Nat
  PROVE  \E F : ItemTable(kind, n, d, F)
  <1> DEFINE step(i, p) == ItemStep(kind, n, i, p)
             table(G, k) == [i \in 0..k |-> IF i = 0 THEN d ELSE step(i, G[i - 1])]
             P == {k \in Nat : \E G : G = table(G, k)}
  <1> HIDE DEF step
  <1>1. 0 \in P
    <2>1. PICK G : G = [i \in 0..0 |-> d]
      OBVIOUS
    <2>2. G = table(G, 0)
      BY <2>1
    <2> HIDE DEF table
    <2> QED
      BY <2>2
  <1>2. ASSUME NEW k \in Nat, k \in P
        PROVE  k + 1 \in P
    <2>1. PICK G : G = table(G, k)
      BY <1>2
    <2>2. PICK H : H = [i \in 0..(k + 1) |-> IF i = k + 1 THEN step(i, G[k]) ELSE G[i]]
      OBVIOUS
    <2>3. \A i \in 0..(k + 1) : H[i] = IF i = 0 THEN d ELSE step(i, H[i - 1])
      <3> SUFFICES ASSUME NEW i \in 0..(k + 1) PROVE H[i] = IF i = 0 THEN d ELSE step(i, H[i - 1])
        OBVIOUS
      <3>1. CASE i = k + 1
        <4>1. H[i] = step(i, G[k]) /\ i - 1 = k /\ k \in 0..(k + 1) /\ k # k + 1 /\ i # 0
          BY <2>2, <3>1
        <4>2. H[k] = G[k]
          BY <2>2, <4>1
        <4> QED
          BY <3>1, <4>1, <4>2
      <3>2. CASE i = 0
        <4>1. G[0] = d
          BY <2>1
        <4> QED
          BY <2>2, <3>2, <4>1
      <3>3. CASE i \in 1..k
        <4>1. /\ i \in 0..k /\ i - 1 \in 0..(k + 1) /\ i # 0 /\ i # k + 1 /\ i - 1 # k + 1
          BY <3>3
        <4>2. G[i] = step(i, G[i - 1])
          BY <2>1, <4>1
        <4>3. H[i] = G[i] /\ H[i - 1] = G[i - 1]
          BY <2>2, <4>1
        <4> QED
          BY <4>1, <4>2, <4>3
      <3> QED
        BY <3>1, <3>2, <3>3
    <2>4. H = [i \in 0..(k + 1) |-> H[i]]
      BY <2>2
    <2>5. H = table(H, k + 1)
      BY <2>3, <2>4
    <2> HIDE DEF table
    <2> QED
      BY <2>5
  <1>3. Nat \subseteq P
    <2> HIDE DEF P
    <2> QED
      BY <1>1, <1>2, InductionOnNat
  <1>4. PICK K : K = Len(d.rest) + 1 /\ K \in Nat
    OBVIOUS
  <1>5. K \in P
    BY <1>3, <1>4
  <1>6. PICK F : F = table(F, K)
    BY <1>5
  <1>7. ItemTable(kind, n, d, F)
    BY <1>4, <1>6 DEF ItemTable, step
  <1> QED
    BY <1>7

(* Each entry of that table comes from the one before by one step.         *)
LEMMA TableFacts ==
  ASSUME NEW kind, NEW n, NEW d, NEW F, ItemTable(kind, n, d, F), Len(d.rest) \in Nat
  PROVE  /\ F[0] = d
         /\ \A i \in 1..(Len(d.rest) + 1) : F[i] = ItemStep(kind, n, i, F[i - 1])
  <1>1. PICK K : K = Len(d.rest) + 1 /\ K \in Nat
    OBVIOUS
  <1>2. F = [i \in 0..K |-> IF i = 0 THEN d ELSE ItemStep(kind, n, i, F[i - 1])]
    BY <1>1 DEF ItemTable
  <1>3. F[0] = d
    BY <1>1, <1>2
  <1>4. ASSUME NEW i \in 1..K
        PROVE  F[i] = ItemStep(kind, n, i, F[i - 1])
    <2>1. i \in 0..K /\ i # 0
      BY <1>1
    <2> QED
      BY <1>2, <2>1
  <1> QED
    BY <1>1, <1>3, <1>4

(* Once nothing more is done, it stays so.                                 *)
LEMMA TableStays ==
  ASSUME NEW kind, NEW n, NEW d, NEW F, ItemTable(kind, n, d, F), Len(d.rest) \in Nat,
         NEW j \in 0..(Len(d.rest) + 1),
         \A i \in (j + 1)..(Len(d.rest) + 1) : ItemStep(kind, n, i, F[j]) = F[j]
  PROVE  F[Len(d.rest) + 1] = F[j]
  <1>1. PICK K, e : K = Len(d.rest) + 1 /\ K \in Nat /\ e = F[j]
    OBVIOUS
  <1> DEFINE P == {k \in Nat : j + k <= K => F[j + k] = e}
  <1>2. 0 \in P
    BY <1>1
  <1>3. ASSUME NEW k \in Nat, k \in P
        PROVE  k + 1 \in P
    <2>1. SUFFICES ASSUME j + (k + 1) <= K PROVE F[j + (k + 1)] = e
      OBVIOUS
    <2>2. PICK i : i = j + (k + 1) /\ i \in Nat /\ i - 1 = j + k /\ i \in (j + 1)..K /\ i \in 1..K
      BY <1>1, <2>1
    <2>3. F[i - 1] = e
      BY <1>1, <1>3, <2>1, <2>2
    <2>4. F[i] = ItemStep(kind, n, i, F[i - 1])
      <3>1. \A x \in 1..K : F[x] = ItemStep(kind, n, x, F[x - 1])
        BY <1>1, TableFacts
      <3> QED
        BY <2>2, <3>1
    <2>5. ItemStep(kind, n, i, e) = e
      BY <1>1, <2>2
    <2> QED
      BY <2>2, <2>3, <2>4, <2>5
  <1>4. Nat \subseteq P
    <2> HIDE DEF P
    <2> QED
      BY <1>2, <1>3, InductionOnNat
  <1>5. PICK k \in Nat : j + k = K
    BY <1>1
  <1>6. k \in P
    BY <1>4
  <1> QED
    BY <1>1, <1>5, <1>6

(* The steps of Items as the decoder takes them.                           *)
PlainStep(kind, n, p) ==
  IF n = Indefinite /\ AtBreak(p) THEN [p EXCEPT !.rest = Tail(@), !.st = "done"] ELSE ItemOf(kind, p)

(* T is the decoder after each of them.                                    *)
PlainTable(kind, n, d, T) ==
  T = [i \in 0..(Len(d.rest) + 1) |-> IF i = 0 THEN d ELSE PlainStep(kind, n, T[i - 1])]

(* These steps are well defined, too.                                      *)
LEMMA PlainExists ==
  ASSUME NEW kind, NEW n, NEW d, Len(d.rest) \in Nat
  PROVE  \E F : PlainTable(kind, n, d, F)
  <1> DEFINE step(p) == PlainStep(kind, n, p)
             table(G, k) == [i \in 0..k |-> IF i = 0 THEN d ELSE step(G[i - 1])]
             P == {k \in Nat : \E G : G = table(G, k)}
  <1> HIDE DEF step
  <1>1. 0 \in P
    <2>1. PICK G : G = [i \in 0..0 |-> d]
      OBVIOUS
    <2>2. G = table(G, 0)
      BY <2>1
    <2> HIDE DEF table
    <2> QED
      BY <2>2
  <1>2. ASSUME NEW k \in Nat, k \in P
        PROVE  k + 1 \in P
    <2>1. PICK G : G = table(G, k)
      BY <1>2
    <2>2. PICK H : H = [i \in 0..(k + 1) |-> IF i = k + 1 THEN step(G[k]) ELSE G[i]]
      OBVIOUS
    <2>3. \A i \in 0..(k + 1) : H[i] = IF i = 0 THEN d ELSE step(H[i - 1])
      <3> SUFFICES ASSUME NEW i \in 0..(k + 1) PROVE H[i] = IF i = 0 THEN d ELSE step(H[i - 1])
        OBVIOUS
      <3>1. CASE i = k + 1
        <4>1. H[i] = step(G[k]) /\ i - 1 = k /\ k \in 0..(k + 1) /\ k # k + 1 /\ i # 0
          BY <2>2, <3>1
        <4>2. H[k] = G[k]
          BY <2>2, <4>1
        <4> QED
          BY <3>1, <4>1, <4>2
      <3>2. CASE i = 0
        <4>1. G[0] = d
          BY <2>1
        <4> QED
          BY <2>2, <3>2, <4>1
      <3>3. CASE i \in 1..k
        <4>1. /\ i \in 0..k /\ i - 1 \in 0..(k + 1) /\ i # 0 /\ i # k + 1 /\ i - 1 # k + 1
          BY <3>3
        <4>2. G[i] = step(G[i - 1])
          BY <2>1, <4>1
        <4>3. H[i] = G[i] /\ H[i - 1] = G[i - 1]
          BY <2>2, <4>1
        <4> QED
          BY <4>1, <4>2, <4>3
      <3> QED
        BY <3>1, <3>2, <3>3
    <2>4. H = [i \in 0..(k + 1) |-> H[i]]
      BY <2>2
    <2>5. H = table(H, k + 1)
      BY <2>3, <2>4
    <2> HIDE DEF table
    <2> QED
      BY <2>5
  <1>3. Nat \subseteq P
    <2> HIDE DEF P
    <2> QED
      BY <1>1, <1>2, InductionOnNat
  <1>4. PICK K : K = Len(d.rest) + 1 /\ K \in Nat
    OBVIOUS
  <1>5. K \in P
    BY <1>3, <1>4
  <1>6. PICK F : F = table(F, K)
    BY <1>5
  <1>7. PlainTable(kind, n, d, F)
    BY <1>4, <1>6 DEF PlainTable, step
  <1> QED
    BY <1>7

(* Each entry of it comes from the one before.                             *)
LEMMA PlainFacts ==
  ASSUME NEW kind, NEW n, NEW d, NEW T, PlainTable(kind, n, d, T), Len(d.rest) \in Nat
  PROVE  /\ T[0] = d
         /\ \A i \in 1..(Len(d.rest) + 1) : T[i] = PlainStep(kind, n, T[i - 1])
  <1>1. PICK K : K = Len(d.rest) + 1 /\ K \in Nat
    OBVIOUS
  <1>2. T = [i \in 0..K |-> IF i = 0 THEN d ELSE PlainStep(kind, n, T[i - 1])]
    BY <1>1 DEF PlainTable
  <1>3. T[0] = d
    BY <1>1, <1>2
  <1>4. ASSUME NEW i \in 1..K
        PROVE  T[i] = PlainStep(kind, n, T[i - 1])
    <2>1. i \in 0..K /\ i # 0
      BY <1>1
    <2> QED
      BY <1>2, <2>1
  <1> QED
    BY <1>1, <1>3, <1>4

(* It stops somewhere.                                                     *)
LEMMA StopsSomewhere ==
  ASSUME NEW n, NEW K \in Nat, NEW T
  PROVE  LET i == FirstOver(n, K, T)
         IN  i \in 0..K /\ Over(n, K, T, i) /\ \A j \in 0..(i - 1) : ~Over(n, K, T, j)
  <1>1. PICK S : S = {i \in 0..K : Over(n, K, T, i)}
    OBVIOUS
  <1>2. K \in S /\ S \in SUBSET Nat
    BY <1>1 DEF Over
  <1>3. PICK x \in S : \A y \in S : x <= y
    BY <1>2, LeastNumber
  <1>4. x \in 0..K /\ Over(n, K, T, x)
    BY <1>1, <1>3
  <1>5. ASSUME NEW j \in 0..(x - 1)
        PROVE  ~Over(n, K, T, j)
    <2>1. j \in 0..K /\ ~(x <= j)
      BY <1>4
    <2> QED
      BY <1>1, <1>3, <2>1
  <1>6. \E i \in 0..K : Over(n, K, T, i) /\ \A j \in 0..(i - 1) : ~Over(n, K, T, j)
    BY <1>4, <1>5
  <1> QED
    BY <1>6 DEF FirstOver

(* Up to where it stops it has done the steps of ItemTable, and after that *)
(* ItemTable does nothing.                                                 *)
LEMMA StopsThere ==
  ASSUME NEW kind, NEW n, NEW d, Len(d.rest) \in Nat, NEW T, PlainTable(kind, n, d, T),
         NEW F, ItemTable(kind, n, d, F)
  PROVE  T[FirstOver(n, Len(d.rest) + 1, T)] = F[Len(d.rest) + 1]
  <1>1. PICK K, s : K = Len(d.rest) + 1 /\ K \in Nat /\ s = FirstOver(n, K, T)
    OBVIOUS
  <1>2. s \in 0..K /\ s \in Nat /\ Over(n, K, T, s) /\ \A j \in 0..(s - 1) : ~Over(n, K, T, j)
    <2>1. s \in 0..K /\ Over(n, K, T, s) /\ \A j \in 0..(s - 1) : ~Over(n, K, T, j)
      BY <1>1, StopsSomewhere
    <2> QED
      BY <1>1, <2>1
  <1>3. T[0] = d /\ \A i \in 1..K : T[i] = PlainStep(kind, n, T[i - 1])
    BY <1>1, PlainFacts
  <1>4. F[0] = d /\ \A i \in 1..K : F[i] = ItemStep(kind, n, i, F[i - 1])
    BY <1>1, TableFacts
  <1> DEFINE P == {k \in Nat : k <= s => F[k] = T[k]}
  <1>5. 0 \in P
    BY <1>3, <1>4
  <1>6. ASSUME NEW k \in Nat, k \in P
        PROVE  k + 1 \in P
    <2>1. SUFFICES ASSUME k + 1 <= s PROVE F[k + 1] = T[k + 1]
      OBVIOUS
    <2>2. PICK i : i = k + 1 /\ i - 1 = k /\ i \in 1..K /\ k \in 0..(s - 1) /\ k <= s
      <3>1. K \in Nat /\ s \in Nat /\ s <= K
        BY <1>1, <1>2
      <3>2. k + 1 - 1 = k /\ k + 1 \in 1..K /\ k \in 0..(s - 1) /\ k <= s
        BY <2>1, <3>1
      <3> QED
        BY <3>2
    <2>3. PICK p : p = T[k] /\ p = F[k]
      BY <1>6, <2>2
    <2>4. T[i] = PlainStep(kind, n, p) /\ F[i] = ItemStep(kind, n, i, p)
      BY <1>3, <1>4, <2>2, <2>3
    <2>5. p.st = "ok"
      BY <1>2, <2>2, <2>3 DEF Over
    <2>6. ~(n \in 0..(i - 1))
      <3>1. SUFFICES ASSUME n \in 0..k PROVE FALSE
        BY <2>2
      <3>2. n \in 0..(s - 1)
        BY <1>2, <2>2, <3>1
      <3>3. Over(n, K, T, n)
        BY DEF Over
      <3> QED
        BY <1>2, <3>2, <3>3
    <2>7. ItemStep(kind, n, i, p) = PlainStep(kind, n, p)
      BY <2>5, <2>6 DEF ItemStep, PlainStep
    <2> QED
      BY <2>2, <2>4, <2>7
  <1>7. Nat \subseteq P
    <2> HIDE DEF P
    <2> QED
      BY <1>5, <1>6, InductionOnNat
  <1>8. F[s] = T[s]
    <2>1. s \in P
      BY <1>2, <1>7
    <2> QED
      BY <1>2, <2>1
  <1>9. ASSUME NEW i \in (s + 1)..K
        PROVE  ItemStep(kind, n, i, F[s]) = F[s]
    <2>1. i \in Nat /\ s # K /\ s <= i - 1
      BY <1>1, <1>2
    <2>2. CASE s = n
      <3>1. n \in 0..(i - 1)
        BY <1>2, <2>1, <2>2
      <3> QED
        BY <3>1 DEF ItemStep, Indefinite
    <2>3. CASE T[s].st # "ok"
      BY <1>8, <2>3 DEF ItemStep
    <2> QED
      BY <1>2, <2>1, <2>2, <2>3 DEF Over
  <1>10. F[K] = F[s]
    <2>1. s \in 0..(Len(d.rest) + 1)
      BY <1>1, <1>2
    <2>2. \A i \in (s + 1)..(Len(d.rest) + 1) : ItemStep(kind, n, i, F[s]) = F[s]
      BY <1>1, <1>9
    <2>3. F[Len(d.rest) + 1] = F[s]
      BY <2>1, <2>2, TableStays
    <2> QED
      BY <1>1, <2>3
  <1> QED
    BY <1>1, <1>8, <1>10

(* A decoder that has met the end stays there.                             *)
LEMMA StaysEnded ==
  ASSUME NEW r, NEW m, NEW g, NEW d, Sees(r, m, g, d), d.st # "ok",
         NEW q, IsVec(q), Len(q) <= Len(r), NEW h, IsVec(h)
  PROVE  Sees(q, m, h, d)
  <1>1. /\ IsVec(r) /\ IsVec(m) /\ IsVec(d.rest) /\ Len(r) \in Nat /\ Len(m) \in Nat
        /\ d = [rest |-> d.rest, got |-> d.got, st |-> d.st]
        /\ d.st = "ok" <=> Len(m) <= Len(r)
        /\ d.st \in {"ok", "end"}
    BY SeesTypes
  <1>2. Len(q) \in Nat
    BY VecFacts
  <1>3. Len(m) > Len(q) /\ ~(Len(m) <= Len(q)) /\ d.st = "end"
    BY <1>1, <1>2
  <1> QED
    BY <1>1, <1>3 DEF Sees

(* The step reads the item that comes.                                     *)
LEMMA ItemRead ==
  ASSUME NEW kind, NEW w, NEW v, Spells(kind, w, v), NEW r, IsVec(r), NEW m, NEW g, NEW p,
         Sees(w \o r, m, g, p), NEW n, NEW i \in Nat, n # Indefinite => n \in Nat /\ i <= n
  PROVE  Sees(r, m, Append(g, v), ItemStep(kind, n, i, p))
  <1>1. PICK z : z = w \o r
    OBVIOUS
  <1>2. /\ IsVec(w) /\ w # << >> /\ w[1][1] # "break"
        /\ Sees(r, m, Append(g, v), ItemOf(kind, p))
    BY DEF Spells, Leads
  <1>3. /\ IsVec(m) /\ IsVec(g) /\ IsVec(p.rest) /\ Len(p.rest) \in Nat
        /\ p.st \in {"ok", "end"}
    BY SeesTypes
  <1>4. ~(n \in 0..(i - 1))
    BY DEF Indefinite
  <1>5. CASE p.st # "ok"
    <2>1. ItemStep(kind, n, i, p) = p
      BY <1>5 DEF ItemStep
    <2>2. Len(r) \in Nat /\ Len(w) \in Nat /\ Len(z) = Len(w) + Len(r)
      BY <1>1, <1>2, VecFacts, VecConcat
    <2>3. IsVec(Append(g, v))
      BY <1>3, VecAppend
    <2>4. Sees(z, m, g, p) /\ Len(r) <= Len(z)
      BY <1>1, <2>2
    <2>5. Sees(r, m, Append(g, v), p)
      BY <1>5, <2>3, <2>4, StaysEnded
    <2> QED
      BY <2>1, <2>5
  <1>6. CASE p.st = "ok"
    <2>1. AtEnd(p) \/ Head(p.rest)[1] # "break"
      <3>1. SUFFICES ASSUME p.rest # << >> PROVE Head(p.rest)[1] # "break"
        BY DEF AtEnd
      <3>2. p.rest \o m = z
        BY <1>1, <1>6, SeesTypes DEF Sees
      <3>3. Len(p.rest) \in Nat \ {0} /\ Head(p.rest) = p.rest[1]
        BY <1>3, <3>1, VecTail
      <3>4. (p.rest \o m)[1] = p.rest[1]
        BY <1>3, <3>3, VecConcat
      <3>5. Len(w) \in Nat \ {0}
        BY <1>2, VecTail
      <3>6. (w \o r)[1] = w[1]
        BY <1>2, <3>5, VecConcat
      <3> QED
        BY <1>1, <1>2, <3>2, <3>3, <3>4, <3>6
    <2>2. ItemStep(kind, n, i, p) = ItemOf(kind, p)
      BY <1>4, <1>6, <2>1 DEF ItemStep, AtBreak
    <2> QED
      BY <1>2, <2>2
  <1> QED
    BY <1>5, <1>6

(* The step reads the break, which the peer may not have sent yet.         *)
LEMMA BreakRead ==
  ASSUME NEW kind, NEW w, NEW v, Spells(kind, w, v), NEW r, IsVec(r), NEW m, NEW g, NEW p,
         Sees(Cons(Break, r), m, g, p), NEW i, NEW e, e = ItemStep(kind, Indefinite, i, p)
  PROVE  e.st # "ok" /\ Sees(r, m, g, WithoutBreak(e))
  <1>1. PICK z : z = Cons(Break, r)
    OBVIOUS
  <1>2. /\ Len(r) \in Nat /\ Len(m) \in Nat /\ Len(p.rest) \in Nat /\ Len(z) = Len(r) + 1
        /\ IsVec(m) /\ IsVec(g) /\ IsVec(p.rest)
        /\ p = [rest |-> p.rest, got |-> p.got, st |-> p.st]
        /\ p.st = "ok" <=> Len(m) <= Len(z)
        /\ p.st = "ok" => p.got = g /\ Len(p.rest) + Len(m) = Len(z)
        /\ p.st \in {"ok", "end"}
    BY <1>1, SeesTypes, VecCons, VecFacts
  <1>0. ~(Indefinite \in 0..(i - 1))
    BY DEF Indefinite
  <1>3. CASE p.st # "ok"
    <2>1. e = p /\ WithoutBreak(e) = e
      BY <1>2, <1>3 DEF ItemStep, WithoutBreak
    <2>2. Sees(r, m, g, p)
      BY <1>1, <1>2, <1>3, StaysEnded
    <2> QED
      BY <1>3, <2>1, <2>2
  <1>4. CASE p.st = "ok" /\ p.rest = << >>
    <2>1. Len(m) > Len(r) /\ ~(Len(m) <= Len(r))
      BY <1>2, <1>4, VecEmpty
    <2>2. e = ItemOf(kind, p)
      BY <1>0, <1>4 DEF ItemStep, AtBreak, AtEnd
    <2>3. IsVec(w) /\ Len(w) \in Nat \ {0} /\ IsVec(<< >>) /\ Len(<< >>) = 0
      BY VecTail, Tuples DEF Spells, Leads
    <2>4. w \o << >> = w /\ << >> \o w = w
      BY <2>3, VecNeutral
    <2>5. Sees(w \o << >>, w, g, p)
      BY <1>2, <1>4, <2>3, <2>4 DEF Sees
    <2>6. Sees(<< >>, w, Append(g, v), e)
      BY <2>2, <2>3, <2>5 DEF Spells
    <2>7. e.st = "end" /\ IsVec(e.rest) /\ e = [rest |-> e.rest, got |-> e.got, st |-> e.st]
      BY <2>3, <2>6 DEF Sees
    <2>8. WithoutBreak(e) = e
      BY <2>7 DEF WithoutBreak
    <2> QED
      BY <1>2, <2>1, <2>7, <2>8 DEF Sees
  <1>5. CASE p.st = "ok" /\ p.rest # << >>
    <2>1. p.got = g /\ Begins(p.rest, m, Break, r)
      BY <1>1, <1>2, <1>5 DEF Sees, Begins
    <2>2. Head(p.rest) = Break /\ IsVec(Tail(p.rest)) /\ Tail(p.rest) \o m = r
      BY <1>2, <1>5, <2>1, ConsConcat
    <2>3. AtBreak(p)
      <3>1. Break[1] = "break"
        BY DEF Break
      <3> QED
        BY <1>5, <2>2, <3>1 DEF AtBreak, AtEnd
    <2>4. e = [p EXCEPT !.rest = Tail(@), !.st = "done"]
      BY <1>0, <1>5, <2>3 DEF ItemStep
    <2>5. e = [rest |-> Tail(p.rest), got |-> g, st |-> "done"]
      BY <1>2, <2>1, <2>4
    <2>6. PICK f : f = WithoutBreak(e)
      OBVIOUS
    <2>7. f = [rest |-> Tail(p.rest), got |-> g, st |-> "ok"]
      <3>1. e.st = "done"
        BY <2>5
      <3>2. f = [e EXCEPT !.st = "ok"]
        BY <2>6, <3>1 DEF WithoutBreak
      <3>3. PICK t : t = Tail(p.rest)
        OBVIOUS
      <3>4. e = [rest |-> t, got |-> g, st |-> "done"]
        BY <2>5, <3>3
      <3>5. f = [rest |-> t, got |-> g, st |-> "ok"]
        BY <3>2, <3>4
      <3> QED
        BY <3>3, <3>5
    <2>8. f = [rest |-> f.rest, got |-> f.got, st |-> f.st] /\ f.rest = Tail(p.rest) /\ f.got = g /\ f.st = "ok"
      BY <2>7
    <2>9. Len(Tail(p.rest)) + 1 = Len(p.rest) /\ Len(Tail(p.rest)) \in Nat
      BY <1>2, <1>5, VecTail, <2>2, VecFacts
    <2>10. Len(m) <= Len(r) /\ ~(Len(m) > Len(r))
      BY <1>2, <1>5, <2>9
    <2>11. Sees(r, m, g, f)
      BY <1>2, <2>2, <2>8, <2>10 DEF Sees
    <2> QED
      BY <2>5, <2>6, <2>11
  <1> QED
    BY <1>3, <1>4, <1>5

-----------------------------------------------------------------------------
(* Streams of words                                                        *)

(* A vector of elements of S is a sequence over S.                         *)
LEMMA VecIn ==
  ASSUME NEW s, IsVec(s), NEW S, \A i \in 1..Len(s) : s[i] \in S
  PROVE  s \in Seq(S)
  <1>1. s \in [1..Len(s) -> Range(s)] /\ Len(s) \in Nat
    BY LenProperties DEF IsVec
  <1>2. s \in [1..Len(s) -> S]
    BY <1>1
  <1> QED
    BY <1>1, <1>2, SeqDef

(* Each of ws is written in at least one token.                            *)
Words(ws) == IsVec(ws) /\ \A i \in 1..Len(ws) : IsVec(ws[i]) /\ ws[i] # << >>

(* Words are sequences over one common set of tokens.                      *)
LEMMA WordsType ==
  ASSUME NEW ws, Words(ws)
  PROVE  \E S : ws \in Seq(Seq(S))
  <1>1. PICK S : S = UNION {Range(ws[i]) : i \in 1..Len(ws)}
    OBVIOUS
  <1>2. ASSUME NEW i \in 1..Len(ws)
        PROVE  ws[i] \in Seq(S)
    <2>1. Range(ws[i]) \subseteq S
      BY <1>1
    <2>2. IsVec(ws[i])
      BY DEF Words
    <2>3. \A j \in 1..Len(ws[i]) : ws[i][j] \in S
      BY <2>1, <2>2, VecFacts
    <2> QED
      BY <2>2, <2>3, VecIn
  <1>3. ws \in Seq(Seq(S))
    BY <1>2, VecIn DEF Words
  <1> QED
    BY <1>3

(* R[i] is the stream after i words.                                       *)
IsStream(R, ws, q) ==
  /\ R[Len(ws)] = q
  /\ \A i \in 0..Len(ws) : IsVec(R[i])
  /\ \A i \in 1..Len(ws) : R[i - 1] = ws[i] \o R[i]

(* The streams that are left after each word exist, from all the words on. *)
LEMMA Streams ==
  ASSUME NEW ws, Words(ws), NEW q, IsVec(q)
  PROVE  \E R : IsStream(R, ws, q) /\ R[0] = FlattenSeq(ws) \o q
  <1>1. PICK N : N = Len(ws) /\ N \in Nat
    BY VecFacts DEF Words
  <1>2. PICK S : ws \in Seq(Seq(S))
    BY WordsType
  <1> DEFINE part(i) == SubSeq(ws, i + 1, N)
  <1>3. PICK R : R = [i \in 0..N |-> FlattenSeq(part(i)) \o q]
    OBVIOUS
  <1>4. ASSUME NEW i \in 0..N
        PROVE  /\ part(i) \in Seq(Seq(S)) /\ FlattenSeq(part(i)) \in Seq(S)
               /\ IsVec(FlattenSeq(part(i))) /\ IsVec(part(i)) /\ IsVec(R[i])
               /\ R[i] = FlattenSeq(part(i)) \o q
    <2>1. part(i) \in Seq(Seq(S))
      <3>1. i + 1 \in Nat \ {0} /\ N \in 0..Len(ws)
        BY <1>1
      <3> QED
        BY <1>2, <3>1, SubSeqType
    <2>2. FlattenSeq(part(i)) \in Seq(S)
      BY <2>1, FlattenType
    <2>3. IsVec(FlattenSeq(part(i))) /\ IsVec(part(i))
      BY <2>1, <2>2, SeqIsVec
    <2>4. R[i] = FlattenSeq(part(i)) \o q
      BY <1>3
    <2>5. IsVec(R[i])
      BY <2>3, <2>4, VecConcat
    <2> QED
      BY <2>1, <2>2, <2>3, <2>4, <2>5
  <1>5. ASSUME NEW i \in 0..N
        PROVE  /\ Len(part(i)) = N - i
               /\ \A j \in 1..(N - i) : part(i)[j] = ws[i + j]
    <2>1. i + 1 \in Nat \ {0} /\ N \in 0..Len(ws) /\ N - (i + 1) + 1 = N - i
      BY <1>1
    <2>2. /\ Len(part(i)) = IF i + 1 <= N THEN N - (i + 1) + 1 ELSE 0
          /\ \A j \in 1..(N - (i + 1) + 1) : part(i)[j] = ws[i + 1 + j - 1]
      BY <2>1, VecPart DEF Words
    <2>3. Len(part(i)) = N - i
      BY <1>1, <2>1, <2>2
    <2>4. \A j \in 1..(N - i) : i + 1 + j - 1 = i + j
      BY <1>1
    <2> QED
      BY <2>1, <2>2, <2>3, <2>4
  <1>6. R[N] = q
    <2>1. Len(part(N)) = 0 /\ IsVec(part(N)) /\ R[N] = FlattenSeq(part(N)) \o q
      BY <1>1, <1>4, <1>5
    <2>2. part(N) = << >>
      BY <2>1, VecEmpty
    <2>3. R[N] = << >> \o q
      BY <2>1, <2>2, FlattenEmpty
    <2> QED
      BY <2>3, VecNeutral
  <1>7. ASSUME NEW i \in 1..N
        PROVE  R[i - 1] = ws[i] \o R[i]
    <2>1. PICK k : k = i - 1 /\ k \in 0..N /\ k + 1 = i /\ N - k = N - i + 1 /\ i \in 0..N /\ N - i \in Nat
      BY <1>1
    <2> DEFINE p == part(k)
               t == part(i)
               f == FlattenSeq(t)
    <2>2. /\ p \in Seq(Seq(S)) /\ IsVec(p) /\ Len(p) = N - k /\ \A j \in 1..(N - k) : p[j] = ws[k + j]
          /\ R[k] = FlattenSeq(p) \o q
      BY <1>4, <1>5, <2>1
    <2>3. /\ IsVec(t) /\ Len(t) = N - i /\ (\A j \in 1..(N - i) : t[j] = ws[i + j])
          /\ R[i] = f \o q /\ IsVec(f)
      BY <1>4, <1>5, <2>1
    <2> HIDE DEF p, t, f
    <2>4. p # << >>
      BY <2>1, <2>2, VecEmpty
    <2>5. /\ IsVec(Tail(p)) /\ Len(Tail(p)) + 1 = Len(p) /\ Head(p) = p[1] 
          /\ \A j \in 1..Len(Tail(p)) : Tail(p)[j] = p[j + 1]
      BY <2>2, <2>4, VecTail
    <2>6. Len(Tail(p)) = N - i
      <3>1. PICK l : l = Len(Tail(p)) /\ l \in Nat
        BY <2>5, VecFacts
      <3>2. l + 1 = N - i + 1
        BY <2>1, <2>2, <2>5, <3>1
      <3> QED
        BY <1>1, <2>1, <3>1, <3>2
    <2>7. ASSUME NEW j \in 1..(N - i)
          PROVE  Tail(p)[j] = t[j]
      <3>1. j + 1 \in 1..(N - k) /\ k + (j + 1) = i + j
        BY <1>1, <2>1
      <3> QED
        BY <2>2, <2>3, <2>5, <2>6, <3>1
    <2>8. Tail(p) = t
      BY <2>3, <2>5, <2>6, <2>7, VecEqual
    <2>9. Head(p) = ws[i]
      <3>1. 1 \in 1..(N - k) /\ k + 1 = i
        BY <2>1
      <3> QED
        BY <2>2, <2>5, <3>1
    <2>10. FlattenSeq(p) = ws[i] \o f
      BY <2>2, <2>4, <2>8, <2>9, FlattenFirst DEF f
    <2>11. IsVec(ws[i]) /\ IsVec(f) /\ IsVec(q)
      BY <1>1, <2>3 DEF Words
    <2>12. (ws[i] \o f) \o q = ws[i] \o (f \o q)
      <3>1. PICK x, y : x = ws[i] /\ y = f
        OBVIOUS
      <3>2. IsVec(x) /\ IsVec(y) /\ IsVec(q)
        BY <2>11, <3>1
      <3>3. (x \o y) \o q = x \o (y \o q)
        BY <3>2, VecAssoc
      <3> QED
        BY <3>1, <3>3
    <2> QED
      BY <2>1, <2>2, <2>3, <2>10, <2>12
  <1>8. R[0] = FlattenSeq(ws) \o q
    <2>1. part(0) = ws
      BY <1>1, <1>2, WholeSeq
    <2>2. 0 \in 0..N
      BY <1>1
    <2> QED
      BY <1>4, <2>1, <2>2
  <1>9. IsStream(R, ws, q)
    BY <1>1, <1>4, <1>6, <1>7 DEF IsStream
  <1> QED
    BY <1>8, <1>9

(* Each word takes at least one token of its stream, and none of what      *)
(* follows the words.                                                      *)
LEMMA StreamLengths ==
  ASSUME NEW ws, Words(ws), NEW q, IsVec(q), NEW R, IsStream(R, ws, q), NEW i \in 0..Len(ws)
  PROVE  /\ Len(R[i]) \in Nat /\ Len(q) <= Len(R[i]) /\ Len(R[i]) + i <= Len(R[0])
         /\ IsVec(R[i])
  <1>1. PICK N : N = Len(ws) /\ N \in Nat
    BY VecFacts DEF Words
  <1>2. ASSUME NEW j \in 0..N
        PROVE  IsVec(R[j]) /\ Len(R[j]) \in Nat
    BY <1>1, VecFacts DEF IsStream
  <1>3. ASSUME NEW j \in 1..N
        PROVE  Len(R[j]) + 1 <= Len(R[j - 1])
    <2>1. IsVec(ws[j]) /\ ws[j] # << >> /\ R[j - 1] = ws[j] \o R[j]
      BY <1>1 DEF Words, IsStream
    <2>2. j \in 0..N
      BY <1>1
    <2>3. Len(ws[j]) \in Nat \ {0} /\ IsVec(R[j]) /\ Len(R[j]) \in Nat
      BY <1>2, <2>1, <2>2, VecTail
    <2>4. Len(R[j - 1]) = Len(ws[j]) + Len(R[j])
      BY <2>1, <2>3, VecConcat
    <2> QED
      BY <2>3, <2>4
  <1> DEFINE low(k) == k <= N => Len(R[k]) + k <= Len(R[0])
             P == {k \in Nat : low(k)}
             Q == {k \in Nat : k <= N => Len(q) <= Len(R[N - k])}
  <1>4. Nat \subseteq P
    <2>1. 0 \in P
      BY <1>1, <1>2
    <2>2. ASSUME NEW k \in Nat, k \in P
          PROVE  k + 1 \in P
      <3>0. low(k)
        BY <2>2
      <3>1. SUFFICES ASSUME k + 1 <= N PROVE Len(R[k + 1]) + (k + 1) <= Len(R[0])
        <4>1. low(k + 1) => k + 1 \in P
          <5> HIDE DEF low
          <5> QED
            OBVIOUS
        <4> QED
          BY <4>1, Zenon
      <3>2. PICK j : j = k + 1 /\ j \in 1..N /\ j - 1 = k /\ k \in 0..N /\ j \in 0..N /\ 0 \in 0..N /\ k <= N
        BY <1>1, <3>1
      <3>3. PICK a, b, c : a = Len(R[j]) /\ b = Len(R[k]) /\ c = Len(R[0])
        OBVIOUS
      <3>4. a \in Nat /\ b \in Nat /\ c \in Nat
        BY <1>2, <3>2, <3>3
      <3>5. a + 1 <= b
        BY <1>3, <3>2, <3>3
      <3>6. b + k <= c
        BY <3>0, <3>2, <3>3
      <3>7. a + j <= c
        BY <3>2, <3>4, <3>5, <3>6
      <3> QED
        BY <3>2, <3>3, <3>7
    <2> HIDE DEF P
    <2> QED
      BY <2>1, <2>2, InductionOnNat
  <1>5. Nat \subseteq Q
    <2>1. 0 \in Q
      <3>1. R[N] = q /\ N \in 0..N /\ N - 0 = N
        BY <1>1 DEF IsStream
      <3> QED
        BY <1>2, <3>1
    <2>2. ASSUME NEW k \in Nat, k \in Q
          PROVE  k + 1 \in Q
      <3>1. SUFFICES ASSUME k + 1 <= N PROVE Len(q) <= Len(R[N - (k + 1)])
        OBVIOUS
      <3>2. PICK j : j = N - k /\ j \in 1..N /\ j - 1 = N - (k + 1) /\ j \in 0..N /\ j - 1 \in 0..N /\ k <= N
        BY <1>1, <3>1
      <3>3. Len(R[j]) + 1 <= Len(R[j - 1]) /\ Len(q) <= Len(R[j])
        BY <1>3, <2>2, <3>2
      <3>4. Len(R[j]) \in Nat /\ Len(R[j - 1]) \in Nat /\ Len(q) \in Nat
        BY <1>2, <3>2, VecFacts
      <3> QED
        BY <3>2, <3>3, <3>4
    <2> HIDE DEF Q
    <2> QED
      BY <2>1, <2>2, InductionOnNat
  <1>6. i \in P /\ i \in 0..N
    BY <1>1, <1>4
  <1>7. PICK k : k = N - i /\ k \in Nat /\ k <= N /\ N - k = i
    BY <1>1
  <1>8. k \in Q
    BY <1>5, <1>7
  <1> QED
    BY <1>1, <1>2, <1>6, <1>7, <1>8

(* The items a decoder gets from a stream of words.                        *)
Fed(kind, ws, vs, n, q, R, m, g, d, F) ==
  /\ Words(ws) /\ IsVec(vs) /\ Len(vs) = Len(ws) /\ IsVec(q) /\ IsVec(g)
  /\ \A i \in 1..Len(ws) : Spells(kind, ws[i], vs[i])
  /\ n # Indefinite => n \in Nat /\ Len(ws) <= n
  /\ IsStream(R, ws, q) /\ Sees(R[0], m, g, d) /\ ItemTable(kind, n, d, F)

(* After j items the decoder stands before word j + 1, has read the first  *)
(* j values, or has found the end of what has arrived.                     *)
LEMMA ItemsPrefix ==
  ASSUME NEW kind, NEW ws, NEW vs, NEW n, NEW q, NEW R, NEW m, NEW g, NEW d, NEW F,
         Fed(kind, ws, vs, n, q, R, m, g, d, F),
         NEW j \in Nat, j <= Len(ws), j <= Len(d.rest) + 1
  PROVE  Sees(R[j], m, g \o SubSeq(vs, 1, j), F[j])
  <1>0. Words(ws) /\ Sees(R[0], m, g, d) /\ ItemTable(kind, n, d, F)
    BY DEF Fed
  <1>1. PICK N, K : N = Len(ws) /\ N \in Nat /\ K = Len(d.rest) + 1 /\ K \in Nat /\ Len(d.rest) \in Nat
    <2>1. Len(ws) \in Nat
      BY <1>0, VecFacts DEF Words
    <2>2. IsVec(d.rest)
      BY <1>0 DEF Sees
    <2>3. Len(d.rest) \in Nat
      BY <2>2, VecFacts
    <2>4. Len(d.rest) + 1 \in Nat
      BY <2>3
    <2> QED
      BY <2>1, <2>3, <2>4
  <1> DEFINE read(i) == g \o SubSeq(vs, 1, i)
             P == {i \in Nat : i <= N /\ i <= K => Sees(R[i], m, read(i), F[i])}
  <1>2. 0 \in P
    <2>1. SubSeq(vs, 1, 0) = << >>
      <3>1. 0 \in 0..Len(vs) /\ IsVec(vs)
        BY <1>1 DEF Fed
      <3>2. IsVec(SubSeq(vs, 1, 0)) /\ Len(SubSeq(vs, 1, 0)) = 0
        BY <3>1, VecPart
      <3> QED
        BY <3>2, VecEmpty
    <2>2. read(0) = g
      BY <2>1, VecNeutral DEF Fed
    <2>3. F[0] = d
      BY <1>1, <1>0, TableFacts
    <2> QED
      BY <2>2, <2>3 DEF Fed
  <1>3. ASSUME NEW i \in Nat, i \in P
        PROVE  i + 1 \in P
    <2>1. SUFFICES ASSUME i + 1 <= N, i + 1 <= K PROVE Sees(R[i + 1], m, read(i + 1), F[i + 1])
      OBVIOUS
    <2>2. PICK k : k = i + 1 /\ k \in Nat /\ k - 1 = i /\ k \in 1..N /\ k \in 0..N /\ k \in 1..K /\ i <= N /\ i <= K
      BY <1>1, <2>1
    <2>3. Sees(R[i], m, read(i), F[i])
      BY <1>3, <2>2
    <2>4. R[i] = ws[k] \o R[k] /\ IsVec(R[k]) /\ Spells(kind, ws[k], vs[k])
      BY <1>1, <2>2 DEF Fed, IsStream
    <2>5. n # Indefinite => n \in Nat /\ k <= n
      BY <1>1, <2>2 DEF Fed
    <2>6. F[k] = ItemStep(kind, n, k, F[i])
      <3>1. \A x \in 1..K : F[x] = ItemStep(kind, n, x, F[x - 1])
        BY <1>1, <1>0, TableFacts
      <3> QED
        BY <2>2, <3>1
    <2>7. Append(read(i), vs[k]) = read(k)
      <3>1. IsVec(vs) /\ IsVec(g) /\ Len(vs) = N
        BY <1>1 DEF Fed
      <3>2. i \in 0..Len(vs) /\ k \in 0..Len(vs) /\ k - 1 + 1 = k /\ i - 1 + 1 = i
        BY <1>1, <2>2, <3>1
      <3>3. /\ IsVec(SubSeq(vs, 1, i)) /\ Len(SubSeq(vs, 1, i)) = i
            /\ \A x \in 1..i : SubSeq(vs, 1, i)[x] = vs[x]
        <4>1. /\ IsVec(SubSeq(vs, 1, i)) /\ Len(SubSeq(vs, 1, i)) = IF 1 <= i THEN i - 1 + 1 ELSE 0
              /\ \A x \in 1..(i - 1 + 1) : SubSeq(vs, 1, i)[x] = vs[1 + x - 1]
          BY <3>1, <3>2, VecPart
        <4>2. \A x \in 1..i : 1 + x - 1 = x
          OBVIOUS
        <4> QED
          BY <3>2, <4>1, <4>2
      <3>4. /\ IsVec(SubSeq(vs, 1, k)) /\ Len(SubSeq(vs, 1, k)) = k
            /\ \A x \in 1..k : SubSeq(vs, 1, k)[x] = vs[x]
        <4>1. /\ IsVec(SubSeq(vs, 1, k)) /\ Len(SubSeq(vs, 1, k)) = IF 1 <= k THEN k - 1 + 1 ELSE 0
              /\ \A x \in 1..(k - 1 + 1) : SubSeq(vs, 1, k)[x] = vs[1 + x - 1]
          BY <3>1, <3>2, VecPart
        <4>2. \A x \in 1..k : 1 + x - 1 = x
          BY <2>2
        <4> QED
          BY <2>2, <3>2, <4>1, <4>2
      <3>5. Append(SubSeq(vs, 1, i), vs[k]) = SubSeq(vs, 1, k)
        <4>1. \A x \in 1..i : x \in 1..k
          BY <2>2
        <4>2. k \in 1..k
          BY <2>2
        <4> QED
          BY <2>2, <3>3, <3>4, <4>1, <4>2, AppendIs
      <3>6. Append(g \o SubSeq(vs, 1, i), vs[k]) = g \o Append(SubSeq(vs, 1, i), vs[k])
        BY <3>1, <3>3, ConcatAppend
      <3> QED
        BY <3>5, <3>6
    <2> HIDE DEF read
    <2>8. Sees(R[k], m, Append(read(i), vs[k]), F[k])
      BY <2>2, <2>3, <2>4, <2>5, <2>6, ItemRead
    <2> QED
      BY <2>2, <2>7, <2>8
  <1>4. Nat \subseteq P
    <2> HIDE DEF P
    <2> QED
      BY <1>2, <1>3, InductionOnNat
  <1> QED
    BY <1>1, <1>4

(* All of them, or as many as have arrived.                                *)
LEMMA ItemsRead ==
  ASSUME NEW kind, NEW ws, NEW vs, NEW n, NEW q, NEW R, NEW m, NEW g, NEW d, NEW F,
         Fed(kind, ws, vs, n, q, R, m, g, d, F), NEW r, IsVec(r), NEW w, NEW v,
         \/ n = Len(ws) /\ q = r
         \/ n = Indefinite /\ q = Cons(Break, r) /\ Spells(kind, w, v)
  PROVE  Sees(r, m, Append(g, vs), Outcome(d, F[Len(d.rest) + 1]))
  <1>0. Words(ws) /\ Sees(R[0], m, g, d) /\ ItemTable(kind, n, d, F)
    BY DEF Fed
  <1>1. PICK N, K : N = Len(ws) /\ N \in Nat /\ K = Len(d.rest) + 1 /\ K \in Nat /\ Len(d.rest) \in Nat
    <2>1. Len(ws) \in Nat
      BY <1>0, VecFacts DEF Words
    <2>2. IsVec(d.rest)
      BY <1>0 DEF Sees
    <2>3. Len(d.rest) \in Nat
      BY <2>2, VecFacts
    <2>4. Len(d.rest) + 1 \in Nat
      BY <2>3
    <2> QED
      BY <2>1, <2>3, <2>4
  <1>2. PICK h, e : h = g \o vs /\ e = F[K]
    OBVIOUS
  <1>3. IsVec(g) /\ IsVec(vs) /\ IsVec(h) /\ IsVec(q) /\ Len(vs) = N /\ Len(q) \in Nat /\ Len(r) \in Nat
    <2>1. IsVec(g) /\ IsVec(vs) /\ IsVec(q) /\ Len(vs) = N
      BY <1>1 DEF Fed
    <2> QED
      BY <1>2, <2>1, VecConcat, VecFacts
  <1>4. Len(r) <= Len(q)
    BY <1>3, VecCons
  <1>5. \A i \in 0..N : Len(q) <= Len(R[i]) /\ Len(R[i]) + i <= Len(R[0]) /\ Len(R[i]) \in Nat /\ IsVec(R[i])
    BY <1>1, StreamLengths DEF Fed
  <1>6. ASSUME NEW i \in Nat, i <= N, i <= K
        PROVE  /\ Sees(R[i], m, g \o SubSeq(vs, 1, i), F[i])
               /\ F[i].st = "ok" => Len(F[i].rest) \in Nat /\ Len(F[i].rest) + i <= Len(d.rest)
    <2>1. Sees(R[i], m, g \o SubSeq(vs, 1, i), F[i])
      BY <1>1, <1>6, ItemsPrefix
    <2>2. Sees(R[0], m, g, d) /\ i \in 0..N /\ 0 \in 0..N
      BY <1>1, <1>6 DEF Fed
    <2>3. /\ Len(m) \in Nat /\ Len(R[0]) \in Nat
          /\ d.st = "ok" <=> Len(m) <= Len(R[0])
          /\ d.st = "ok" => Len(d.rest) + Len(m) = Len(R[0])
      BY <2>2, SeesTypes
    <2>4. /\ Len(R[i]) \in Nat /\ Len(F[i].rest) \in Nat
          /\ F[i].st = "ok" <=> Len(m) <= Len(R[i])
          /\ F[i].st = "ok" => Len(F[i].rest) + Len(m) = Len(R[i])
      BY <2>1, SeesTypes
    <2>5. Len(R[i]) + i <= Len(R[0])
      BY <1>5, <2>2
    <2>6. ASSUME F[i].st = "ok"
          PROVE  Len(F[i].rest) \in Nat /\ Len(F[i].rest) + i <= Len(d.rest)
      <3>1. PICK a, b, x, y, z : a = Len(R[0]) /\ b = Len(R[i]) /\ x = Len(d.rest) /\ y = Len(F[i].rest) /\ z = Len(m)
        OBVIOUS
      <3>2. a \in Nat /\ b \in Nat /\ x \in Nat /\ y \in Nat /\ z \in Nat
        BY <1>1, <2>3, <2>4, <3>1
      <3>3. b + i <= a /\ z <= b /\ y + z = b
        BY <2>4, <2>5, <2>6, <3>1
      <3>4. z <= a
        BY <3>2, <3>3
      <3>5. x + z = a
        BY <2>3, <3>1, <3>4
      <3>6. y + i <= x
        BY <3>2, <3>3, <3>5
      <3> QED
        BY <3>1, <3>2, <3>6
    <2> QED
      BY <2>1, <2>6
  <1>7. N <= K => Sees(q, m, h, F[N])
    <2>1. SubSeq(vs, 1, N) = vs
      BY <1>3, WholeSeq DEF IsVec
    <2>2. R[N] = q
      BY <1>1 DEF Fed, IsStream
    <2>3. ASSUME N <= K
          PROVE  Sees(R[N], m, g \o SubSeq(vs, 1, N), F[N])
      <3>1. N \in Nat /\ N <= N
        BY <1>1
      <3> QED
        BY <1>6, <2>3, <3>1
    <2> QED
      BY <1>2, <2>1, <2>2, <2>3
  <1>9. ASSUME N <= K
        PROVE  Sees(r, m, h, WithoutBreak(e))
    <2>1. Sees(q, m, h, F[N]) /\ N \in 0..K /\ F[N].st \in {"ok", "end"}
      BY <1>1, <1>7, <1>9, SeesTypes
    <2>2. CASE n = Len(ws) /\ q = r
      <3>1. ASSUME NEW i \in (N + 1)..K
            PROVE  ItemStep(kind, n, i, F[N]) = F[N]
        <4>1. n \in 0..(i - 1)
          BY <1>1, <2>2
        <4> QED
          BY <4>1 DEF ItemStep, Indefinite
      <3>2. e = F[N]
        <4>1. N \in 0..(Len(d.rest) + 1) /\ Len(d.rest) \in Nat
          BY <1>1, <2>1
        <4>2. \A i \in (N + 1)..(Len(d.rest) + 1) : ItemStep(kind, n, i, F[N]) = F[N]
          BY <1>1, <3>1
        <4>3. F[Len(d.rest) + 1] = F[N]
          BY <1>0, <4>1, <4>2, TableStays
        <4> QED
          BY <1>1, <1>2, <4>3
      <3>3. WithoutBreak(e) = e
        BY <2>1, <3>2 DEF WithoutBreak
      <3> QED
        BY <2>1, <2>2, <3>2, <3>3
    <2>3. CASE n = Indefinite /\ q = Cons(Break, r) /\ Spells(kind, w, v) /\ F[N].st # "ok"
      <3>1. ASSUME NEW i \in (N + 1)..K
            PROVE  ItemStep(kind, n, i, F[N]) = F[N]
        BY <2>3 DEF ItemStep
      <3>2. e = F[N]
        <4>1. N \in 0..(Len(d.rest) + 1) /\ Len(d.rest) \in Nat
          BY <1>1, <2>1
        <4>2. \A i \in (N + 1)..(Len(d.rest) + 1) : ItemStep(kind, n, i, F[N]) = F[N]
          BY <1>1, <3>1
        <4>3. F[Len(d.rest) + 1] = F[N]
          BY <1>0, <4>1, <4>2, TableStays
        <4> QED
          BY <1>1, <1>2, <4>3
      <3>3. WithoutBreak(e) = e
        BY <2>1, <3>2 DEF WithoutBreak
      <3>4. Sees(r, m, h, e)
        BY <1>3, <1>4, <2>1, <2>3, <3>2, StaysEnded
      <3> QED
        BY <3>3, <3>4
    <2>4. CASE n = Indefinite /\ q = Cons(Break, r) /\ Spells(kind, w, v) /\ F[N].st = "ok"
      <3>1. PICK k : k = N + 1 /\ k \in Nat /\ k - 1 = N /\ k \in 1..K /\ k \in 0..K
        <4>1. Len(F[N].rest) \in Nat /\ Len(F[N].rest) + N <= Len(d.rest)
          BY <1>1, <1>6, <1>9, <2>4
        <4> QED
          BY <1>1, <4>1
      <3>2. F[k] = ItemStep(kind, Indefinite, k, F[N])
        BY <1>1, <2>4, <3>1, TableFacts DEF Fed
      <3>3. F[k].st # "ok" /\ Sees(r, m, h, WithoutBreak(F[k]))
        BY <2>1, <2>4, <3>2, BreakRead
      <3>4. ASSUME NEW i \in (k + 1)..K
            PROVE  ItemStep(kind, n, i, F[k]) = F[k]
        BY <3>3 DEF ItemStep
      <3>5. e = F[k]
        BY <1>1, <1>2, <3>1, <3>4, TableStays DEF Fed
      <3> QED
        BY <3>3, <3>5
    <2> QED
      BY <2>2, <2>3, <2>4
  <1>10. Sees(r, m, h, WithoutBreak(e))
    <2>1. K < N => Sees(r, m, h, WithoutBreak(e))
      <3>1. SUFFICES ASSUME K < N PROVE Sees(r, m, h, WithoutBreak(e))
        OBVIOUS
      <3>2. K \in 0..N /\ K \in Nat /\ K <= N /\ K <= K
        BY <1>1, <3>1
      <3>3. Sees(R[K], m, g \o SubSeq(vs, 1, K), e) /\ e.st # "ok"
        <4>1. Sees(R[K], m, g \o SubSeq(vs, 1, K), F[K])
          BY <1>6, <3>2
        <4>2. F[K].st = "ok" => Len(F[K].rest) \in Nat /\ Len(F[K].rest) + K <= Len(d.rest)
          BY <1>6, <3>2
        <4>3. ~(F[K].st = "ok")
          <5>1. PICK a, b : a = Len(F[K].rest) /\ b = Len(d.rest)
            OBVIOUS
          <5>2. F[K].st = "ok" => a \in Nat /\ a + K <= b
            BY <4>2, <5>1
          <5>3. K = b + 1 /\ b \in Nat
            BY <1>1, <5>1
          <5> QED
            BY <5>2, <5>3
        <4> QED
          BY <1>2, <4>1, <4>3
      <3>4. Len(r) <= Len(R[K])
        BY <1>3, <1>4, <1>5, <3>2
      <3>5. Sees(r, m, h, e)
        BY <1>3, <3>3, <3>4, StaysEnded
      <3>6. e.st \in {"ok", "end"}
        BY <3>5, SeesTypes
      <3>7. WithoutBreak(e) = e
        BY <3>6 DEF WithoutBreak
      <3> QED
        BY <3>5, <3>7
    <2> QED
      BY <1>1, <1>9, <2>1
  <1>11. PICK f : f = WithoutBreak(e) /\ Sees(r, m, h, f)
    BY <1>10
  <1>12. SeesSince(r, m, g, vs, f)
    BY <1>2, <1>3, <1>11 DEF SeesSince
  <1>13. Sees(R[0], m, g, d) /\ Len(r) <= Len(R[0])
    <2>1. Sees(R[0], m, g, d) /\ 0 \in 0..N
      BY <1>1 DEF Fed
    <2> QED
      BY <1>3, <1>4, <1>5, <2>1
  <1>14. f.st = "ok" => Since(d, f) = vs
    BY <1>11, <1>12, <1>13, SinceThen
  <1>15. Sees(r, m, Append(g, vs), Made(d, f, Since(d, f)))
    BY <1>11, <1>13, <1>14, MadeOne
  <1> QED
    BY <1>1, <1>2, <1>11, <1>15 DEF Outcome

-----------------------------------------------------------------------------
(* Lists                                                                   *)

(* e is what Items makes of d.                                             *)
RunOf(kind, d, n, e) == \E F : ItemTable(kind, n, d, F) /\ e = Outcome(d, F[Len(d.rest) + 1])

(* Items over texts is the run of text decoders.                           *)
LEMMA ItemsTexts ==
  ASSUME NEW d, NEW n, Len(d.rest) \in Nat
  PROVE  RunOf("text", d, n, Items(d, n, Text))
  <1> DEFINE K == Len(d.rest) + 1
             step(p) == IF n = Indefinite /\ AtBreak(p) THEN [p EXCEPT !.rest = Tail(@), !.st = "done"]
                        ELSE Text(p)
             table(G) == [i \in 0..K |-> IF i = 0 THEN d ELSE step(G[i - 1])]
             steps(G) == [i \in 0..K |-> IF i = 0 THEN d ELSE PlainStep("text", n, G[i - 1])]
             T == CHOOSE G : G = table(G)
             e == T[FirstOver(n, K, T)]
  <1>1. Items(d, n, Text) = Outcome(d, e)
    BY DEF Items
  <1>2. \A p : ItemOf("text", p) = Text(p)
    BY DEF ItemOf
  <1>3. ASSUME NEW G
        PROVE  steps(G) = table(G)
    <2>1. ASSUME NEW p
          PROVE  PlainStep("text", n, p) = step(p)
      BY <1>2 DEF PlainStep
    <2> HIDE DEF step
    <2> QED
      BY <2>1
  <1>4. PICK F : F = steps(F)
    <2>1. PICK F : PlainTable("text", n, d, F)
      BY PlainExists, Zenon
    <2> QED
      BY <2>1 DEF PlainTable
  <1>5. T = table(T)
    <2>1. F = table(F)
      <3> HIDE DEF table, steps
      <3> QED
        BY <1>3, <1>4
    <2> HIDE DEF table
    <2> QED
      BY <2>1
  <1>6. T = steps(T)
    <2> HIDE DEF table, steps, T
    <2> QED
      BY <1>3, <1>5
  <1>7. PlainTable("text", n, d, T)
    <2> HIDE DEF T
    <2> QED
      BY <1>6 DEF PlainTable
  <1>8. PICK G : ItemTable("text", n, d, G)
    BY TableExists, Zenon
  <1>9. e = G[K]
    <2> HIDE DEF T
    <2> QED
      BY <1>7, <1>8, StopsThere
  <1> HIDE DEF e
  <1> QED
    BY <1>1, <1>8, <1>9 DEF RunOf

(* Items over the chunks of a byte string is the run of chunk decoders.    *)
LEMMA ItemsChunks ==
  ASSUME NEW d, NEW n, Len(d.rest) \in Nat
  PROVE  RunOf("chunk", d, n, Items(d, n, Chunk))
  <1> DEFINE K == Len(d.rest) + 1
             step(p) == IF n = Indefinite /\ AtBreak(p) THEN [p EXCEPT !.rest = Tail(@), !.st = "done"]
                        ELSE Chunk(p)
             table(G) == [i \in 0..K |-> IF i = 0 THEN d ELSE step(G[i - 1])]
             steps(G) == [i \in 0..K |-> IF i = 0 THEN d ELSE PlainStep("chunk", n, G[i - 1])]
             T == CHOOSE G : G = table(G)
             e == T[FirstOver(n, K, T)]
  <1>1. Items(d, n, Chunk) = Outcome(d, e)
    BY DEF Items
  <1>2. \A p : ItemOf("chunk", p) = Chunk(p)
    BY DEF ItemOf
  <1>3. ASSUME NEW G
        PROVE  steps(G) = table(G)
    <2>1. ASSUME NEW p
          PROVE  PlainStep("chunk", n, p) = step(p)
      BY <1>2 DEF PlainStep
    <2> HIDE DEF step
    <2> QED
      BY <2>1
  <1>4. PICK F : F = steps(F)
    <2>1. PICK F : PlainTable("chunk", n, d, F)
      BY PlainExists, Zenon
    <2> QED
      BY <2>1 DEF PlainTable
  <1>5. T = table(T)
    <2>1. F = table(F)
      <3> HIDE DEF table, steps
      <3> QED
        BY <1>3, <1>4
    <2> HIDE DEF table
    <2> QED
      BY <2>1
  <1>6. T = steps(T)
    <2> HIDE DEF table, steps, T
    <2> QED
      BY <1>3, <1>5
  <1>7. PlainTable("chunk", n, d, T)
    <2> HIDE DEF T
    <2> QED
      BY <1>6 DEF PlainTable
  <1>8. PICK G : ItemTable("chunk", n, d, G)
    BY TableExists, Zenon
  <1>9. e = G[K]
    <2> HIDE DEF T
    <2> QED
      BY <1>7, <1>8, StopsThere
  <1> HIDE DEF e
  <1> QED
    BY <1>1, <1>8, <1>9 DEF RunOf

(* Items over trace objects is the run of their decoder.                   *)
LEMMA ItemsTraces ==
  ASSUME NEW d, NEW n, Len(d.rest) \in Nat
  PROVE  RunOf("trace", d, n, Items(d, n, DecodeTraceObject))
  <1> DEFINE K == Len(d.rest) + 1
             step(p) == IF n = Indefinite /\ AtBreak(p) THEN [p EXCEPT !.rest = Tail(@), !.st = "done"]
                        ELSE DecodeTraceObject(p)
             table(G) == [i \in 0..K |-> IF i = 0 THEN d ELSE step(G[i - 1])]
             steps(G) == [i \in 0..K |-> IF i = 0 THEN d ELSE PlainStep("trace", n, G[i - 1])]
             T == CHOOSE G : G = table(G)
             e == T[FirstOver(n, K, T)]
  <1>1. Items(d, n, DecodeTraceObject) = Outcome(d, e)
    BY DEF Items
  <1>2. \A p : ItemOf("trace", p) = DecodeTraceObject(p)
    BY DEF ItemOf
  <1>3. ASSUME NEW G
        PROVE  steps(G) = table(G)
    <2>1. ASSUME NEW p
          PROVE  PlainStep("trace", n, p) = step(p)
      BY <1>2 DEF PlainStep
    <2> HIDE DEF step
    <2> QED
      BY <2>1
  <1>4. PICK F : F = steps(F)
    <2>1. PICK F : PlainTable("trace", n, d, F)
      BY PlainExists, Zenon
    <2> QED
      BY <2>1 DEF PlainTable
  <1>5. T = table(T)
    <2>1. F = table(F)
      <3> HIDE DEF table, steps
      <3> QED
        BY <1>3, <1>4
    <2> HIDE DEF table
    <2> QED
      BY <2>1
  <1>6. T = steps(T)
    <2> HIDE DEF table, steps, T
    <2> QED
      BY <1>3, <1>5
  <1>7. PlainTable("trace", n, d, T)
    <2> HIDE DEF T
    <2> QED
      BY <1>6 DEF PlainTable
  <1>8. PICK G : ItemTable("trace", n, d, G)
    BY TableExists, Zenon
  <1>9. e = G[K]
    <2> HIDE DEF T
    <2> QED
      BY <1>7, <1>8, StopsThere
  <1> HIDE DEF e
  <1> QED
    BY <1>1, <1>8, <1>9 DEF RunOf

(* Items over version pairs is the run of their decoder.                   *)
LEMMA ItemsPairs ==
  ASSUME NEW d, NEW n, Len(d.rest) \in Nat
  PROVE  RunOf("pair", d, n, Items(d, n, Pair))
  <1> DEFINE K == Len(d.rest) + 1
             step(p) == IF n = Indefinite /\ AtBreak(p) THEN [p EXCEPT !.rest = Tail(@), !.st = "done"]
                        ELSE Pair(p)
             table(G) == [i \in 0..K |-> IF i = 0 THEN d ELSE step(G[i - 1])]
             steps(G) == [i \in 0..K |-> IF i = 0 THEN d ELSE PlainStep("pair", n, G[i - 1])]
             T == CHOOSE G : G = table(G)
             e == T[FirstOver(n, K, T)]
  <1>1. Items(d, n, Pair) = Outcome(d, e)
    BY DEF Items
  <1>2. \A p : ItemOf("pair", p) = Pair(p)
    BY DEF ItemOf
  <1>3. ASSUME NEW G
        PROVE  steps(G) = table(G)
    <2>1. ASSUME NEW p
          PROVE  PlainStep("pair", n, p) = step(p)
      BY <1>2 DEF PlainStep
    <2> HIDE DEF step
    <2> QED
      BY <2>1
  <1>4. PICK F : F = steps(F)
    <2>1. PICK F : PlainTable("pair", n, d, F)
      BY PlainExists, Zenon
    <2> QED
      BY <2>1 DEF PlainTable
  <1>5. T = table(T)
    <2>1. F = table(F)
      <3> HIDE DEF table, steps
      <3> QED
        BY <1>3, <1>4
    <2> HIDE DEF table
    <2> QED
      BY <2>1
  <1>6. T = steps(T)
    <2> HIDE DEF table, steps, T
    <2> QED
      BY <1>3, <1>5
  <1>7. PlainTable("pair", n, d, T)
    <2> HIDE DEF T
    <2> QED
      BY <1>6 DEF PlainTable
  <1>8. PICK G : ItemTable("pair", n, d, G)
    BY TableExists, Zenon
  <1>9. e = G[K]
    <2> HIDE DEF T
    <2> QED
      BY <1>7, <1>8, StopsThere
  <1> HIDE DEF e
  <1> QED
    BY <1>1, <1>8, <1>9 DEF RunOf

(* Items over versions is the run of their decoder.                        *)
LEMMA ItemsVersions ==
  ASSUME NEW d, NEW n, Len(d.rest) \in Nat
  PROVE  RunOf("version", d, n, Items(d, n, Version))
  <1> DEFINE K == Len(d.rest) + 1
             step(p) == IF n = Indefinite /\ AtBreak(p) THEN [p EXCEPT !.rest = Tail(@), !.st = "done"]
                        ELSE Version(p)
             table(G) == [i \in 0..K |-> IF i = 0 THEN d ELSE step(G[i - 1])]
             steps(G) == [i \in 0..K |-> IF i = 0 THEN d ELSE PlainStep("version", n, G[i - 1])]
             T == CHOOSE G : G = table(G)
             e == T[FirstOver(n, K, T)]
  <1>1. Items(d, n, Version) = Outcome(d, e)
    BY DEF Items
  <1>2. \A p : ItemOf("version", p) = Version(p)
    BY DEF ItemOf
  <1>3. ASSUME NEW G
        PROVE  steps(G) = table(G)
    <2>1. ASSUME NEW p
          PROVE  PlainStep("version", n, p) = step(p)
      BY <1>2 DEF PlainStep
    <2> HIDE DEF step
    <2> QED
      BY <2>1
  <1>4. PICK F : F = steps(F)
    <2>1. PICK F : PlainTable("version", n, d, F)
      BY PlainExists, Zenon
    <2> QED
      BY <2>1 DEF PlainTable
  <1>5. T = table(T)
    <2>1. F = table(F)
      <3> HIDE DEF table, steps
      <3> QED
        BY <1>3, <1>4
    <2> HIDE DEF table
    <2> QED
      BY <2>1
  <1>6. T = steps(T)
    <2> HIDE DEF table, steps, T
    <2> QED
      BY <1>3, <1>5
  <1>7. PlainTable("version", n, d, T)
    <2> HIDE DEF T
    <2> QED
      BY <1>6 DEF PlainTable
  <1>8. PICK G : ItemTable("version", n, d, G)
    BY TableExists, Zenon
  <1>9. e = G[K]
    <2> HIDE DEF T
    <2> QED
      BY <1>7, <1>8, StopsThere
  <1> HIDE DEF e
  <1> QED
    BY <1>1, <1>8, <1>9 DEF RunOf

(* Items over the items of a data point reply is the run of their decoder. *)
LEMMA ItemsReplyItems ==
  ASSUME NEW d, NEW n, Len(d.rest) \in Nat
  PROVE  RunOf("item", d, n, Items(d, n, decode_reply_item))
  <1> DEFINE K == Len(d.rest) + 1
             step(p) == IF n = Indefinite /\ AtBreak(p) THEN [p EXCEPT !.rest = Tail(@), !.st = "done"]
                        ELSE decode_reply_item(p)
             table(G) == [i \in 0..K |-> IF i = 0 THEN d ELSE step(G[i - 1])]
             steps(G) == [i \in 0..K |-> IF i = 0 THEN d ELSE PlainStep("item", n, G[i - 1])]
             T == CHOOSE G : G = table(G)
             e == T[FirstOver(n, K, T)]
  <1>1. Items(d, n, decode_reply_item) = Outcome(d, e)
    BY DEF Items
  <1>2. \A p : ItemOf("item", p) = decode_reply_item(p)
    BY DEF ItemOf
  <1>3. ASSUME NEW G
        PROVE  steps(G) = table(G)
    <2>1. ASSUME NEW p
          PROVE  PlainStep("item", n, p) = step(p)
      BY <1>2 DEF PlainStep
    <2> HIDE DEF step
    <2> QED
      BY <2>1
  <1>4. PICK F : F = steps(F)
    <2>1. PICK F : PlainTable("item", n, d, F)
      BY PlainExists, Zenon
    <2> QED
      BY <2>1 DEF PlainTable
  <1>5. T = table(T)
    <2>1. F = table(F)
      <3> HIDE DEF table, steps
      <3> QED
        BY <1>3, <1>4
    <2> HIDE DEF table
    <2> QED
      BY <2>1
  <1>6. T = steps(T)
    <2> HIDE DEF table, steps, T
    <2> QED
      BY <1>3, <1>5
  <1>7. PlainTable("item", n, d, T)
    <2> HIDE DEF T
    <2> QED
      BY <1>6 DEF PlainTable
  <1>8. PICK G : ItemTable("item", n, d, G)
    BY TableExists, Zenon
  <1>9. e = G[K]
    <2> HIDE DEF T
    <2> QED
      BY <1>7, <1>8, StopsThere
  <1> HIDE DEF e
  <1> QED
    BY <1>1, <1>8, <1>9 DEF RunOf

(* Items over metrics is the run of their decoder.                         *)
LEMMA ItemsMetrics ==
  ASSUME NEW d, NEW n, Len(d.rest) \in Nat
  PROVE  RunOf("metric", d, n, Items(d, n, DecodeMetric))
  <1> DEFINE K == Len(d.rest) + 1
             step(p) == IF n = Indefinite /\ AtBreak(p) THEN [p EXCEPT !.rest = Tail(@), !.st = "done"]
                        ELSE DecodeMetric(p)
             table(G) == [i \in 0..K |-> IF i = 0 THEN d ELSE step(G[i - 1])]
             steps(G) == [i \in 0..K |-> IF i = 0 THEN d ELSE PlainStep("metric", n, G[i - 1])]
             T == CHOOSE G : G = table(G)
             e == T[FirstOver(n, K, T)]
  <1>1. Items(d, n, DecodeMetric) = Outcome(d, e)
    BY DEF Items
  <1>2. \A p : ItemOf("metric", p) = DecodeMetric(p)
    BY DEF ItemOf
  <1>3. ASSUME NEW G
        PROVE  steps(G) = table(G)
    <2>1. ASSUME NEW p
          PROVE  PlainStep("metric", n, p) = step(p)
      BY <1>2 DEF PlainStep
    <2> HIDE DEF step
    <2> QED
      BY <2>1
  <1>4. PICK F : F = steps(F)
    <2>1. PICK F : PlainTable("metric", n, d, F)
      BY PlainExists, Zenon
    <2> QED
      BY <2>1 DEF PlainTable
  <1>5. T = table(T)
    <2>1. F = table(F)
      <3> HIDE DEF table, steps
      <3> QED
        BY <1>3, <1>4
    <2> HIDE DEF table
    <2> QED
      BY <2>1
  <1>6. T = steps(T)
    <2> HIDE DEF table, steps, T
    <2> QED
      BY <1>3, <1>5
  <1>7. PlainTable("metric", n, d, T)
    <2> HIDE DEF T
    <2> QED
      BY <1>6 DEF PlainTable
  <1>8. PICK G : ItemTable("metric", n, d, G)
    BY TableExists, Zenon
  <1>9. e = G[K]
    <2> HIDE DEF T
    <2> QED
      BY <1>7, <1>8, StopsThere
  <1> HIDE DEF e
  <1> QED
    BY <1>1, <1>8, <1>9 DEF RunOf

(* The words of a list and what they spell.                                *)
ListSpelled(kind, ws, vs) ==
  /\ Words(ws) /\ IsVec(vs) /\ Len(vs) = Len(ws)
  /\ \A i \in 1..Len(ws) : Spells(kind, ws[i], vs[i])

(* A counted list: exactly its items are read, and its values are the      *)
(* list.                                                                   *)
LEMMA CountedItems ==
  ASSUME NEW kind, NEW ws, NEW vs, ListSpelled(kind, ws, vs), NEW r, IsVec(r), NEW m, NEW g, NEW d,
         Sees(FlattenSeq(ws) \o r, m, g, d), NEW e, RunOf(kind, d, Len(ws), e)
  PROVE  Sees(r, m, Append(g, vs), e)
  <1>1. PICK R : IsStream(R, ws, r) /\ R[0] = FlattenSeq(ws) \o r
    BY Streams DEF ListSpelled
  <1>2. PICK n : n = Len(ws) /\ n \in Nat
    BY VecFacts DEF ListSpelled, Words
  <1>3. PICK F : ItemTable(kind, n, d, F) /\ e = Outcome(d, F[Len(d.rest) + 1])
    BY <1>2 DEF RunOf
  <1>4. IsVec(g)
    BY SeesTypes
  <1>5. Fed(kind, ws, vs, n, r, R, m, g, d, F)
    BY <1>1, <1>2, <1>3, <1>4 DEF Fed, ListSpelled
  <1> QED
    BY <1>2, <1>3, <1>5, ItemsRead

(* A list ended by a break: its items and the break are read, and its      *)
(* values are the list.                                                    *)
LEMMA BrokenItems ==
  ASSUME NEW kind, NEW ws, NEW vs, ListSpelled(kind, ws, vs), NEW r, IsVec(r), NEW m, NEW g, NEW d,
         Sees(FlattenSeq(ws) \o Cons(Break, r), m, g, d), NEW e, RunOf(kind, d, Indefinite, e),
         NEW w, NEW v, Spells(kind, w, v)
  PROVE  Sees(r, m, Append(g, vs), e)
  <1>1. PICK q : q = Cons(Break, r) /\ IsVec(q)
    BY VecCons
  <1>2. PICK R : IsStream(R, ws, q) /\ R[0] = FlattenSeq(ws) \o q
    BY <1>1, Streams DEF ListSpelled
  <1>3. PICK n : n = Indefinite
    OBVIOUS
  <1>4. PICK F : ItemTable(kind, n, d, F) /\ e = Outcome(d, F[Len(d.rest) + 1])
    BY <1>3 DEF RunOf
  <1>5. IsVec(g)
    BY SeesTypes
  <1>6. Fed(kind, ws, vs, n, q, R, m, g, d, F)
    BY <1>1, <1>2, <1>3, <1>4, <1>5 DEF Fed, ListSpelled
  <1> QED
    BY <1>1, <1>3, <1>4, <1>6, ItemsRead

(* The stream that begins with a list.                                     *)
LEMMA ListStream ==
  ASSUME NEW ws, Words(ws), NEW r, IsVec(r), NEW form
  PROVE  /\ IsVec(FlattenSeq(ws)) /\ IsVec(List(form, ws))
         /\ form = "definite" \/ ws = << >> =>
              List(form, ws) \o r = Cons(Arr(Len(ws)), FlattenSeq(ws) \o r)
         /\ ~(form = "definite" \/ ws = << >>) =>
              List(form, ws) \o r = Cons(Arr(Indefinite), FlattenSeq(ws) \o Cons(Break, r))
  <1>1. PICK f : f = FlattenSeq(ws)
    OBVIOUS
  <1>2. PICK S : ws \in Seq(Seq(S))
    BY WordsType
  <1>3. IsVec(f)
    <2>1. f \in Seq(S)
      BY <1>1, <1>2, FlattenType
    <2> QED
      BY <2>1, SeqIsVec
  <1>4. PICK a, b, c : a = <<Arr(Len(ws))>> /\ b = <<Arr(Indefinite)>> /\ c = <<Break>>
    OBVIOUS
  <1>5. IsVec(a) /\ IsVec(b) /\ IsVec(c)
    BY <1>4, Tuples
  <1>6. CASE form = "definite" \/ ws = << >>
    <2>1. List(form, ws) = a \o f
      BY <1>1, <1>4, <1>6 DEF List
    <2>2. IsVec(a \o f)
      BY <1>3, <1>5, VecConcat
    <2>3. (a \o f) \o r = a \o (f \o r)
      BY <1>3, <1>5, VecAssoc
    <2>4. a \o (f \o r) = Cons(Arr(Len(ws)), f \o r)
      BY <1>4 DEF Cons
    <2> QED
      BY <1>1, <1>3, <1>6, <2>1, <2>2, <2>3, <2>4
  <1>7. CASE ~(form = "definite" \/ ws = << >>)
    <2>1. List(form, ws) = (b \o f) \o c
      BY <1>1, <1>4, <1>7 DEF List
    <2>2. IsVec(b \o f) /\ IsVec(c \o r)
      BY <1>3, <1>5, VecConcat
    <2>3. IsVec((b \o f) \o c)
      BY <1>5, <2>2, VecConcat
    <2>4. ((b \o f) \o c) \o r = (b \o f) \o (c \o r)
      <3>1. PICK h : h = b \o f /\ IsVec(h)
        BY <2>2
      <3>2. Assoc(h, c, r)
        BY <1>5, <3>1, VecsAssoc
      <3> QED
        BY <3>1, <3>2 DEF Assoc
    <2>5. (b \o f) \o (c \o r) = b \o (f \o (c \o r))
      <3>1. PICK k : k = c \o r /\ IsVec(k)
        BY <2>2
      <3>2. Assoc(b, f, k)
        BY <1>3, <1>5, <3>1, VecsAssoc
      <3> QED
        BY <3>1, <3>2 DEF Assoc
    <2>6. b \o (f \o (c \o r)) = Cons(Arr(Indefinite), f \o Cons(Break, r))
      BY <1>4 DEF Cons
    <2> QED
      BY <1>1, <1>3, <1>7, <2>1, <2>3, <2>4, <2>5, <2>6
  <1> QED
    BY <1>6, <1>7

(* The last value read.                                                    *)
LEMMA LastRead ==
  ASSUME NEW r, NEW m, NEW g, NEW x, IsVec(g), NEW d, Sees(r, m, Append(g, x), d), d.st = "ok"
  PROVE  Last(d.got) = x
  <1>1. d.got = Append(g, x)
    BY SeesTypes
  <1> QED
    BY <1>1, VecAppend

(* What is left of a list after its length.                                *)
LEMMA ListHeadRead ==
  ASSUME NEW ws, Words(ws), NEW r, IsVec(r), NEW m, NEW g, NEW d,
         NEW form, Sees(List(form, ws) \o r, m, g, d)
  PROVE  Len(Read(d, "array").rest) \in Nat
  <1>1. PICK f, b : f = FlattenSeq(ws) /\ b = Cons(Break, r)
    OBVIOUS
  <1>2. IsVec(f) /\ IsVec(b)
    BY <1>1, ListStream, VecCons
  <1>3. IsVec(f \o r) /\ IsVec(f \o b)
    BY <1>2, VecConcat
  <1>4. PICK n, q : List(form, ws) \o r = Cons(Arr(n), q) /\ IsVec(q)
    <2>1. \/ List(form, ws) \o r = Cons(Arr(Len(ws)), f \o r)
          \/ List(form, ws) \o r = Cons(Arr(Indefinite), f \o b)
      BY <1>1, ListStream
    <2> QED
      BY <1>3, <2>1
  <1>5. Sees(q, m, Append(g, n), Read(d, "array"))
    BY <1>4, FitsArr, ReadToken
  <1> QED
    BY <1>5, SeesTypes

(* An array, in either spelling.                                           *)
LEMMA ArrayRead ==
  ASSUME NEW kind, NEW ws, NEW vs, ListSpelled(kind, ws, vs), NEW r, IsVec(r), NEW m, NEW g, NEW d,
         NEW form, Sees(List(form, ws) \o r, m, g, d), NEW a, a = Read(d, "array"),
         NEW e, a.st = "ok" => RunOf(kind, a, Last(a.got), e),
         NEW x, x = IF a.st # "ok" THEN a ELSE Made(d, e, Last(e.got))
  PROVE  Sees(r, m, Append(g, vs), x)
  <1>1. PICK f, b, z : f = FlattenSeq(ws) /\ b = Cons(Break, r) /\ z = List(form, ws) \o r
    OBVIOUS
  <1>2. Words(ws) /\ IsVec(ws) /\ IsVec(f) /\ IsVec(b) /\ Len(b) = Len(r) + 1 /\ Len(r) \in Nat
    BY <1>1, ListStream, VecCons, VecFacts DEF ListSpelled, Words
  <1>3. /\ IsVec(f \o r) /\ Len(f \o r) = Len(f) + Len(r) /\ IsVec(f \o b) /\ Len(f \o b) = Len(f) + Len(b)
        /\ Len(f) \in Nat
    BY <1>2, VecConcat, VecFacts
  <1>4. IsVec(g) /\ \A y : IsVec(Append(g, y))
    BY SeesTypes, VecAppend
  <1>5. \E n, q : /\ z = Cons(Arr(n), q) /\ IsVec(q) /\ Len(r) <= Len(q) /\ Len(z) = Len(q) + 1 /\ Len(q) \in Nat
                  /\ Sees(q, m, Append(g, n), a)
                  /\ a.st = "ok" => Last(a.got) = n
                  /\ RunOf(kind, a, n, e) => Sees(r, m, Append(Append(g, n), vs), e)
    <2>1. CASE form = "definite" \/ ws = << >>
      <3>1. PICK n, q : n = Len(ws) /\ q = f \o r
        OBVIOUS
      <3>2. z = Cons(Arr(n), q)
        <4>1. Words(ws) /\ IsVec(r)
          BY <1>2
        <4>2. List(form, ws) \o r = Cons(Arr(Len(ws)), FlattenSeq(ws) \o r)
          BY <2>1, <4>1, ListStream
        <4> QED
          BY <1>1, <3>1, <4>2
      <3>3. IsVec(q) /\ Len(r) <= Len(q) /\ Len(q) \in Nat /\ Len(z) = Len(q) + 1
        <4>1. IsVec(q) /\ Len(r) <= Len(q) /\ Len(q) \in Nat
          BY <1>2, <1>3, <3>1
        <4> QED
          BY <3>2, <4>1, VecCons
      <3>4. Sees(q, m, Append(g, n), a)
        BY <1>1, <3>2, <3>3, FitsArr, ReadToken
      <3>5. a.st = "ok" => Last(a.got) = n
        BY <1>4, <3>4, LastRead
      <3>6. ASSUME RunOf(kind, a, n, e)
            PROVE  Sees(r, m, Append(Append(g, n), vs), e)
        BY <1>1, <3>1, <3>4, <3>6, CountedItems
      <3> QED
        BY <3>2, <3>3, <3>4, <3>5, <3>6
    <2>2. CASE ~(form = "definite" \/ ws = << >>)
      <3>1. PICK n, q : n = Indefinite /\ q = f \o b
        OBVIOUS
      <3>2. z = Cons(Arr(n), q)
        BY <1>1, <1>2, <2>2, <3>1, ListStream
      <3>3. IsVec(q) /\ Len(r) <= Len(q) /\ Len(q) \in Nat /\ Len(z) = Len(q) + 1
        <4>1. IsVec(q) /\ Len(r) <= Len(q) /\ Len(q) \in Nat
          BY <1>2, <1>3, <3>1
        <4> QED
          BY <3>2, <4>1, VecCons
      <3>4. Sees(q, m, Append(g, n), a)
        BY <1>1, <3>2, <3>3, FitsArr, ReadToken
      <3>5. a.st = "ok" => Last(a.got) = n
        BY <1>4, <3>4, LastRead
      <3>6. Spells(kind, ws[1], vs[1])
        <4>1. Len(ws) # 0 /\ Len(ws) \in Nat
          BY <1>2, <2>2, VecEmpty, VecFacts
        <4> QED
          BY <4>1 DEF ListSpelled
      <3>7. ASSUME RunOf(kind, a, n, e)
            PROVE  Sees(r, m, Append(Append(g, n), vs), e)
        BY <1>1, <3>1, <3>4, <3>6, <3>7, BrokenItems
      <3> QED
        BY <3>2, <3>3, <3>4, <3>5, <3>7
    <2> QED
      BY <2>1, <2>2
  <1>6. PICK n, q : /\ z = Cons(Arr(n), q) /\ IsVec(q) /\ Len(r) <= Len(q) /\ Len(z) = Len(q) + 1 /\ Len(q) \in Nat
                    /\ Sees(q, m, Append(g, n), a)
                    /\ a.st = "ok" => Last(a.got) = n
                    /\ RunOf(kind, a, n, e) => Sees(r, m, Append(Append(g, n), vs), e)
    BY <1>5
  <1>7. CASE a.st # "ok"
    <2>1. x = a
      BY <1>7
    <2> QED
      BY <1>4, <1>6, <1>7, <2>1, StaysEnded
  <1>8. CASE a.st = "ok"
    <2>1. Sees(r, m, Append(Append(g, n), vs), e)
      BY <1>6, <1>8
    <2>2. e.st = "ok" => Last(e.got) = vs
      BY <1>4, <2>1, LastRead
    <2>3. Sees(z, m, g, d) /\ Len(r) <= Len(z)
      BY <1>1, <1>2, <1>6
    <2>4. Sees(r, m, Append(g, vs), Made(d, e, Last(e.got)))
      BY <2>1, <2>2, <2>3, MadeOne
    <2> QED
      BY <1>8, <2>4
  <1> QED
    BY <1>7, <1>8

(* An array of texts, in either spelling, is read as its texts.            *)
LEMMA ArrayTexts ==
  ASSUME NEW ws, NEW vs, ListSpelled("text", ws, vs), NEW r, IsVec(r), NEW m, NEW g, NEW d,
         NEW form, Sees(List(form, ws) \o r, m, g, d)
  PROVE  Sees(r, m, Append(g, vs), ArrayOf(d, Text))
  <1>1. PICK a : a = Read(d, "array")
    OBVIOUS
  <1>2. PICK e : e = Items(a, Last(a.got), Text)
    OBVIOUS
  <1>3. ArrayOf(d, Text) = IF a.st # "ok" THEN a ELSE Made(d, e, Last(e.got))
    BY <1>1, <1>2 DEF ArrayOf
  <1>4. a.st = "ok" => RunOf("text", a, Last(a.got), e)
    <2>1. ASSUME a.st = "ok"
          PROVE  Len(a.rest) \in Nat
      BY <1>1, <2>1, ListHeadRead DEF ListSpelled
    <2> QED
      BY <1>2, <2>1, ItemsTexts
  <1> QED
    BY <1>1, <1>3, <1>4, ArrayRead

(* An array of trace objects, in either spelling, is read as them.         *)
LEMMA ArrayTraces ==
  ASSUME NEW ws, NEW vs, ListSpelled("trace", ws, vs), NEW r, IsVec(r), NEW m, NEW g, NEW d,
         NEW form, Sees(List(form, ws) \o r, m, g, d)
  PROVE  Sees(r, m, Append(g, vs), ArrayOf(d, DecodeTraceObject))
  <1>1. PICK a : a = Read(d, "array")
    OBVIOUS
  <1>2. PICK e : e = Items(a, Last(a.got), DecodeTraceObject)
    OBVIOUS
  <1>3. ArrayOf(d, DecodeTraceObject) = IF a.st # "ok" THEN a ELSE Made(d, e, Last(e.got))
    BY <1>1, <1>2 DEF ArrayOf
  <1>4. a.st = "ok" => RunOf("trace", a, Last(a.got), e)
    <2>1. ASSUME a.st = "ok"
          PROVE  Len(a.rest) \in Nat
      BY <1>1, <2>1, ListHeadRead DEF ListSpelled
    <2> QED
      BY <1>2, <2>1, ItemsTraces
  <1> QED
    BY <1>1, <1>3, <1>4, ArrayRead

(* An array of reply items, in either spelling, is read as them.           *)
LEMMA ArrayReplyItems ==
  ASSUME NEW ws, NEW vs, ListSpelled("item", ws, vs), NEW r, IsVec(r), NEW m, NEW g, NEW d,
         NEW form, Sees(List(form, ws) \o r, m, g, d)
  PROVE  Sees(r, m, Append(g, vs), ArrayOf(d, decode_reply_item))
  <1>1. PICK a : a = Read(d, "array")
    OBVIOUS
  <1>2. PICK e : e = Items(a, Last(a.got), decode_reply_item)
    OBVIOUS
  <1>3. ArrayOf(d, decode_reply_item) = IF a.st # "ok" THEN a ELSE Made(d, e, Last(e.got))
    BY <1>1, <1>2 DEF ArrayOf
  <1>4. a.st = "ok" => RunOf("item", a, Last(a.got), e)
    <2>1. ASSUME a.st = "ok"
          PROVE  Len(a.rest) \in Nat
      BY <1>1, <2>1, ListHeadRead DEF ListSpelled
    <2> QED
      BY <1>2, <2>1, ItemsReplyItems
  <1> QED
    BY <1>1, <1>3, <1>4, ArrayRead

(* An array of metrics, in either spelling, is read as them.               *)
LEMMA ArrayMetrics ==
  ASSUME NEW ws, NEW vs, ListSpelled("metric", ws, vs), NEW r, IsVec(r), NEW m, NEW g, NEW d,
         NEW form, Sees(List(form, ws) \o r, m, g, d)
  PROVE  Sees(r, m, Append(g, vs), ArrayOf(d, DecodeMetric))
  <1>1. PICK a : a = Read(d, "array")
    OBVIOUS
  <1>2. PICK e : e = Items(a, Last(a.got), DecodeMetric)
    OBVIOUS
  <1>3. ArrayOf(d, DecodeMetric) = IF a.st # "ok" THEN a ELSE Made(d, e, Last(e.got))
    BY <1>1, <1>2 DEF ArrayOf
  <1>4. a.st = "ok" => RunOf("metric", a, Last(a.got), e)
    <2>1. ASSUME a.st = "ok"
          PROVE  Len(a.rest) \in Nat
      BY <1>1, <2>1, ListHeadRead DEF ListSpelled
    <2> QED
      BY <1>2, <2>1, ItemsMetrics
  <1> QED
    BY <1>1, <1>3, <1>4, ArrayRead


-----------------------------------------------------------------------------
(* Words of several parts                                                  *)

(* A word may go on in any way after its first token.                      *)
LEMMA LeadsConcat ==
  ASSUME NEW a, Leads(a), NEW b, IsVec(b)
  PROVE  Leads(a \o b) /\ IsVec(a \o b)
  <1>1. IsVec(a) /\ Len(a) \in Nat \ {0} /\ a[1][1] # "break"
    BY VecTail DEF Leads
  <1>2. IsVec(a \o b) /\ Len(a \o b) = Len(a) + Len(b) /\ (a \o b)[1] = a[1] /\ Len(b) \in Nat
    <2>1. /\ IsVec(a \o b) /\ Len(a \o b) = Len(a) + Len(b)
          /\ \A i \in 1..Len(a) : (a \o b)[i] = a[i]
      BY <1>1, VecConcat
    <2>2. 1 \in 1..Len(a) /\ Len(b) \in Nat
      BY <1>1, VecFacts
    <2> QED
      BY <2>1, <2>2
  <1>3. a \o b # << >>
    <2>1. Len(a \o b) # 0
      BY <1>1, <1>2
    <2> QED
      BY <1>2, <2>1, VecEmpty
  <1> QED
    BY <1>1, <1>2, <1>3 DEF Leads

(* A word that begins with another token than a break cannot be taken for  *)
(* one.                                                                    *)
LEMMA LeadsHead ==
  ASSUME NEW t, t[1] # "break"
  PROVE  /\ Leads(<<t>>)
         /\ \A a : Leads(<<t, a>>)
         /\ \A a, b : Leads(<<t, a, b>>)
         /\ \A a, b, c : Leads(<<t, a, b, c>>)
         /\ \A a, b, c, d, e : Leads(<<t, a, b, c, d, e>>)
  <1>1. Leads(<<t>>)
    <2>1. <<t>>[1] = t /\ <<t>> # << >> /\ IsVec(<<t>>)
      BY Tuples
    <2> QED
      BY <2>1 DEF Leads
  <1>2. ASSUME NEW a
        PROVE  Leads(<<t, a>>)
    <2>1. <<t, a>>[1] = t /\ <<t, a>> # << >> /\ IsVec(<<t, a>>)
      BY Tuples
    <2> QED
      BY <2>1 DEF Leads
  <1>3. ASSUME NEW a, NEW b
        PROVE  Leads(<<t, a, b>>)
    <2>1. <<t, a, b>>[1] = t /\ <<t, a, b>> # << >> /\ IsVec(<<t, a, b>>)
      BY Tuples
    <2> QED
      BY <2>1 DEF Leads
  <1>4. ASSUME NEW a, NEW b, NEW c
        PROVE  Leads(<<t, a, b, c>>)
    <2>1. <<t, a, b, c>>[1] = t /\ <<t, a, b, c>> # << >> /\ IsVec(<<t, a, b, c>>)
      BY Tuples
    <2> QED
      BY <2>1 DEF Leads
  <1>5. ASSUME NEW a, NEW b, NEW c, NEW d, NEW e
        PROVE  Leads(<<t, a, b, c, d, e>>)
    <2>1. <<t, a, b, c, d, e>>[1] = t /\ <<t, a, b, c, d, e>> # << >> /\ IsVec(<<t, a, b, c, d, e>>)
      BY Tuples
    <2> QED
      BY <2>1 DEF Leads
  <1> QED
    BY <1>1, <1>2, <1>3, <1>4, <1>5

(* us is vs and x.                                                         *)
Grows(vs, x, us) == IsVec(vs) /\ IsVec(us) /\ us = Append(vs, x)

(* The tuples of values read so far, each with one value more.             *)
LEMMA GrowsTuples ==
  /\ \A a : Grows(<< >>, a, <<a>>)
  /\ \A a, b : Grows(<<a>>, b, <<a, b>>)
  /\ \A a, b, c : Grows(<<a, b>>, c, <<a, b, c>>)
  /\ \A a, b, c, d : Grows(<<a, b, c>>, d, <<a, b, c, d>>)
  /\ \A a, b, c, d, e : Grows(<<a, b, c, d>>, e, <<a, b, c, d, e>>)
  /\ \A a, b, c, d, e, f : Grows(<<a, b, c, d, e>>, f, <<a, b, c, d, e, f>>)
  /\ \A a, b, c, d, e, f, h : Grows(<<a, b, c, d, e, f>>, h, <<a, b, c, d, e, f, h>>)
  /\ \A a, b, c, d, e, f, h, k : Grows(<<a, b, c, d, e, f, h>>, k, <<a, b, c, d, e, f, h, k>>)
  /\ \A a, b, c, d, e, f, h, k, l :
       Grows(<<a, b, c, d, e, f, h, k>>, l, <<a, b, c, d, e, f, h, k, l>>)
  /\ \A a, b, c, d, e, f, h, k, l, m :
       Grows(<<a, b, c, d, e, f, h, k, l>>, m, <<a, b, c, d, e, f, h, k, l, m>>)
  <1>1. ASSUME NEW a
        PROVE  Grows(<< >>, a, <<a>>)
    <2>1. Append(<< >>, a) = <<a>> /\ IsVec(<< >>) /\ IsVec(<<a>>)
      BY Tuples
    <2> QED
      BY <2>1 DEF Grows
  <1>2. ASSUME NEW a, NEW b
        PROVE  Grows(<<a>>, b, <<a, b>>)
    <2>1. Append(<<a>>, b) = <<a, b>> /\ IsVec(<<a>>) /\ IsVec(<<a, b>>)
      BY Tuples
    <2> QED
      BY <2>1 DEF Grows
  <1>3. ASSUME NEW a, NEW b, NEW c
        PROVE  Grows(<<a, b>>, c, <<a, b, c>>)
    <2>1. Append(<<a, b>>, c) = <<a, b, c>> /\ IsVec(<<a, b>>) /\ IsVec(<<a, b, c>>)
      BY Tuples
    <2> QED
      BY <2>1 DEF Grows
  <1>4. ASSUME NEW a, NEW b, NEW c, NEW d
        PROVE  Grows(<<a, b, c>>, d, <<a, b, c, d>>)
    <2>1. Append(<<a, b, c>>, d) = <<a, b, c, d>> /\ IsVec(<<a, b, c>>) /\ IsVec(<<a, b, c, d>>)
      BY Tuples
    <2> QED
      BY <2>1 DEF Grows
  <1>5. ASSUME NEW a, NEW b, NEW c, NEW d, NEW e
        PROVE  Grows(<<a, b, c, d>>, e, <<a, b, c, d, e>>)
    <2>1. Append(<<a, b, c, d>>, e) = <<a, b, c, d, e>> /\ IsVec(<<a, b, c, d>>) /\ IsVec(<<a, b, c, d, e>>)
      BY Tuples
    <2> QED
      BY <2>1 DEF Grows
  <1>6. ASSUME NEW a, NEW b, NEW c, NEW d, NEW e, NEW f
        PROVE  Grows(<<a, b, c, d, e>>, f, <<a, b, c, d, e, f>>)
    <2>1. Append(<<a, b, c, d, e>>, f) = <<a, b, c, d, e, f>> /\ IsVec(<<a, b, c, d, e>>) /\ IsVec(<<a, b, c, d, e, f>>)
      BY Tuples
    <2> QED
      BY <2>1 DEF Grows
  <1>7. ASSUME NEW a, NEW b, NEW c, NEW d, NEW e, NEW f, NEW h
        PROVE  Grows(<<a, b, c, d, e, f>>, h, <<a, b, c, d, e, f, h>>)
    <2>1. Append(<<a, b, c, d, e, f>>, h) = <<a, b, c, d, e, f, h>> /\ IsVec(<<a, b, c, d, e, f>>) /\ IsVec(<<a, b, c, d, e, f, h>>)
      BY Tuples
    <2> QED
      BY <2>1 DEF Grows
  <1>8. ASSUME NEW a, NEW b, NEW c, NEW d, NEW e, NEW f, NEW h, NEW k
        PROVE  Grows(<<a, b, c, d, e, f, h>>, k, <<a, b, c, d, e, f, h, k>>)
    <2>1. Append(<<a, b, c, d, e, f, h>>, k) = <<a, b, c, d, e, f, h, k>> /\ IsVec(<<a, b, c, d, e, f, h>>) /\ IsVec(<<a, b, c, d, e, f, h, k>>)
      BY Tuples
    <2> QED
      BY <2>1 DEF Grows
  <1>9. ASSUME NEW a, NEW b, NEW c, NEW d, NEW e, NEW f, NEW h, NEW k, NEW l
        PROVE  Grows(<<a, b, c, d, e, f, h, k>>, l, <<a, b, c, d, e, f, h, k, l>>)
    <2>1. Append(<<a, b, c, d, e, f, h, k>>, l) = <<a, b, c, d, e, f, h, k, l>> /\ IsVec(<<a, b, c, d, e, f, h, k>>) /\ IsVec(<<a, b, c, d, e, f, h, k, l>>)
      BY Tuples
    <2> QED
      BY <2>1 DEF Grows
  <1>10. ASSUME NEW a, NEW b, NEW c, NEW d, NEW e, NEW f, NEW h, NEW k, NEW l, NEW m
        PROVE  Grows(<<a, b, c, d, e, f, h, k, l>>, m, <<a, b, c, d, e, f, h, k, l, m>>)
    <2>1. Append(<<a, b, c, d, e, f, h, k, l>>, m) = <<a, b, c, d, e, f, h, k, l, m>> /\ IsVec(<<a, b, c, d, e, f, h, k, l>>) /\ IsVec(<<a, b, c, d, e, f, h, k, l, m>>)
      BY Tuples
    <2> QED
      BY <2>1 DEF Grows
  <1> QED
    BY <1>1, <1>2, <1>3, <1>4, <1>5, <1>6, <1>7, <1>8, <1>9, <1>10

(* A token read as x.                                                      *)
FitsAs(t, want, x) == Fits(t, want) /\ t[2] = x

(* FitsArr as a predicate the provers match on; and so for the other       *)
(* tokens.                                                                 *)
LEMMA TokenArr == ASSUME NEW n PROVE FitsAs(Arr(n), "array", n)
  BY FitsArr DEF FitsAs
(* The token of a map header.                                              *)
LEMMA TokenMap == ASSUME NEW n PROVE FitsAs(MapOf(n), "map", n)
  BY FitsMap DEF FitsAs
(* The token of a tag.                                                     *)
LEMMA TokenTag == ASSUME NEW n PROVE FitsAs(Tag(n), "tag", n)
  BY FitsTag DEF FitsAs
(* The token of a text.                                                    *)
LEMMA TokenStr == ASSUME NEW n PROVE FitsAs(Str(n), "str", n)
  BY FitsStr DEF FitsAs
(* The token of a byte string.                                             *)
LEMMA TokenBytes == ASSUME NEW n PROVE FitsAs(Bytes(n), "bytes", n)
  BY FitsBytes DEF FitsAs
(* The token of a Boolean.                                                 *)
LEMMA TokenBool == ASSUME NEW n PROVE FitsAs(Bool(n), "bool", n)
  BY FitsBool DEF FitsAs
(* The token of a signed number.                                           *)
LEMMA TokenI64 == ASSUME NEW n PROVE FitsAs(Int64(n), "i64", n)
  <1>1. PICK t : t = Int64(n)
    OBVIOUS
  <1>2. t[1] = "int" /\ t[2] = n
    BY <1>1 DEF Int64
  <1>3. Fits(t, "i64")
    BY <1>2 DEF Fits
  <1> QED
    BY <1>1, <1>2, <1>3 DEF FitsAs
(* The token of a number in Nat.                                           *)
LEMMA TokenU64 == ASSUME NEW n \in Nat PROVE FitsAs(Int64(n), "u64", n)
  BY FitsInt DEF FitsAs
(* The tags in use fit in a byte and in two.                               *)
LEMMA Small ==
  /\ 0 \in U8 /\ 1 \in U8 /\ 2 \in U8 /\ 3 \in U8 /\ 9 \in U8
  /\ 0 \in U16 /\ 1 \in U16 /\ 2 \in U16 /\ 3 \in U16 /\ 9 \in U16
  <1>1. 0 \in U8 /\ 1 \in U8 /\ 2 \in U8 /\ 3 \in U8 /\ 9 \in U8
    BY DEF U8
  <1>2. 0 \in U16 /\ 1 \in U16 /\ 2 \in U16 /\ 3 \in U16 /\ 9 \in U16
    BY DEF U16
  <1> QED
    BY <1>1, <1>2
(* The token of a number of two bytes.                                     *)
LEMMA TokenU16 == ASSUME NEW n \in U16 PROVE FitsAs(Int64(n), "u16", n)
  <1>1. PICK t : t = Int64(n)
    OBVIOUS
  <1>2. t[1] = "int" /\ t[2] = n
    BY <1>1 DEF Int64
  <1>3. Fits(t, "u16")
    BY <1>2 DEF Fits
  <1> QED
    BY <1>1, <1>2, <1>3 DEF FitsAs
(* The token of a number of one byte.                                      *)
LEMMA TokenU8 == ASSUME NEW n \in U8 PROVE FitsAs(Int64(n), "u8", n)
  <1>1. PICK t : t = Int64(n)
    OBVIOUS
  <1>2. t[1] = "int" /\ t[2] = n
    BY <1>1 DEF Int64
  <1>3. Fits(t, "u8")
    BY <1>2 DEF Fits
  <1> QED
    BY <1>1, <1>2, <1>3 DEF FitsAs

(* Reading the token the stream begins with adds its value to those read   *)
(* since.                                                                  *)
LEMMA ReadNext ==
  ASSUME NEW t, NEW r, NEW m, NEW g, NEW vs, NEW d, SeesSince(Cons(t, r), m, g, vs, d), IsVec(r),
         NEW want, NEW x, FitsAs(t, want, x), NEW us, Grows(vs, x, us)
  PROVE  SeesSince(r, m, g, us, Read(d, want))
  <1>1. SeesSince(r, m, g, Append(vs, x), Read(d, want))
    BY ReadOn DEF FitsAs
  <1> QED
    BY <1>1 DEF Grows

(* Decoding the word the stream begins with adds its value to those read   *)
(* since.                                                                  *)
LEMMA SpelledNext ==
  ASSUME NEW kind, NEW w, NEW v, Spells(kind, w, v), NEW r, NEW m, NEW g, NEW vs, NEW d,
         SeesSince(w \o r, m, g, vs, d), IsVec(r), NEW us, Grows(vs, v, us)
  PROVE  SeesSince(r, m, g, us, ItemOf(kind, d))
  <1>1. IsVec(g) /\ IsVec(vs) /\ Sees(w \o r, m, g \o vs, d)
    BY DEF SeesSince
  <1>2. Sees(r, m, Append(g \o vs, v), ItemOf(kind, d))
    BY <1>1 DEF Spells
  <1>3. SeesSince(r, m, g, Append(vs, v), ItemOf(kind, d))
    BY <1>1, <1>2, GoesOn
  <1> QED
    BY <1>3 DEF Grows

(* The last of the values.                                                 *)
LEMMA LastSince ==
  ASSUME NEW r, NEW m, NEW g, NEW us, NEW d, SeesSince(r, m, g, us, d), NEW vs, NEW x, Grows(vs, x, us)
  PROVE  d.st = "ok" => Last(d.got) = x
  <1>1. IsVec(g) /\ IsVec(vs) /\ us = Append(vs, x) /\ Sees(r, m, g \o us, d)
    BY DEF SeesSince, Grows
  <1>2. Append(g \o vs, x) = g \o us
    BY <1>1, ConcatAppend
  <1>3. IsVec(g \o vs)
    BY <1>1, VecConcat
  <1>4. Last(Append(g \o vs, x)) = x
    BY <1>3, VecAppend
  <1>5. d.st = "ok" => d.got = g \o us
    BY <1>1, SeesTypes
  <1> QED
    BY <1>2, <1>4, <1>5

(* A value that is allowed is not refused.                                 *)
LEMMA ExpectSince ==
  ASSUME NEW r, NEW m, NEW g, NEW us, NEW d, SeesSince(r, m, g, us, d), NEW vs, NEW x, Grows(vs, x, us),
         NEW S, x \in S
  PROVE  Expect(d, S) = d
  BY LastSince DEF Expect

(* A word of a kind, from what its decoder does wherever the word stands.  *)
LEMMA SpellsIf ==
  ASSUME NEW kind, NEW w, NEW v, Leads(w),
         ASSUME NEW r, NEW m, NEW g, NEW d, IsVec(r), IsVec(g), Sees(w \o r, m, g, d),
                SeesSince(w \o r, m, g, << >>, d), Len(r) <= Len(w \o r), IsVec(w)
         PROVE  Sees(r, m, Append(g, v), ItemOf(kind, d))
  PROVE  Spells(kind, w, v)
  <1>1. SUFFICES ASSUME NEW r, NEW m, NEW g, NEW d, IsVec(r), Sees(w \o r, m, g, d)
                 PROVE  Sees(r, m, Append(g, v), ItemOf(kind, d))
    BY DEF Spells
  <1>2. IsVec(w) /\ IsVec(g)
    BY <1>1, SeesTypes DEF Leads
  <1>3. Len(r) <= Len(w \o r)
    <2>1. Len(w \o r) = Len(w) + Len(r) /\ Len(w) \in Nat /\ Len(r) \in Nat
      BY <1>1, <1>2, VecConcat, VecFacts
    <2> QED
      BY <2>1
  <1>4. SeesSince(w \o r, m, g, << >>, d)
    BY <1>1, StartsAt
  <1> QED
    BY <1>1, <1>2, <1>3, <1>4

-----------------------------------------------------------------------------
(* Texts and enumerations                                                  *)

(* A text is read as it was written.                                       *)
LEMMA SpellsText == ASSUME NEW t PROVE Spells("text", EncodeText(t), t)
  <1>1. PICK w : w = <<Str(t)>>
    OBVIOUS
  <1>2. Leads(w) /\ w = EncodeText(t)
    <2>1. Str(t)[1] # "break"
      BY DEF Str
    <2> QED
      BY <1>1, <2>1, LeadsHead DEF EncodeText
  <1>3. ASSUME NEW r, NEW m, NEW g, NEW d, IsVec(r), Sees(w \o r, m, g, d)
        PROVE  Sees(r, m, Append(g, t), ItemOf("text", d))
    <2>1. w \o r = Cons(Str(t), r)
      BY <1>1 DEF Cons
    <2>2. Sees(Cons(Str(t), r), m, g, d)
      BY <1>3, <2>1
    <2>3. Sees(r, m, Append(g, t), Read(d, "str"))
      BY <1>3, <2>2, FitsStr, ReadToken
    <2> QED
      BY <2>3 DEF ItemOf, Text
  <1> QED
    BY <1>2, <1>3 DEF Spells

(* A number of an enumeration within its range is read as itself.          *)
LEMMA EnumRead ==
  ASSUME NEW n, NEW max, n \in 0..max, n \in U8, NEW r, NEW m, NEW g, NEW d,
         IsVec(r), Sees(EncodeEnum(n) \o r, m, g, d)
  PROVE  Sees(r, m, Append(g, n), DecodeEnum(d, max))
  <1>1. PICK w, q : w = EncodeEnum(n) /\ q = Cons(Int64(n), r)
    OBVIOUS
  <1>2. w \o r = Cons(Arr(1), q) /\ IsVec(w)
    <2>1. Is2(w, Arr(1), Int64(n))
      BY <1>1 DEF EncodeEnum, Is2
    <2>2. w \o r = Cons(Arr(1), Cons(Int64(n), r)) /\ IsVec(w)
      BY <2>1, Words2
    <2> QED
      BY <1>1, <2>2
  <1>3. IsVec(q) /\ Len(q) = Len(r) + 1 /\ Len(r) \in Nat
    BY <1>1, VecCons, VecFacts
  <1>4. SeesSince(Cons(Arr(1), q), m, g, << >>, d) /\ Sees(Cons(Arr(1), q), m, g, d)
    BY <1>1, <1>2, StartsAt
  <1>5. PICK a : a = Read(d, "array") /\ SeesSince(q, m, g, <<1>>, a)
    <2>1. FitsAs(Arr(1), "array", 1)
      BY TokenArr
    <2>2. Grows(<< >>, 1, <<1>>)
      BY GrowsTuples
    <2> QED
      BY <1>3, <1>4, <2>1, <2>2, ReadNext
  <1>6. PICK e : e = Read(a, "u8") /\ SeesSince(r, m, g, <<1, n>>, e)
    <2>1. FitsAs(Int64(n), "u8", n)
      BY TokenU8
    <2>2. Grows(<<1>>, n, <<1, n>>)
      BY GrowsTuples
    <2> QED
      BY <1>1, <1>5, <2>1, <2>2, ReadNext
  <1>7. Expect(e, 0..max) = e /\ (e.st = "ok" => Last(e.got) = n)
    <2>1. Grows(<<1>>, n, <<1, n>>)
      BY GrowsTuples
    <2>2. e.st = "ok" => Last(e.got) = n
      BY <1>6, <2>1, LastSince
    <2> QED
      BY <2>2 DEF Expect
  <1>8. DecodeEnum(d, max) = Made(d, e, Last(e.got))
    BY <1>5, <1>6, <1>7, TwoReads DEF DecodeEnum
  <1>9. Len(r) <= Len(Cons(Arr(1), q))
    BY <1>3, VecCons
  <1>10. Sees(r, m, g \o <<1, n>>, e)
    BY <1>6 DEF SeesSince
  <1>11. Sees(r, m, Append(g, n), Made(d, e, Last(e.got)))
    BY <1>4, <1>7, <1>9, <1>10, MadeOne
  <1> QED
    BY <1>8, <1>11

(* DecodeSeverity reads what EncodeEnum writes of a severity.              *)
LEMMA SpellsSeverity == ASSUME NEW n \in 0..SeverityMax PROVE Spells("severity", EncodeEnum(n), n)
  <1>1. n \in U8 /\ Leads(EncodeEnum(n))
    <2>1. n \in U8
      BY DEF SeverityMax, U8
    <2>2. Arr(1)[1] # "break"
      BY DEF Arr
    <2> QED
      BY <2>1, <2>2, LeadsHead DEF EncodeEnum
  <1>2. ASSUME NEW r, NEW m, NEW g, NEW d, IsVec(r), Sees(EncodeEnum(n) \o r, m, g, d)
        PROVE  Sees(r, m, Append(g, n), ItemOf("severity", d))
    <2>1. Sees(r, m, Append(g, n), DecodeEnum(d, SeverityMax))
      BY <1>1, <1>2, EnumRead
    <2> QED
      BY <2>1 DEF ItemOf, DecodeSeverity
  <1> QED
    BY <1>1, <1>2 DEF Spells

(* DecodeDetailLevel reads what EncodeEnum writes of a detail level.       *)
LEMMA SpellsDetail == ASSUME NEW n \in 0..DetailMax PROVE Spells("detail", EncodeEnum(n), n)
  <1>1. n \in U8 /\ Leads(EncodeEnum(n))
    <2>1. n \in U8
      BY DEF DetailMax, U8
    <2>2. Arr(1)[1] # "break"
      BY DEF Arr
    <2> QED
      BY <2>1, <2>2, LeadsHead DEF EncodeEnum
  <1>2. ASSUME NEW r, NEW m, NEW g, NEW d, IsVec(r), Sees(EncodeEnum(n) \o r, m, g, d)
        PROVE  Sees(r, m, Append(g, n), ItemOf("detail", d))
    <2>1. Sees(r, m, Append(g, n), DecodeEnum(d, DetailMax))
      BY <1>1, <1>2, EnumRead
    <2> QED
      BY <2>1 DEF ItemOf, DecodeDetailLevel
  <1> QED
    BY <1>1, <1>2 DEF Spells

-----------------------------------------------------------------------------
(* Time                                                                    *)

(* DecodeUTCTime reads the seconds and nanoseconds that EncodeUTCTime      *)
(* writes as seconds and picoseconds (protocol/types.rs).                  *)
LEMMA SpellsTime ==
  ASSUME NEW s \in Int, NEW n \in Nat
  PROVE  Spells("time", EncodeUTCTime(s, n * PicosPerNano), <<s, n>>)
  <1>1. PICK p : p = n * PicosPerNano /\ p \in Nat /\ NanosOf(p) = n
    BY DEF PicosPerNano, NanosOf
  <1>2. PICK w, t, x : w = EncodeUTCTime(s, p) /\ t = <<s, n>> /\ x = -12
    OBVIOUS
  <1>3. Is6(w, Tag(1000), MapOf(2), Int64(1), Int64(s), Int64(x), Int64(p))
    BY <1>2 DEF EncodeUTCTime, Is6
  <1>4. Leads(w)
    <2>1. Tag(1000)[1] # "break"
      BY DEF Tag
    <2>2. w[1] = Tag(1000) /\ w # << >>
      BY <1>3 DEF Is6
    <2>3. IsVec(w)
      BY <1>3, Tuples DEF Is6
    <2> QED
      BY <2>1, <2>2, <2>3 DEF Leads
  <1>5. ASSUME NEW r, NEW m, NEW g, NEW d, IsVec(r), IsVec(g), Sees(w \o r, m, g, d),
               SeesSince(w \o r, m, g, << >>, d), Len(r) <= Len(w \o r), IsVec(w)
        PROVE  Sees(r, m, Append(g, t), ItemOf("time", d))
    <2>1. PICK q0, q1, q2, q3, q4, q5 :
            /\ q5 = Cons(Int64(p), r) /\ q4 = Cons(Int64(x), q5) /\ q3 = Cons(Int64(s), q4)
            /\ q2 = Cons(Int64(1), q3) /\ q1 = Cons(MapOf(2), q2) /\ q0 = Cons(Tag(1000), q1)
      OBVIOUS
    <2>2. /\ IsVec(r) /\ IsVec(q5) /\ IsVec(q4) /\ IsVec(q3) /\ IsVec(q2) /\ IsVec(q1) /\ IsVec(q0)
          /\ w \o r = q0
      <3>1. w \o r = q0
        BY <1>3, <1>5, <2>1, Words6
      <3> QED
        BY <1>5, <2>1, <3>1, VecCons
    <2>3. SeesSince(q0, m, g, << >>, d) /\ Sees(q0, m, g, d) /\ Len(r) <= Len(q0)
      BY <1>5, <2>2
    <2>4. PICK d1 : d1 = Read(d, "tag") /\ SeesSince(q1, m, g, <<1000>>, d1)
      <3>1. FitsAs(Tag(1000), "tag", 1000)
        BY TokenTag
      <3>2. Grows(<< >>, 1000, <<1000>>)
        BY GrowsTuples
      <3>3. SeesSince(Cons(Tag(1000), q1), m, g, << >>, d) /\ IsVec(q1)
        BY <2>1, <2>2, <2>3
      <3>4. SeesSince(q1, m, g, <<1000>>, Read(d, "tag"))
        BY <3>1, <3>2, <3>3, ReadNext
      <3> QED
        BY <3>4
    <2>5. PICK d2 : d2 = Read(d1, "map") /\ SeesSince(q2, m, g, <<1000, 2>>, d2)
      <3>1. FitsAs(MapOf(2), "map", 2)
        BY TokenMap
      <3>2. Grows(<<1000>>, 2, <<1000, 2>>)
        BY GrowsTuples
      <3>3. SeesSince(Cons(MapOf(2), q2), m, g, <<1000>>, d1) /\ IsVec(q2)
        BY <2>1, <2>2, <2>4
      <3>4. SeesSince(q2, m, g, <<1000, 2>>, Read(d1, "map"))
        BY <3>1, <3>2, <3>3, ReadNext
      <3> QED
        BY <3>4
    <2>6. PICK d3 : d3 = Read(d2, "i64") /\ SeesSince(q3, m, g, <<1000, 2, 1>>, d3)
      <3>1. FitsAs(Int64(1), "i64", 1)
        BY TokenI64
      <3>2. Grows(<<1000, 2>>, 1, <<1000, 2, 1>>)
        BY GrowsTuples
      <3>3. SeesSince(Cons(Int64(1), q3), m, g, <<1000, 2>>, d2) /\ IsVec(q3)
        BY <2>1, <2>2, <2>5
      <3>4. SeesSince(q3, m, g, <<1000, 2, 1>>, Read(d2, "i64"))
        BY <3>1, <3>2, <3>3, ReadNext
      <3> QED
        BY <3>4
    <2>7. PICK d4 : d4 = Read(d3, "i64") /\ SeesSince(q4, m, g, <<1000, 2, 1, s>>, d4)
      <3>1. FitsAs(Int64(s), "i64", s)
        BY TokenI64
      <3>2. Grows(<<1000, 2, 1>>, s, <<1000, 2, 1, s>>)
        BY GrowsTuples
      <3>3. SeesSince(Cons(Int64(s), q4), m, g, <<1000, 2, 1>>, d3) /\ IsVec(q4)
        BY <2>1, <2>2, <2>6
      <3>4. SeesSince(q4, m, g, <<1000, 2, 1, s>>, Read(d3, "i64"))
        BY <3>1, <3>2, <3>3, ReadNext
      <3> QED
        BY <3>4
    <2>8. PICK d5 : d5 = Read(d4, "i64") /\ SeesSince(q5, m, g, <<1000, 2, 1, s, x>>, d5)
      <3>1. FitsAs(Int64(x), "i64", x)
        BY TokenI64
      <3>2. Grows(<<1000, 2, 1, s>>, x, <<1000, 2, 1, s, x>>)
        BY GrowsTuples
      <3>3. SeesSince(Cons(Int64(x), q5), m, g, <<1000, 2, 1, s>>, d4) /\ IsVec(q5)
        BY <2>1, <2>2, <2>7
      <3>4. SeesSince(q5, m, g, <<1000, 2, 1, s, x>>, Read(d4, "i64"))
        BY <3>1, <3>2, <3>3, ReadNext
      <3> QED
        BY <3>4
    <2>9. PICK e : e = Read(d5, "u64") /\ SeesSince(r, m, g, <<1000, 2, 1, s, x, p>>, e)
      <3>1. FitsAs(Int64(p), "u64", p)
        BY <1>1, TokenU64
      <3>2. Grows(<<1000, 2, 1, s, x>>, p, <<1000, 2, 1, s, x, p>>)
        BY GrowsTuples
      <3>3. SeesSince(Cons(Int64(p), r), m, g, <<1000, 2, 1, s, x>>, d5) /\ IsVec(r)
        BY <2>1, <2>2, <2>8
      <3>4. SeesSince(r, m, g, <<1000, 2, 1, s, x, p>>, Read(d5, "u64"))
        BY <3>1, <3>2, <3>3, ReadNext
      <3> QED
        BY <3>4
    <2>10. (d1.st = "ok" => Last(d1.got) = 1000) /\ Expect(d1, {1000}) = d1
      <3>1. Grows(<< >>, 1000, <<1000>>)
        BY GrowsTuples
      <3>2. d1.st = "ok" => Last(d1.got) = 1000
        BY <2>4, <3>1, LastSince
      <3> QED
        BY <3>2 DEF Expect
    <2>11. (d2.st = "ok" => Last(d2.got) = 2) /\ Expect(d2, {2}) = d2
      <3>1. Grows(<<1000>>, 2, <<1000, 2>>)
        BY GrowsTuples
      <3>2. d2.st = "ok" => Last(d2.got) = 2
        BY <2>5, <3>1, LastSince
      <3> QED
        BY <3>2 DEF Expect
    <2>12. (d3.st = "ok" => Last(d3.got) = 1) /\ Expect(d3, {1}) = d3
      <3>1. Grows(<<1000, 2>>, 1, <<1000, 2, 1>>)
        BY GrowsTuples
      <3>2. d3.st = "ok" => Last(d3.got) = 1
        BY <2>6, <3>1, LastSince
      <3> QED
        BY <3>2 DEF Expect
    <2>13. (d5.st = "ok" => Last(d5.got) = x) /\ Expect(d5, {-12}) = d5
      <3>1. Grows(<<1000, 2, 1, s>>, x, <<1000, 2, 1, s, x>>)
        BY GrowsTuples
      <3>2. d5.st = "ok" => Last(d5.got) = x
        BY <2>8, <3>1, LastSince
      <3> QED
        BY <1>2, <3>2 DEF Expect
    <2>14. (e.st = "ok" => Last(e.got) = p)
      <3>1. Grows(<<1000, 2, 1, s, x>>, p, <<1000, 2, 1, s, x, p>>)
        BY GrowsTuples
      <3>2. e.st = "ok" => Last(e.got) = p
        BY <2>9, <3>1, LastSince
      <3> QED
        BY <3>2
    <2>15. PICK v : v = <<e.got[Len(e.got) - 2], NanosOf(Last(e.got))>>
      OBVIOUS
    <2>16. DecodeUTCTime(d) = Made(d, e, v)
      BY <2>4, <2>5, <2>6, <2>7, <2>8, <2>9, <2>10, <2>11, <2>12, <2>13, <2>15, TwoReads DEF DecodeUTCTime
    <2>17. ASSUME e.st = "ok"
           PROVE  v = t
      <3>1. PICK vs : vs = <<1000, 2, 1, s, x, p>>
        OBVIOUS
      <3>2. IsVec(vs) /\ Len(vs) = 6 /\ vs[4] = s
        BY <3>1, Tuples
      <3>3. e.got = g \o vs
        <4>1. Sees(r, m, g \o vs, e)
          BY <2>9, <3>1 DEF SeesSince
        <4> QED
          BY <2>17, <4>1, SeesTypes
      <3>4. /\ Len(g \o vs) = Len(g) + Len(vs) /\ Len(g) \in Nat
            /\ \A i \in 1..Len(vs) : (g \o vs)[Len(g) + i] = vs[i]
        <4>1. IsVec(g) /\ IsVec(vs)
          BY <1>5, <3>2
        <4> QED
          BY <4>1, VecConcat, VecFacts
      <3>5. Len(e.got) - 2 = Len(g) + 4
        BY <3>2, <3>3, <3>4
      <3>6. e.got[Len(e.got) - 2] = s
        <4>1. 4 \in 1..Len(vs)
          BY <3>2
        <4> QED
          BY <3>2, <3>3, <3>4, <3>5, <4>1
      <3> QED
        BY <1>1, <1>2, <2>14, <2>15, <2>17, <3>6
    <2>18. Sees(r, m, g \o <<1000, 2, 1, s, x, p>>, e)
      BY <2>9 DEF SeesSince
    <2>19. Sees(r, m, Append(g, t), Made(d, e, v))
      BY <2>3, <2>17, <2>18, MadeOne
    <2> QED
      BY <2>16, <2>19 DEF ItemOf
  <1>6. Spells("time", w, t)
    BY <1>4, <1>5, SpellsIf
  <1> QED
    BY <1>1, <1>2, <1>6

-----------------------------------------------------------------------------
(* Optional values and lists of items                                      *)

(* An optional value v, written u, is a list of none or one.              *)
MaybeWord(kind, x, w, v, u) ==
  \/ x = << >> /\ w = <<Arr(0)>>
  \/ x = <<v>> /\ w = <<Arr(1)>> \o u /\ Spells(kind, u, v)

(* An optional value is read as none or as the one value.                  *)
LEMMA MaybeRead ==
  ASSUME NEW kind, NEW x, NEW w, NEW v, NEW u,
         MaybeWord(kind, x, w, v, u),
         NEW r, NEW m, NEW g, NEW d, IsVec(r), Sees(w \o r, m, g, d),
         NEW a, a = Expect(Read(d, "array"), {0, 1}),
         NEW b, b = IF a.st = "ok" /\ Last(a.got) = 1 THEN ItemOf(kind, a) ELSE a
  PROVE  Sees(r, m, Append(g, x), Made(d, b, Tail(Since(d, b))))
  <1>1. IsVec(g)
    BY SeesTypes
  <1>2. CASE x = << >> /\ w = <<Arr(0)>>
    <2>1. w \o r = Cons(Arr(0), r)
      BY <1>2 DEF Cons
    <2>2. PICK q0 : q0 = Cons(Arr(0), r) /\ q0 = w \o r /\ Sees(q0, m, g, d) /\ SeesSince(q0, m, g, << >>, d)
      BY <2>1, StartsAt
    <2>3. IsVec(q0) /\ Len(r) <= Len(q0)
      <3>1. IsVec(q0) /\ Len(q0) = Len(r) + 1 /\ Len(r) \in Nat
        BY <2>2, VecCons, VecFacts
      <3> QED
        BY <3>1
    <2>4. PICK a1 : a1 = Read(d, "array") /\ SeesSince(r, m, g, <<0>>, a1)
      <3>1. FitsAs(Arr(0), "array", 0)
        BY TokenArr
      <3>2. Grows(<< >>, 0, <<0>>)
        BY GrowsTuples
      <3>3. SeesSince(Cons(Arr(0), r), m, g, << >>, d) /\ IsVec(r)
        BY <2>3, <2>2
      <3>4. SeesSince(r, m, g, <<0>>, Read(d, "array"))
        BY <3>1, <3>2, <3>3, ReadNext
      <3> QED
        BY <3>4
    <2>5. (a1.st = "ok" => Last(a1.got) = 0) /\ Expect(a1, {0, 1}) = a1
      <3>1. Grows(<< >>, 0, <<0>>)
        BY GrowsTuples
      <3>2. a1.st = "ok" => Last(a1.got) = 0
        BY <2>4, <3>1, LastSince
      <3> QED
        BY <3>2 DEF Expect
    <2>6. a = a1 /\ b = a1
      BY <2>4, <2>5
    <2>7. ASSUME b.st = "ok"
          PROVE  Tail(Since(d, b)) = << >>
      <3>1. Since(d, b) = <<0>>
        BY <2>2, <2>3, <2>4, <2>6, <2>7, SinceThen
      <3>2. Tail(<<0>>) = << >>
        OBVIOUS
      <3> QED
        BY <3>1, <3>2
    <2>8. Sees(r, m, g \o <<0>>, b)
      BY <2>4, <2>6 DEF SeesSince
    <2>9. Sees(r, m, Append(g, << >>), Made(d, b, Tail(Since(d, b))))
      BY <2>2, <2>3, <2>7, <2>8, MadeOne
    <2> QED
      BY <1>2, <2>9
  <1>3. CASE x = <<v>> /\ w = <<Arr(1)>> \o u /\ Spells(kind, u, v)
    <2>1. IsVec(u) /\ IsVec(u \o r) /\ Len(r) <= Len(u \o r) /\ Len(r) \in Nat /\ Len(u \o r) \in Nat
      <3>1. IsVec(u)
        BY <1>3 DEF Spells, Leads
      <3>2. IsVec(u \o r) /\ Len(u \o r) = Len(u) + Len(r) /\ Len(u) \in Nat /\ Len(r) \in Nat
        BY <3>1, VecConcat, VecFacts
      <3> QED
        BY <3>1, <3>2
    <2>2. PICK q0, q1 : q1 = u \o r /\ q0 = Cons(Arr(1), q1)
      OBVIOUS
    <2>3. w \o r = q0
      <3>1. PICK h : h = <<Arr(1)>> /\ IsVec(h)
        BY Tuples
      <3>2. Assoc(h, u, r)
        BY <2>1, <3>1, VecsAssoc
      <3> QED
        BY <1>3, <2>2, <3>1, <3>2 DEF Assoc, Cons
    <2>4. /\ IsVec(q1) /\ q1 = u \o r /\ q0 = Cons(Arr(1), q1)
          /\ Sees(q0, m, g, d) /\ SeesSince(q0, m, g, << >>, d) /\ IsVec(r)
      BY <2>1, <2>2, <2>3, StartsAt
    <2>5. Len(r) <= Len(q0) /\ Len(r) <= Len(q1)
      <3>1. Len(q0) = Len(q1) + 1
        BY <2>4, VecCons
      <3> QED
        BY <2>1, <2>2, <3>1
    <2>6. PICK a1 : a1 = Read(d, "array") /\ SeesSince(q1, m, g, <<1>>, a1)
      <3>1. FitsAs(Arr(1), "array", 1)
        BY TokenArr
      <3>2. Grows(<< >>, 1, <<1>>)
        BY GrowsTuples
      <3>3. SeesSince(Cons(Arr(1), q1), m, g, << >>, d) /\ IsVec(q1)
        BY <2>4, <2>4
      <3>4. SeesSince(q1, m, g, <<1>>, Read(d, "array"))
        BY <3>1, <3>2, <3>3, ReadNext
      <3> QED
        BY <3>4
    <2>7. (a1.st = "ok" => Last(a1.got) = 1) /\ Expect(a1, {0, 1}) = a1
      <3>1. Grows(<< >>, 1, <<1>>)
        BY GrowsTuples
      <3>2. a1.st = "ok" => Last(a1.got) = 1
        BY <2>6, <3>1, LastSince
      <3> QED
        BY <3>2 DEF Expect
    <2>8. a = a1
      BY <2>6, <2>7
    <2>9. PICK y : y = Tail(Since(d, b))
      OBVIOUS
    <2>10. SeesSince(r, m, g, <<1, v>>, b) /\ (b.st = "ok" => y = x)
      <3>1. CASE a.st = "ok"
        <4>1. b = ItemOf(kind, a1)
          BY <2>7, <2>8, <3>1
        <4>2. Grows(<<1>>, v, <<1, v>>)
          BY GrowsTuples
        <4>3. SeesSince(r, m, g, <<1, v>>, b)
          BY <1>3, <2>4, <2>6, <4>1, <4>2, SpelledNext
        <4>4. ASSUME b.st = "ok"
              PROVE  y = x
          <5>1. Since(d, b) = <<1, v>>
            BY <2>4, <2>5, <4>3, <4>4, SinceThen
          <5>2. Tail(<<1, v>>) = <<v>>
            OBVIOUS
          <5> QED
            BY <1>3, <2>9, <5>1, <5>2
        <4> QED
          BY <4>3, <4>4
      <3>2. CASE a.st # "ok"
        <4>1. b = a1 /\ b.st # "ok"
          BY <2>8, <3>2
        <4>2. Sees(q1, m, g \o <<1>>, a1)
          BY <2>6 DEF SeesSince
        <4>3. IsVec(<<1, v>>)
          BY Tuples
        <4>4. IsVec(g \o <<1, v>>)
          BY <1>1, <4>3, VecConcat
        <4>5. Sees(r, m, g \o <<1, v>>, b)
          BY <2>5, <4>1, <4>2, <4>4, StaysEnded
        <4> QED
          BY <1>1, <4>1, <4>3, <4>5 DEF SeesSince
      <3> QED
        BY <3>1, <3>2
    <2>11. Sees(r, m, g \o <<1, v>>, b)
      BY <2>10 DEF SeesSince
    <2>12. Sees(r, m, Append(g, x), Made(d, b, y))
      BY <2>4, <2>5, <2>10, <2>11, MadeOne
    <2> QED
      BY <2>9, <2>12
  <1> QED
    BY <1>2, <1>3 DEF MaybeWord

(* An optional value is none or one.                                       *)
LEMMA MaybeIs ==
  ASSUME NEW x, IsMaybe(x)
  PROVE  x = << >> \/ (x = <<x[1]>> /\ x # << >>)
  <1>1. IsVec(x) /\ (Len(x) = 0 \/ Len(x) = 1)
    <2>1. IsVec(x) /\ Len(x) <= 1
      BY DEF IsMaybe
    <2>2. PICK n : n = Len(x) /\ n \in Nat
      BY <2>1, VecFacts
    <2>3. n = 0 \/ n = 1
      BY <2>1, <2>2
    <2> QED
      BY <2>1, <2>2, <2>3
  <1>2. CASE Len(x) = 0
    BY <1>1, <1>2, VecEmpty
  <1>3. CASE Len(x) = 1
    <2>1. PICK y, v : v = x[1] /\ y = <<v>>
      OBVIOUS
    <2>2. IsVec(y) /\ Len(y) = 1 /\ y[1] = v
      BY <2>1, Tuples
    <2>3. \A i \in 1..1 : x[i] = y[i]
      BY <2>1, <2>2
    <2>4. x = y
      BY <1>1, <1>3, <2>2, <2>3, VecEqual
    <2> QED
      BY <2>1, <2>4
  <1> QED
    BY <1>1, <1>2, <1>3

(* An optional text: DecodeMaybe reads what EncodeMaybe writes.            *)
LEMMA SpellsMaybeText ==
  ASSUME NEW x, IsMaybe(x)
  PROVE  Spells("maybe text", EncodeMaybe(x, EncodeText), x)
  <1>1. PICK w, v, u : w = EncodeMaybe(x, EncodeText) /\ v = x[1] /\ u = EncodeText(v)
    OBVIOUS
  <1>2. Spells("text", u, v)
    BY <1>1, SpellsText
  <1>3. \/ x = << >> /\ w = <<Arr(0)>>
        \/ x = <<v>> /\ w = <<Arr(1)>> \o u /\ Spells("text", u, v)
    <2>1. x = << >> \/ (x = <<v>> /\ x # << >>)
      BY <1>1, MaybeIs
    <2>2. x = << >> => w = <<Arr(0)>>
      BY <1>1 DEF EncodeMaybe
    <2>3. x # << >> => w = <<Arr(1)>> \o u
      BY <1>1 DEF EncodeMaybe
    <2> QED
      BY <1>2, <2>1, <2>2, <2>3
  <1>4. Leads(w)
    <2>1. Arr(0)[1] # "break" /\ Arr(1)[1] # "break"
      BY DEF Arr
    <2>2. Leads(<<Arr(0)>>) /\ Leads(<<Arr(1)>>) /\ IsVec(u)
      BY <1>2, <2>1, LeadsHead DEF Spells, Leads
    <2> QED
      BY <1>3, <2>2, LeadsConcat
  <1>5. ASSUME NEW r, NEW m, NEW g, NEW d, IsVec(r), Sees(w \o r, m, g, d)
        PROVE  Sees(r, m, Append(g, x), ItemOf("maybe text", d))
    <2>1. PICK a : a = Expect(Read(d, "array"), {0, 1})
      OBVIOUS
    <2>2. PICK b : b = IF a.st = "ok" /\ Last(a.got) = 1 THEN ItemOf("text", a) ELSE a
      OBVIOUS
    <2>3. Sees(r, m, Append(g, x), Made(d, b, Tail(Since(d, b))))
      <3>1. MaybeWord("text", x, w, v, u) /\ IsVec(r) /\ Sees(w \o r, m, g, d)
        BY <1>3, <1>5 DEF MaybeWord
      <3> QED
        BY <2>1, <2>2, <3>1, MaybeRead
    <2>4. ItemOf("text", a) = Text(a)
      BY DEF ItemOf
    <2>5. DecodeMaybe(d, Text) = Made(d, b, Tail(Since(d, b)))
      BY <2>1, <2>2, <2>4 DEF DecodeMaybe
    <2> QED
      BY <2>3, <2>5 DEF ItemOf
  <1>6. Spells("maybe text", w, x)
    BY <1>4, <1>5 DEF Spells
  <1> QED
    BY <1>1, <1>6

(* A list of words.                                                        *)
LEMMA ListIs ==
  ASSUME NEW kind, NEW vs, IsVec(vs), NEW ws, ws = [i \in DOMAIN vs |-> ws[i]],
         \A i \in 1..Len(vs) : Spells(kind, ws[i], vs[i])
  PROVE  ListSpelled(kind, ws, vs)
  <1>1. DOMAIN vs = 1..Len(vs) /\ Len(vs) \in Nat
    BY VecFacts
  <1>2. PICK n : n = Len(vs) /\ n \in Nat
    BY <1>1
  <1>3. PICK S : S = {ws[i] : i \in 1..n}
    OBVIOUS
  <1>4. ws \in [1..n -> S]
    BY <1>1, <1>2, <1>3
  <1>5. ws \in Seq(S)
    BY <1>2, <1>4, SeqDef
  <1>6. Len(ws) = n
    BY <1>2, <1>4, <1>5, LenProperties
  <1>7. IsVec(ws)
    BY <1>5, SeqIsVec
  <1>8. \A i \in 1..n : IsVec(ws[i]) /\ ws[i] # << >>
    BY <1>2 DEF Spells, Leads
  <1>9. Words(ws)
    BY <1>6, <1>7, <1>8 DEF Words
  <1> QED
    BY <1>2, <1>6, <1>9 DEF ListSpelled

(* A list in either spelling begins with its header, never with a break.   *)
LEMMA ListLeads ==
  ASSUME NEW ws, Words(ws), NEW form
  PROVE  Leads(List(form, ws))
  <1>1. PICK f : f = FlattenSeq(ws) /\ IsVec(f)
    BY ListStream, Tuples
  <1>2. PICK a, b, c : a = <<Arr(Len(ws))>> /\ b = <<Arr(Indefinite)>> /\ c = <<Break>>
    OBVIOUS
  <1>3. Leads(a) /\ Leads(b) /\ IsVec(c)
    <2>1. \A n : Arr(n)[1] # "break"
      BY DEF Arr
    <2> QED
      BY <1>2, <2>1, LeadsHead, Tuples
  <1>4. Leads(a \o f) /\ Leads(b \o f)
    BY <1>1, <1>3, LeadsConcat
  <1>5. Leads((b \o f) \o c)
    BY <1>3, <1>4, LeadsConcat
  <1>6. List(form, ws) = a \o f \/ List(form, ws) = (b \o f) \o c
    BY <1>1, <1>2 DEF List
  <1> QED
    BY <1>4, <1>5, <1>6

(* A list of texts is read as it was written.                              *)
LEMMA SpellsTexts ==
  ASSUME NEW ts, IsVec(ts), NEW form
  PROVE  Spells("texts", EncodeTexts(form, ts), ts)
  <1>1. PICK ws : ws = [i \in DOMAIN ts |-> EncodeText(ts[i])]
    OBVIOUS
  <1>2. ws = [i \in DOMAIN ts |-> ws[i]] /\ \A i \in DOMAIN ts : ws[i] = EncodeText(ts[i])
    BY <1>1
  <1>3. DOMAIN ts = 1..Len(ts)
    BY VecFacts
  <1>4. \A i \in 1..Len(ts) : Spells("text", ws[i], ts[i])
    BY <1>2, <1>3, SpellsText
  <1>5. ListSpelled("text", ws, ts)
    BY <1>2, <1>4, ListIs
  <1>6. Leads(List(form, ws))
    BY <1>5, ListLeads DEF ListSpelled
  <1>7. ASSUME NEW r, NEW m, NEW g, NEW d, IsVec(r), Sees(List(form, ws) \o r, m, g, d)
        PROVE  Sees(r, m, Append(g, ts), ItemOf("texts", d))
    <2>1. Sees(r, m, Append(g, ts), ArrayOf(d, Text))
      BY <1>5, <1>7, ArrayTexts
    <2> QED
      BY <2>1 DEF ItemOf
  <1>8. Spells("texts", List(form, ws), ts)
    BY <1>6, <1>7 DEF Spells
  <1> QED
    BY <1>1, <1>8 DEF EncodeTexts

-----------------------------------------------------------------------------
(* Trace objects                                                           *)

(* The decoders of Codec by the names of what they decode.                 *)
LEMMA Kinds ==
  ASSUME NEW d
  PROVE  /\ ItemOf("text", d) = Text(d)
         /\ ItemOf("bytes", d) = DecodeBytes(d)
         /\ ItemOf("texts", d) = ArrayOf(d, Text)
         /\ ItemOf("maybe text", d) = DecodeMaybe(d, Text)
         /\ ItemOf("maybe bytes", d) = DecodeMaybe(d, DecodeBytes)
         /\ ItemOf("severity", d) = DecodeSeverity(d)
         /\ ItemOf("detail", d) = DecodeDetailLevel(d)
         /\ ItemOf("time", d) = DecodeUTCTime(d)
         /\ ItemOf("value", d) = DecodeValue(d)
         /\ ItemOf("trace message", d) = DecodeMessage(d)
         /\ ItemOf("handshake message", d) = DecodeHandshake(d)
         /\ ItemOf("datapoint message", d) = DecodeDataPoint(d)
         /\ ItemOf("ekg message", d) = DecodeEkg(d)
  <1>1. ItemOf("text", d) = Text(d)
    BY DEF ItemOf
  <1>2. ItemOf("bytes", d) = DecodeBytes(d)
    BY DEF ItemOf
  <1>3. ItemOf("texts", d) = ArrayOf(d, Text)
    BY DEF ItemOf
  <1>4. ItemOf("maybe text", d) = DecodeMaybe(d, Text)
    BY DEF ItemOf
  <1>5. ItemOf("maybe bytes", d) = DecodeMaybe(d, DecodeBytes)
    BY DEF ItemOf
  <1>6. ItemOf("severity", d) = DecodeSeverity(d)
    BY DEF ItemOf
  <1>7. ItemOf("detail", d) = DecodeDetailLevel(d)
    BY DEF ItemOf
  <1>8. ItemOf("time", d) = DecodeUTCTime(d)
    BY DEF ItemOf
  <1>9. ItemOf("value", d) = DecodeValue(d)
    BY DEF ItemOf
  <1>10. ItemOf("trace message", d) = DecodeMessage(d)
    BY DEF ItemOf
  <1>11. ItemOf("handshake message", d) = DecodeHandshake(d)
    BY DEF ItemOf
  <1>12. ItemOf("datapoint message", d) = DecodeDataPoint(d)
    BY DEF ItemOf
  <1>13. ItemOf("ekg message", d) = DecodeEkg(d)
    BY DEF ItemOf
  <1> QED
    BY <1>1, <1>2, <1>3, <1>4, <1>5, <1>6, <1>7, <1>8, <1>9, <1>10, <1>11, <1>12, <1>13

(* DecodeTraceObject reads what EncodeTraceObject writes, in either        *)
(* spelling and whatever the object holds (protocol/types.rs).             *)
LEMMA SpellsTrace ==
  ASSUME NEW o, IsTraceObject(o), NEW form
  PROVE  Spells("trace", EncodeTraceObject(form, o), o)
  <1>1. PICK hu, ma, na, se, de, ti, ho, th :
          /\ hu = o.human /\ ma = o.machine /\ na = o.namespace /\ se = o.severity /\ de = o.details
          /\ ti = o.time /\ ho = o.hostname /\ th = o.thread
    OBVIOUS
  <1>2. o = [human |-> hu, machine |-> ma, namespace |-> na, severity |-> se, details |-> de,
             time |-> ti, hostname |-> ho, thread |-> th]
    BY <1>1 DEF IsTraceObject
  <1>3. PICK A, B, C, D, E, F, G, H, I :
          /\ A = <<Arr(9), Int64(0)>> /\ B = EncodeMaybe(hu, EncodeText) /\ C = EncodeText(ma)
          /\ D = EncodeTexts(form, na) /\ E = EncodeEnum(se) /\ F = EncodeEnum(de)
          /\ G = EncodeUTCTime(ti[1], ti[2] * PicosPerNano) /\ H = EncodeText(ho) /\ I = EncodeText(th)
    OBVIOUS
  <1>4. PICK w : w = EncodeTraceObject(form, o)
    OBVIOUS
  <1>5. w = A \o B \o C \o D \o E \o F \o G \o H \o I
    BY <1>1, <1>3, <1>4 DEF EncodeTraceObject
  <1>6. Spells("maybe text", B, hu)
    <2>1. IsMaybe(hu)
      BY <1>1 DEF IsTraceObject
    <2> QED
      BY <1>3, <2>1, SpellsMaybeText
  <1>7. Spells("text", C, ma) /\ Spells("text", H, ho) /\ Spells("text", I, th)
    BY <1>3, SpellsText
  <1>8. Spells("texts", D, na)
    <2>1. IsVec(na)
      BY <1>1 DEF IsTraceObject
    <2> QED
      BY <1>3, <2>1, SpellsTexts
  <1>9. Spells("severity", E, se)
    <2>1. se \in 0..SeverityMax
      BY <1>1 DEF IsTraceObject
    <2> QED
      BY <1>3, <2>1, SpellsSeverity
  <1>10. Spells("detail", F, de)
    <2>1. de \in 0..DetailMax
      BY <1>1 DEF IsTraceObject
    <2> QED
      BY <1>3, <2>1, SpellsDetail
  <1>11. Spells("time", G, ti)
    <2>1. ti \in Int \X Nat
      BY <1>1 DEF IsTraceObject
    <2>2. PICK s, n : s \in Int /\ n \in Nat /\ ti = <<s, n>> /\ s = ti[1] /\ n = ti[2]
      BY <2>1
    <2>3. Spells("time", EncodeUTCTime(s, n * PicosPerNano), <<s, n>>)
      BY <2>2, SpellsTime
    <2> QED
      BY <1>3, <2>2, <2>3
  <1>12. IsVec(B) /\ IsVec(C) /\ IsVec(D) /\ IsVec(E) /\ IsVec(F) /\ IsVec(G) /\ IsVec(H) /\ IsVec(I)
    BY <1>6, <1>7, <1>8, <1>9, <1>10, <1>11 DEF Spells, Leads
  <1>13. Leads(A)
    <2>1. Arr(9)[1] # "break"
      BY DEF Arr
    <2> QED
      BY <1>3, <2>1, LeadsHead
  <1>14. PICK p2, p3, p4, p5, p6, p7, p8 :
          /\ p2 = A \o B /\ p3 = p2 \o C /\ p4 = p3 \o D /\ p5 = p4 \o E /\ p6 = p5 \o F
          /\ p7 = p6 \o G /\ p8 = p7 \o H /\ w = p8 \o I
    BY <1>5
  <1>15. Leads(p2) /\ IsVec(p2)
    BY <1>12, <1>13, <1>14, LeadsConcat
  <1>16. Leads(p3) /\ IsVec(p3)
    BY <1>12, <1>14, <1>15, LeadsConcat
  <1>17. Leads(p4) /\ IsVec(p4)
    BY <1>12, <1>14, <1>16, LeadsConcat
  <1>18. Leads(p5) /\ IsVec(p5)
    BY <1>12, <1>14, <1>17, LeadsConcat
  <1>19. Leads(p6) /\ IsVec(p6)
    BY <1>12, <1>14, <1>18, LeadsConcat
  <1>20. Leads(p7) /\ IsVec(p7)
    BY <1>12, <1>14, <1>19, LeadsConcat
  <1>21. Leads(p8) /\ IsVec(p8)
    BY <1>12, <1>14, <1>20, LeadsConcat
  <1>22. Leads(w)
    BY <1>12, <1>14, <1>21, LeadsConcat
  <1>23. ASSUME NEW r, NEW m, NEW g, NEW d, IsVec(r), IsVec(g), Sees(w \o r, m, g, d),
                SeesSince(w \o r, m, g, << >>, d), Len(r) <= Len(w \o r), IsVec(w)
         PROVE  Sees(r, m, Append(g, o), ItemOf("trace", d))
    <2>1. PICK q1, q2, q3, q4, q5, q6, q7, q8 :
            /\ q8 = I \o r /\ q7 = H \o q8 /\ q6 = G \o q7 /\ q5 = F \o q6 /\ q4 = E \o q5
            /\ q3 = D \o q4 /\ q2 = C \o q3 /\ q1 = B \o q2
      OBVIOUS
    <2>2. PICK q, z : q = Cons(Int64(0), q1) /\ z = Cons(Arr(9), q)
      OBVIOUS
    <2>3. IsVec(q8) /\ IsVec(q7) /\ IsVec(q6) /\ IsVec(q5)
      BY <1>12, <1>23, <2>1, VecConcat
    <2>4. IsVec(q4) /\ IsVec(q3) /\ IsVec(q2) /\ IsVec(q1)
      BY <1>12, <2>1, <2>3, VecConcat
    <2>5. IsVec(q) /\ IsVec(z) /\ IsVec(r)
      BY <1>23, <2>2, <2>4, VecCons
    <2>6. w \o r = z
      <3>1. w \o r = p8 \o q8
        <4>1. IsVec(p8) /\ IsVec(I) /\ IsVec(r)
          BY <1>12, <1>21, <2>3, <2>4, <2>5 DEF Leads
        <4>2. Assoc(p8, I, r)
          BY <4>1, VecsAssoc
        <4> QED
          BY <1>14, <2>1, <4>2 DEF Assoc
      <3>2. p8 \o q8 = p7 \o q7
        <4>1. IsVec(p7) /\ IsVec(H) /\ IsVec(q8)
          BY <1>12, <1>20, <2>3, <2>4, <2>5 DEF Leads
        <4>2. Assoc(p7, H, q8)
          BY <4>1, VecsAssoc
        <4> QED
          BY <1>14, <2>1, <4>2 DEF Assoc
      <3>3. p7 \o q7 = p6 \o q6
        <4>1. IsVec(p6) /\ IsVec(G) /\ IsVec(q7)
          BY <1>12, <1>19, <2>3, <2>4, <2>5 DEF Leads
        <4>2. Assoc(p6, G, q7)
          BY <4>1, VecsAssoc
        <4> QED
          BY <1>14, <2>1, <4>2 DEF Assoc
      <3>4. p6 \o q6 = p5 \o q5
        <4>1. IsVec(p5) /\ IsVec(F) /\ IsVec(q6)
          BY <1>12, <1>18, <2>3, <2>4, <2>5 DEF Leads
        <4>2. Assoc(p5, F, q6)
          BY <4>1, VecsAssoc
        <4> QED
          BY <1>14, <2>1, <4>2 DEF Assoc
      <3>5. p5 \o q5 = p4 \o q4
        <4>1. IsVec(p4) /\ IsVec(E) /\ IsVec(q5)
          BY <1>12, <1>17, <2>3, <2>4, <2>5 DEF Leads
        <4>2. Assoc(p4, E, q5)
          BY <4>1, VecsAssoc
        <4> QED
          BY <1>14, <2>1, <4>2 DEF Assoc
      <3>6. p4 \o q4 = p3 \o q3
        <4>1. IsVec(p3) /\ IsVec(D) /\ IsVec(q4)
          BY <1>12, <1>16, <2>3, <2>4, <2>5 DEF Leads
        <4>2. Assoc(p3, D, q4)
          BY <4>1, VecsAssoc
        <4> QED
          BY <1>14, <2>1, <4>2 DEF Assoc
      <3>7. p3 \o q3 = p2 \o q2
        <4>1. IsVec(p2) /\ IsVec(C) /\ IsVec(q3)
          BY <1>12, <1>15, <2>3, <2>4, <2>5 DEF Leads
        <4>2. Assoc(p2, C, q3)
          BY <4>1, VecsAssoc
        <4> QED
          BY <1>14, <2>1, <4>2 DEF Assoc
      <3>8. p2 \o q2 = A \o q1
        <4>1. IsVec(A) /\ IsVec(B) /\ IsVec(q2)
          BY <1>12, <1>13, <2>3, <2>4, <2>5 DEF Leads
        <4>2. Assoc(A, B, q2)
          BY <4>1, VecsAssoc
        <4> QED
          BY <1>14, <2>1, <4>2 DEF Assoc
      <3>9. A \o q1 = z
        <4>1. Is2(A, Arr(9), Int64(0))
          BY <1>3 DEF Is2
        <4> QED
          BY <2>2, <2>4, <4>1, Words2
      <3> QED
        BY <3>1, <3>2, <3>3, <3>4, <3>5, <3>6, <3>7, <3>8, <3>9
    <2>7. SeesSince(z, m, g, << >>, d) /\ Sees(z, m, g, d) /\ Len(r) <= Len(z)
      BY <1>23, <2>6
    <2>8. /\ IsVec(q8) /\ IsVec(q7) /\ IsVec(q6) /\ IsVec(q5) /\ IsVec(q4) /\ IsVec(q3) /\ IsVec(q2) /\ IsVec(q1)
          /\ IsVec(q) /\ IsVec(z) /\ IsVec(r)
          /\ q8 = I \o r /\ q7 = H \o q8 /\ q6 = G \o q7 /\ q5 = F \o q6 /\ q4 = E \o q5
          /\ q3 = D \o q4 /\ q2 = C \o q3 /\ q1 = B \o q2
          /\ q = Cons(Int64(0), q1) /\ z = Cons(Arr(9), q)
      BY <2>1, <2>2, <2>3, <2>4, <2>5
    <2>9. PICK d1 : d1 = Read(d, "array") /\ SeesSince(q, m, g, <<9>>, d1)
      <3>1. FitsAs(Arr(9), "array", 9)
        BY TokenArr
      <3>2. Grows(<< >>, 9, <<9>>)
        BY GrowsTuples
      <3>3. SeesSince(Cons(Arr(9), q), m, g, << >>, d) /\ IsVec(q)
        BY <2>8, <2>7
      <3>4. SeesSince(q, m, g, <<9>>, Read(d, "array"))
        BY <3>1, <3>2, <3>3, ReadNext
      <3> QED
        BY <3>4
    <2>10. PICK d2 : d2 = Read(d1, "u8") /\ SeesSince(q1, m, g, <<9, 0>>, d2)
      <3>1. FitsAs(Int64(0), "u8", 0)
        BY Small, TokenU8
      <3>2. Grows(<<9>>, 0, <<9, 0>>)
        BY GrowsTuples
      <3>3. SeesSince(Cons(Int64(0), q1), m, g, <<9>>, d1) /\ IsVec(q1)
        BY <2>8, <2>9
      <3>4. SeesSince(q1, m, g, <<9, 0>>, Read(d1, "u8"))
        BY <3>1, <3>2, <3>3, ReadNext
      <3> QED
        BY <3>4
    <2>11. PICK d3 : d3 = ItemOf("maybe text", d2) /\ SeesSince(q2, m, g, <<9, 0, hu>>, d3)
      <3>1. Spells("maybe text", B, hu)
        BY <1>6
      <3>2. Grows(<<9, 0>>, hu, <<9, 0, hu>>)
        BY GrowsTuples
      <3>3. SeesSince(B \o q2, m, g, <<9, 0>>, d2) /\ IsVec(q2)
        BY <2>8, <2>10
      <3>4. SeesSince(q2, m, g, <<9, 0, hu>>, ItemOf("maybe text", d2))
        BY <3>1, <3>2, <3>3, SpelledNext
      <3> QED
        BY <3>4
    <2>12. PICK d4 : d4 = ItemOf("text", d3) /\ SeesSince(q3, m, g, <<9, 0, hu, ma>>, d4)
      <3>1. Spells("text", C, ma)
        BY <1>7
      <3>2. Grows(<<9, 0, hu>>, ma, <<9, 0, hu, ma>>)
        BY GrowsTuples
      <3>3. SeesSince(C \o q3, m, g, <<9, 0, hu>>, d3) /\ IsVec(q3)
        BY <2>8, <2>11
      <3>4. SeesSince(q3, m, g, <<9, 0, hu, ma>>, ItemOf("text", d3))
        BY <3>1, <3>2, <3>3, SpelledNext
      <3> QED
        BY <3>4
    <2>13. PICK d5 : d5 = ItemOf("texts", d4) /\ SeesSince(q4, m, g, <<9, 0, hu, ma, na>>, d5)
      <3>1. Spells("texts", D, na)
        BY <1>8
      <3>2. Grows(<<9, 0, hu, ma>>, na, <<9, 0, hu, ma, na>>)
        BY GrowsTuples
      <3>3. SeesSince(D \o q4, m, g, <<9, 0, hu, ma>>, d4) /\ IsVec(q4)
        BY <2>8, <2>12
      <3>4. SeesSince(q4, m, g, <<9, 0, hu, ma, na>>, ItemOf("texts", d4))
        BY <3>1, <3>2, <3>3, SpelledNext
      <3> QED
        BY <3>4
    <2>14. PICK d6 : d6 = ItemOf("severity", d5) /\ SeesSince(q5, m, g, <<9, 0, hu, ma, na, se>>, d6)
      <3>1. Spells("severity", E, se)
        BY <1>9
      <3>2. Grows(<<9, 0, hu, ma, na>>, se, <<9, 0, hu, ma, na, se>>)
        BY GrowsTuples
      <3>3. SeesSince(E \o q5, m, g, <<9, 0, hu, ma, na>>, d5) /\ IsVec(q5)
        BY <2>8, <2>13
      <3>4. SeesSince(q5, m, g, <<9, 0, hu, ma, na, se>>, ItemOf("severity", d5))
        BY <3>1, <3>2, <3>3, SpelledNext
      <3> QED
        BY <3>4
    <2>15. PICK d7 : d7 = ItemOf("detail", d6) /\ SeesSince(q6, m, g, <<9, 0, hu, ma, na, se, de>>, d7)
      <3>1. Spells("detail", F, de)
        BY <1>10
      <3>2. Grows(<<9, 0, hu, ma, na, se>>, de, <<9, 0, hu, ma, na, se, de>>)
        BY GrowsTuples
      <3>3. SeesSince(F \o q6, m, g, <<9, 0, hu, ma, na, se>>, d6) /\ IsVec(q6)
        BY <2>8, <2>14
      <3>4. SeesSince(q6, m, g, <<9, 0, hu, ma, na, se, de>>, ItemOf("detail", d6))
        BY <3>1, <3>2, <3>3, SpelledNext
      <3> QED
        BY <3>4
    <2>16. PICK d8 : d8 = ItemOf("time", d7) /\ SeesSince(q7, m, g, <<9, 0, hu, ma, na, se, de, ti>>, d8)
      <3>1. Spells("time", G, ti)
        BY <1>11
      <3>2. Grows(<<9, 0, hu, ma, na, se, de>>, ti, <<9, 0, hu, ma, na, se, de, ti>>)
        BY GrowsTuples
      <3>3. SeesSince(G \o q7, m, g, <<9, 0, hu, ma, na, se, de>>, d7) /\ IsVec(q7)
        BY <2>8, <2>15
      <3>4. SeesSince(q7, m, g, <<9, 0, hu, ma, na, se, de, ti>>, ItemOf("time", d7))
        BY <3>1, <3>2, <3>3, SpelledNext
      <3> QED
        BY <3>4
    <2>17. PICK d9 : d9 = ItemOf("text", d8) /\ SeesSince(q8, m, g, <<9, 0, hu, ma, na, se, de, ti, ho>>, d9)
      <3>1. Spells("text", H, ho)
        BY <1>7
      <3>2. Grows(<<9, 0, hu, ma, na, se, de, ti>>, ho, <<9, 0, hu, ma, na, se, de, ti, ho>>)
        BY GrowsTuples
      <3>3. SeesSince(H \o q8, m, g, <<9, 0, hu, ma, na, se, de, ti>>, d8) /\ IsVec(q8)
        BY <2>8, <2>16
      <3>4. SeesSince(q8, m, g, <<9, 0, hu, ma, na, se, de, ti, ho>>, ItemOf("text", d8))
        BY <3>1, <3>2, <3>3, SpelledNext
      <3> QED
        BY <3>4
    <2>18. PICK e : e = ItemOf("text", d9) /\ SeesSince(r, m, g, <<9, 0, hu, ma, na, se, de, ti, ho, th>>, e)
      <3>1. Spells("text", I, th)
        BY <1>7
      <3>2. Grows(<<9, 0, hu, ma, na, se, de, ti, ho>>, th, <<9, 0, hu, ma, na, se, de, ti, ho, th>>)
        BY GrowsTuples
      <3>3. SeesSince(I \o r, m, g, <<9, 0, hu, ma, na, se, de, ti, ho>>, d9) /\ IsVec(r)
        BY <2>8, <2>17
      <3>4. SeesSince(r, m, g, <<9, 0, hu, ma, na, se, de, ti, ho, th>>, ItemOf("text", d9))
        BY <3>1, <3>2, <3>3, SpelledNext
      <3> QED
        BY <3>4
    <2>19. (d1.st = "ok" => Last(d1.got) = 9) /\ Expect(d1, {9}) = d1
      <3>1. Grows(<< >>, 9, <<9>>)
        BY GrowsTuples
      <3>2. d1.st = "ok" => Last(d1.got) = 9
        BY <2>9, <3>1, LastSince
      <3> QED
        BY <3>2 DEF Expect
    <2>20. PICK v, x : /\ v = Since(d, e)
                       /\ x = [human |-> v[3], machine |-> v[4], namespace |-> v[5], severity |-> v[6],
                               details |-> v[7], time |-> v[8], hostname |-> v[9], thread |-> v[10]]
      OBVIOUS
    <2>21. DecodeTraceObject(d) = Made(d, e, x)
      <3>1. /\ d3 = DecodeMaybe(d2, Text) /\ d4 = Text(d3) /\ d5 = ArrayOf(d4, Text) /\ d6 = DecodeSeverity(d5)
            /\ d7 = DecodeDetailLevel(d6) /\ d8 = DecodeUTCTime(d7) /\ d9 = Text(d8) /\ e = Text(d9)
        BY <2>11, <2>12, <2>13, <2>14, <2>15, <2>16, <2>17, <2>18, Kinds
      <3>2. d3 = DecodeMaybe(Read(Expect(Read(d, "array"), {9}), "u8"), Text)
        BY <2>9, <2>10, <2>19, <3>1
      <3>3. d5 = ArrayOf(Text(d3), Text) /\ d7 = DecodeDetailLevel(DecodeSeverity(d5))
            /\ e = Text(Text(DecodeUTCTime(d7)))
        BY <3>1
      <3> QED
        BY <2>20, <3>2, <3>3 DEF DecodeTraceObject
    <2>22. ASSUME e.st = "ok"
           PROVE  x = o
      <3>1. PICK vs : vs = <<9, 0, hu, ma, na, se, de, ti, ho, th>>
        OBVIOUS
      <3>2. v = vs
        BY <2>7, <2>18, <2>20, <2>22, <3>1, SinceThen
      <3>3. /\ vs[3] = hu /\ vs[4] = ma /\ vs[5] = na /\ vs[6] = se /\ vs[7] = de
            /\ vs[8] = ti /\ vs[9] = ho /\ vs[10] = th
        BY <3>1
      <3> QED
        BY <1>2, <2>20, <3>2, <3>3
    <2>23. Sees(r, m, g \o <<9, 0, hu, ma, na, se, de, ti, ho, th>>, e)
      BY <2>18 DEF SeesSince
    <2>24. Sees(r, m, Append(g, o), Made(d, e, x))
      BY <2>7, <2>22, <2>23, MadeOne
    <2> QED
      BY <2>21, <2>24 DEF ItemOf
  <1>24. Spells("trace", w, o)
    BY <1>22, <1>23, SpellsIf
  <1> QED
    BY <1>4, <1>24

-----------------------------------------------------------------------------
(* Messages                                                                *)

(* The stream q is not longer than z.                                      *)
Shorter(q, z) == Len(q) \in Nat /\ Len(z) \in Nat /\ Len(q) <= Len(z)

(* The stream z begins with an array header and a tag.                     *)
Starts(z, k, t, q) == z = Cons(Arr(k), Cons(Int64(t), q)) /\ IsVec(q) /\ t \in U8 \cap U16

(* a has read the head of a message, its length and its tag.               *)
Heads(d, want, a) == want \in {"u8", "u16"} /\ a = Reads(d, <<"array", want>>)

(* The length and the tag that every message begins with.                  *)
LEMMA Tagged ==
  ASSUME NEW k, NEW t, NEW q, NEW z, Starts(z, k, t, q), NEW m, NEW g, NEW d, Sees(z, m, g, d),
         NEW want, NEW a, Heads(d, want, a)
  PROVE  /\ SeesSince(q, m, g, <<k, t>>, a) /\ IsVec(q) /\ IsVec(g) /\ Shorter(q, z)
         /\ a.st = "ok" => Last(a.got) = t
  <1>1. PICK y : y = Cons(Int64(t), q) /\ IsVec(y) /\ z = Cons(Arr(k), y) /\ IsVec(q) /\ t \in U8 \cap U16
    BY VecCons DEF Starts
  <1>2. SeesSince(z, m, g, << >>, d) /\ IsVec(g)
    BY StartsAt, SeesTypes
  <1>3. PICK b : b = Read(d, "array") /\ SeesSince(y, m, g, <<k>>, b)
    <2>1. FitsAs(Arr(k), "array", k)
      BY TokenArr
    <2>2. Grows(<< >>, k, <<k>>)
      BY GrowsTuples
    <2>3. SeesSince(Cons(Arr(k), y), m, g, << >>, d) /\ IsVec(y)
      BY <1>1, <1>2
    <2>4. SeesSince(y, m, g, <<k>>, Read(d, "array"))
      BY <2>1, <2>2, <2>3, ReadNext
    <2> QED
      BY <2>4
  <1>4. SeesSince(q, m, g, <<k, t>>, a)
    <2>1. FitsAs(Int64(t), want, t)
      <3>1. FitsAs(Int64(t), "u8", t)
        BY <1>1, TokenU8
      <3>2. FitsAs(Int64(t), "u16", t)
        BY <1>1, TokenU16
      <3> QED
        BY <3>1, <3>2 DEF Heads
    <2>2. Grows(<<k>>, t, <<k, t>>)
      BY GrowsTuples
    <2>3. SeesSince(q, m, g, <<k, t>>, Read(b, want))
      BY <1>1, <1>3, <2>1, <2>2, ReadNext
    <2>4. a = Read(b, want)
      BY <1>3, TwoReads DEF Heads
    <2> QED
      BY <2>3, <2>4
  <1>5. a.st = "ok" => Last(a.got) = t
    <2>1. Grows(<<k>>, t, <<k, t>>)
      BY GrowsTuples
    <2> QED
      BY <1>4, <2>1, LastSince
  <1>8. Shorter(q, z)
    <2>1. Len(y) = Len(q) + 1 /\ Len(z) = Len(y) + 1 /\ Len(q) \in Nat
      BY <1>1, VecCons, VecFacts
    <2> QED
      BY <2>1 DEF Shorter
  <1> QED
    BY <1>1, <1>2, <1>4, <1>5, <1>8

(* What the decoder makes of the rest, if the tag has arrived.             *)
LEMMA MessageMade ==
  ASSUME NEW z, NEW m, NEW g, NEW d, Sees(z, m, g, d), NEW q, NEW h, NEW a, Sees(q, m, h, a),
         NEW r, IsVec(r), Shorter(r, q), Shorter(q, z), NEW x, NEW e, NEW v, NEW y, NEW k,
         a.st # "ok" => x = a,
         a.st = "ok" => x = Made(d, e, v) /\ Sees(r, m, k, e) /\ (e.st = "ok" => v = y)
  PROVE  Sees(r, m, Append(g, y), x)
  <1>1. IsVec(Append(g, y)) /\ Len(r) <= Len(z)
    <2>1. IsVec(g) /\ Len(r) \in Nat /\ Len(q) \in Nat /\ Len(z) \in Nat
      BY SeesTypes, VecFacts
    <2>2. Len(r) <= Len(q) /\ Len(q) <= Len(z)
      BY DEF Shorter
    <2> QED
      BY <2>1, <2>2, VecAppend
  <1>2. CASE a.st # "ok"
    <2>1. x = a /\ Len(r) <= Len(q)
      BY <1>2 DEF Shorter
    <2> QED
      BY <1>1, <1>2, <2>1, StaysEnded
  <1>3. CASE a.st = "ok"
    <2>1. x = Made(d, e, v) /\ Sees(r, m, k, e) /\ (e.st = "ok" => v = y)
      BY <1>3
    <2>2. Sees(r, m, Append(g, y), Made(d, e, v))
      BY <1>1, <2>1, MadeOne
    <2> QED
      BY <2>1, <2>2
  <1> QED
    BY <1>2, <1>3

(* A message of a length, a tag and a list, say.                           *)
Opens(w, a, b, x) == IsVec(x) /\ a[1] # "break" /\ \E u : Is2(u, a, b) /\ w = u \o x

(* A word of a header, a tag and a body, in front of a stream.             *)
LEMMA TaggedStream ==
  ASSUME NEW a, NEW b, NEW x, NEW w, Opens(w, a, b, x), NEW r, IsVec(r)
  PROVE  /\ Leads(w) /\ w \o r = Cons(a, Cons(b, x \o r))
         /\ IsVec(x \o r) /\ Shorter(r, x \o r)
  <1>0. PICK u : Is2(u, a, b) /\ w = u \o x /\ IsVec(x) /\ a[1] # "break"
    BY DEF Opens
  <1>1. Leads(u) /\ IsVec(u)
    <2>1. u[1] = a /\ u # << >> /\ IsVec(u)
      BY <1>0, Tuples DEF Is2
    <2> QED
      BY <1>0, <2>1 DEF Leads
  <1>2. Leads(w)
    BY <1>0, <1>1, LeadsConcat
  <1>3. /\ w \o r = Cons(a, Cons(b, x \o r))
        /\ IsVec(x \o r) /\ Shorter(r, x \o r)
    <2>1. PICK y : y = x \o r /\ IsVec(y) /\ Len(y) = Len(x) + Len(r)
      <3>1. IsVec(x) /\ IsVec(r)
        BY <1>0
      <3>2. IsVec(x \o r) /\ Len(x \o r) = Len(x) + Len(r)
        BY <3>1, VecConcat
      <3> QED
        BY <3>2
    <2>2. Len(x) \in Nat /\ Len(r) \in Nat
      BY <1>0, VecFacts
    <2>3. Assoc(u, x, r)
      BY <1>0, <1>1, VecsAssoc
    <2>4. u \o y = Cons(a, Cons(b, y))
      <3>1. IsVec(y) /\ Is2(u, a, b)
        BY <1>0, <2>1
      <3> QED
        BY <3>1, Words2
    <2>5. w \o r = u \o y
      BY <1>0, <2>1, <2>3 DEF Assoc
    <2>6. Shorter(r, y)
      BY <2>1, <2>2 DEF Shorter
    <2> QED
      BY <2>1, <2>4, <2>5, <2>6
  <1> QED
    BY <1>2, <1>3

(* A foreign message is refused, once its tag has arrived.                 *)
LEMMA ForeignRead ==
  ASSUME NEW r, IsVec(r), NEW m, NEW d, Sees(<<Arr(2), Int64(9), Int64(0)>> \o r, m, << >>, d)
  PROVE  /\ DecodeMessage(d).st \in {"end", "bad"} /\ DecodeHandshake(d).st \in {"end", "bad"}
         /\ DecodeDataPoint(d).st \in {"end", "bad"} /\ DecodeEkg(d).st \in {"end", "bad"}
         /\ m = << >> =>
              /\ DecodeMessage(d).st = "bad" /\ DecodeHandshake(d).st = "bad"
              /\ DecodeDataPoint(d).st = "bad" /\ DecodeEkg(d).st = "bad"
  <1>1. PICK w, q, z : /\ w = <<Arr(2), Int64(9), Int64(0)>> /\ q = Cons(Int64(0), r)
                       /\ z = Cons(Arr(2), Cons(Int64(9), q)) /\ IsVec(q)
    BY VecCons
  <1>2. w \o r = z
    <2>1. Is3(w, Arr(2), Int64(9), Int64(0))
      BY <1>1 DEF Is3
    <2>2. w \o r = Cons(Arr(2), Cons(Int64(9), Cons(Int64(0), r)))
      BY <2>1, Words3
    <2> QED
      BY <1>1, <2>2
  <1>3. Sees(z, m, << >>, d)
    BY <1>1, <1>2
  <1>4. PICK h : h = << >> \o <<2, 9>>
    OBVIOUS
  <1>5. m = << >> => Len(m) <= Len(q)
    <2>1. Len(<< >>) = 0 /\ Len(q) \in Nat
      BY <1>1, VecFacts
    <2> QED
      BY <2>1
  <1>6. ASSUME NEW want, want \in {"u8", "u16"}, NEW a, a = Reads(d, <<"array", want>>)
        PROVE  /\ a.st \in {"ok", "end"} /\ (m = << >> => a.st = "ok")
               /\ SeesSince(q, m, << >>, <<2, 9>>, a) /\ (a.st = "ok" => Last(a.got) = 9)
               /\ Len(q) <= Len(z)
    <2>1. /\ Sees(q, m, h, a) /\ SeesSince(q, m, << >>, <<2, 9>>, a) /\ (a.st = "ok" => Last(a.got) = 9)
          /\ Len(q) <= Len(z)
      <3>1. PICK t, k, g : t = 9 /\ t \in U8 \cap U16 /\ k = 2 /\ g = << >>
        BY Small
      <3>2. Starts(z, k, t, q)
        BY <1>1, <3>1 DEF Starts
      <3>3. Sees(z, m, g, d)
        BY <1>3, <3>1
      <3>4. Heads(d, want, a)
        BY <1>6 DEF Heads
      <3>5. SeesSince(q, m, g, <<k, t>>, a)
        BY <3>2, <3>3, <3>4, Tagged
      <3>6. Len(q) <= Len(z)
        <4>1. Shorter(q, z)
          BY <3>2, <3>3, <3>4, Tagged
        <4> QED
          BY <4>1 DEF Shorter
      <3>7. a.st = "ok" => Last(a.got) = t
        <4>1. Grows(<<k>>, t, <<k, t>>)
          BY GrowsTuples
        <4> QED
          BY <3>5, <4>1, LastSince
      <3>8. Sees(q, m, h, a)
        BY <1>4, <3>1, <3>5 DEF SeesSince
      <3> QED
        BY <3>1, <3>5, <3>6, <3>7, <3>8
    <2>2. a.st \in {"ok", "end"} /\ (a.st = "ok" <=> Len(m) <= Len(q))
      BY <2>1, SeesTypes
    <2> QED
      BY <1>5, <2>1, <2>2
  <1>8. PICK a : a = Reads(d, <<"array", "u16">>)
    OBVIOUS
  <1>9. /\ a.st \in {"ok", "end"} /\ (m = << >> => a.st = "ok")
        /\ a.st = "ok" => Last(a.got) = 9
        /\ a = [rest |-> a.rest, got |-> a.got, st |-> a.st]
    <2>1. SeesSince(q, m, << >>, <<2, 9>>, a)
      BY <1>6, <1>8
    <2>2. a = [rest |-> a.rest, got |-> a.got, st |-> a.st]
      BY <2>1 DEF SeesSince, Sees
    <2> QED
      BY <1>6, <1>8, <2>2
  <1>10. ASSUME NEW S, 9 \notin S
         PROVE  /\ Expect(a, S).st \in {"end", "bad"} /\ Expect(a, S).st # "ok"
                /\ m = << >> => Expect(a, S).st = "bad"
    <2>1. a.st = "ok" => Expect(a, S).st = "bad"
      BY <1>9, <1>10 DEF Expect
    <2>2. a.st = "end" => Expect(a, S) = a
      BY DEF Expect
    <2> QED
      BY <1>9, <2>1, <2>2
  <1>11. PICK b : b = Reads(d, <<"array", "u8">>)
    OBVIOUS
  <1>12. /\ b.st \in {"ok", "end"} /\ (m = << >> => b.st = "ok")
         /\ b.st = "ok" => Last(b.got) = 9 /\ Since(d, b) = <<2, 9>>
         /\ b = [rest |-> b.rest, got |-> b.got, st |-> b.st]
    <2>1. SeesSince(q, m, << >>, <<2, 9>>, b) /\ Len(q) <= Len(z)
      BY <1>6, <1>11
    <2>2. b = [rest |-> b.rest, got |-> b.got, st |-> b.st]
      BY <2>1 DEF SeesSince, Sees
    <2>3. b.st = "ok" => Since(d, b) = <<2, 9>>
      BY <1>3, <2>1, SinceThen
    <2> QED
      BY <1>6, <1>11, <2>2, <2>3
  <1>13. ASSUME NEW S, 9 \notin S
         PROVE  /\ Expect(b, S).st \in {"end", "bad"} /\ Expect(b, S).st # "ok"
                /\ m = << >> => Expect(b, S).st = "bad"
    <2>1. b.st = "ok" => Expect(b, S).st = "bad"
      BY <1>12, <1>13 DEF Expect
    <2>2. b.st = "end" => Expect(b, S) = b
      BY DEF Expect
    <2> QED
      BY <1>12, <2>1, <2>2
  <1>14. DecodeMessage(d) = Expect(a, 1..3)
    <2>1. Expect(a, 1..3).st # "ok"
      BY <1>10
    <2> QED
      BY <1>8, <2>1 DEF DecodeMessage
  <1>15. DecodeHandshake(d) = Expect(a, 0..2)
    <2>1. Expect(a, 0..2).st # "ok"
      BY <1>10
    <2> QED
      BY <1>8, <2>1 DEF DecodeHandshake
  <1>16. DecodeDataPoint(d) = Expect(b, 1..3)
    <2>1. Expect(b, 1..3).st # "ok"
      BY <1>13
    <2> QED
      BY <1>11, <2>1 DEF DecodeDataPoint
  <1>17. DecodeEkg(d).st \in {"end", "bad"} /\ (m = << >> => DecodeEkg(d).st = "bad")
    <2>1. CASE b.st = "ok"
      <3>1. PICK f : f = Since(d, b) /\ f = <<2, 9>>
        BY <1>12, <2>1
      <3>2. f # <<2, 0>> /\ f # <<1, 1>> /\ f # <<2, 1>>
        BY <3>1
      <3>3. DecodeEkg(d) = [b EXCEPT !.st = "bad"]
        BY <1>11, <2>1, <3>1, <3>2 DEF DecodeEkg
      <3>4. [b EXCEPT !.st = "bad"].st = "bad"
        BY <1>12
      <3> QED
        BY <3>3, <3>4
    <2>2. CASE b.st # "ok"
      <3>1. DecodeEkg(d) = b
        BY <1>11, <2>2 DEF DecodeEkg
      <3> QED
        BY <1>12, <2>2, <3>1
    <2> QED
      BY <2>1, <2>2
  <1> QED
    BY <1>10, <1>13, <1>14, <1>15, <1>16, <1>17

-----------------------------------------------------------------------------
(* Trace messages                                                          *)

(* y is a MsgTraceObjectsRequest.                                          *)
IsRequest(y, bl, n) == y = [is |-> "Request", blocking |-> bl, count |-> n]

(* DecodeMessage reads a MsgTraceObjectsRequest as it was written          *)
(* (protocol/messages.rs).                                                 *)
LEMMA SpellsRequest ==
  ASSUME NEW bl, NEW n, n \in U16, NEW y, IsRequest(y, bl, n), NEW form
  PROVE  Spells("trace message", EncodeMessage(form, y), y)
  <1>1. PICK w : w = EncodeMessage(form, y)
    OBVIOUS
  <1>2. y.is = "Request" /\ y.blocking = bl /\ y.count = n
    BY DEF IsRequest
  <1>3. Is6(w, Arr(3), Int64(1), Bool(bl), Arr(2), Int64(0), Int64(n))
    BY <1>1, <1>2 DEF EncodeMessage, Is6
  <1>4. Leads(w)
    <2>1. Arr(3)[1] # "break"
      BY DEF Arr
    <2> QED
      BY <1>3, <2>1, LeadsHead DEF Is6
  <1>5. ASSUME NEW r, NEW m, NEW g, NEW d, IsVec(r), IsVec(g), Sees(w \o r, m, g, d),
               SeesSince(w \o r, m, g, << >>, d), Len(r) <= Len(w \o r), IsVec(w)
        PROVE  Sees(r, m, Append(g, y), ItemOf("trace message", d))
    <2>1. PICK q0, q1, q2, q3 :
            q3 = Cons(Int64(n), r) /\ q2 = Cons(Int64(0), q3) /\ q1 = Cons(Arr(2), q2) /\ q0 = Cons(Bool(bl), q1)
      OBVIOUS
    <2>2. PICK z, k, t : z = w \o r /\ k = 3 /\ t = 1
      OBVIOUS
    <2>3. IsVec(q3) /\ IsVec(q2) /\ IsVec(q1) /\ IsVec(q0) /\ IsVec(r)
      BY <1>5, <2>1, VecCons
    <2>4. Starts(z, k, t, q0) /\ Sees(z, m, g, d)
      <3>1. w \o r = Cons(Arr(3), Cons(Int64(1), Cons(Bool(bl), Cons(Arr(2), Cons(Int64(0), Cons(Int64(n), r))))))
        BY <1>3, <1>5, Words6
      <3>2. t \in U8 \cap U16
        BY <2>2, Small
      <3>3. z = Cons(Arr(k), Cons(Int64(t), q0))
        BY <2>1, <2>2, <3>1
      <3> QED
        BY <1>5, <2>2, <2>3, <3>2, <3>3 DEF Starts
    <2>5. PICK a, h : a = Reads(d, <<"array", "u16">>) /\ Heads(d, "u16", a) /\ h = g \o <<k, t>>
      BY DEF Heads
    <2>6. SeesSince(q0, m, g, <<k, t>>, a) /\ Shorter(q0, z)
      BY <2>4, <2>5, Tagged
    <2>7. Sees(q0, m, h, a) /\ SeesSince(q0, m, h, << >>, a) /\ Shorter(r, q0)
      <3>1. Sees(q0, m, h, a)
        BY <2>5, <2>6 DEF SeesSince
      <3>2. /\ Len(q0) = Len(q1) + 1 /\ Len(q1) = Len(q2) + 1 /\ Len(q2) = Len(q3) + 1
            /\ Len(q3) = Len(r) + 1
        BY <2>1, <2>3, VecCons
      <3>3. Shorter(r, q0)
        <4>1. Len(r) \in Nat
          BY <2>3, VecFacts
        <4> QED
          BY <3>2, <4>1 DEF Shorter
      <3> QED
        BY <3>1, <3>3, StartsAt
    <2>8. PICK b1 : b1 = Read(a, "bool") /\ SeesSince(q1, m, h, <<bl>>, b1)
      <3>1. FitsAs(Bool(bl), "bool", bl)
        BY TokenBool
      <3>2. Grows(<< >>, bl, <<bl>>)
        BY GrowsTuples
      <3>3. SeesSince(Cons(Bool(bl), q1), m, h, << >>, a) /\ IsVec(q1)
        BY <2>1, <2>3, <2>7
      <3>4. SeesSince(q1, m, h, <<bl>>, Read(a, "bool"))
        BY <3>1, <3>2, <3>3, ReadNext
      <3> QED
        BY <3>4
    <2>9. PICK b2 : b2 = Read(b1, "array") /\ SeesSince(q2, m, h, <<bl, 2>>, b2)
      <3>1. FitsAs(Arr(2), "array", 2)
        BY TokenArr
      <3>2. Grows(<<bl>>, 2, <<bl, 2>>)
        BY GrowsTuples
      <3>3. SeesSince(Cons(Arr(2), q2), m, h, <<bl>>, b1) /\ IsVec(q2)
        BY <2>1, <2>3, <2>8
      <3>4. SeesSince(q2, m, h, <<bl, 2>>, Read(b1, "array"))
        BY <3>1, <3>2, <3>3, ReadNext
      <3> QED
        BY <3>4
    <2>10. PICK b3 : b3 = Read(b2, "u16") /\ SeesSince(q3, m, h, <<bl, 2, 0>>, b3)
      <3>1. FitsAs(Int64(0), "u16", 0)
        BY Small, TokenU16
      <3>2. Grows(<<bl, 2>>, 0, <<bl, 2, 0>>)
        BY GrowsTuples
      <3>3. SeesSince(Cons(Int64(0), q3), m, h, <<bl, 2>>, b2) /\ IsVec(q3)
        BY <2>1, <2>3, <2>9
      <3>4. SeesSince(q3, m, h, <<bl, 2, 0>>, Read(b2, "u16"))
        BY <3>1, <3>2, <3>3, ReadNext
      <3> QED
        BY <3>4
    <2>11. PICK e : e = Read(b3, "u16") /\ SeesSince(r, m, h, <<bl, 2, 0, n>>, e)
      <3>1. FitsAs(Int64(n), "u16", n)
        BY TokenU16
      <3>2. Grows(<<bl, 2, 0>>, n, <<bl, 2, 0, n>>)
        BY GrowsTuples
      <3>3. SeesSince(Cons(Int64(n), r), m, h, <<bl, 2, 0>>, b3) /\ IsVec(r)
        BY <2>1, <2>3, <2>10
      <3>4. SeesSince(r, m, h, <<bl, 2, 0, n>>, Read(b3, "u16"))
        BY <3>1, <3>2, <3>3, ReadNext
      <3> QED
        BY <3>4
    <2>12. (e.st = "ok" => Last(e.got) = n)
      <3>1. Grows(<<bl, 2, 0>>, n, <<bl, 2, 0, n>>)
        BY GrowsTuples
      <3>2. e.st = "ok" => Last(e.got) = n
        BY <2>11, <3>1, LastSince
      <3> QED
        BY <3>2
    <2>13. (a.st = "ok" => Last(a.got) = 1) /\ Expect(a, 1..3) = a
      <3>1. Grows(<<k>>, t, <<k, t>>)
        BY GrowsTuples
      <3>2. a.st = "ok" => Last(a.got) = t
        BY <2>6, <3>1, LastSince
      <3>3. 1 \in 1..3
        OBVIOUS
      <3> QED
        BY <2>2, <3>2, <3>3 DEF Expect
    <2>14. e = DecodeCount(Read(a, "bool"))
      <3>1. e = Read(Read(Read(b1, "array"), "u16"), "u16")
        BY <2>9, <2>10, <2>11
      <3>2. e = Reads(b1, <<"array", "u16", "u16">>)
        BY <3>1, ThreeReads
      <3> QED
        BY <2>8, <3>2 DEF DecodeCount
    <2>15. PICK v, x : v = [is |-> "Request", blocking |-> Since(a, e)[1], count |-> Last(e.got)] /\ x = DecodeMessage(d)
      OBVIOUS
    <2>16. a.st # "ok" => x = a
      BY <2>5, <2>13, <2>15 DEF DecodeMessage
    <2>17. a.st = "ok" => x = Made(d, e, v)
      BY <2>5, <2>13, <2>14, <2>15 DEF DecodeMessage
    <2>18. ASSUME e.st = "ok"
           PROVE  v = y
      <3>1. PICK vs : vs = <<bl, 2, 0, n>>
        OBVIOUS
      <3>2. Len(r) <= Len(q0)
        BY <2>7 DEF Shorter
      <3>3. Since(a, e) = vs
        BY <2>7, <2>11, <2>18, <3>1, <3>2, SinceThen
      <3>4. vs[1] = bl
        BY <3>1
      <3> QED
        BY <2>12, <2>15, <2>18, <3>3, <3>4 DEF IsRequest
    <2>19. PICK f : f = h \o <<bl, 2, 0, n>> /\ Sees(r, m, f, e)
      BY <2>11 DEF SeesSince
    <2>20. Sees(r, m, Append(g, y), x)
      <3>1. IsVec(r) /\ Shorter(r, q0) /\ Shorter(q0, z) /\ Sees(z, m, g, d) /\ Sees(q0, m, h, a)
        BY <2>3, <2>4, <2>6, <2>7
      <3>2. a.st = "ok" => x = Made(d, e, v) /\ Sees(r, m, f, e) /\ (e.st = "ok" => v = y)
        BY <2>17, <2>18, <2>19
      <3> QED
        BY <2>16, <3>1, <3>2, MessageMade
    <2> QED
      BY <2>15, <2>20, Kinds
  <1>6. Spells("trace message", w, y)
    BY <1>4, <1>5, SpellsIf
  <1> QED
    BY <1>1, <1>6

(* A list of spelled values is a spelled list.                             *)
LEMMA RangeSpelled ==
  ASSUME NEW kind, NEW vs, IsVec(vs), NEW ws, ws = [i \in DOMAIN vs |-> ws[i]],
         \A i \in DOMAIN vs : Spells(kind, ws[i], vs[i])
  PROVE  ListSpelled(kind, ws, vs)
  <1>1. \A i \in 1..Len(vs) : Spells(kind, ws[i], vs[i])
    BY VecFacts
  <1> QED
    BY <1>1, ListIs

(* A message of a length, a tag and a word: how the tag is read, and what  *)
(* is left.                                                                *)
TagRead(z, q, m, g, d, want, k, t, a, h) ==
  /\ Sees(z, m, g, d) /\ Sees(q, m, h, a) /\ SeesSince(q, m, h, << >>, a) /\ IsVec(q) /\ IsVec(h)
  /\ Shorter(q, z) /\ h = g \o <<k, t>> /\ SeesSince(q, m, g, <<k, t>>, a)
  /\ a = Reads(d, <<"array", want>>)
  /\ a.st = "ok" => Last(a.got) = t

(* The header and the tag of a message are read as written, or the input   *)
(* ends within them.                                                       *)
LEMMA TagIsRead ==
  ASSUME NEW k, NEW t, NEW q, NEW z, Starts(z, k, t, q), NEW m, NEW g, NEW d, Sees(z, m, g, d),
         NEW want, NEW a, Heads(d, want, a)
  PROVE  TagRead(z, q, m, g, d, want, k, t, a, g \o <<k, t>>)
  <1>1. SeesSince(q, m, g, <<k, t>>, a) /\ IsVec(q) /\ Shorter(q, z)
    BY Tagged
  <1>2. PICK h : h = g \o <<k, t>> /\ Sees(q, m, h, a)
    BY <1>1 DEF SeesSince
  <1>3. SeesSince(q, m, h, << >>, a) /\ IsVec(h)
    BY <1>2, StartsAt, SeesTypes
  <1>4. a.st = "ok" => Last(a.got) = t
    <2>1. Grows(<<k>>, t, <<k, t>>)
      BY GrowsTuples
    <2> QED
      BY <1>1, <2>1, LastSince
  <1> QED
    BY <1>1, <1>2, <1>3, <1>4 DEF TagRead, Heads

(* The word of such a message.                                             *)
TagWord(w, k, t, x) == w = <<Arr(k), Int64(t)>> \o x /\ IsVec(x) /\ t \in U8 \cap U16

(* The stream that begins with a tagged word begins with its tag.          *)
LEMMA TagSpelled ==
  ASSUME NEW w, NEW k, NEW t, NEW x, TagWord(w, k, t, x), NEW r, IsVec(r)
  PROVE  Leads(w) /\ Starts(w \o r, k, t, x \o r) /\ IsVec(x \o r) /\ Shorter(r, x \o r)
  <1>1. PICK a, b, u : a = Arr(k) /\ b = Int64(t) /\ Is2(u, a, b) /\ w = u \o x
    BY DEF TagWord, Is2
  <1>2. a[1] # "break"
    BY <1>1 DEF Arr
  <1>3. IsVec(x) /\ t \in U8 \cap U16
    BY DEF TagWord
  <1>4. Opens(w, a, b, x)
    BY <1>1, <1>2, <1>3 DEF Opens
  <1>5. Leads(w) /\ w \o r = Cons(a, Cons(b, x \o r)) /\ IsVec(x \o r) /\ Shorter(r, x \o r)
    BY <1>4, TaggedStream
  <1> QED
    BY <1>1, <1>3, <1>5 DEF Starts

(* A tagged word begins with an array header.                              *)
LEMMA TagLeads ==
  ASSUME NEW w, NEW k, NEW t, NEW x, TagWord(w, k, t, x)
  PROVE  Leads(w)
  <1>1. IsVec(<< >>)
    BY Tuples
  <1> QED
    BY <1>1, TagSpelled

(* A message that is a length, a tag and a list of traces.                 *)
LEMMA SpellsReply ==
  ASSUME NEW y, y.is = "Reply", y = [is |-> "Reply", traces |-> y.traces], IsVec(y.traces),
         \A o \in Range(y.traces) : IsTraceObject(o), NEW form
  PROVE  Spells("trace message", EncodeMessage(form, y), y)
  <1>1. PICK w, os : w = EncodeMessage(form, y) /\ os = y.traces /\ IsVec(os)
    OBVIOUS
  <1>2. PICK ws, x, k, t : /\ ws = [i \in DOMAIN os |-> EncodeTraceObject(form, os[i])] /\ x = List(form, ws)
                           /\ k = 2 /\ t = 3
    OBVIOUS
  <1>3. ListSpelled("trace", ws, os)
    <2>1. ws = [i \in DOMAIN os |-> ws[i]] /\ \A i \in DOMAIN os : ws[i] = EncodeTraceObject(form, os[i])
      BY <1>2
    <2>2. ASSUME NEW i \in DOMAIN os
          PROVE  IsTraceObject(os[i])
      <3>1. os[i] \in Range(os)
        BY <1>1, VecFacts
      <3> QED
        BY <1>1, <3>1
    <2>3. \A i \in DOMAIN os : Spells("trace", ws[i], os[i])
      BY <2>1, <2>2, SpellsTrace
    <2> QED
      BY <1>1, <2>1, <2>3, RangeSpelled
  <1>4. TagWord(w, k, t, x)
    <2>1. w = <<Arr(2), Int64(3)>> \o x
      BY <1>1, <1>2 DEF EncodeMessage
    <2>2. IsVec(x)
      BY <1>2, <1>3, ListStream, Tuples DEF ListSpelled
    <2> QED
      BY <1>2, <2>1, <2>2, Small DEF TagWord
  <1>5. Leads(w)
    BY <1>4, TagLeads
  <1>6. ASSUME NEW r, NEW m, NEW g, NEW d, IsVec(r), IsVec(g), Sees(w \o r, m, g, d),
               SeesSince(w \o r, m, g, << >>, d), Len(r) <= Len(w \o r), IsVec(w)
        PROVE  Sees(r, m, Append(g, y), ItemOf("trace message", d))
    <2>1. PICK z, q : z = w \o r /\ q = x \o r /\ Starts(z, k, t, q) /\ Shorter(r, q) /\ Sees(z, m, g, d)
      BY <1>4, <1>6, TagSpelled
    <2>2. PICK a, h : h = g \o <<k, t>> /\ TagRead(z, q, m, g, d, "u16", k, t, a, h)
      <3>1. PICK a : Heads(d, "u16", a)
        BY DEF Heads
      <3> QED
        BY <2>1, <3>1, TagIsRead
    <2>3. /\ Sees(q, m, h, a) /\ a = Reads(d, <<"array", "u16">>) /\ (a.st = "ok" => Last(a.got) = t)
          /\ Shorter(q, z) /\ IsVec(h)
      BY <2>2 DEF TagRead
    <2>4. Expect(a, 1..3) = a
      <3>1. 3 \in 1..3
        OBVIOUS
      <3> QED
        BY <1>2, <2>3, <3>1 DEF Expect
    <2>5. PICK e, f : e = ArrayOf(a, DecodeTraceObject) /\ f = Append(h, os) /\ Sees(r, m, f, e)
      <3>1. Sees(List(form, ws) \o r, m, h, a)
        BY <1>2, <2>1, <2>3
      <3> QED
        BY <1>3, <1>6, <3>1, ArrayTraces
    <2>6. PICK v, X : v = [is |-> "Reply", traces |-> Last(e.got)] /\ X = DecodeMessage(d)
      OBVIOUS
    <2>7. a.st # "ok" => X = a
      BY <2>3, <2>4, <2>6 DEF DecodeMessage
    <2>8. a.st = "ok" => X = Made(d, e, v)
      BY <1>2, <2>3, <2>4, <2>5, <2>6 DEF DecodeMessage
    <2>9. ASSUME e.st = "ok"
          PROVE  v = y
      <3>1. Sees(r, m, Append(h, os), e)
        BY <2>5
      <3>2. Last(e.got) = os
        BY <2>3, <2>9, <3>1, LastRead
      <3> QED
        BY <1>1, <2>6, <3>2
    <2>10. Sees(r, m, Append(g, y), X)
      <3>1. IsVec(r) /\ Shorter(r, q) /\ Shorter(q, z) /\ Sees(z, m, g, d) /\ Sees(q, m, h, a)
        BY <1>6, <2>1, <2>3
      <3>2. a.st = "ok" => X = Made(d, e, v) /\ Sees(r, m, f, e) /\ (e.st = "ok" => v = y)
        BY <2>5, <2>8, <2>9
      <3> QED
        BY <2>7, <3>1, <3>2, MessageMade
    <2> QED
      BY <2>6, <2>10, Kinds
  <1>7. Spells("trace message", w, y)
    BY <1>5, <1>6, SpellsIf
  <1> QED
    BY <1>1, <1>7

(* A message that is a length and a tag.                                   *)
LEMMA DoneMade ==
  ASSUME NEW z, NEW r, NEW m, NEW g, NEW d, NEW want, NEW k, NEW t, NEW a, NEW h,
         TagRead(z, r, m, g, d, want, k, t, a, h), NEW x, NEW y,
         a.st # "ok" => x = a, a.st = "ok" => x = Made(d, a, y)
  PROVE  Sees(r, m, Append(g, y), x)
  <1>1. IsVec(r) /\ Shorter(r, z) /\ Sees(z, m, g, d) /\ Sees(r, m, h, a)
    BY DEF TagRead
  <1>2. Shorter(r, r)
    BY <1>1 DEF Shorter
  <1>3. a.st = "ok" => x = Made(d, a, y) /\ Sees(r, m, h, a) /\ (a.st = "ok" => y = y)
    BY <1>1
  <1> QED
    BY <1>1, <1>2, <1>3, MessageMade

(* DecodeMessage reads a MsgDone as it was written.                        *)
LEMMA SpellsDone ==
  ASSUME NEW y, y = [is |-> "Done"], NEW form
  PROVE  Spells("trace message", EncodeMessage(form, y), y)
  <1>1. PICK w, x, k, t : w = EncodeMessage(form, y) /\ x = << >> /\ k = 1 /\ t = 2
    OBVIOUS
  <1>2. TagWord(w, k, t, x)
    <2>1. y.is = "Done"
      OBVIOUS
    <2>2. w = <<Arr(1), Int64(2)>>
      BY <1>1, <2>1 DEF EncodeMessage
    <2>3. w = w \o x /\ IsVec(x)
      BY <1>1, <2>2, Tuples, VecNeutral
    <2> QED
      BY <1>1, <2>2, <2>3, Small DEF TagWord
  <1>3. Leads(w)
    BY <1>2, TagLeads
  <1>4. ASSUME NEW r, NEW m, NEW g, NEW d, IsVec(r), IsVec(g), Sees(w \o r, m, g, d),
               SeesSince(w \o r, m, g, << >>, d), Len(r) <= Len(w \o r), IsVec(w)
        PROVE  Sees(r, m, Append(g, y), ItemOf("trace message", d))
    <2>1. PICK z : z = w \o r /\ Starts(z, k, t, r) /\ Sees(z, m, g, d)
      <3>1. x \o r = r
        BY <1>1, <1>4, VecNeutral
      <3>2. Starts(w \o r, k, t, x \o r)
        BY <1>2, <1>4, TagSpelled
      <3> QED
        BY <1>4, <3>1, <3>2
    <2>2. PICK a, h : TagRead(z, r, m, g, d, "u16", k, t, a, h)
      <3>1. PICK a : Heads(d, "u16", a)
        BY DEF Heads
      <3> QED
        BY <2>1, <3>1, TagIsRead
    <2>3. a = Reads(d, <<"array", "u16">>) /\ (a.st = "ok" => Last(a.got) = t)
      BY <2>2 DEF TagRead
    <2>4. Expect(a, 1..3) = a
      <3>1. 2 \in 1..3
        OBVIOUS
      <3> QED
        BY <1>1, <2>3, <3>1 DEF Expect
    <2>5. PICK X : X = DecodeMessage(d)
      OBVIOUS
    <2>6. a.st # "ok" => X = a
      BY <2>3, <2>4, <2>5 DEF DecodeMessage
    <2>7. a.st = "ok" => X = Made(d, a, y)
      BY <1>1, <2>3, <2>4, <2>5 DEF DecodeMessage
    <2>8. Sees(r, m, Append(g, y), X)
      BY <2>2, <2>6, <2>7, DoneMade
    <2> QED
      BY <2>5, <2>8, Kinds
  <1>5. Spells("trace message", w, y)
    BY <1>3, <1>4, SpellsIf
  <1> QED
    BY <1>1, <1>5

(* Trace messages are spelled as they are decoded.                         *)
LEMMA SpellsTraceMessage ==
  ASSUME NEW y, IsTraceMessage(y), NEW form
  PROVE  Spells("trace message", EncodeMessage(form, y), y)
  <1>1. CASE y.is = "Request" /\ y \in [is : {"Request"}, blocking : BOOLEAN, count : U16]
    <2>1. PICK bl, n : bl = y.blocking /\ n = y.count /\ n \in U16
      BY <1>1
    <2>2. IsRequest(y, bl, n)
      BY <1>1, <2>1 DEF IsRequest
    <2> QED
      BY <2>1, <2>2, SpellsRequest
  <1>2. CASE y.is = "Reply" /\ y = [is |-> "Reply", traces |-> y.traces] /\ IsVec(y.traces)
             /\ \A o \in Range(y.traces) : IsTraceObject(o)
    BY <1>2, SpellsReply
  <1>3. CASE y = Done
    BY <1>3, SpellsDone DEF Done
  <1> QED
    BY <1>1, <1>2, <1>3 DEF IsTraceMessage

-----------------------------------------------------------------------------
(* Strings in chunks                                                       *)

(* The first i + 1 elements are the first i and the next one.              *)
LEMMA PrefixNext ==
  ASSUME NEW s, IsVec(s), NEW i \in Nat, i < Len(s)
  PROVE  /\ Append(SubSeq(s, 1, i), s[i + 1]) = SubSeq(s, 1, i + 1)
         /\ IsVec(SubSeq(s, 1, i)) /\ IsVec(SubSeq(s, 1, i + 1))
  <1>1. PICK N, k : N = Len(s) /\ N \in Nat /\ k = i + 1 /\ k \in Nat
    BY VecFacts
  <1>2. i \in 0..N /\ k \in 0..N /\ k - 1 + 1 = k /\ i - 1 + 1 = i
    BY <1>1
  <1>3. PICK a, b : a = SubSeq(s, 1, i) /\ b = SubSeq(s, 1, k)
    OBVIOUS
  <1>4. IsVec(a) /\ Len(a) = i /\ \A x \in 1..i : a[x] = s[x]
    <2>1. /\ IsVec(SubSeq(s, 1, i)) /\ Len(SubSeq(s, 1, i)) = IF 1 <= i THEN i - 1 + 1 ELSE 0
          /\ \A x \in 1..(i - 1 + 1) : SubSeq(s, 1, i)[x] = s[1 + x - 1]
      BY <1>1, <1>2, VecPart
    <2>2. \A x \in 1..i : 1 + x - 1 = x
      OBVIOUS
    <2> QED
      BY <1>2, <1>3, <2>1, <2>2
  <1>5. IsVec(b) /\ Len(b) = k /\ \A x \in 1..k : b[x] = s[x]
    <2>1. /\ IsVec(SubSeq(s, 1, k)) /\ Len(SubSeq(s, 1, k)) = IF 1 <= k THEN k - 1 + 1 ELSE 0
          /\ \A x \in 1..(k - 1 + 1) : SubSeq(s, 1, k)[x] = s[1 + x - 1]
      BY <1>1, <1>2, VecPart
    <2>2. \A x \in 1..k : 1 + x - 1 = x
      BY <1>1
    <2> QED
      BY <1>1, <1>2, <1>3, <2>1, <2>2
  <1>6. Append(a, s[k]) = b
    <2>1. (\A x \in 1..i : x \in 1..k) /\ k \in 1..k
      BY <1>1
    <2>2. \A x \in 1..i : a[x] = b[x]
      BY <1>4, <1>5, <2>1
    <2>3. Len(b) = Len(a) + 1 /\ b[Len(a) + 1] = s[k]
      BY <1>1, <1>4, <1>5, <2>1
    <2> QED
      BY <1>4, <1>5, <2>2, <2>3, AppendIs
  <1> QED
    BY <1>1, <1>3, <1>4, <1>5, <1>6

(* Concatenating one element appends it.                                   *)
LEMMA AppendJoin ==
  ASSUME NEW s, IsVec(s), NEW x
  PROVE  s \o <<x>> = Append(s, x)
  <1>1. PICK h : h = <<x>> /\ IsVec(h) /\ h = Append(<< >>, x)
    BY Tuples
  <1>2. s \o << >> = s /\ IsVec(<< >>)
    BY VecNeutral, Tuples
  <1>3. Append(s \o << >>, x) = s \o Append(<< >>, x)
    BY <1>2, ConcatAppend
  <1> QED
    BY <1>1, <1>2, <1>3

(* ws has each element of u as a word of its own.                          *)
Singles(ws, u) == IsVec(u) /\ ws = [i \in 1..Len(u) |-> <<u[i]>>]

(* A sequence of one-element words over a vector.                          *)
LEMMA SinglesType ==
  ASSUME NEW ws, NEW u, Singles(ws, u)
  PROVE  /\ IsVec(ws) /\ Len(ws) = Len(u) /\ Len(u) \in Nat
         /\ \A i \in 1..Len(u) : ws[i] = <<u[i]>> /\ ws[i] \in Seq(Range(u)) /\ u[i] \in Range(u)
         /\ ws \in Seq(Seq(Range(u))) /\ u \in Seq(Range(u))
  <1>1. IsVec(u) /\ Len(u) \in Nat /\ u \in Seq(Range(u))
    BY VecFacts DEF Singles
  <1>2. PICK N, S : N = Len(u) /\ N \in Nat /\ S = Range(u)
    BY <1>1
  <1>3. ws = [i \in 1..N |-> <<u[i]>>]
    BY <1>2 DEF Singles
  <1>4. ASSUME NEW i \in 1..N
        PROVE  ws[i] = <<u[i]>> /\ ws[i] \in Seq(S) /\ u[i] \in S
    <2>1. u[i] \in S
      BY <1>1, <1>2, VecFacts
    <2>2. PICK x : x = u[i] /\ x \in S
      BY <2>1
    <2>3. <<x>> \in Seq(S)
      BY <2>2
    <2>4. ws[i] = <<x>>
      BY <1>3, <2>2
    <2> QED
      BY <2>2, <2>3, <2>4
  <1>5. ws \in [1..N -> Seq(S)]
    BY <1>3, <1>4
  <1>6. ws \in Seq(Seq(S))
    BY <1>2, <1>5, SeqDef
  <1>7. Len(ws) = N
    BY <1>2, <1>5, <1>6, LenProperties
  <1>8. IsVec(ws)
    BY <1>6, SeqIsVec
  <1> QED
    BY <1>1, <1>2, <1>4, <1>6, <1>7, <1>8

(* Sequences of one element each, put together.                            *)
LEMMA FlattenSingles ==
  ASSUME NEW ws, NEW u, Singles(ws, u)
  PROVE  FlattenSeq(ws) = u
  <1>1. /\ IsVec(ws) /\ Len(ws) = Len(u) /\ Len(u) \in Nat
        /\ \A i \in 1..Len(u) : ws[i] = <<u[i]>> /\ ws[i] \in Seq(Range(u))
        /\ ws \in Seq(Seq(Range(u))) /\ u \in Seq(Range(u))
    BY SinglesType
  <1>2. IsVec(u)
    BY DEF Singles
  <1>3. PICK N, S : N = Len(u) /\ N \in Nat /\ S = Range(u) /\ ws \in Seq(Seq(S)) /\ u \in Seq(S)
                    /\ \A i \in 1..N : ws[i] = <<u[i]>> /\ ws[i] \in Seq(S)
    BY <1>1
  <1> DEFINE flat(k) == FlattenSeq(SubSeq(ws, 1, k)) = SubSeq(u, 1, k)
             P == {k \in Nat : k <= N => flat(k)}
  <1>4. 0 \in P
    <2>1. 0 \in 0..Len(ws) /\ 0 \in 0..Len(u)
      BY <1>1
    <2>2. IsVec(SubSeq(ws, 1, 0)) /\ Len(SubSeq(ws, 1, 0)) = 0 /\ IsVec(SubSeq(u, 1, 0)) /\ Len(SubSeq(u, 1, 0)) = 0
      BY <1>1, <1>2, <2>1, VecPart
    <2>3. SubSeq(ws, 1, 0) = << >> /\ SubSeq(u, 1, 0) = << >>
      BY <2>2, VecEmpty
    <2> QED
      BY <2>3, FlattenEmpty
  <1>5. ASSUME NEW k \in Nat, k \in P
        PROVE  k + 1 \in P
    <2>1. SUFFICES ASSUME k + 1 <= N PROVE flat(k + 1)
      OBVIOUS
    <2>2. PICK j : j = k + 1 /\ j \in 1..N /\ k < N /\ k <= N
      BY <1>3, <2>1
    <2>3. PICK a, b, x : a = SubSeq(ws, 1, k) /\ b = SubSeq(u, 1, k) /\ x = u[j]
      OBVIOUS
    <2>4. Append(a, ws[j]) = SubSeq(ws, 1, j) /\ Append(b, x) = SubSeq(u, 1, j) /\ IsVec(b)
      BY <1>1, <1>2, <1>3, <2>2, <2>3, PrefixNext
    <2>5. FlattenSeq(a) = b
      BY <1>5, <2>2, <2>3
    <2>6. a \in Seq(Seq(S))
      <3>1. 1 \in Nat \ {0} /\ k \in 0..Len(ws)
        BY <1>1, <1>3, <2>2
      <3> QED
        BY <1>3, <2>3, <3>1, SubSeqType
    <2>7. ws[j] = <<x>> /\ ws[j] \in Seq(S)
      BY <1>3, <2>2, <2>3
    <2>8. FlattenSeq(Append(a, ws[j])) = b \o <<x>>
      BY <2>5, <2>6, <2>7, FlattenAppend
    <2>9. b \o <<x>> = Append(b, x)
      BY <2>4, AppendJoin
    <2>10. FlattenSeq(SubSeq(ws, 1, j)) = SubSeq(u, 1, j)
      BY <2>4, <2>8, <2>9
    <2> QED
      BY <2>2, <2>10
  <1>6. Nat \subseteq P
    <2> HIDE DEF P
    <2> QED
      BY <1>4, <1>5, InductionOnNat
  <1>7. flat(N)
    <2>1. N \in P /\ N <= N
      BY <1>3, <1>6
    <2> HIDE DEF flat
    <2> QED
      BY <2>1
  <1>8. SubSeq(ws, 1, N) = ws /\ SubSeq(u, 1, N) = u
    BY <1>1, <1>3, WholeSeq
  <1> QED
    BY <1>7, <1>8

(* Nothing is read where a decoder has met the end.                        *)
LEMMA ItemsEnded ==
  ASSUME NEW kind, NEW d, NEW n, NEW e, RunOf(kind, d, n, e), d.st = "end", Len(d.rest) \in Nat
  PROVE  e = d
  <1>1. PICK F : ItemTable(kind, n, d, F) /\ e = Outcome(d, F[Len(d.rest) + 1])
    BY DEF RunOf
  <1>2. F[0] = d
    BY <1>1, TableFacts
  <1>3. PICK K : K = Len(d.rest) + 1 /\ K \in Nat
    OBVIOUS
  <1>4. 0 \in 0..(Len(d.rest) + 1)
    OBVIOUS
  <1>5. \A i \in (0 + 1)..(Len(d.rest) + 1) : ItemStep(kind, n, i, F[0]) = F[0]
    BY <1>2 DEF ItemStep
  <1>6. F[Len(d.rest) + 1] = F[0]
    BY <1>1, <1>4, <1>5, TableStays
  <1>7. WithoutBreak(d) = d
    BY DEF WithoutBreak
  <1> QED
    BY <1>1, <1>2, <1>6, <1>7 DEF Outcome, Made

(* The next token, if it has arrived.                                      *)
LEMMA HeadSeen ==
  ASSUME NEW t, NEW q, IsVec(q), NEW m, NEW g, NEW d, Sees(Cons(t, q), m, g, d),
         d.st = "ok", d.rest # << >>
  PROVE  Head(d.rest) = t
  <1>1. IsVec(d.rest) /\ IsVec(m) /\ Len(m) \in Nat
    BY SeesTypes
  <1>2. d.rest \o m = Cons(t, q)
    BY SeesTypes DEF Sees
  <1>3. Begins(d.rest, m, t, q)
    BY <1>2 DEF Begins
  <1> QED
    BY <1>1, <1>3, ConsConcat

(* One chunk of a byte string is read as its bytes.                        *)
LEMMA SpellsChunk == ASSUME NEW b PROVE Spells("chunk", <<Bytes(b)>>, b)
  <1>1. Bytes(b)[1] # "break"
    BY DEF Bytes
  <1>2. Leads(<<Bytes(b)>>)
    BY <1>1, LeadsHead
  <1>3. ASSUME NEW r, NEW m, NEW g, NEW d, IsVec(r), Sees(<<Bytes(b)>> \o r, m, g, d)
        PROVE  Sees(r, m, Append(g, b), ItemOf("chunk", d))
    <2>1. Sees(Cons(Bytes(b), r), m, g, d)
      BY <1>3 DEF Cons
    <2>2. PICK t : t = Bytes(b) /\ Fits(t, "bytes") /\ t[2] = b
      BY FitsBytes
    <2>3. Sees(r, m, Append(g, t[2]), Read(d, "bytes"))
      BY <1>3, <2>1, <2>2, ReadToken
    <2>4. Chunk(d) = Read(d, "bytes")
      BY DEF Chunk
    <2> QED
      BY <2>2, <2>3, <2>4 DEF ItemOf
  <1> QED
    BY <1>2, <1>3 DEF Spells

(* A string, in one piece or in chunks, wherever it has been cut.          *)
LEMMA BytesEnded ==
  ASSUME NEW r, NEW m, NEW g, NEW d, Sees(r, m, g, d), d.st # "ok"
  PROVE  DecodeBytes(d) = d
  <1>1. d.st = "end" /\ Len(d.rest) \in Nat
    BY SeesTypes
  <1>2. Chunk(d) = d /\ Read(d, "byterun") = d
    BY <1>1 DEF Chunk, Read
  <1>3. PICK e : e = Items(d, Indefinite, Chunk)
    OBVIOUS
  <1>4. RunOf("chunk", d, Indefinite, e)
    BY <1>1, <1>3, ItemsChunks
  <1>5. e = d
    BY <1>1, <1>4, ItemsEnded
  <1>6. PICK v : v = FlattenSeq(Last(e.got))
    OBVIOUS
  <1>7. Made(d, e, v) = d
    BY <1>1, <1>5 DEF Made
  <1> QED
    BY <1>2, <1>3, <1>5, <1>6, <1>7 DEF DecodeBytes

(* A byte string in one token is read as its bytes.                        *)
LEMMA BytesWhole ==
  ASSUME NEW b, NEW r, IsVec(r), NEW m, NEW g, NEW d, Sees(Cons(Bytes(b), r), m, g, d), d.st = "ok"
  PROVE  Sees(r, m, Append(g, b), DecodeBytes(d))
  <1>1. PICK t : t = Bytes(b) /\ Fits(t, "bytes") /\ t[2] = b /\ t[1] = "bytes"
    BY FitsBytes DEF Bytes
  <1>2. Sees(r, m, Append(g, t[2]), Read(d, "bytes"))
    BY <1>1, ReadToken
  <1>3. AtEnd(d) \/ Head(d.rest)[1] # "byterun"
    <2>1. d.rest # << >> => Head(d.rest) = t
      BY <1>1, HeadSeen
    <2> QED
      BY <1>1, <2>1 DEF AtEnd
  <1>4. DecodeBytes(d) = Read(d, "bytes")
    BY <1>3 DEF DecodeBytes, Chunk
  <1> QED
    BY <1>1, <1>2, <1>4

(* The tokens of a byte string in chunks, one for each byte.               *)
LEMMA RunTokens ==
  ASSUME NEW b, IsVec(b), NEW u, u = [i \in DOMAIN b |-> Bytes(<<b[i]>>)]
  PROVE  IsVec(u) /\ Len(u) = Len(b) /\ \A i \in 1..Len(b) : u[i] = Bytes(<<b[i]>>)
  <1>1. PICK N : N = Len(b) /\ N \in Nat /\ DOMAIN b = 1..N
    BY VecFacts
  <1>2. IsVec(u) /\ Len(u) = N /\ \A i \in 1..N : u[i] = Bytes(<<b[i]>>)
    <2>1. PICK T : T = {u[i] : i \in 1..N}
      OBVIOUS
    <2>2. u = [i \in 1..N |-> Bytes(<<b[i]>>)]
      BY <1>1
    <2>3. u \in [1..N -> T]
      BY <2>1, <2>2
    <2>4. u \in Seq(T)
      BY <1>1, <2>3, SeqDef
    <2>5. Len(u) = N
      BY <1>1, <2>3, <2>4, LenProperties
    <2>6. IsVec(u)
      BY <2>4, SeqIsVec
    <2> QED
      BY <2>2, <2>5, <2>6
  <1> QED
    BY <1>1, <1>2

(* A byte string in chunks is read as its bytes.                           *)
LEMMA BytesInRun ==
  ASSUME NEW b, IsVec(b), NEW u, u = [i \in DOMAIN b |-> Bytes(<<b[i]>>)], NEW r, IsVec(r),
         NEW m, NEW g, NEW d, Sees(Cons(ByteRun, u \o Cons(Break, r)), m, g, d), d.st = "ok"
  PROVE  Sees(r, m, Append(g, b), DecodeBytes(d))
  <1>1. PICK N : N = Len(b) /\ N \in Nat /\ DOMAIN b = 1..N
    BY VecFacts
  <1>2. IsVec(u) /\ Len(u) = N /\ \A i \in 1..N : u[i] = Bytes(<<b[i]>>)
    BY <1>1, RunTokens
  <1>3. PICK ws, vs : Singles(ws, u) /\ Singles(vs, b)
    BY <1>2 DEF Singles
  <1>4. FlattenSeq(ws) = u /\ FlattenSeq(vs) = b
    BY <1>3, FlattenSingles
  <1>5. ListSpelled("chunk", ws, vs)
    <2>1. /\ IsVec(ws) /\ Len(ws) = N /\ IsVec(vs) /\ Len(vs) = N
          /\ \A i \in 1..N : ws[i] = <<u[i]>>
          /\ \A i \in 1..N : vs[i] = <<b[i]>>
      <3>1. Singles(ws, u) /\ Singles(vs, b)
        BY <1>3
      <3>2. IsVec(ws) /\ Len(ws) = Len(u) /\ \A i \in 1..Len(u) : ws[i] = <<u[i]>>
        BY <3>1, SinglesType
      <3>3. IsVec(vs) /\ Len(vs) = Len(b) /\ \A i \in 1..Len(b) : vs[i] = <<b[i]>>
        BY <3>1, SinglesType
      <3> QED
        BY <1>1, <1>2, <3>2, <3>3
    <2>2. ASSUME NEW i \in 1..N
          PROVE  Spells("chunk", ws[i], vs[i]) /\ IsVec(ws[i]) /\ ws[i] # << >>
      <3>1. ws[i] = <<Bytes(vs[i])>>
        BY <1>2, <2>1
      <3>2. Spells("chunk", ws[i], vs[i])
        BY <3>1, SpellsChunk
      <3> QED
        BY <3>2 DEF Spells, Leads
    <2> QED
      BY <2>1, <2>2 DEF ListSpelled, Words
  <1>6. PICK q, h, d1 : q = u \o Cons(Break, r) /\ h = Append(g, Indefinite) /\ d1 = Read(d, "byterun")
    OBVIOUS
  <1>7. IsVec(q) /\ Len(r) <= Len(q) /\ Sees(Cons(ByteRun, q), m, g, d) /\ Len(q) <= Len(Cons(ByteRun, q)) /\ Len(q) \in Nat /\ Len(r) \in Nat
    <2>1. IsVec(Cons(Break, r)) /\ Len(Cons(Break, r)) = Len(r) + 1 /\ Len(r) \in Nat
      BY VecCons, VecFacts
    <2>2. IsVec(q) /\ Len(q) = N + (Len(r) + 1)
      BY <1>2, <1>6, <2>1, VecConcat
    <2>3. Len(Cons(ByteRun, q)) = Len(q) + 1
      BY <2>2, VecCons
    <2>4. Sees(Cons(ByteRun, q), m, g, d)
      BY <1>6
    <2>5. Len(q) \in Nat /\ Len(r) <= Len(q)
      BY <1>1, <2>1, <2>2
    <2> QED
      BY <2>1, <2>2, <2>3, <2>4, <2>5
  <1>8. Sees(q, m, h, d1)
    <2>1. PICK t : t = ByteRun /\ Fits(t, "byterun") /\ t[2] = Indefinite
      BY FitsRun
    <2>2. Sees(q, m, Append(g, t[2]), Read(d, "byterun"))
      BY <1>7, <2>1, ReadToken
    <2> QED
      BY <1>6, <2>1, <2>2
  <1>9. IsVec(g) /\ IsVec(h) /\ IsVec(Append(g, b)) /\ Len(d1.rest) \in Nat
    BY <1>6, <1>8, SeesTypes, VecAppend
  <1>10. CASE AtEnd(d)
    <2>1. DecodeBytes(d) = d1
      <3>1. DecodeBytes(d) = Read(d, "bytes")
        BY <1>10 DEF DecodeBytes, Chunk
      <3>2. \A want : Read(d, want) = IF d.st # "ok" THEN d ELSE [d EXCEPT !.st = "end"]
        BY <1>10 DEF Read
      <3> QED
        BY <1>6, <3>1, <3>2
    <2>2. d1.st # "ok"
      <3>1. d1 = IF d.st # "ok" THEN d ELSE [d EXCEPT !.st = "end"]
        BY <1>6, <1>10 DEF Read
      <3>2. d = [rest |-> d.rest, got |-> d.got, st |-> d.st]
        BY SeesTypes
      <3> QED
        BY <3>1, <3>2
    <2>3. Sees(r, m, Append(g, b), d1)
      BY <1>7, <1>8, <1>9, <2>2, StaysEnded
    <2> QED
      BY <1>2, <2>1, <2>3
  <1>11. CASE ~AtEnd(d)
    <2>1. Head(d.rest)[1] = "byterun"
      <3>1. d.rest # << >>
        BY <1>11 DEF AtEnd
      <3>2. Head(d.rest) = ByteRun
        BY <1>7, <3>1, HeadSeen
      <3> QED
        BY <3>2 DEF ByteRun
    <2>2. PICK e : e = Items(d1, Indefinite, Chunk)
      OBVIOUS
    <2>3. DecodeBytes(d) = Made(d, e, FlattenSeq(Last(e.got)))
      BY <1>6, <1>11, <2>1, <2>2 DEF DecodeBytes
    <2>4. RunOf("chunk", d1, Indefinite, e)
      BY <1>9, <2>2, ItemsChunks
    <2>5. Sees(r, m, Append(h, vs), e)
      <3>1. Sees(FlattenSeq(ws) \o Cons(Break, r), m, h, d1)
        BY <1>4, <1>6, <1>8
      <3>2. PICK w, v : Spells("chunk", w, v)
        BY SpellsChunk
      <3> QED
        BY <1>5, <2>4, <3>1, <3>2, BrokenItems
    <2>6. ASSUME e.st = "ok"
          PROVE  FlattenSeq(Last(e.got)) = b
      <3>1. Last(e.got) = vs
        BY <1>9, <2>5, <2>6, LastRead
      <3> QED
        BY <1>4, <3>1
    <2>7. PICK v, z : v = FlattenSeq(Last(e.got)) /\ z = Cons(ByteRun, q)
      OBVIOUS
    <2>8. e.st = "ok" => v = b
      BY <2>6, <2>7
    <2>9. Sees(z, m, g, d) /\ Len(r) <= Len(z)
      <3>1. Len(z) \in Nat
        BY <1>7, <2>7, VecCons, VecFacts
      <3> QED
        BY <1>7, <2>7, <3>1
    <2>10. Sees(r, m, Append(g, b), Made(d, e, v))
      BY <2>5, <2>8, <2>9, MadeOne
    <2> QED
      BY <1>2, <2>3, <2>7, <2>10
  <1> QED
    BY <1>10, <1>11

(* DecodeBytes reads a byte string in one token.                           *)
LEMMA SpellsWhole ==
  ASSUME NEW b
  PROVE  Spells("bytes", <<Bytes(b)>>, b)
  <1>1. PICK w : w = <<Bytes(b)>>
    OBVIOUS
  <1>2. Leads(w)
    <2>1. Bytes(b)[1] # "break"
      BY DEF Bytes
    <2> QED
      BY <1>1, <2>1, LeadsHead
  <1>3. ASSUME NEW r, NEW m, NEW g, NEW d, IsVec(r), IsVec(g), Sees(w \o r, m, g, d),
               SeesSince(w \o r, m, g, << >>, d), Len(r) <= Len(w \o r), IsVec(w)
        PROVE  Sees(r, m, Append(g, b), ItemOf("bytes", d))
    <2>1. CASE d.st # "ok"
      <3>1. DecodeBytes(d) = d
        BY <1>3, <2>1, BytesEnded
      <3>2. IsVec(Append(g, b))
        BY <1>3, VecAppend
      <3>3. Sees(r, m, Append(g, b), d)
        BY <1>3, <2>1, <3>2, StaysEnded
      <3> QED
        BY <3>1, <3>3, Kinds
    <2>2. CASE d.st = "ok"
      <3>1. Sees(Cons(Bytes(b), r), m, g, d)
        BY <1>1, <1>3 DEF Cons
      <3>2. Sees(r, m, Append(g, b), DecodeBytes(d))
        BY <1>3, <2>2, <3>1, BytesWhole
      <3> QED
        BY <3>2, Kinds
    <2> QED
      BY <2>1, <2>2
  <1>4. Spells("bytes", w, b)
    BY <1>2, <1>3, SpellsIf
  <1> QED
    BY <1>1, <1>4

(* DecodeBytes reads a byte string in chunks.                              *)
LEMMA SpellsRun ==
  ASSUME NEW b, IsVec(b), NEW u, u = [i \in DOMAIN b |-> Bytes(<<b[i]>>)]
  PROVE  Spells("bytes", <<ByteRun>> \o u \o <<Break>>, b)
  <1>1. PICK w, h, k, x : h = <<ByteRun>> /\ k = <<Break>> /\ x = h \o u /\ w = x \o k
    OBVIOUS
  <1>2. IsVec(u)
    BY RunTokens
  <1>3. Leads(h) /\ IsVec(h) /\ IsVec(k) /\ Leads(x) /\ IsVec(x) /\ Leads(w)
    <2>1. ByteRun[1] # "break"
      BY DEF ByteRun
    <2>2. Leads(h) /\ IsVec(h) /\ IsVec(k)
      BY <1>1, <2>1, LeadsHead, Tuples
    <2>3. Leads(x) /\ IsVec(x)
      BY <1>1, <1>2, <2>2, LeadsConcat
    <2>4. Leads(w)
      BY <1>1, <2>2, <2>3, LeadsConcat
    <2> QED
      BY <2>2, <2>3, <2>4
  <1>4. ASSUME NEW r, NEW m, NEW g, NEW d, IsVec(r), IsVec(g), Sees(w \o r, m, g, d),
               SeesSince(w \o r, m, g, << >>, d), Len(r) <= Len(w \o r), IsVec(w)
        PROVE  Sees(r, m, Append(g, b), ItemOf("bytes", d))
    <2>1. CASE d.st # "ok"
      <3>1. DecodeBytes(d) = d
        BY <1>4, <2>1, BytesEnded
      <3>2. IsVec(Append(g, b))
        BY <1>4, VecAppend
      <3>3. Sees(r, m, Append(g, b), d)
        BY <1>4, <2>1, <3>2, StaysEnded
      <3> QED
        BY <3>1, <3>3, Kinds
    <2>2. CASE d.st = "ok"
      <3>1. PICK q, y : q = Cons(Break, r) /\ q = k \o r /\ IsVec(q) /\ y = u \o q /\ IsVec(y)
        <4>1. k \o r = Cons(Break, r) /\ IsVec(Cons(Break, r))
          BY <1>1, <1>4, VecCons DEF Cons
        <4> QED
          BY <1>2, <4>1, VecConcat
      <3>2. w \o r = x \o q
        <4>1. Assoc(x, k, r)
          BY <1>3, <1>4, VecsAssoc
        <4> QED
          BY <1>1, <3>1, <4>1 DEF Assoc
      <3>3. x \o q = h \o y
        <4>1. Assoc(h, u, q)
          BY <1>2, <1>3, <3>1, VecsAssoc
        <4> QED
          BY <1>1, <3>1, <4>1 DEF Assoc
      <3>4. Sees(Cons(ByteRun, y), m, g, d)
        BY <1>1, <1>4, <3>2, <3>3 DEF Cons
      <3>5. Sees(Cons(ByteRun, u \o Cons(Break, r)), m, g, d)
        BY <3>1, <3>4
      <3>6. Sees(r, m, Append(g, b), DecodeBytes(d))
        BY <1>4, <2>2, <3>5, BytesInRun
      <3> QED
        BY <3>6, Kinds
    <2> QED
      BY <2>1, <2>2
  <1>5. Spells("bytes", w, b)
    BY <1>3, <1>4, SpellsIf
  <1> QED
    BY <1>1, <1>5

(* DecodeBytes reads what EncodeBytes writes, in either spelling.          *)
LEMMA SpellsBytes ==
  ASSUME NEW b, IsVec(b), NEW form
  PROVE  Spells("bytes", EncodeBytes(form, b), b)
  <1>1. CASE form = "definite"
    BY <1>1, SpellsWhole DEF EncodeBytes
  <1>2. CASE form # "definite"
    <2>1. PICK u : u = [i \in DOMAIN b |-> Bytes(<<b[i]>>)]
      OBVIOUS
    <2>2. Spells("bytes", <<ByteRun>> \o u \o <<Break>>, b)
      BY <2>1, SpellsRun
    <2>3. EncodeBytes(form, b) = <<ByteRun>> \o u \o <<Break>>
      BY <1>2, <2>1 DEF EncodeBytes
    <2> QED
      BY <2>2, <2>3
  <1> QED
    BY <1>1, <1>2

(* An optional byte string is read as it was written.                      *)
LEMMA SpellsMaybeBytes ==
  ASSUME NEW x, IsMaybe(x), \A b \in Range(x) : IsVec(b), NEW form,
         NEW w, w = IF x = << >> THEN <<Arr(0)>> ELSE <<Arr(1)>> \o EncodeBytes(form, x[1])
  PROVE  Spells("maybe bytes", w, x)
  <1>1. PICK v, u : v = x[1] /\ u = EncodeBytes(form, v)
    OBVIOUS
  <1>2. x # << >> => Spells("bytes", u, v)
    <2>1. SUFFICES ASSUME x # << >> PROVE Spells("bytes", u, v)
      OBVIOUS
    <2>2. IsVec(x) /\ Len(x) \in Nat \ {0}
      BY <2>1, VecTail DEF IsMaybe
    <2>3. v \in Range(x)
      <3>1. 1 \in 1..Len(x)
        BY <2>2
      <3> QED
        BY <1>1, <2>2, <3>1, VecFacts
    <2>4. IsVec(v)
      BY <2>3
    <2> QED
      BY <1>1, <2>4, SpellsBytes
  <1>3. \/ x = << >> /\ w = <<Arr(0)>>
        \/ x = <<v>> /\ w = <<Arr(1)>> \o u /\ Spells("bytes", u, v)
    <2>1. x = << >> \/ (x = <<v>> /\ x # << >>)
      BY <1>1, MaybeIs
    <2>2. x = << >> => w = <<Arr(0)>>
      OBVIOUS
    <2>3. x # << >> => w = <<Arr(1)>> \o u
      BY <1>1
    <2> QED
      BY <1>2, <2>1, <2>2, <2>3
  <1>4. Leads(w)
    <2>1. Arr(0)[1] # "break" /\ Arr(1)[1] # "break"
      BY DEF Arr
    <2>2. Leads(<<Arr(0)>>) /\ Leads(<<Arr(1)>>)
      BY <2>1, LeadsHead
    <2>3. Spells("bytes", u, v) => IsVec(u)
      BY DEF Spells, Leads
    <2> QED
      BY <1>3, <2>2, <2>3, LeadsConcat
  <1>5. ASSUME NEW r, NEW m, NEW g, NEW d, IsVec(r), Sees(w \o r, m, g, d)
        PROVE  Sees(r, m, Append(g, x), ItemOf("maybe bytes", d))
    <2>1. PICK a : a = Expect(Read(d, "array"), {0, 1})
      OBVIOUS
    <2>2. PICK b : b = IF a.st = "ok" /\ Last(a.got) = 1 THEN ItemOf("bytes", a) ELSE a
      OBVIOUS
    <2>3. Sees(r, m, Append(g, x), Made(d, b, Tail(Since(d, b))))
      <3>1. MaybeWord("bytes", x, w, v, u) /\ IsVec(r) /\ Sees(w \o r, m, g, d)
        BY <1>3, <1>5 DEF MaybeWord
      <3> QED
        BY <2>1, <2>2, <3>1, MaybeRead
    <2>4. ItemOf("bytes", a) = DecodeBytes(a)
      BY Kinds
    <2>5. DecodeMaybe(d, DecodeBytes) = Made(d, b, Tail(Since(d, b)))
      BY <2>1, <2>2, <2>4 DEF DecodeMaybe
    <2> QED
      BY <2>3, <2>5, Kinds
  <1> QED
    BY <1>4, <1>5 DEF Spells

-----------------------------------------------------------------------------
(* DataPoint messages                                                      *)

(* An item of a data point reply, a name and perhaps its value, is read as *)
(* it was written (server/datapoint.rs).                                   *)
LEMMA SpellsItem ==
  ASSUME NEW p, p = <<p[1], p[2]>>, IsMaybe(p[2]), \A b \in Range(p[2]) : IsVec(b), NEW form
  PROVE  Spells("item", EncodeItem(form, p), p)
  <1>1. PICK n, mb, w, x : /\ n = p[1] /\ mb = p[2] /\ w = EncodeItem(form, p)
                           /\ x = IF mb = << >> THEN <<Arr(0)>> ELSE <<Arr(1)>> \o EncodeBytes(form, mb[1])
    OBVIOUS
  <1>2. Spells("maybe bytes", x, mb)
    BY <1>1, SpellsMaybeBytes
  <1>3. PICK a, b : a = Arr(2) /\ b = Str(n) /\ Opens(w, a, b, x)
    <2>1. PICK a, b, u : a = Arr(2) /\ b = Str(n) /\ u = <<a, b>>
      OBVIOUS
    <2>2. w = u \o x
      BY <1>1, <2>1 DEF EncodeItem, EncodeMaybe
    <2>3. IsVec(x)
      BY <1>2 DEF Spells, Leads
    <2>4. a[1] # "break"
      BY <2>1 DEF Arr
    <2>5. Is2(u, a, b)
      BY <2>1 DEF Is2
    <2>6. Opens(w, a, b, x)
      BY <2>2, <2>3, <2>4, <2>5 DEF Opens
    <2> QED
      BY <2>1, <2>6
  <1>4. Leads(w)
    <2>1. IsVec(<< >>)
      BY Tuples
    <2> QED
      BY <1>3, <2>1, TaggedStream
  <1>5. ASSUME NEW r, NEW m, NEW g, NEW d, IsVec(r), IsVec(g), Sees(w \o r, m, g, d),
               SeesSince(w \o r, m, g, << >>, d), Len(r) <= Len(w \o r), IsVec(w)
        PROVE  Sees(r, m, Append(g, p), ItemOf("item", d))
    <2>1. PICK q2, q1, z : q2 = x \o r /\ q1 = Cons(Str(n), q2) /\ z = Cons(Arr(2), q1) /\ z = w \o r /\ IsVec(q2)
      <3>1. w \o r = Cons(a, Cons(b, x \o r)) /\ IsVec(x \o r)
        BY <1>3, <1>5, TaggedStream
      <3> QED
        BY <1>3, <3>1
    <2>2. IsVec(q1) /\ IsVec(z) /\ IsVec(r) /\ IsVec(q2)
      BY <1>5, <2>1, VecCons
    <2>3. SeesSince(z, m, g, << >>, d) /\ Sees(z, m, g, d) /\ Len(r) <= Len(z)
      BY <1>5, <2>1
    <2>4. PICK d1 : d1 = Read(d, "array") /\ SeesSince(q1, m, g, <<2>>, d1)
      <3>1. FitsAs(Arr(2), "array", 2)
        BY TokenArr
      <3>2. Grows(<< >>, 2, <<2>>)
        BY GrowsTuples
      <3>3. SeesSince(Cons(Arr(2), q1), m, g, << >>, d) /\ IsVec(q1)
        BY <2>1, <2>2, <2>3
      <3>4. SeesSince(q1, m, g, <<2>>, Read(d, "array"))
        BY <3>1, <3>2, <3>3, ReadNext
      <3> QED
        BY <3>4
    <2>5. PICK d2 : d2 = Read(d1, "str") /\ SeesSince(q2, m, g, <<2, n>>, d2)
      <3>1. FitsAs(Str(n), "str", n)
        BY TokenStr
      <3>2. Grows(<<2>>, n, <<2, n>>)
        BY GrowsTuples
      <3>3. SeesSince(Cons(Str(n), q2), m, g, <<2>>, d1) /\ IsVec(q2)
        BY <2>1, <2>2, <2>4
      <3>4. SeesSince(q2, m, g, <<2, n>>, Read(d1, "str"))
        BY <3>1, <3>2, <3>3, ReadNext
      <3> QED
        BY <3>4
    <2>6. PICK e : e = ItemOf("maybe bytes", d2) /\ SeesSince(r, m, g, <<2, n, mb>>, e)
      <3>1. Spells("maybe bytes", x, mb)
        BY <1>2
      <3>2. Grows(<<2, n>>, mb, <<2, n, mb>>)
        BY GrowsTuples
      <3>3. SeesSince(x \o r, m, g, <<2, n>>, d2) /\ IsVec(r)
        BY <2>1, <2>2, <2>5
      <3>4. SeesSince(r, m, g, <<2, n, mb>>, ItemOf("maybe bytes", d2))
        BY <3>1, <3>2, <3>3, SpelledNext
      <3> QED
        BY <3>4
    <2>7. PICK v : v = Tail(Since(d, e))
      OBVIOUS
    <2>8. decode_reply_item(d) = Made(d, e, v)
      <3>1. d2 = Text(d1)
        BY <2>5 DEF Text
      <3>2. e = DecodeMaybe(d2, DecodeBytes)
        BY <2>6, Kinds
      <3> QED
        BY <2>4, <2>7, <3>1, <3>2 DEF decode_reply_item
    <2>9. ASSUME e.st = "ok"
          PROVE  v = p
      <3>1. PICK vs : vs = <<2, n, mb>>
        OBVIOUS
      <3>2. Since(d, e) = vs
        <4>1. SeesSince(r, m, g, vs, e)
          BY <2>6, <3>1
        <4> QED
          BY <2>3, <2>9, <4>1, SinceThen
      <3>3. Tail(vs) = <<n, mb>>
        BY <3>1
      <3> QED
        BY <1>1, <2>7, <3>2, <3>3
    <2>10. Sees(r, m, g \o <<2, n, mb>>, e)
      BY <2>6 DEF SeesSince
    <2>11. Sees(r, m, Append(g, p), Made(d, e, v))
      BY <2>3, <2>9, <2>10, MadeOne
    <2>12. ItemOf("item", d) = decode_reply_item(d)
      BY DEF ItemOf
    <2> QED
      BY <2>8, <2>11, <2>12
  <1>6. Spells("item", w, p)
    BY <1>4, <1>5, SpellsIf
  <1> QED
    BY <1>1, <1>6

(* What is made of the rest of a message.                                  *)
BodyRead(kind, r, m, d, a, y) ==
  \E e, v, f : /\ Sees(r, m, f, e) /\ (e.st = "ok" => v = y)
               /\ a.st # "ok" => ItemOf(kind, d) = a
               /\ a.st = "ok" => ItemOf(kind, d) = Made(d, e, v)

(* The body of a message is read as y, wherever it stands and however much *)
(* of it has arrived.                                                      *)
BodiesRead(kind, want, k, t, x, y) ==
  \A r, m, g, d, z, q, a, h :
    IsVec(r) /\ q = x \o r /\ Shorter(r, q) /\ TagRead(z, q, m, g, d, want, k, t, a, h)
      => BodyRead(kind, r, m, d, a, y)

(* A tagged word spells a message if the body after its tag is read as     *)
(* that message.                                                           *)
LEMMA TagSpells ==
  ASSUME NEW kind, NEW w, NEW k, NEW t, NEW x, TagWord(w, k, t, x), NEW want, want \in {"u8", "u16"}, NEW y,
         BodiesRead(kind, want, k, t, x, y)
  PROVE  Spells(kind, w, y)
  <1>1. Leads(w)
    BY TagLeads
  <1>2. ASSUME NEW r, NEW m, NEW g, NEW d, IsVec(r), IsVec(g), Sees(w \o r, m, g, d),
               SeesSince(w \o r, m, g, << >>, d), Len(r) <= Len(w \o r), IsVec(w)
        PROVE  Sees(r, m, Append(g, y), ItemOf(kind, d))
    <2>1. PICK z, q : z = w \o r /\ q = x \o r /\ Starts(z, k, t, q) /\ Shorter(r, q) /\ Sees(z, m, g, d)
      BY <1>2, TagSpelled
    <2>2. PICK a, h : TagRead(z, q, m, g, d, want, k, t, a, h)
      <3>1. PICK a : Heads(d, want, a)
        BY DEF Heads
      <3> QED
        BY <2>1, <3>1, TagIsRead
    <2>3. BodyRead(kind, r, m, d, a, y)
      BY <1>2, <2>1, <2>2 DEF BodiesRead
    <2>4. PICK e, v, f : /\ Sees(r, m, f, e) /\ (e.st = "ok" => v = y)
                         /\ a.st # "ok" => ItemOf(kind, d) = a
                         /\ a.st = "ok" => ItemOf(kind, d) = Made(d, e, v)
      BY <2>3 DEF BodyRead
    <2>5. PICK X : X = ItemOf(kind, d)
      OBVIOUS
    <2>6. IsVec(r) /\ Shorter(r, q) /\ Shorter(q, z) /\ Sees(z, m, g, d) /\ Sees(q, m, h, a)
      BY <1>2, <2>1, <2>2 DEF TagRead
    <2>7. a.st # "ok" => X = a
      BY <2>4, <2>5
    <2>8. a.st = "ok" => X = Made(d, e, v) /\ Sees(r, m, f, e) /\ (e.st = "ok" => v = y)
      BY <2>4, <2>5
    <2>9. Sees(r, m, Append(g, y), X)
      BY <2>6, <2>7, <2>8, MessageMade
    <2> QED
      BY <2>5, <2>9
  <1> QED
    BY <1>1, <1>2, SpellsIf

(* A tag that is allowed is not refused.                                   *)
LEMMA TagExpected ==
  ASSUME NEW z, NEW q, NEW m, NEW g, NEW d, NEW want, NEW k, NEW t, NEW a, NEW h,
         TagRead(z, q, m, g, d, want, k, t, a, h), NEW S, t \in S
  PROVE  Expect(a, S) = a
  BY DEF TagRead, Expect

(* DecodeDataPoint reads a request as it was written                       *)
(* (server/datapoint.rs).                                                  *)
LEMMA SpellsNames ==
  ASSUME NEW y, y.is = "Request", y = [is |-> "Request", names |-> y.names], IsVec(y.names), NEW form
  PROVE  Spells("datapoint message", EncodeDataPoint(form, y), y)
  <1>1. PICK w, ns, x, k, t : /\ w = EncodeDataPoint(form, y) /\ ns = y.names /\ x = EncodeTexts(form, ns)
                              /\ k = 2 /\ t = 1 /\ IsVec(ns)
    OBVIOUS
  <1>2. Spells("texts", x, ns)
    BY <1>1, SpellsTexts
  <1>3. TagWord(w, k, t, x)
    <2>1. w = <<Arr(2), Int64(1)>> \o x
      BY <1>1 DEF EncodeDataPoint
    <2>2. IsVec(x)
      BY <1>2 DEF Spells, Leads
    <2> QED
      BY <1>1, <2>1, <2>2, Small DEF TagWord
  <1>4. ASSUME NEW r, NEW m, NEW g, NEW d, NEW z, NEW q, NEW a, NEW h, IsVec(r), q = x \o r, Shorter(r, q),
               TagRead(z, q, m, g, d, "u8", k, t, a, h)
        PROVE  BodyRead("datapoint message", r, m, d, a, y)
    <2>1. /\ Sees(q, m, h, a) /\ a = Reads(d, <<"array", "u8">>) /\ (a.st = "ok" => Last(a.got) = t) /\ IsVec(h)
      BY <1>4 DEF TagRead
    <2>2. Expect(a, 1..3) = a
      <3>1. t \in 1..3
        BY <1>1
      <3> QED
        BY <1>4, <3>1, TagExpected
    <2>3. PICK e, f : e = ArrayOf(a, Text) /\ f = Append(h, ns) /\ Sees(r, m, f, e)
      <3>1. Sees(x \o r, m, h, a)
        BY <1>4, <2>1
      <3>2. Sees(r, m, Append(h, ns), ItemOf("texts", a))
        BY <1>2, <1>4, <3>1 DEF Spells
      <3> QED
        BY <3>2, Kinds
    <2>4. PICK v, X : v = [is |-> "Request", names |-> Last(e.got)] /\ X = DecodeDataPoint(d)
      OBVIOUS
    <2>5. a.st # "ok" => X = a
      BY <2>1, <2>2, <2>4 DEF DecodeDataPoint
    <2>6. a.st = "ok" => X = Made(d, e, v)
      BY <1>1, <2>1, <2>2, <2>3, <2>4 DEF DecodeDataPoint
    <2>7. ASSUME e.st = "ok"
          PROVE  v = y
      <3>1. Sees(r, m, Append(h, ns), e)
        BY <2>3
      <3>2. Last(e.got) = ns
        BY <2>1, <2>7, <3>1, LastRead
      <3> QED
        BY <1>1, <2>4, <3>2
    <2>8. ItemOf("datapoint message", d) = X
      BY <2>4, Kinds
    <2> QED
      BY <2>3, <2>5, <2>6, <2>7, <2>8 DEF BodyRead
  <1>5. Spells("datapoint message", w, y)
    <2>1. BodiesRead("datapoint message", "u8", k, t, x, y)
      BY <1>4 DEF BodiesRead
    <2> QED
      BY <1>3, <2>1, TagSpells
  <1> QED
    BY <1>1, <1>5

(* DecodeDataPoint reads a reply as it was written (server/datapoint.rs).  *)
LEMMA SpellsItems ==
  ASSUME NEW y, y.is = "Reply", y = [is |-> "Reply", items |-> y.items], IsVec(y.items),
         \A p \in Range(y.items) : p = <<p[1], p[2]>> /\ IsMaybe(p[2]) /\ \A b \in Range(p[2]) : IsVec(b),
         NEW form
  PROVE  Spells("datapoint message", EncodeDataPoint(form, y), y)
  <1>1. PICK w, ps : w = EncodeDataPoint(form, y) /\ ps = y.items /\ IsVec(ps)
    OBVIOUS
  <1>2. PICK ws, x, k, t : /\ ws = [i \in DOMAIN ps |-> EncodeItem(form, ps[i])] /\ x = List(form, ws)
                           /\ k = 2 /\ t = 3
    OBVIOUS
  <1>3. ListSpelled("item", ws, ps)
    <2>1. ws = [i \in DOMAIN ps |-> ws[i]] /\ \A i \in DOMAIN ps : ws[i] = EncodeItem(form, ps[i])
      BY <1>2
    <2>2. ASSUME NEW i \in DOMAIN ps
          PROVE  Spells("item", ws[i], ps[i])
      <3>1. PICK p : p = ps[i] /\ p \in Range(ps)
        BY <1>1, VecFacts
      <3>2. p = <<p[1], p[2]>> /\ IsMaybe(p[2]) /\ \A b \in Range(p[2]) : IsVec(b)
        BY <1>1, <3>1
      <3>3. Spells("item", EncodeItem(form, p), p)
        BY <3>2, SpellsItem
      <3> QED
        BY <2>1, <3>1, <3>3
    <2> QED
      BY <1>1, <2>1, <2>2, RangeSpelled
  <1>4. TagWord(w, k, t, x)
    <2>1. w = <<Arr(2), Int64(3)>> \o x
      BY <1>1, <1>2 DEF EncodeDataPoint
    <2>2. IsVec(x)
      BY <1>2, <1>3, ListStream, Tuples DEF ListSpelled
    <2> QED
      BY <1>2, <2>1, <2>2, Small DEF TagWord
  <1>5. ASSUME NEW r, NEW m, NEW g, NEW d, NEW z, NEW q, NEW a, NEW h, IsVec(r), q = x \o r, Shorter(r, q),
               TagRead(z, q, m, g, d, "u8", k, t, a, h)
        PROVE  BodyRead("datapoint message", r, m, d, a, y)
    <2>1. /\ Sees(q, m, h, a) /\ a = Reads(d, <<"array", "u8">>) /\ (a.st = "ok" => Last(a.got) = t) /\ IsVec(h)
      BY <1>5 DEF TagRead
    <2>2. Expect(a, 1..3) = a
      <3>1. t \in 1..3
        BY <1>2
      <3> QED
        BY <1>5, <3>1, TagExpected
    <2>3. PICK e, f : e = ArrayOf(a, decode_reply_item) /\ f = Append(h, ps) /\ Sees(r, m, f, e)
      <3>1. Sees(List(form, ws) \o r, m, h, a)
        BY <1>2, <1>5, <2>1
      <3> QED
        BY <1>3, <1>5, <3>1, ArrayReplyItems
    <2>4. PICK v, X : v = [is |-> "Reply", items |-> Last(e.got)] /\ X = DecodeDataPoint(d)
      OBVIOUS
    <2>5. a.st # "ok" => X = a
      BY <2>1, <2>2, <2>4 DEF DecodeDataPoint
    <2>6. a.st = "ok" => X = Made(d, e, v)
      BY <1>2, <2>1, <2>2, <2>3, <2>4 DEF DecodeDataPoint
    <2>7. ASSUME e.st = "ok"
          PROVE  v = y
      <3>1. Sees(r, m, Append(h, ps), e)
        BY <2>3
      <3>2. Last(e.got) = ps
        BY <2>1, <2>7, <3>1, LastRead
      <3> QED
        BY <1>1, <2>4, <3>2
    <2>8. ItemOf("datapoint message", d) = X
      BY <2>4, Kinds
    <2> QED
      BY <2>3, <2>5, <2>6, <2>7, <2>8 DEF BodyRead
  <1>6. Spells("datapoint message", w, y)
    <2>1. BodiesRead("datapoint message", "u8", k, t, x, y)
      BY <1>5 DEF BodiesRead
    <2> QED
      BY <1>4, <2>1, TagSpells
  <1> QED
    BY <1>1, <1>6

(* A message that is a length and a tag: nothing is left to read.          *)
LEMMA NoBody ==
  ASSUME NEW kind, NEW r, NEW m, NEW g, NEW d, NEW want, NEW k, NEW t, NEW z, NEW q, NEW a, NEW h, NEW y,
         IsVec(r), q = << >> \o r, TagRead(z, q, m, g, d, want, k, t, a, h),
         a.st # "ok" => ItemOf(kind, d) = a, a.st = "ok" => ItemOf(kind, d) = Made(d, a, y)
  PROVE  BodyRead(kind, r, m, d, a, y)
  <1>1. q = r
    BY VecNeutral
  <1>2. Sees(r, m, h, a)
    BY <1>1 DEF TagRead
  <1> QED
    BY <1>2 DEF BodyRead

(* DecodeDataPoint reads a MsgDone as it was written.                      *)
LEMMA SpellsEnd ==
  ASSUME NEW y, y = [is |-> "Done"], NEW form
  PROVE  Spells("datapoint message", EncodeDataPoint(form, y), y)
  <1>1. PICK w, x, k, t : w = EncodeDataPoint(form, y) /\ x = << >> /\ k = 1 /\ t = 2
    OBVIOUS
  <1>2. TagWord(w, k, t, x)
    <2>1. y.is = "Done"
      OBVIOUS
    <2>2. w = <<Arr(1), Int64(2)>>
      BY <1>1, <2>1 DEF EncodeDataPoint
    <2>3. w = w \o x /\ IsVec(x)
      BY <1>1, <2>2, Tuples, VecNeutral
    <2> QED
      BY <1>1, <2>2, <2>3, Small DEF TagWord
  <1>3. ASSUME NEW r, NEW m, NEW g, NEW d, NEW z, NEW q, NEW a, NEW h, IsVec(r), q = x \o r, Shorter(r, q),
               TagRead(z, q, m, g, d, "u8", k, t, a, h)
        PROVE  BodyRead("datapoint message", r, m, d, a, y)
    <2>1. a = Reads(d, <<"array", "u8">>) /\ (a.st = "ok" => Last(a.got) = t)
      BY <1>3 DEF TagRead
    <2>2. Expect(a, 1..3) = a
      <3>1. t \in 1..3
        BY <1>1
      <3> QED
        BY <1>3, <3>1, TagExpected
    <2>3. PICK X : X = DecodeDataPoint(d)
      OBVIOUS
    <2>4. a.st # "ok" => X = a
      BY <2>1, <2>2, <2>3 DEF DecodeDataPoint
    <2>5. a.st = "ok" => X = Made(d, a, y)
      BY <1>1, <2>1, <2>2, <2>3 DEF DecodeDataPoint
    <2>6. ItemOf("datapoint message", d) = X
      BY <2>3, Kinds
    <2>7. q = << >> \o r
      BY <1>1, <1>3
    <2> QED
      BY <1>3, <2>4, <2>5, <2>6, <2>7, NoBody
  <1>4. Spells("datapoint message", w, y)
    <2>1. BodiesRead("datapoint message", "u8", k, t, x, y)
      BY <1>3 DEF BodiesRead
    <2> QED
      BY <1>2, <2>1, TagSpells
  <1> QED
    BY <1>1, <1>4

(* DataPoint messages are spelled as they are decoded.                     *)
LEMMA SpellsDataPoint ==
  ASSUME NEW y, IsDataPoint(y), NEW form
  PROVE  Spells("datapoint message", EncodeDataPoint(form, y), y)
  <1>1. CASE y.is = "Request" /\ y = [is |-> "Request", names |-> y.names] /\ IsVec(y.names)
    BY <1>1, SpellsNames
  <1>2. CASE y.is = "Reply" /\ y = [is |-> "Reply", items |-> y.items] /\ IsVec(y.items)
       /\ \A p \in Range(y.items) : p = <<p[1], p[2]>> /\ IsMaybe(p[2]) /\ \A b \in Range(p[2]) : IsVec(b)
    BY <1>2, SpellsItems
  <1>3. CASE y = Done
    BY <1>3, SpellsEnd DEF Done
  <1> QED
    BY <1>1, <1>2, <1>3 DEF IsDataPoint

-----------------------------------------------------------------------------
(* Handshake messages                                                      *)

(* A version number is read as it was written.                             *)
LEMMA SpellsVersion ==
  ASSUME NEW n \in Nat
  PROVE  Spells("version", <<Int64(n)>>, n)
  <1>1. PICK w : w = <<Int64(n)>>
    OBVIOUS
  <1>2. Leads(w)
    <2>1. Int64(n)[1] # "break"
      BY DEF Int64
    <2> QED
      BY <1>1, <2>1, LeadsHead
  <1>3. ASSUME NEW r, NEW m, NEW g, NEW d, IsVec(r), IsVec(g), Sees(w \o r, m, g, d),
               SeesSince(w \o r, m, g, << >>, d), Len(r) <= Len(w \o r), IsVec(w)
        PROVE  Sees(r, m, Append(g, n), ItemOf("version", d))
    <2>1. Sees(Cons(Int64(n), r), m, g, d)
      BY <1>1, <1>3 DEF Cons
    <2>2. FitsAs(Int64(n), "u64", n)
      BY TokenU64
    <2>3. Sees(r, m, Append(g, n), Read(d, "u64"))
      BY <1>3, <2>1, <2>2, ReadToken DEF FitsAs
    <2>4. ItemOf("version", d) = Read(d, "u64")
      BY DEF ItemOf, Version
    <2> QED
      BY <2>3, <2>4
  <1>4. Spells("version", w, n)
    BY <1>2, <1>3, SpellsIf
  <1> QED
    BY <1>1, <1>4

(* Two numbers, one after the other.                                       *)
LEMMA TwoNumbers ==
  ASSUME NEW k \in Nat, NEW v \in Nat, NEW x, Is2(x, Int64(k), Int64(v)), NEW r, IsVec(r),
         NEW m, NEW g, NEW d, SeesSince(x \o r, m, g, << >>, d), NEW e, e = Reads(d, <<"u64", "u64">>)
  PROVE  /\ SeesSince(r, m, g, <<k, v>>, e)
         /\ e.st = "ok" => Since(d, e) = <<k, v>> /\ Last(e.got) = v
  <1>10. PICK q1 : q1 = Cons(Int64(v), r)
    OBVIOUS
  <1>11. PICK z : z = x \o r
    OBVIOUS
  <1>1. q1 = Cons(Int64(v), r) /\ z = Cons(Int64(k), q1) /\ z = x \o r
    <2>1. x \o r = Cons(Int64(k), Cons(Int64(v), r))
      BY Words2
    <2>2. z = Cons(Int64(k), q1)
      BY <1>10, <1>11, <2>1
    <2> QED
      BY <1>10, <1>11, <2>2
  <1>2. IsVec(q1) /\ IsVec(z) /\ IsVec(r) /\ IsVec(<< >>)
    <2>1. IsVec(Cons(Int64(v), r))
      BY VecCons
    <2>2. IsVec(q1)
      BY <1>1, <2>1
    <2>3. IsVec(Cons(Int64(k), q1))
      BY <2>2, VecCons
    <2>4. IsVec(<< >>)
      BY Tuples
    <2> QED
      BY <1>1, <2>2, <2>3, <2>4
  <1>3. SeesSince(z, m, g, << >>, d)
    BY <1>1
  <1>4. PICK d1 : d1 = Read(d, "u64") /\ SeesSince(q1, m, g, <<k>>, d1)
    <2>1. FitsAs(Int64(k), "u64", k)
      BY TokenU64
    <2>2. Grows(<< >>, k, <<k>>)
      BY GrowsTuples
    <2>3. SeesSince(Cons(Int64(k), q1), m, g, << >>, d) /\ IsVec(q1)
      BY <1>1, <1>2, <1>3
    <2>4. SeesSince(q1, m, g, <<k>>, Read(d, "u64"))
      BY <2>1, <2>2, <2>3, ReadNext
    <2> QED
      BY <2>4
  <1>5. PICK d2 : d2 = Read(d1, "u64") /\ SeesSince(r, m, g, <<k, v>>, d2)
    <2>1. FitsAs(Int64(v), "u64", v)
      BY TokenU64
    <2>2. Grows(<<k>>, v, <<k, v>>)
      BY GrowsTuples
    <2>3. SeesSince(Cons(Int64(v), r), m, g, <<k>>, d1) /\ IsVec(r)
      BY <1>1, <1>2, <1>4
    <2>4. SeesSince(r, m, g, <<k, v>>, Read(d1, "u64"))
      BY <2>1, <2>2, <2>3, ReadNext
    <2> QED
      BY <2>4
  <1>6. d2 = e
    <2>1. Reads(d, <<"u64", "u64">>) = Read(Read(d, "u64"), "u64")
      BY TwoReads
    <2> QED
      BY <1>4, <1>5, <2>1
  <1>7. SeesSince(r, m, g, <<k, v>>, e)
    BY <1>5, <1>6
  <1>8. e.st = "ok" => Last(e.got) = v
    <2>1. Grows(<<k>>, v, <<k, v>>)
      BY GrowsTuples
    <2> QED
      BY <1>7, <2>1, LastSince
  <1>9. e.st = "ok" => Since(d, e) = <<k, v>>
    <2>1. SUFFICES ASSUME e.st = "ok" PROVE Since(d, e) = <<k, v>>
      OBVIOUS
    <2>2. Sees(z, m, g, d)
      <3>1. IsVec(g) /\ Sees(z, m, g \o << >>, d)
        BY <1>3 DEF SeesSince
      <3>2. g \o << >> = g
        BY <3>1, VecNeutral
      <3> QED
        BY <3>1, <3>2
    <2>3. Len(r) <= Len(z)
      <3>1. Len(z) = Len(q1) + 1 /\ Len(q1) = Len(r) + 1 /\ Len(r) \in Nat
        BY <1>1, <1>2, VecCons, VecFacts
      <3> QED
        BY <3>1
    <2> QED
      BY <1>7, <2>1, <2>2, <2>3, SinceThen
  <1> QED
    BY <1>7, <1>8, <1>9

(* A version and its magic are read as written.                            *)
LEMMA SpellsPair ==
  ASSUME NEW k \in Nat, NEW v \in Nat
  PROVE  Spells("pair", <<Int64(k), Int64(v)>>, <<k, v>>)
  <1>1. PICK w, p : w = <<Int64(k), Int64(v)>> /\ p = <<k, v>>
    OBVIOUS
  <1>2. Leads(w) /\ Is2(w, Int64(k), Int64(v))
    <2>1. Int64(k)[1] # "break"
      BY DEF Int64
    <2> QED
      BY <1>1, <2>1, LeadsHead DEF Is2
  <1>3. ASSUME NEW r, NEW m, NEW g, NEW d, IsVec(r), IsVec(g), Sees(w \o r, m, g, d),
               SeesSince(w \o r, m, g, << >>, d), Len(r) <= Len(w \o r), IsVec(w)
        PROVE  Sees(r, m, Append(g, p), ItemOf("pair", d))
    <2>1. PICK e : e = Reads(d, <<"u64", "u64">>)
      OBVIOUS
    <2>2. SeesSince(r, m, g, p, e) /\ (e.st = "ok" => Since(d, e) = p)
      <3>1. SeesSince(r, m, g, <<k, v>>, e) /\ (e.st = "ok" => Since(d, e) = <<k, v>>)
        BY <1>2, <1>3, <2>1, TwoNumbers
      <3> QED
        BY <1>1, <3>1
    <2>3. Sees(r, m, g \o p, e)
      BY <2>2 DEF SeesSince
    <2>4. Sees(r, m, Append(g, p), Made(d, e, Since(d, e)))
      BY <1>3, <2>2, <2>3, MadeOne
    <2>5. ItemOf("pair", d) = Made(d, e, Since(d, e))
      BY <2>1 DEF ItemOf, Pair
    <2> QED
      BY <2>4, <2>5
  <1>4. Spells("pair", w, p)
    BY <1>2, <1>3, SpellsIf
  <1> QED
    BY <1>1, <1>4

(* Two pairs make a tuple of four.                                         *)
LEMMA TwoAndTwo ==
  ASSUME NEW a, NEW b, NEW c, NEW d
  PROVE  <<a, b>> \o <<c, d>> = <<a, b, c, d>>
  <1>1. PICK u, v, w : u = <<a>> /\ v = <<b>> /\ w = <<c, d>>
    OBVIOUS
  <1>2. IsVec(u) /\ IsVec(v) /\ IsVec(w)
    BY <1>1, Tuples
  <1>3. Assoc(u, v, w)
    BY <1>2, VecsAssoc
  <1>4. u \o v = <<a, b>> /\ v \o w = <<b, c, d>>
    BY <1>1, TwoWords
  <1>5. u \o <<b, c, d>> = <<a, b, c, d>>
    BY <1>1, TwoWords
  <1>6. (u \o v) \o w = u \o (v \o w)
    BY <1>3 DEF Assoc
  <1> QED
    BY <1>1, <1>4, <1>5, <1>6

(* DecodeHandshake reads an Accept as it was written (mux/handshake.rs).   *)
LEMMA SpellsAccept ==
  ASSUME NEW y, y.is = "Accept", y \in [is : {"Accept"}, version : Nat, magic : Nat]
  PROVE  Spells("handshake message", EncodeHandshake(y), y)
  <1>1. PICK w, v, mg, x, k, t : /\ w = EncodeHandshake(y) /\ v = y.version /\ mg = y.magic
                                 /\ x = <<Int64(v), Int64(mg)>> /\ k = 3 /\ t = 1
    OBVIOUS
  <1>2. v \in Nat /\ mg \in Nat /\ y = [is |-> "Accept", version |-> v, magic |-> mg]
    BY <1>1
  <1>3. Is2(x, Int64(v), Int64(mg))
    BY <1>1 DEF Is2
  <1>4. TagWord(w, k, t, x)
    <2>1. w = <<Arr(3), Int64(1), Int64(v), Int64(mg)>>
      BY <1>1 DEF EncodeHandshake
    <2>2. <<Arr(3), Int64(1)>> \o x = <<Arr(3), Int64(1), Int64(v), Int64(mg)>>
      BY <1>1, TwoAndTwo
    <2>3. IsVec(x)
      BY <1>1, Tuples
    <2> QED
      BY <1>1, <2>1, <2>2, <2>3, Small DEF TagWord
  <1>5. ASSUME NEW r, NEW m, NEW g, NEW d, NEW z, NEW q, NEW a, NEW h, IsVec(r), q = x \o r, Shorter(r, q),
               TagRead(z, q, m, g, d, "u16", k, t, a, h)
        PROVE  BodyRead("handshake message", r, m, d, a, y)
    <2>1. a = Reads(d, <<"array", "u16">>) /\ (a.st = "ok" => Last(a.got) = t) /\ SeesSince(q, m, h, << >>, a)
      BY <1>5 DEF TagRead
    <2>2. Expect(a, 0..2) = a
      <3>1. t \in 0..2
        BY <1>1
      <3> QED
        BY <1>5, <3>1, TagExpected
    <2>3. PICK e : e = Reads(a, <<"u64", "u64">>)
      OBVIOUS
    <2>4. SeesSince(r, m, h, <<v, mg>>, e) /\ (e.st = "ok" => Since(a, e) = <<v, mg>> /\ Last(e.got) = mg)
      BY <1>2, <1>3, <1>5, <2>1, <2>3, TwoNumbers
    <2>5. PICK u, X, f : /\ u = [is |-> "Accept", version |-> Since(a, e)[1], magic |-> Last(e.got)]
                         /\ X = DecodeHandshake(d) /\ f = h \o <<v, mg>>
      OBVIOUS
    <2>6. Sees(r, m, f, e)
      BY <2>4, <2>5 DEF SeesSince
    <2>7. a.st # "ok" => X = a
      BY <2>1, <2>2, <2>5 DEF DecodeHandshake
    <2>8. a.st = "ok" => X = Made(d, e, u)
      BY <1>1, <2>1, <2>2, <2>3, <2>5 DEF DecodeHandshake
    <2>9. e.st = "ok" => u = y
      BY <1>2, <2>4, <2>5
    <2>10. ItemOf("handshake message", d) = X
      BY <2>5, Kinds
    <2> QED
      BY <2>6, <2>7, <2>8, <2>9, <2>10 DEF BodyRead
  <1>6. Spells("handshake message", w, y)
    <2>1. BodiesRead("handshake message", "u16", k, t, x, y)
      BY <1>5 DEF BodiesRead
    <2> QED
      BY <1>4, <2>1, TagSpells
  <1> QED
    BY <1>1, <1>6

(* A function on 1..n is a vector of length n.                             *)
LEMMA TableIsVec ==
  ASSUME NEW n \in Nat, NEW s, s = [i \in 1..n |-> s[i]]
  PROVE  IsVec(s) /\ Len(s) = n /\ DOMAIN s = 1..n
  <1>1. PICK T : T = {s[i] : i \in 1..n}
    OBVIOUS
  <1>2. s \in [1..n -> T]
    BY <1>1
  <1>3. s \in Seq(T)
    BY <1>2, SeqDef
  <1>4. Len(s) = n /\ DOMAIN s = 1..n
    BY <1>2, <1>3, LenProperties
  <1>5. IsVec(s)
    BY <1>3, SeqIsVec
  <1> QED
    BY <1>4, <1>5

(* A count and that many items.                                            *)
LEMMA CountedRead ==
  ASSUME NEW kind, NEW ws, NEW vs, ListSpelled(kind, ws, vs), NEW r, IsVec(r), NEW m, NEW g, NEW b,
         Sees(FlattenSeq(ws) \o r, m, g, b), NEW n, n = Len(ws), NEW e,
         b.st = "ok" => RunOf(kind, b, n, e), b.st # "ok" => e = b
  PROVE  Sees(r, m, Append(g, vs), e)
  <1>1. PICK f : f = FlattenSeq(ws)
    OBVIOUS
  <1>2. CASE b.st = "ok"
    <2>1. RunOf(kind, b, Len(ws), e)
      BY <1>2
    <2> QED
      BY <2>1, CountedItems
  <1>3. CASE b.st # "ok"
    <2>1. e = b /\ Sees(f \o r, m, g, b)
      BY <1>1, <1>3
    <2>2. IsVec(f)
      <3>1. IsVec(FlattenSeq(ws))
        BY ListStream DEF ListSpelled
      <3> QED
        BY <1>1, <3>1
    <2>3. Len(r) <= Len(f \o r)
      <3>1. Len(f \o r) = Len(f) + Len(r) /\ Len(f) \in Nat /\ Len(r) \in Nat
        BY <2>2, VecConcat, VecFacts
      <3> QED
        BY <3>1
    <2>4. IsVec(Append(g, vs))
      <3>1. IsVec(g)
        BY SeesTypes
      <3> QED
        BY <3>1, VecAppend
    <2>5. Sees(r, m, Append(g, vs), b)
      BY <1>3, <2>1, <2>3, <2>4, StaysEnded
    <2> QED
      BY <2>1, <2>5
  <1> QED
    BY <1>2, <1>3

(* x is a header and the words it counts.                                  *)
Headed(x, hd, ws) == Words(ws) /\ x = <<hd>> \o FlattenSeq(ws)

(* A header followed by words, in front of a stream.                       *)
LEMMA HeadedStream ==
  ASSUME NEW x, NEW hd, NEW ws, Headed(x, hd, ws), NEW r, IsVec(r)
  PROVE  /\ x \o r = Cons(hd, FlattenSeq(ws) \o r)
         /\ IsVec(x) /\ IsVec(FlattenSeq(ws) \o r)
  <1>1. PICK f, t : f = FlattenSeq(ws) /\ t = <<hd>> /\ x = t \o f
    BY DEF Headed
  <1>2. IsVec(f) /\ IsVec(t)
    <2>1. IsVec(FlattenSeq(ws))
      BY ListStream DEF Headed
    <2>2. IsVec(<<hd>>)
      BY Tuples
    <2> QED
      BY <1>1, <2>1, <2>2
  <1>3. Assoc(t, f, r)
    BY <1>2, VecsAssoc
  <1>4. x \o r = t \o (f \o r)
    BY <1>1, <1>3 DEF Assoc
  <1>5. IsVec(x) /\ IsVec(f \o r)
    BY <1>1, <1>2, VecConcat
  <1>6. x \o r = Cons(hd, f \o r)
    BY <1>1, <1>4 DEF Cons
  <1> QED
    BY <1>1, <1>5, <1>6

(* A header and as many words as it says are read as their values.         *)
LEMMA HeadedRead ==
  ASSUME NEW kind, NEW ws, NEW vs, ListSpelled(kind, ws, vs), NEW x, NEW hd, Headed(x, hd, ws),
         NEW n, n = Len(ws), NEW want, FitsAs(hd, want, n), NEW r, IsVec(r), NEW m, NEW h, NEW a,
         Sees(x \o r, m, h, a), NEW b, b = Read(a, want), NEW e,
         b.st = "ok" /\ Len(b.rest) \in Nat => RunOf(kind, b, Last(b.got), e), b.st # "ok" => e = b
  PROVE  /\ Sees(r, m, Append(Append(h, n), vs), e)
         /\ e.st = "ok" => Last(e.got) = vs
         /\ Expect(b, Nat) = b
  <1>1. PICK q : q = FlattenSeq(ws) \o r
    OBVIOUS
  <1>2. IsVec(q) /\ Sees(Cons(hd, q), m, h, a)
    <2>1. x \o r = Cons(hd, FlattenSeq(ws) \o r) /\ IsVec(FlattenSeq(ws) \o r)
      BY HeadedStream
    <2> QED
      BY <1>1, <2>1
  <1>3. PICK k : k = Append(h, n) /\ Sees(q, m, k, b) /\ IsVec(h) /\ IsVec(k)
    <2>1. Fits(hd, want) /\ hd[2] = n
      BY DEF FitsAs
    <2>2. Sees(q, m, Append(h, hd[2]), Read(a, want))
      BY <1>2, <2>1, ReadToken
    <2>3. IsVec(h)
      BY SeesTypes
    <2>4. IsVec(Append(h, n))
      BY <2>3, VecAppend
    <2> QED
      BY <2>1, <2>2, <2>3, <2>4
  <1>4. n \in Nat
    BY VecFacts DEF Headed, Words
  <1>5. b.st = "ok" => Last(b.got) = n
    <2>1. SUFFICES ASSUME b.st = "ok" PROVE Last(b.got) = n
      OBVIOUS
    <2>2. Sees(q, m, Append(h, n), b)
      BY <1>3
    <2> QED
      BY <1>3, <2>1, <2>2, LastRead
  <1>6. Len(b.rest) \in Nat
    BY <1>3, SeesTypes
  <1>7. b.st = "ok" => RunOf(kind, b, n, e)
    BY <1>5, <1>6
  <1>8. Sees(r, m, Append(k, vs), e)
    <2>1. Sees(FlattenSeq(ws) \o r, m, k, b)
      BY <1>1, <1>3
    <2> QED
      BY <1>7, <2>1, CountedRead
  <1>9. e.st = "ok" => Last(e.got) = vs
    BY <1>3, <1>8, LastRead
  <1>10. Expect(b, Nat) = b
    BY <1>4, <1>5 DEF Expect
  <1> QED
    BY <1>3, <1>8, <1>9, <1>10

(* DecodeHandshake reads a Refuse as it was written (mux/handshake.rs).    *)
LEMMA SpellsRefuse ==
  ASSUME NEW y, y.is = "Refuse", y = [is |-> "Refuse", versions |-> y.versions], y.versions \in Seq(Nat)
  PROVE  Spells("handshake message", EncodeHandshake(y), y)
  <1>1. PICK w, u, n, k, t : w = EncodeHandshake(y) /\ u = y.versions /\ n = Len(u) /\ k = 2 /\ t = 2
    OBVIOUS
  <1>2. u \in Seq(Nat) /\ IsVec(u) /\ DOMAIN u = 1..n /\ n \in Nat /\ \A i \in 1..n : u[i] \in Nat
    <2>1. u \in Seq(Nat)
      BY <1>1
    <2>2. IsVec(u)
      BY <2>1, SeqIsVec
    <2>3. \A i \in 1..Len(u) : u[i] \in Nat
      BY <2>1, ElementOfSeq
    <2> QED
      BY <1>1, <2>1, <2>2, <2>3, VecFacts
  <1>3. PICK ts : ts = [i \in 1..n |-> Int64(u[i])]
    OBVIOUS
  <1>4. IsVec(ts) /\ Len(ts) = n /\ \A i \in 1..n : ts[i] = Int64(u[i])
    <2>1. ts = [i \in 1..n |-> ts[i]]
      BY <1>3
    <2>2. IsVec(ts) /\ Len(ts) = n
      BY <1>2, <2>1, TableIsVec
    <2> QED
      BY <1>3, <2>2
  <1>5. PICK ws : ws = [i \in 1..Len(ts) |-> <<ts[i]>>]
    OBVIOUS
  <1>6. Singles(ws, ts)
    BY <1>4, <1>5 DEF Singles
  <1>7. IsVec(ws) /\ Len(ws) = n /\ FlattenSeq(ws) = ts /\ \A i \in 1..n : ws[i] = <<ts[i]>>
    BY <1>4, <1>6, SinglesType, FlattenSingles
  <1>8. ListSpelled("version", ws, u)
    <2>1. ws = [i \in DOMAIN u |-> ws[i]]
      BY <1>2, <1>4, <1>5
    <2>2. ASSUME NEW i \in DOMAIN u
          PROVE  Spells("version", ws[i], u[i])
      <3>1. i \in 1..n /\ u[i] \in Nat
        BY <1>2
      <3>2. ws[i] = <<Int64(u[i])>>
        BY <1>4, <1>7, <3>1
      <3>3. Spells("version", <<Int64(u[i])>>, u[i])
        BY <3>1, SpellsVersion
      <3> QED
        BY <3>2, <3>3
    <2> QED
      BY <1>2, <2>1, <2>2, RangeSpelled
  <1>9. PICK x, hd : hd = Arr(n) /\ x = <<hd>> \o FlattenSeq(ws)
    OBVIOUS
  <1>10. Headed(x, hd, ws) /\ FitsAs(hd, "array", n) /\ IsVec(x)
    <2>1. Headed(x, hd, ws)
      BY <1>8, <1>9 DEF Headed, ListSpelled
    <2>2. FitsAs(hd, "array", n)
      BY <1>9, TokenArr
    <2>3. IsVec(x)
      BY <1>2, <2>1, HeadedStream
    <2> QED
      BY <2>1, <2>2, <2>3
  <1>11. TagWord(w, k, t, x)
    <2>1. PICK a, b, c, f : a = Arr(2) /\ b = Int64(2) /\ c = <<hd>> /\ f = <<a, b>>
      OBVIOUS
    <2>2. ts = [i \in DOMAIN u |-> Int64(u[i])]
      BY <1>2, <1>3
    <2>3. w = <<a, b, hd>> \o ts
      BY <1>1, <1>9, <2>1, <2>2 DEF EncodeHandshake
    <2>4. f \o c = <<a, b, hd>>
      <3>1. Append(f, hd) = <<a, b, hd>> /\ IsVec(f)
        BY <2>1, Tuples
      <3>2. f \o <<hd>> = Append(f, hd)
        BY <3>1, AppendJoin
      <3> QED
        BY <2>1, <3>1, <3>2
    <2>5. Assoc(f, c, ts)
      <3>1. IsVec(f) /\ IsVec(c)
        BY <2>1, Tuples
      <3> QED
        BY <1>4, <3>1, VecsAssoc
    <2>6. w = f \o x
      <3>1. x = c \o ts
        BY <1>7, <1>9, <2>1
      <3>2. (f \o c) \o ts = f \o (c \o ts)
        BY <2>5 DEF Assoc
      <3> QED
        BY <2>3, <2>4, <3>1, <3>2
    <2> QED
      BY <1>1, <1>10, <2>1, <2>6, Small DEF TagWord
  <1>12. ASSUME NEW r, NEW m, NEW g, NEW d, NEW z, NEW q, NEW a, NEW h, IsVec(r), q = x \o r, Shorter(r, q),
                TagRead(z, q, m, g, d, "u16", k, t, a, h)
         PROVE  BodyRead("handshake message", r, m, d, a, y)
    <2>1. a = Reads(d, <<"array", "u16">>) /\ (a.st = "ok" => Last(a.got) = t) /\ Sees(q, m, h, a)
      BY <1>12 DEF TagRead
    <2>2. Expect(a, 0..2) = a
      <3>1. t \in 0..2
        BY <1>1
      <3> QED
        BY <1>12, <3>1, TagExpected
    <2>3. PICK b, e : b = Read(a, "array") /\ e = IF b.st = "ok" THEN Items(b, Last(b.got), Version) ELSE b
      OBVIOUS
    <2>4. PICK v, X, f : /\ v = [is |-> "Refuse", versions |-> Last(e.got)] /\ X = DecodeHandshake(d)
                         /\ f = Append(Append(h, n), u)
      OBVIOUS
    <2>5. Sees(r, m, f, e) /\ (e.st = "ok" => Last(e.got) = u) /\ Expect(b, Nat) = b
      <3>1. b.st = "ok" /\ Len(b.rest) \in Nat => RunOf("version", b, Last(b.got), e)
        BY <2>3, ItemsVersions
      <3>2. b.st # "ok" => e = b
        BY <2>3
      <3>3. Sees(x \o r, m, h, a)
        BY <1>12, <2>1
      <3>4. n = Len(ws)
        BY <1>7
      <3>5. b = Read(a, "array")
        BY <2>3
      <3>6. /\ Sees(r, m, Append(Append(h, n), u), e)
            /\ e.st = "ok" => Last(e.got) = u
            /\ Expect(b, Nat) = b
        BY <1>8, <1>10, <1>12, <3>1, <3>2, <3>3, <3>4, <3>5, HeadedRead
      <3> QED
        BY <2>4, <3>6
    <2>6. a.st # "ok" => X = a
      BY <2>1, <2>2, <2>4 DEF DecodeHandshake
    <2>7. a.st = "ok" => X = Made(d, e, v)
      BY <1>1, <2>1, <2>2, <2>3, <2>4, <2>5 DEF DecodeHandshake
    <2>8. e.st = "ok" => v = y
      BY <1>1, <2>4, <2>5
    <2>9. ItemOf("handshake message", d) = X
      BY <2>4, Kinds
    <2> QED
      BY <2>5, <2>6, <2>7, <2>8, <2>9 DEF BodyRead
  <1>13. Spells("handshake message", w, y)
    <2>1. BodiesRead("handshake message", "u16", k, t, x, y)
      BY <1>12 DEF BodiesRead
    <2> QED
      BY <1>11, <2>1, TagSpells
  <1> QED
    BY <1>1, <1>13

-----------------------------------------------------------------------------
(* Tables                                                                  *)

(* vs has all the elements of D and no others.                             *)
Orders(vs, D) ==
  /\ IsVec(vs)
  /\ \A i \in 1..Len(vs) : vs[i] \in D
  /\ \A k \in D : \E i \in 1..Len(vs) : vs[i] = k

(* An injective sequence of all the elements of a finite set orders it.    *)
LEMMA InjectiveOrders ==
  ASSUME NEW D, IsFiniteSet(D), NEW vs \in [1..Cardinality(D) -> D], IsInjective(vs)
  PROVE  Orders(vs, D)
  <1>1. PICK n : n = Cardinality(D) /\ n \in Nat
    BY FS_CardinalityType
  <1>2. vs \in [1..n -> D]
    BY <1>1
  <1>3. vs \in Injection(1..n, D)
    BY <1>2 DEF Injection
  <1>4. IsFiniteSet(1..n) /\ Cardinality(1..n) = n
    BY <1>1, FS_Interval
  <1>5. vs \in Surjection(1..n, D)
    BY <1>1, <1>3, <1>4, FS_Injection
  <1>6. vs = [i \in 1..n |-> vs[i]]
    BY <1>2
  <1>7. IsVec(vs) /\ Len(vs) = n
    BY <1>1, <1>6, TableIsVec
  <1>8. \A i \in 1..Len(vs) : vs[i] \in D
    BY <1>2, <1>7
  <1>9. \A k \in D : \E i \in 1..Len(vs) : vs[i] = k
    <2>1. \A k \in D : \E i \in 1..n : vs[i] = k
      BY <1>5 DEF Surjection
    <2> QED
      BY <1>7, <2>1
  <1> QED
    BY <1>7, <1>8, <1>9 DEF Orders

(* The order an encoder takes the entries of a map in.                     *)
LEMMA SetOrdered ==
  ASSUME NEW D, IsFiniteSet(D)
  PROVE  Orders(SetToSeq(D), D)
  <1>1. PICK n : n = Cardinality(D) /\ n \in Nat /\ ExistsBijection(1..n, D)
    BY FS_CardinalityType
  <1>2. PICK f : f \in Bijection(1..n, D)
    BY <1>1 DEF ExistsBijection
  <1>3. f \in [1..n -> D] /\ IsInjective(f)
    BY <1>2 DEF Bijection, Injection
  <1>4. \E h \in [1..Cardinality(D) -> D] : IsInjective(h)
    BY <1>1, <1>3
  <1>5. SetToSeq(D) \in [1..Cardinality(D) -> D] /\ IsInjective(SetToSeq(D))
    BY <1>4 DEF SetToSeq
  <1> QED
    BY <1>5, InjectiveOrders

(* Each sequence of SetToSeqs orders the set: each element occurs, none    *)
(* twice.                                                                  *)
LEMMA AnyOrder ==
  ASSUME NEW D, IsFiniteSet(D), NEW vs \in SetToSeqs(D)
  PROVE  Orders(vs, D)
  <1>1. PICK n : n = Cardinality(D)
    OBVIOUS
  <1>2. vs \in {f \in [1..n -> D] : \A i, j \in 1..n : i # j => f[i] # f[j]}
    BY <1>1 DEF SetToSeqs
  <1>3. vs \in [1..n -> D] /\ \A i, j \in 1..n : i # j => vs[i] # vs[j]
    BY <1>2
  <1>4. DOMAIN vs = 1..n
    BY <1>3
  <1>5. IsInjective(vs)
    BY <1>3, <1>4 DEF IsInjective
  <1> QED
    BY <1>1, <1>3, <1>5, InjectiveOrders

(* A set of numbers with a bound has a greatest one.                       *)
LEMMA GreatestNumber ==
  ASSUME NEW n \in Nat, NEW T \in SUBSET (1..n), T # {}
  PROVE  Max(T) \in T
  <1>1. PICK U : U = {n - i : i \in T}
    OBVIOUS
  <1>2. U \in SUBSET Nat /\ U # {}
    <2>1. \A i \in 1..n : n - i \in Nat
      OBVIOUS
    <2>2. \A i \in T : n - i \in Nat
      BY <2>1
    <2> QED
      BY <1>1, <2>2
  <1>3. PICK x \in U : \A y \in U : x <= y
    BY <1>2, LeastNumber
  <1>4. PICK k \in T : x = n - k
    BY <1>1, <1>3
  <1>5. \A y \in T : k >= y
    <2> SUFFICES ASSUME NEW y \in T PROVE k >= y
      OBVIOUS
    <2>1. n - k <= n - y
      BY <1>1, <1>3, <1>4
    <2> QED
      BY <1>4, <2>1
  <1>6. \E z \in T : \A y \in T : z >= y
    BY <1>4, <1>5
  <1> QED
    BY <1>6 DEF Max

(* A map is built from its entries, in whatever order they come.           *)
PairsOf(f, D, vs, ps) ==
  /\ f = [k \in D |-> f[k]]
  /\ Orders(vs, D)
  /\ ps = [i \in DOMAIN vs |-> <<vs[i], f[vs[i]]>>]

(* A map is built from its entries, in whatever order they come.           *)
LEMMA MapBuilt ==
  ASSUME NEW f, NEW D, NEW vs, NEW ps, PairsOf(f, D, vs, ps)
  PROVE  MapFrom(ps) = f
  <1>0. /\ f = [k \in D |-> f[k]] /\ Orders(vs, D)
        /\ ps = [i \in DOMAIN vs |-> <<vs[i], f[vs[i]]>>]
    BY DEF PairsOf
  <1>1. PICK n : n = Len(vs) /\ n \in Nat /\ DOMAIN vs = 1..n
    BY <1>0, VecFacts DEF Orders
  <1>2. DOMAIN ps = 1..n /\ \A i \in 1..n : ps[i][1] = vs[i] /\ ps[i][2] = f[vs[i]]
    BY <1>0, <1>1
  <1>3. {ps[i][1] : i \in DOMAIN ps} = D
    <2>1. \A i \in 1..n : vs[i] \in D
      BY <1>0, <1>1 DEF Orders
    <2>2. \A k \in D : \E i \in 1..n : vs[i] = k
      BY <1>0, <1>1 DEF Orders
    <2> QED
      BY <1>2, <2>1, <2>2
  <1>4. ASSUME NEW k \in D
        PROVE  ps[Max({i \in DOMAIN ps : ps[i][1] = k})][2] = f[k]
    <2>1. PICK T : T = {i \in DOMAIN ps : ps[i][1] = k}
      OBVIOUS
    <2>2. T \in SUBSET (1..n)
      BY <1>2, <2>1
    <2>3. T # {}
      <3>1. PICK i \in 1..n : vs[i] = k
        BY <1>0, <1>1 DEF Orders
      <3> QED
        BY <1>2, <2>1, <3>1
    <2>4. PICK j : j = Max(T) /\ j \in T
      BY <1>1, <2>2, <2>3, GreatestNumber
    <2>5. j \in 1..n /\ ps[j][1] = k
      BY <1>2, <2>1, <2>4
    <2>6. ps[j][2] = f[k]
      BY <1>2, <2>5
    <2> QED
      BY <2>1, <2>4, <2>6
  <1>5. MapFrom(ps) = [k \in {ps[i][1] : i \in DOMAIN ps} |-> ps[Max({i \in DOMAIN ps : ps[i][1] = k})][2]]
    BY DEF MapFrom
  <1>6. MapFrom(ps) = [k \in D |-> ps[Max({i \in DOMAIN ps : ps[i][1] = k})][2]]
    BY <1>3, <1>5
  <1>7. [k \in D |-> ps[Max({i \in DOMAIN ps : ps[i][1] = k})][2]] = [k \in D |-> f[k]]
    BY <1>4
  <1> QED
    BY <1>0, <1>6, <1>7

(* DecodeHandshake reads a Propose as it was written, whatever its version *)
(* table (mux/handshake.rs).                                               *)
LEMMA SpellsPropose ==
  ASSUME NEW y, y.is = "Propose", y = [is |-> "Propose", versions |-> y.versions], IsTable(y.versions),
         \A k \in DOMAIN y.versions : k \in Nat /\ y.versions[k] \in Nat
  PROVE  Spells("handshake message", EncodeHandshake(y), y)
  <1>1. PICK w, f, D, k, t : w = EncodeHandshake(y) /\ f = y.versions /\ D = DOMAIN f /\ k = 2 /\ t = 0
    OBVIOUS
  <1>2. IsFiniteSet(D) /\ f = [j \in D |-> f[j]] /\ \A j \in D : j \in Nat /\ f[j] \in Nat
    BY <1>1 DEF IsTable
  <1>3. PICK vs, n : vs = SetToSeq(D) /\ Orders(vs, D) /\ n = Len(vs)
    BY <1>2, SetOrdered
  <1>4. IsVec(vs) /\ n \in Nat /\ DOMAIN vs = 1..n /\ \A i \in 1..n : vs[i] \in D
    BY <1>3, VecFacts DEF Orders
  <1>5. PICK ws, ps : /\ ws = [i \in DOMAIN vs |-> <<Int64(vs[i]), Int64(f[vs[i]])>>]
                      /\ ps = [i \in DOMAIN vs |-> <<vs[i], f[vs[i]]>>]
    OBVIOUS
  <1>6. IsVec(ps) /\ Len(ps) = n /\ DOMAIN ps = 1..n /\ MapFrom(ps) = f
    <2>1. MapFrom(ps) = f
      <3>1. PairsOf(f, D, vs, ps)
        BY <1>2, <1>3, <1>5 DEF PairsOf
      <3> QED
        BY <3>1, MapBuilt
    <2>2. ps = [i \in 1..n |-> ps[i]]
      BY <1>4, <1>5
    <2> QED
      BY <1>4, <2>1, <2>2, TableIsVec
  <1>7. ListSpelled("pair", ws, ps) /\ Len(ws) = n
    <2>1. ws = [i \in DOMAIN ps |-> ws[i]]
      BY <1>4, <1>5, <1>6
    <2>2. ASSUME NEW i \in DOMAIN ps
          PROVE  Spells("pair", ws[i], ps[i])
      <3>1. PICK a, b : a = vs[i] /\ b = f[a] /\ a \in Nat /\ b \in Nat
        BY <1>2, <1>4, <1>6
      <3>2. ws[i] = <<Int64(a), Int64(b)>> /\ ps[i] = <<a, b>>
        BY <1>4, <1>5, <1>6, <3>1
      <3>3. Spells("pair", <<Int64(a), Int64(b)>>, <<a, b>>)
        BY <3>1, SpellsPair
      <3> QED
        BY <3>2, <3>3
    <2>3. ListSpelled("pair", ws, ps)
      BY <1>6, <2>1, <2>2, RangeSpelled
    <2> QED
      BY <1>6, <2>3 DEF ListSpelled
  <1>8. PICK x, hd : hd = MapOf(n) /\ x = <<hd>> \o FlattenSeq(ws)
    OBVIOUS
  <1>9. Headed(x, hd, ws) /\ FitsAs(hd, "map", n) /\ IsVec(x)
    <2>1. Headed(x, hd, ws)
      BY <1>7, <1>8 DEF Headed, ListSpelled
    <2>2. FitsAs(hd, "map", n)
      BY <1>8, TokenMap
    <2>3. IsVec(x)
      BY <1>4, <2>1, HeadedStream
    <2> QED
      BY <2>1, <2>2, <2>3
  <1>10. TagWord(w, k, t, x)
    <2>1. PICK a, b, c, u, fl : /\ a = Arr(2) /\ b = Int64(0) /\ c = <<hd>> /\ u = <<a, b>>
                                /\ fl = FlattenSeq(ws)
      OBVIOUS
    <2>2. w = <<a, b, hd>> \o fl
      <3>1. w = <<Arr(2), Int64(0), MapOf(Len(SetToSeq(D)))>>
                \o FlattenSeq([i \in DOMAIN SetToSeq(D) |-> <<Int64(SetToSeq(D)[i]), Int64(f[SetToSeq(D)[i]])>>])
        BY <1>1 DEF EncodeHandshake
      <3> QED
        BY <1>3, <1>5, <1>8, <2>1, <3>1
    <2>3. IsVec(fl)
      <3>1. IsVec(FlattenSeq(ws))
        BY <1>4, <1>7, ListStream DEF ListSpelled
      <3> QED
        BY <2>1, <3>1
    <2>4. u \o c = <<a, b, hd>>
      <3>1. Append(u, hd) = <<a, b, hd>> /\ IsVec(u)
        BY <2>1, Tuples
      <3>2. u \o <<hd>> = Append(u, hd)
        BY <3>1, AppendJoin
      <3> QED
        BY <2>1, <3>1, <3>2
    <2>5. Assoc(u, c, fl)
      <3>1. IsVec(u) /\ IsVec(c)
        BY <2>1, Tuples
      <3> QED
        BY <2>3, <3>1, VecsAssoc
    <2>6. w = u \o x
      <3>1. x = c \o fl
        BY <1>8, <2>1
      <3>2. (u \o c) \o fl = u \o (c \o fl)
        BY <2>5 DEF Assoc
      <3> QED
        BY <2>2, <2>4, <3>1, <3>2
    <2> QED
      BY <1>1, <1>9, <2>1, <2>6, Small DEF TagWord
  <1>11. ASSUME NEW r, NEW m, NEW g, NEW d, NEW z, NEW q, NEW a, NEW h, IsVec(r), q = x \o r, Shorter(r, q),
                TagRead(z, q, m, g, d, "u16", k, t, a, h)
         PROVE  BodyRead("handshake message", r, m, d, a, y)
    <2>1. a = Reads(d, <<"array", "u16">>) /\ (a.st = "ok" => Last(a.got) = t) /\ Sees(q, m, h, a)
      BY <1>11 DEF TagRead
    <2>2. Expect(a, 0..2) = a
      <3>1. t \in 0..2
        BY <1>1
      <3> QED
        BY <1>11, <3>1, TagExpected
    <2>3. PICK b, e : b = Read(a, "map") /\ e = IF b.st = "ok" THEN Items(b, Last(b.got), Pair) ELSE b
      OBVIOUS
    <2>4. PICK v, X, F : /\ v = [is |-> "Propose", versions |-> MapFrom(Last(e.got))] /\ X = DecodeHandshake(d)
                         /\ F = Append(Append(h, n), ps)
      OBVIOUS
    <2>5. Sees(r, m, F, e) /\ (e.st = "ok" => Last(e.got) = ps) /\ Expect(b, Nat) = b
      <3>1. b.st = "ok" /\ Len(b.rest) \in Nat => RunOf("pair", b, Last(b.got), e)
        BY <2>3, ItemsPairs
      <3>2. b.st # "ok" => e = b
        BY <2>3
      <3>3. Sees(x \o r, m, h, a)
        BY <1>11, <2>1
      <3>4. n = Len(ws)
        BY <1>7
      <3>5. b = Read(a, "map")
        BY <2>3
      <3>6. /\ Sees(r, m, Append(Append(h, n), ps), e)
            /\ e.st = "ok" => Last(e.got) = ps
            /\ Expect(b, Nat) = b
        BY <1>7, <1>9, <1>11, <3>1, <3>2, <3>3, <3>4, <3>5, HeadedRead
      <3> QED
        BY <2>4, <3>6
    <2>6. a.st # "ok" => X = a
      BY <2>1, <2>2, <2>4 DEF DecodeHandshake
    <2>7. a.st = "ok" => X = Made(d, e, v)
      BY <1>1, <2>1, <2>2, <2>3, <2>4, <2>5 DEF DecodeHandshake
    <2>8. e.st = "ok" => v = y
      BY <1>1, <1>6, <2>4, <2>5
    <2>9. ItemOf("handshake message", d) = X
      BY <2>4, Kinds
    <2> QED
      BY <2>5, <2>6, <2>7, <2>8, <2>9 DEF BodyRead
  <1>12. Spells("handshake message", w, y)
    <2>1. BodiesRead("handshake message", "u16", k, t, x, y)
      BY <1>11 DEF BodiesRead
    <2> QED
      BY <1>10, <2>1, TagSpells
  <1> QED
    BY <1>1, <1>12

(* Handshake messages are spelled as they are decoded.                     *)
LEMMA SpellsHandshake ==
  ASSUME NEW y, IsHandshake(y)
  PROVE  Spells("handshake message", EncodeHandshake(y), y)
  <1>1. CASE /\ y.is = "Propose" /\ y = [is |-> "Propose", versions |-> y.versions] /\ IsTable(y.versions)
             /\ \A k \in DOMAIN y.versions : k \in Nat /\ y.versions[k] \in Nat
    BY <1>1, SpellsPropose
  <1>2. CASE y.is = "Accept" /\ y \in [is : {"Accept"}, version : Nat, magic : Nat]
    BY <1>2, SpellsAccept
  <1>3. CASE y.is = "Refuse" /\ y = [is |-> "Refuse", versions |-> y.versions] /\ y.versions \in Seq(Nat)
    BY <1>3, SpellsRefuse
  <1> QED
    BY <1>1, <1>2, <1>3 DEF IsHandshake

-----------------------------------------------------------------------------
(* Skipping an item                                                        *)

(* How many items a token announces.                                       *)
Weight(t) ==
  CASE t[1] = "array" -> t[2] [] t[1] = "map" -> 2 * t[2] [] t[1] = "tag" -> 1 [] OTHER -> 0

(* The items still to skip after the first tokens of s.                    *)
LeftTable(s, T) == T = [i \in 0..Len(s) |-> IF i = 0 THEN 1 ELSE T[i - 1] - 1 + Weight(s[i])]

(* The count of items still to skip after each token is well defined.      *)
LEMMA LeftExists ==
  ASSUME NEW s, Len(s) \in Nat
  PROVE  \E T : LeftTable(s, T)
  <1> DEFINE step(i, p) == p - 1 + Weight(s[i])
             table(G, k) == [i \in 0..k |-> IF i = 0 THEN 1 ELSE step(i, G[i - 1])]
             P == {k \in Nat : \E G : G = table(G, k)}
  <1> HIDE DEF step
  <1>1. 0 \in P
    <2>1. PICK G : G = [i \in 0..0 |-> 1]
      OBVIOUS
    <2>2. G = table(G, 0)
      BY <2>1
    <2> HIDE DEF table
    <2> QED
      BY <2>2
  <1>2. ASSUME NEW k \in Nat, k \in P
        PROVE  k + 1 \in P
    <2>1. PICK G : G = table(G, k)
      BY <1>2
    <2>2. PICK H : H = [i \in 0..(k + 1) |-> IF i = k + 1 THEN step(i, G[k]) ELSE G[i]]
      OBVIOUS
    <2>3. \A i \in 0..(k + 1) : H[i] = IF i = 0 THEN 1 ELSE step(i, H[i - 1])
      <3> SUFFICES ASSUME NEW i \in 0..(k + 1) PROVE H[i] = IF i = 0 THEN 1 ELSE step(i, H[i - 1])
        OBVIOUS
      <3>1. CASE i = k + 1
        <4>1. H[i] = step(i, G[k]) /\ i - 1 = k /\ k \in 0..(k + 1) /\ k # k + 1 /\ i # 0
          BY <2>2, <3>1
        <4>2. H[k] = G[k]
          BY <2>2, <4>1
        <4> QED
          BY <3>1, <4>1, <4>2
      <3>2. CASE i = 0
        <4>1. G[0] = 1
          BY <2>1
        <4> QED
          BY <2>2, <3>2, <4>1
      <3>3. CASE i \in 1..k
        <4>1. /\ i \in 0..k /\ i - 1 \in 0..(k + 1) /\ i # 0 /\ i # k + 1 /\ i - 1 # k + 1
          BY <3>3
        <4>2. G[i] = step(i, G[i - 1])
          BY <2>1, <4>1
        <4>3. H[i] = G[i] /\ H[i - 1] = G[i - 1]
          BY <2>2, <4>1
        <4> QED
          BY <4>1, <4>2, <4>3
      <3> QED
        BY <3>1, <3>2, <3>3
    <2>4. H = [i \in 0..(k + 1) |-> H[i]]
      BY <2>2
    <2>5. H = table(H, k + 1)
      BY <2>3, <2>4
    <2> HIDE DEF table
    <2> QED
      BY <2>5
  <1>3. Nat \subseteq P
    <2> HIDE DEF P
    <2> QED
      BY <1>1, <1>2, InductionOnNat
  <1>4. PICK K : K = Len(s) /\ K \in Nat
    OBVIOUS
  <1>5. K \in P
    BY <1>3, <1>4
  <1>6. PICK T : T = table(T, K)
    BY <1>5
  <1>7. LeftTable(s, T)
    BY <1>4, <1>6 DEF LeftTable, step
  <1> QED
    BY <1>7

(* Where an item ends.                                                     *)
ItemEnds(s, T) == {i \in 1..Len(s) : T[i] = 0}

(* Skipping what ends at the first of the places E.                        *)
SkipBy(d, E) ==
  IF E = {} THEN [d EXCEPT !.st = "end"]
  ELSE LET i == CHOOSE i \in E : \A j \in E : i <= j
       IN  [d EXCEPT !.rest = SubSeq(@, i + 1, Len(@))]

(* Skip is SkipBy at the places where that count is zero.                  *)
LEMMA SkipIs ==
  ASSUME NEW d, d.st = "ok", Len(d.rest) \in Nat
  PROVE  \E T : LeftTable(d.rest, T) /\ Skip(d) = SkipBy(d, ItemEnds(d.rest, T))
  <1> DEFINE table(G) == [i \in 0..Len(d.rest) |->
               IF i = 0 THEN 1
               ELSE G[i - 1] - 1 + (CASE d.rest[i][1] = "array" -> d.rest[i][2]
                                      [] d.rest[i][1] = "map" -> 2 * d.rest[i][2]
                                      [] d.rest[i][1] = "tag" -> 1
                                      [] OTHER -> 0)]
             steps(G) == [i \in 0..Len(d.rest) |-> IF i = 0 THEN 1 ELSE G[i - 1] - 1 + Weight(d.rest[i])]
             T == CHOOSE G : G = table(G)
  <1>1. Skip(d) = SkipBy(d, ItemEnds(d.rest, T))
    <2>1. PICK E : E = {i \in 1..Len(d.rest) : T[i] = 0}
      OBVIOUS
    <2>2. CASE E = {}
      <3>1. Skip(d) = [d EXCEPT !.st = "end"]
        BY <2>1, <2>2 DEF Skip
      <3> HIDE DEF T
      <3> QED
        BY <2>1, <2>2, <3>1 DEF SkipBy, ItemEnds
    <2>3. CASE E # {}
      <3>1. Skip(d) = LET i == CHOOSE i \in E : \A j \in E : i <= j
                      IN  [d EXCEPT !.rest = SubSeq(@, i + 1, Len(@))]
        BY <2>1, <2>3 DEF Skip
      <3> HIDE DEF T
      <3> QED
        BY <2>1, <2>3, <3>1 DEF SkipBy, ItemEnds
    <2> QED
      BY <2>2, <2>3
  <1>2. ASSUME NEW G
        PROVE  steps(G) = table(G)
    BY DEF Weight
  <1>3. PICK F : F = steps(F)
    <2>1. PICK F : LeftTable(d.rest, F)
      BY LeftExists, Zenon
    <2> QED
      BY <2>1 DEF LeftTable
  <1>4. T = table(T)
    <2>1. F = table(F)
      BY <1>2, <1>3
    <2> HIDE DEF table
    <2> QED
      BY <2>1
  <1>5. T = steps(T)
    BY <1>2, <1>4
  <1>6. LeftTable(d.rest, T)
    <2> HIDE DEF T
    <2> QED
      BY <1>5 DEF LeftTable
  <1> HIDE DEF T
  <1> QED
    BY <1>1, <1>6

(* The numbers of a table of what is left, over an array of two numbers.   *)
LEMMA LeftOver ==
  ASSUME NEW s, Len(s) \in Nat, NEW T, LeftTable(s, T), NEW n, NEW k,
         Len(s) >= 1 => s[1] = Arr(2), Len(s) >= 2 => s[2] = Int64(n), Len(s) >= 3 => s[3] = Int64(k)
  PROVE  /\ Len(s) < 3 => ItemEnds(s, T) = {}
         /\ Len(s) >= 3 => 3 \in ItemEnds(s, T) /\ \A j \in ItemEnds(s, T) : 3 <= j
  <1>1. PICK L : L = Len(s) /\ L \in Nat
    OBVIOUS
  <1>2. T = [i \in 0..L |-> IF i = 0 THEN 1 ELSE T[i - 1] - 1 + Weight(s[i])]
    BY <1>1 DEF LeftTable
  <1>3. T[0] = 1
    <2>1. 0 \in 0..L
      BY <1>1
    <2> QED
      BY <1>2, <2>1
  <1>4. Weight(Arr(2)) = 2 /\ Weight(Int64(n)) = 0 /\ Weight(Int64(k)) = 0
    BY DEF Weight, Arr, Int64
  <1>5. L >= 1 => T[1] = 2
    <2>1. SUFFICES ASSUME L >= 1 PROVE T[1] = 2
      OBVIOUS
    <2>2. 1 \in 0..L /\ s[1] = Arr(2)
      BY <1>1, <2>1
    <2>3. PICK a : a = 1 /\ a \in 0..L /\ a # 0 /\ a - 1 = 0
      BY <2>2
    <2>4. T[a] = T[a - 1] - 1 + Weight(s[a])
      BY <1>2, <2>3
    <2> QED
      BY <1>3, <1>4, <2>2, <2>3, <2>4
  <1>6. L >= 2 => T[2] = 1
    <2>1. SUFFICES ASSUME L >= 2 PROVE T[2] = 1
      OBVIOUS
    <2>2. 2 \in 0..L /\ s[2] = Int64(n) /\ L >= 1
      BY <1>1, <2>1
    <2>3. T[2] = T[1] - 1 + Weight(s[2])
      BY <1>2, <2>2
    <2> QED
      BY <1>4, <1>5, <2>2, <2>3
  <1>7. L >= 3 => T[3] = 0
    <2>1. SUFFICES ASSUME L >= 3 PROVE T[3] = 0
      OBVIOUS
    <2>2. 3 \in 0..L /\ s[3] = Int64(k) /\ L >= 2
      BY <1>1, <2>1
    <2>3. T[3] = T[2] - 1 + Weight(s[3])
      BY <1>2, <2>2
    <2> QED
      BY <1>4, <1>6, <2>2, <2>3
  <1>8. PICK E : E = ItemEnds(s, T)
    OBVIOUS
  <1>9. \A j : j \in E <=> (j \in 1..L /\ T[j] = 0)
    BY <1>1, <1>8 DEF ItemEnds
  <1>10. 1 \notin E /\ 2 \notin E
    <2>1. 1 \notin E
      <3>1. 1 \in E => L >= 1 /\ T[1] = 0
        BY <1>1, <1>9
      <3> QED
        BY <1>5, <3>1
    <2>2. 2 \notin E
      <3>1. 2 \in E => L >= 2 /\ T[2] = 0
        BY <1>1, <1>9
      <3> QED
        BY <1>6, <3>1
    <2> QED
      BY <2>1, <2>2
  <1>11. ASSUME NEW j \in E
         PROVE  j \in 1..L /\ 3 <= j
    <2>1. j \in 1..L
      BY <1>9
    <2>2. j # 1 /\ j # 2
      BY <1>10
    <2> QED
      BY <1>1, <2>1, <2>2
  <1>12. L < 3 => E = {}
    <2>1. ASSUME L < 3, NEW j \in E
          PROVE  FALSE
      BY <1>1, <1>11, <2>1
    <2> QED
      BY <2>1
  <1>13. L >= 3 => 3 \in E
    BY <1>1, <1>7, <1>9
  <1> QED
    BY <1>1, <1>8, <1>11, <1>12, <1>13

(* The item skipped is followed by the rest.                               *)
LEMMA SkipTwo ==
  ASSUME NEW n, NEW k, NEW x, Is3(x, Arr(2), Int64(n), Int64(k)), NEW r, IsVec(r),
         NEW m, NEW g, NEW d, Sees(x \o r, m, g, d)
  PROVE  Sees(r, m, g, Skip(d))
  <1>1. PICK A, B, C : A = Arr(2) /\ B = Int64(n) /\ C = Int64(k)
    OBVIOUS
  <1>2. PICK z2 : z2 = Cons(C, r) /\ IsVec(z2) /\ Len(z2) = Len(r) + 1 /\ z2[1] = C /\ \A i \in 1..Len(r) : z2[i + 1] = r[i]
    BY VecCons
  <1>3. PICK z1 : z1 = Cons(B, z2) /\ IsVec(z1) /\ Len(z1) = Len(z2) + 1 /\ z1[1] = B /\ \A i \in 1..Len(z2) : z1[i + 1] = z2[i]
    BY <1>2, VecCons
  <1>4. PICK z : z = Cons(A, z1) /\ IsVec(z) /\ Len(z) = Len(z1) + 1 /\ z[1] = A /\ \A i \in 1..Len(z1) : z[i + 1] = z1[i]
    BY <1>3, VecCons
  <1>5. z = x \o r /\ Sees(z, m, g, d)
    <2>1. x \o r = Cons(Arr(2), Cons(Int64(n), Cons(Int64(k), r)))
      BY Words3
    <2>2. x \o r = z
      BY <1>1, <1>2, <1>3, <1>4, <2>1
    <2> QED
      BY <2>2
  <1>6. PICK R : R = Len(r) /\ R \in Nat /\ Len(z) = R + 3
    <2>1. PICK R : R = Len(r) /\ R \in Nat
      BY VecFacts
    <2>2. Len(z2) = R + 1
      BY <1>2, <2>1
    <2>3. Len(z1) = R + 2
      BY <1>3, <2>1, <2>2
    <2>4. Len(z) = R + 3
      BY <1>4, <2>1, <2>3
    <2> QED
      BY <2>1, <2>4
  <1>7. z[1] = A /\ z[2] = B /\ z[3] = C /\ \A i \in 1..R : z[i + 3] = r[i]
    <2>1. 1 \in 1..Len(z1) /\ 1 \in 1..Len(z2) /\ 2 \in 1..Len(z1)
      BY <1>2, <1>3, <1>6
    <2>2. z[1 + 1] = z1[1] /\ z[2 + 1] = z1[2] /\ z1[1 + 1] = z2[1]
      BY <1>3, <1>4, <2>1
    <2>3. ASSUME NEW i \in 1..R
          PROVE  z[i + 3] = r[i]
      <3>1. i + 1 \in 1..Len(z2) /\ i + 2 \in 1..Len(z1)
        BY <1>2, <1>3, <1>6
      <3>2. z[(i + 2) + 1] = z1[i + 2] /\ z1[(i + 1) + 1] = z2[i + 1] /\ z2[i + 1] = r[i]
        BY <1>2, <1>3, <1>4, <1>6, <3>1
      <3> QED
        BY <3>2
    <2> QED
      BY <1>2, <1>3, <1>4, <2>2, <2>3
  <1>8. IsVec(m) /\ IsVec(g) /\ IsVec(d.rest) /\ Len(m) \in Nat /\ d = [rest |-> d.rest, got |-> d.got, st |-> d.st]
    BY <1>5, SeesTypes
  <1>9. CASE d.st # "ok"
    <2>1. Skip(d) = d
      BY <1>9 DEF Skip
    <2>2. Sees(r, m, g, d)
      <3>1. Len(r) <= Len(z)
        BY <1>6
      <3> QED
        BY <1>5, <1>8, <1>9, <3>1, StaysEnded
    <2> QED
      BY <2>1, <2>2
  <1>10. CASE d.st = "ok"
    <2>1. PICK s, L : s = d.rest /\ L = Len(s) /\ IsVec(s) /\ L \in Nat
      BY <1>8, VecFacts
    <2>2. s \o m = z /\ d.got = g /\ L + Len(m) = R + 3
      <3>1. Len(m) <= Len(z) /\ d.got = g /\ Len(d.rest) + Len(m) = Len(z)
        BY <1>5, <1>10, SeesTypes
      <3>2. d.rest \o m = z
        BY <1>5, <3>1 DEF Sees
      <3> QED
        BY <1>6, <2>1, <3>1, <3>2
    <2>3. /\ \A i \in 1..L : z[i] = s[i]
          /\ \A i \in 1..Len(m) : z[L + i] = m[i]
      <3>1. /\ \A i \in 1..Len(s) : (s \o m)[i] = s[i]
            /\ \A i \in 1..Len(m) : (s \o m)[Len(s) + i] = m[i]
        BY <1>8, <2>1, VecConcat
      <3>2. s \o m = z /\ Len(s) = L
        BY <2>1, <2>2
      <3> QED
        BY <3>1, <3>2
    <2>4. PICK T : LeftTable(s, T) /\ Skip(d) = SkipBy(d, ItemEnds(s, T))
      BY <1>10, <2>1, SkipIs
    <2>5. PICK E : E = ItemEnds(s, T)
      OBVIOUS
    <2>6. (L < 3 => E = {}) /\ (L >= 3 => 3 \in E /\ \A j \in E : 3 <= j)
      <3>1. (L >= 1 => s[1] = Arr(2)) /\ (L >= 2 => s[2] = Int64(n)) /\ (L >= 3 => s[3] = Int64(k))
        <4>1. L >= 1 => z[1] = s[1]
          BY <2>1, <2>3
        <4>2. L >= 2 => z[2] = s[2]
          BY <2>1, <2>3
        <4>3. L >= 3 => z[3] = s[3]
          BY <2>1, <2>3
        <4> QED
          BY <1>1, <1>7, <4>1, <4>2, <4>3
      <3> QED
        BY <2>1, <2>4, <2>5, <3>1, LeftOver
    <2>7. CASE L < 3
      <3>1. PICK e : e = [d EXCEPT !.st = "end"]
        OBVIOUS
      <3>2. Skip(d) = e
        BY <2>4, <2>5, <2>6, <2>7, <3>1 DEF SkipBy
      <3>3. e.rest = s /\ e.st = "end" /\ e = [rest |-> e.rest, got |-> e.got, st |-> e.st]
        BY <1>8, <2>1, <3>1
      <3>4. Len(m) > Len(r)
        BY <1>6, <1>8, <2>1, <2>2, <2>7
      <3>5. ~(Len(m) <= Len(r))
        BY <1>6, <1>8, <3>4
      <3>6. Sees(r, m, g, e)
        BY <1>8, <2>1, <3>3, <3>5 DEF Sees
      <3> QED
        BY <3>2, <3>6
    <2>8. CASE L >= 3
      <3>1. PICK u, e : u = SubSeq(s, 4, L) /\ e = [d EXCEPT !.rest = u]
        OBVIOUS
      <3>2. Skip(d) = e
        <4>1. PICK j : j = CHOOSE i \in E : \A b \in E : i <= b
          OBVIOUS
        <4>2. j \in E /\ \A b \in E : j <= b
          BY <2>6, <2>8, <4>1
        <4>3. E \subseteq Nat
          BY <2>5 DEF ItemEnds
        <4>4. j = 3
          BY <2>6, <2>8, <4>2, <4>3
        <4>5. E # {}
          BY <2>6, <2>8
        <4>6. SkipBy(d, E) = [d EXCEPT !.rest = SubSeq(@, j + 1, Len(@))]
          BY <4>1, <4>5 DEF SkipBy
        <4>7. [d EXCEPT !.rest = SubSeq(@, j + 1, Len(@))] = e
          BY <2>1, <3>1, <4>4
        <4> QED
          BY <2>4, <2>5, <4>6, <4>7
      <3>3. e.rest = u /\ e.st = "ok" /\ e.got = g /\ e = [rest |-> e.rest, got |-> e.got, st |-> e.st]
        BY <1>8, <1>10, <2>2, <3>1
      <3>4. IsVec(u) /\ Len(u) = L - 3 /\ \A i \in 1..(L - 3) : u[i] = s[i + 3]
        <4>1. PICK j : j = 4
          OBVIOUS
        <4>2. j \in Nat \ {0} /\ L \in 0..Len(s) /\ IsVec(s)
          BY <2>1, <4>1
        <4>3. /\ IsVec(SubSeq(s, j, L)) /\ Len(SubSeq(s, j, L)) = (IF j <= L THEN L - j + 1 ELSE 0)
              /\ \A i \in 1..(L - j + 1) : SubSeq(s, j, L)[i] = s[j + i - 1]
          BY <4>2, VecPart
        <4>4. u = SubSeq(s, j, L)
          BY <2>1, <3>1, <4>1
        <4>5. IsVec(u) /\ Len(u) = (IF 4 <= L THEN L - 4 + 1 ELSE 0) /\ \A i \in 1..(L - 4 + 1) : u[i] = s[4 + i - 1]
          BY <4>1, <4>3, <4>4
        <4>6. L - 4 + 1 = L - 3 /\ Len(u) = L - 3
          BY <2>1, <2>8, <4>5
        <4> QED
          BY <4>5, <4>6
      <3>5. PICK v : /\ v = u \o m /\ IsVec(v) /\ Len(v) = Len(u) + Len(m)
                     /\ \A i \in 1..Len(u) : v[i] = u[i]
                     /\ \A i \in 1..Len(m) : v[Len(u) + i] = m[i]
        <4>1. IsVec(u) /\ IsVec(m)
          BY <1>8, <3>4
        <4>2. IsVec(u \o m) /\ Len(u \o m) = Len(u) + Len(m)
          BY <4>1, VecConcat
        <4>3. \A i \in 1..Len(u) : (u \o m)[i] = u[i]
          BY <4>1, VecConcat
        <4>4. \A i \in 1..Len(m) : (u \o m)[Len(u) + i] = m[i]
          BY <4>1, VecConcat
        <4> QED
          BY <4>2, <4>3, <4>4
      <3>6. Len(v) = R
        <4>1. PICK M : M = Len(m) /\ M \in Nat
          BY <1>8
        <4>2. L + M = R + 3 /\ Len(v) = (L - 3) + M
          BY <2>2, <3>4, <3>5, <4>1
        <4> QED
          BY <1>6, <2>1, <4>1, <4>2
      <3>7. ASSUME NEW i \in 1..R
            PROVE  v[i] = r[i]
        <4>1. z[i + 3] = r[i]
          BY <1>7
        <4>2. CASE i <= L - 3
          <5>1. i \in 1..(L - 3) /\ i \in 1..Len(u) /\ i + 3 \in 1..L
            BY <1>6, <2>1, <3>4, <4>2
          <5>2. v[i] = u[i] /\ u[i] = s[i + 3] /\ z[i + 3] = s[i + 3]
            BY <2>3, <3>4, <3>5, <5>1
          <5> QED
            BY <4>1, <5>2
        <4>3. CASE ~(i <= L - 3)
          <5>1. PICK j : j = i - (L - 3) /\ j \in 1..Len(m) /\ i + 3 = L + j /\ i = Len(u) + j
            BY <1>6, <1>8, <2>1, <2>2, <2>8, <3>4, <4>3
          <5>2. v[Len(u) + j] = m[j] /\ z[L + j] = m[j]
            BY <2>3, <3>5, <5>1
          <5> QED
            BY <4>1, <5>1, <5>2
        <4> QED
          BY <4>2, <4>3
      <3>8. v = r
        BY <1>6, <3>5, <3>6, <3>7, VecEqual
      <3>9. Len(m) <= Len(r)
        BY <1>6, <1>8, <2>1, <2>2, <2>8
      <3>10. ~(Len(m) > Len(r))
        BY <1>6, <1>8, <3>9
      <3>11. Sees(r, m, g, e)
        BY <1>8, <3>3, <3>4, <3>5, <3>8, <3>9, <3>10 DEF Sees
      <3> QED
        BY <3>2, <3>11
    <2> QED
      BY <2>1, <2>7, <2>8
  <1> QED
    BY <1>9, <1>10

-----------------------------------------------------------------------------
(* Metrics                                                                 *)

(* A length, a tag and what follows.                                       *)
LEMMA TagJoin ==
  ASSUME NEW k, NEW t, t \in U8 \cap U16, NEW x, IsVec(x), NEW u, u = <<Int64(t)>> \o x, NEW w, w = <<Arr(k)>> \o u
  PROVE  TagWord(w, k, t, x)
  <1>1. PICK a, b, A, B : a = Arr(k) /\ b = Int64(t) /\ A = <<a>> /\ B = <<b>>
    OBVIOUS
  <1>2. IsVec(A) /\ IsVec(B)
    BY <1>1, Tuples
  <1>3. Assoc(A, B, x)
    BY <1>2, VecsAssoc
  <1>4. A \o B = <<a, b>>
    BY <1>1, TwoWords
  <1>5. w = A \o (B \o x)
    BY <1>1
  <1>6. w = <<a, b>> \o x
    BY <1>3, <1>4, <1>5 DEF Assoc
  <1> QED
    BY <1>1, <1>6 DEF TagWord

(* A token and nothing else.                                               *)
LEMMA OneToken ==
  ASSUME NEW tok, NEW want, NEW n, FitsAs(tok, want, n), NEW r, IsVec(r),
         NEW m, NEW h, NEW a, Sees(Cons(tok, r), m, h, a), NEW e, e = Read(a, want)
  PROVE  Sees(r, m, Append(h, n), e) /\ (e.st = "ok" => Last(e.got) = n)
  <1>2. Fits(tok, want) /\ tok[2] = n
    BY DEF FitsAs
  <1>3. Sees(r, m, Append(h, tok[2]), Read(a, want))
    BY <1>2, ReadToken
  <1>4. Sees(r, m, Append(h, n), e)
    BY <1>2, <1>3
  <1>5. IsVec(h)
    BY SeesTypes
  <1> QED
    BY <1>4, <1>5, LastRead

(* DecodeValue reads a counter as it was written (server/ekg.rs).          *)
LEMMA SpellsCounter ==
  ASSUME NEW n, NEW v, v = <<"counter", n>>
  PROVE  Spells("value", EncodeValue(v), v)
  <1>1. PICK w, k, t, tok, x, u : /\ w = EncodeValue(v) /\ k = 2 /\ t = 0 /\ tok = Int64(n) /\ x = <<tok>>
                                  /\ u = <<Int64(t)>> \o x
    OBVIOUS
  <1>2. TagWord(w, k, t, x)
    <2>1. v[1] = "counter" /\ v[2] = n
      OBVIOUS
    <2>2. u = <<Int64(0), Int64(n)>>
      BY <1>1, TwoWords
    <2>3. EncodeValue(v) = <<Arr(2)>> \o <<Int64(0), Int64(v[2])>>
      BY <2>1 DEF EncodeValue
    <2>4. w = <<Arr(k)>> \o u
      BY <1>1, <2>1, <2>2, <2>3
    <2>5. IsVec(x) /\ t \in U8 \cap U16
      BY <1>1, Tuples, Small
    <2> QED
      BY <1>1, <2>4, <2>5, TagJoin
  <1>3. ASSUME NEW r, NEW m, NEW g, NEW d, NEW z, NEW q, NEW a, NEW h, IsVec(r), q = x \o r, Shorter(r, q),
               TagRead(z, q, m, g, d, "u8", k, t, a, h)
        PROVE  BodyRead("value", r, m, d, a, v)
    <2>1. a = Reads(d, <<"array", "u8">>) /\ (a.st = "ok" => Last(a.got) = t) /\ Sees(q, m, h, a)
      BY <1>3 DEF TagRead
    <2>2. PICK e, c, X, f : e = Read(a, "i64") /\ c = <<"counter", Last(e.got)>> /\ X = DecodeValue(d) /\ f = Append(h, n)
      OBVIOUS
    <2>3. Sees(r, m, f, e) /\ (e.st = "ok" => Last(e.got) = n)
      <3>1. FitsAs(tok, "i64", n)
        BY <1>1, TokenI64
      <3>2. Sees(Cons(tok, r), m, h, a)
        BY <1>1, <1>3, <2>1 DEF Cons
      <3>3. e = Read(a, "i64") /\ IsVec(r)
        BY <1>3, <2>2
      <3>4. Sees(r, m, Append(h, n), e) /\ (e.st = "ok" => Last(e.got) = n)
        BY <3>1, <3>2, <3>3, OneToken
      <3> QED
        BY <2>2, <3>4
    <2>4. a.st # "ok" => X = a
      BY <2>1, <2>2 DEF DecodeValue
    <2>5. a.st = "ok" => X = Made(d, e, c)
      BY <1>1, <2>1, <2>2 DEF DecodeValue
    <2>6. e.st = "ok" => c = v
      BY <2>2, <2>3
    <2>7. ItemOf("value", d) = X
      BY <2>2, Kinds
    <2> QED
      BY <2>3, <2>4, <2>5, <2>6, <2>7 DEF BodyRead
  <1>4. Spells("value", w, v)
    <2>1. BodiesRead("value", "u8", k, t, x, v)
      BY <1>3 DEF BodiesRead
    <2> QED
      BY <1>2, <2>1, TagSpells
  <1> QED
    BY <1>1, <1>4

(* DecodeValue reads a gauge as it was written.                            *)
LEMMA SpellsGauge ==
  ASSUME NEW n, NEW v, v = <<"gauge", n>>
  PROVE  Spells("value", EncodeValue(v), v)
  <1>1. PICK w, k, t, tok, x, u : /\ w = EncodeValue(v) /\ k = 2 /\ t = 1 /\ tok = Int64(n) /\ x = <<tok>>
                                  /\ u = <<Int64(t)>> \o x
    OBVIOUS
  <1>2. TagWord(w, k, t, x)
    <2>1. v[1] = "gauge" /\ v[2] = n
      OBVIOUS
    <2>2. u = <<Int64(1), Int64(n)>>
      BY <1>1, TwoWords
    <2>3. EncodeValue(v) = <<Arr(2)>> \o <<Int64(1), Int64(v[2])>>
      BY <2>1 DEF EncodeValue
    <2>4. w = <<Arr(k)>> \o u
      BY <1>1, <2>1, <2>2, <2>3
    <2>5. IsVec(x) /\ t \in U8 \cap U16
      BY <1>1, Tuples, Small
    <2> QED
      BY <1>1, <2>4, <2>5, TagJoin
  <1>3. ASSUME NEW r, NEW m, NEW g, NEW d, NEW z, NEW q, NEW a, NEW h, IsVec(r), q = x \o r, Shorter(r, q),
               TagRead(z, q, m, g, d, "u8", k, t, a, h)
        PROVE  BodyRead("value", r, m, d, a, v)
    <2>1. a = Reads(d, <<"array", "u8">>) /\ (a.st = "ok" => Last(a.got) = t) /\ Sees(q, m, h, a)
      BY <1>3 DEF TagRead
    <2>2. PICK e, c, X, f : e = Read(a, "i64") /\ c = <<"gauge", Last(e.got)>> /\ X = DecodeValue(d) /\ f = Append(h, n)
      OBVIOUS
    <2>3. Sees(r, m, f, e) /\ (e.st = "ok" => Last(e.got) = n)
      <3>1. FitsAs(tok, "i64", n)
        BY <1>1, TokenI64
      <3>2. Sees(Cons(tok, r), m, h, a)
        BY <1>1, <1>3, <2>1 DEF Cons
      <3>3. e = Read(a, "i64") /\ IsVec(r)
        BY <1>3, <2>2
      <3>4. Sees(r, m, Append(h, n), e) /\ (e.st = "ok" => Last(e.got) = n)
        BY <3>1, <3>2, <3>3, OneToken
      <3> QED
        BY <2>2, <3>4
    <2>4. a.st # "ok" => X = a
      BY <2>1, <2>2 DEF DecodeValue
    <2>5. a.st = "ok" => X = Made(d, e, c)
      BY <1>1, <2>1, <2>2 DEF DecodeValue
    <2>6. e.st = "ok" => c = v
      BY <2>2, <2>3
    <2>7. ItemOf("value", d) = X
      BY <2>2, Kinds
    <2> QED
      BY <2>3, <2>4, <2>5, <2>6, <2>7 DEF BodyRead
  <1>4. Spells("value", w, v)
    <2>1. BodiesRead("value", "u8", k, t, x, v)
      BY <1>3 DEF BodiesRead
    <2> QED
      BY <1>2, <2>1, TagSpells
  <1> QED
    BY <1>1, <1>4

(* DecodeValue reads a label as it was written.                            *)
LEMMA SpellsLabel ==
  ASSUME NEW n, NEW v, v = <<"label", n>>
  PROVE  Spells("value", EncodeValue(v), v)
  <1>1. PICK w, k, t, tok, x, u : /\ w = EncodeValue(v) /\ k = 2 /\ t = 2 /\ tok = Str(n) /\ x = <<tok>>
                                  /\ u = <<Int64(t)>> \o x
    OBVIOUS
  <1>2. TagWord(w, k, t, x)
    <2>1. v[1] = "label" /\ v[2] = n
      OBVIOUS
    <2>2. u = <<Int64(2), Str(n)>>
      BY <1>1, TwoWords
    <2>3. EncodeValue(v) = <<Arr(2)>> \o <<Int64(2), Str(v[2])>>
      BY <2>1 DEF EncodeValue
    <2>4. w = <<Arr(k)>> \o u
      BY <1>1, <2>1, <2>2, <2>3
    <2>5. IsVec(x) /\ t \in U8 \cap U16
      BY <1>1, Tuples, Small
    <2> QED
      BY <1>1, <2>4, <2>5, TagJoin
  <1>3. ASSUME NEW r, NEW m, NEW g, NEW d, NEW z, NEW q, NEW a, NEW h, IsVec(r), q = x \o r, Shorter(r, q),
               TagRead(z, q, m, g, d, "u8", k, t, a, h)
        PROVE  BodyRead("value", r, m, d, a, v)
    <2>1. a = Reads(d, <<"array", "u8">>) /\ (a.st = "ok" => Last(a.got) = t) /\ Sees(q, m, h, a)
      BY <1>3 DEF TagRead
    <2>2. PICK e, c, X, f : e = Read(a, "str") /\ c = <<"label", Last(e.got)>> /\ X = DecodeValue(d) /\ f = Append(h, n)
      OBVIOUS
    <2>3. Sees(r, m, f, e) /\ (e.st = "ok" => Last(e.got) = n)
      <3>1. FitsAs(tok, "str", n)
        BY <1>1, TokenStr
      <3>2. Sees(Cons(tok, r), m, h, a)
        BY <1>1, <1>3, <2>1 DEF Cons
      <3>3. e = Read(a, "str") /\ IsVec(r)
        BY <1>3, <2>2
      <3>4. Sees(r, m, Append(h, n), e) /\ (e.st = "ok" => Last(e.got) = n)
        BY <3>1, <3>2, <3>3, OneToken
      <3> QED
        BY <2>2, <3>4
    <2>4. a.st # "ok" => X = a
      BY <2>1, <2>2 DEF DecodeValue
    <2>5. a.st = "ok" => X = Made(d, e, c)
      BY <1>1, <2>1, <2>2 DEF DecodeValue, Text
    <2>6. e.st = "ok" => c = v
      BY <2>2, <2>3
    <2>7. ItemOf("value", d) = X
      BY <2>2, Kinds
    <2> QED
      BY <2>3, <2>4, <2>5, <2>6, <2>7 DEF BodyRead
  <1>4. Spells("value", w, v)
    <2>1. BodiesRead("value", "u8", k, t, x, v)
      BY <1>3 DEF BodiesRead
    <2> QED
      BY <1>2, <2>1, TagSpells
  <1> QED
    BY <1>1, <1>4

(* DecodeValue skips a value of a kind it does not know, all of it and     *)
(* nothing more, and reads it as the unknown label.                        *)
LEMMA SpellsOther ==
  ASSUME NEW n, NEW v, v = <<"other", n>>
  PROVE  Spells("value", EncodeValue(v), UnknownLabel)
  <1>1. PICK w, k, t, x, u : /\ w = EncodeValue(v) /\ k = 2 /\ t = 3 /\ x = <<Arr(2), Int64(n), Int64(n)>>
                             /\ u = <<Int64(t)>> \o x
    OBVIOUS
  <1>2. TagWord(w, k, t, x)
    <2>1. v[1] = "other" /\ v[2] = n
      OBVIOUS
    <2>2. u = <<Int64(3), Arr(2), Int64(n), Int64(n)>>
      BY <1>1, TwoWords
    <2>3. EncodeValue(v) = <<Arr(2)>> \o <<Int64(3), Arr(2), Int64(v[2]), Int64(v[2])>>
      BY <2>1 DEF EncodeValue
    <2>4. w = <<Arr(k)>> \o u
      BY <1>1, <2>1, <2>2, <2>3
    <2>5. IsVec(x) /\ t \in U8 \cap U16
      BY <1>1, Tuples, Small
    <2> QED
      BY <1>1, <2>4, <2>5, TagJoin
  <1>3. ASSUME NEW r, NEW m, NEW g, NEW d, NEW z, NEW q, NEW a, NEW h, IsVec(r), q = x \o r, Shorter(r, q),
               TagRead(z, q, m, g, d, "u8", k, t, a, h)
        PROVE  BodyRead("value", r, m, d, a, UnknownLabel)
    <2>1. a = Reads(d, <<"array", "u8">>) /\ (a.st = "ok" => Last(a.got) = t) /\ Sees(q, m, h, a)
      BY <1>3 DEF TagRead
    <2>2. PICK e, X : e = Skip(a) /\ X = DecodeValue(d)
      OBVIOUS
    <2>3. Sees(r, m, h, e)
      <3>1. Is3(x, Arr(2), Int64(n), Int64(n))
        BY <1>1 DEF Is3
      <3>2. Sees(x \o r, m, h, a)
        BY <1>3, <2>1
      <3> QED
        BY <1>3, <2>2, <3>1, <3>2, SkipTwo
    <2>4. a.st # "ok" => X = a
      BY <2>1, <2>2 DEF DecodeValue
    <2>5. a.st = "ok" => X = Made(d, e, UnknownLabel)
      BY <1>1, <2>1, <2>2 DEF DecodeValue, SkipUnknown
    <2>6. ItemOf("value", d) = X
      BY <2>2, Kinds
    <2> QED
      BY <2>3, <2>4, <2>5, <2>6 DEF BodyRead
  <1>4. Spells("value", w, UnknownLabel)
    <2>1. BodiesRead("value", "u8", k, t, x, UnknownLabel)
      BY <1>3 DEF BodiesRead
    <2> QED
      BY <1>2, <2>1, TagSpells
  <1> QED
    BY <1>1, <1>4

(* A value of a kind nobody here knows is read as a label.                 *)
LEMMA SpellsValue ==
  ASSUME NEW v, IsValue(v)
  PROVE  Spells("value", EncodeValue(v), Known(v))
  <1>1. PICK c, n : v = <<c, n>> /\ c \in {"counter", "gauge", "label", "other"}
    BY DEF IsValue
  <1>2. v[1] = c
    BY <1>1
  <1>3. CASE c = "counter"
    BY <1>1, <1>2, <1>3, SpellsCounter DEF Known
  <1>4. CASE c = "gauge"
    BY <1>1, <1>2, <1>4, SpellsGauge DEF Known
  <1>5. CASE c = "label"
    BY <1>1, <1>2, <1>5, SpellsLabel DEF Known
  <1>6. CASE c = "other"
    BY <1>1, <1>2, <1>6, SpellsOther DEF Known
  <1> QED
    BY <1>1, <1>3, <1>4, <1>5, <1>6

(* DecodeMetric reads a name and a value as they were written, up to       *)
(* values of an unknown kind.                                              *)
LEMMA SpellsMetric ==
  ASSUME NEW n, NEW v, IsValue(v)
  PROVE  Spells("metric", EncodeMetric(n, v), <<n, Known(v)>>)
  <1>1. PICK w, x, kn, p : w = EncodeMetric(n, v) /\ x = EncodeValue(v) /\ kn = Known(v) /\ p = <<n, kn>>
    OBVIOUS
  <1>2. Spells("value", x, kn)
    BY <1>1, SpellsValue
  <1>3. PICK a, b : a = Arr(2) /\ b = Str(n) /\ Opens(w, a, b, x)
    <2>1. PICK a, b, u : a = Arr(2) /\ b = Str(n) /\ u = <<a, b>>
      OBVIOUS
    <2>2. w = u \o x
      BY <1>1, <2>1 DEF EncodeMetric
    <2>3. IsVec(x)
      BY <1>2 DEF Spells, Leads
    <2>4. a[1] # "break"
      BY <2>1 DEF Arr
    <2>5. Is2(u, a, b)
      BY <2>1 DEF Is2
    <2>6. Opens(w, a, b, x)
      BY <2>2, <2>3, <2>4, <2>5 DEF Opens
    <2> QED
      BY <2>1, <2>6
  <1>4. Leads(w)
    <2>1. IsVec(<< >>)
      BY Tuples
    <2> QED
      BY <1>3, <2>1, TaggedStream
  <1>5. ASSUME NEW r, NEW m, NEW g, NEW d, IsVec(r), IsVec(g), Sees(w \o r, m, g, d),
               SeesSince(w \o r, m, g, << >>, d), Len(r) <= Len(w \o r), IsVec(w)
        PROVE  Sees(r, m, Append(g, p), ItemOf("metric", d))
    <2>1. PICK q2, q1, z : q2 = x \o r /\ q1 = Cons(Str(n), q2) /\ z = Cons(Arr(2), q1) /\ z = w \o r /\ IsVec(q2)
      <3>1. w \o r = Cons(a, Cons(b, x \o r)) /\ IsVec(x \o r)
        BY <1>3, <1>5, TaggedStream
      <3> QED
        BY <1>3, <3>1
    <2>2. IsVec(q1) /\ IsVec(z) /\ IsVec(r) /\ IsVec(q2)
      BY <1>5, <2>1, VecCons
    <2>3. SeesSince(z, m, g, << >>, d) /\ Sees(z, m, g, d) /\ Len(r) <= Len(z)
      BY <1>5, <2>1
    <2>4. PICK d1 : d1 = Read(d, "array") /\ SeesSince(q1, m, g, <<2>>, d1)
      <3>1. FitsAs(Arr(2), "array", 2)
        BY TokenArr
      <3>2. Grows(<< >>, 2, <<2>>)
        BY GrowsTuples
      <3>3. SeesSince(Cons(Arr(2), q1), m, g, << >>, d) /\ IsVec(q1)
        BY <2>1, <2>2, <2>3
      <3>4. SeesSince(q1, m, g, <<2>>, Read(d, "array"))
        BY <3>1, <3>2, <3>3, ReadNext
      <3> QED
        BY <3>4
    <2>5. PICK d2 : d2 = Read(d1, "str") /\ SeesSince(q2, m, g, <<2, n>>, d2)
      <3>1. FitsAs(Str(n), "str", n)
        BY TokenStr
      <3>2. Grows(<<2>>, n, <<2, n>>)
        BY GrowsTuples
      <3>3. SeesSince(Cons(Str(n), q2), m, g, <<2>>, d1) /\ IsVec(q2)
        BY <2>1, <2>2, <2>4
      <3>4. SeesSince(q2, m, g, <<2, n>>, Read(d1, "str"))
        BY <3>1, <3>2, <3>3, ReadNext
      <3> QED
        BY <3>4
    <2>6. PICK e : e = ItemOf("value", d2) /\ SeesSince(r, m, g, <<2, n, kn>>, e)
      <3>1. Spells("value", x, kn)
        BY <1>2
      <3>2. Grows(<<2, n>>, kn, <<2, n, kn>>)
        BY GrowsTuples
      <3>3. SeesSince(x \o r, m, g, <<2, n>>, d2) /\ IsVec(r)
        BY <2>1, <2>2, <2>5
      <3>4. SeesSince(r, m, g, <<2, n, kn>>, ItemOf("value", d2))
        BY <3>1, <3>2, <3>3, SpelledNext
      <3> QED
        BY <3>4
    <2>7. PICK c : c = Tail(Since(d, e))
      OBVIOUS
    <2>8. DecodeMetric(d) = Made(d, e, c)
      <3>1. d2 = Text(d1)
        BY <2>5 DEF Text
      <3>2. e = DecodeValue(d2)
        BY <2>6, Kinds
      <3> QED
        BY <2>4, <2>7, <3>1, <3>2 DEF DecodeMetric
    <2>9. ASSUME e.st = "ok"
          PROVE  c = p
      <3>1. PICK vs : vs = <<2, n, kn>>
        OBVIOUS
      <3>2. Since(d, e) = vs
        <4>1. SeesSince(r, m, g, vs, e)
          BY <2>6, <3>1
        <4> QED
          BY <2>3, <2>9, <4>1, SinceThen
      <3>3. Tail(vs) = <<n, kn>>
        BY <3>1
      <3> QED
        BY <1>1, <2>7, <3>2, <3>3
    <2>10. Sees(r, m, g \o <<2, n, kn>>, e)
      BY <2>6 DEF SeesSince
    <2>11. Sees(r, m, Append(g, p), Made(d, e, c))
      BY <2>3, <2>9, <2>10, MadeOne
    <2>12. ItemOf("metric", d) = DecodeMetric(d)
      BY DEF ItemOf
    <2> QED
      BY <2>8, <2>11, <2>12
  <1>6. Spells("metric", w, p)
    BY <1>4, <1>5, SpellsIf
  <1> QED
    BY <1>1, <1>6

-----------------------------------------------------------------------------
(* EKG messages                                                            *)

(* After the head of a message its length and its tag have been read.      *)
LEMMA TagSince ==
  ASSUME NEW z, NEW q, NEW m, NEW g, NEW d, NEW want, NEW k, NEW t, NEW a, NEW h,
         TagRead(z, q, m, g, d, want, k, t, a, h)
  PROVE  a.st = "ok" => Since(d, a) = <<k, t>>
  <1>1. SUFFICES ASSUME a.st = "ok" PROVE Since(d, a) = <<k, t>>
    OBVIOUS
  <1>2. Sees(z, m, g, d) /\ SeesSince(q, m, g, <<k, t>>, a) /\ Len(q) <= Len(z)
    BY DEF TagRead, Shorter
  <1> QED
    BY <1>1, <1>2, SinceThen

(* DecodeEkg reads a request as it was written (server/ekg.rs).            *)
LEMMA SpellsReq ==
  ASSUME NEW y, y.is = "Req", y \in [is : {"Req"}, all : BOOLEAN], NEW form, NEW order
  PROVE  Spells("ekg message", EncodeEkg(form, y, order), y)
  <1>1. PICK w, al, p, x, k, t : /\ w = EncodeEkg(form, y, order) /\ al = y.all /\ p = (IF al THEN 0 ELSE 2)
                                 /\ x = <<Arr(1), Int64(p)>> /\ k = 2 /\ t = 0
    OBVIOUS
  <1>2. al \in BOOLEAN /\ y = [is |-> "Req", all |-> al] /\ p \in {0, 2} /\ (p = 0 <=> al)
    BY <1>1
  <1>3. TagWord(w, k, t, x)
    <2>1. w = <<Arr(2), Int64(0), Arr(1), Int64(p)>>
      BY <1>1 DEF EncodeEkg
    <2>2. <<Arr(2), Int64(0)>> \o x = <<Arr(2), Int64(0), Arr(1), Int64(p)>>
      BY <1>1, TwoAndTwo
    <2>3. IsVec(x)
      BY <1>1, Tuples
    <2> QED
      BY <1>1, <2>1, <2>2, <2>3, Small DEF TagWord
  <1>4. ASSUME NEW r, NEW m, NEW g, NEW d, NEW z, NEW q, NEW a, NEW h, IsVec(r), q = x \o r, Shorter(r, q),
               TagRead(z, q, m, g, d, "u8", k, t, a, h)
        PROVE  BodyRead("ekg message", r, m, d, a, y)
    <2>1. a = Reads(d, <<"array", "u8">>) /\ Sees(q, m, h, a)
      BY <1>4 DEF TagRead
    <2>2. a.st = "ok" => Since(d, a) = <<2, 0>>
      <3>1. a.st = "ok" => Since(d, a) = <<k, t>>
        BY <1>4, TagSince
      <3> QED
        BY <1>1, <3>1
    <2>3. PICK e, v, X, f : /\ e = Reads(a, <<"array", "u8">>) /\ v = [is |-> "Req", all |-> Last(e.got) = 0]
                            /\ X = DecodeEkg(d) /\ f = h \o <<1, p>>
      OBVIOUS
    <2>4. SeesSince(r, m, h, <<1, p>>, e) /\ (e.st = "ok" => Last(e.got) = p)
      <3>1. Starts(q, 1, p, r)
        <4>1. Is2(x, Arr(1), Int64(p))
          BY <1>1 DEF Is2
        <4>2. x \o r = Cons(Arr(1), Cons(Int64(p), r))
          BY <1>4, <4>1, Words2
        <4>3. p \in U8 \cap U16
          BY <1>2, Small
        <4> QED
          BY <1>4, <4>2, <4>3 DEF Starts
      <3>2. Heads(a, "u8", e)
        BY <2>3 DEF Heads
      <3> QED
        BY <2>1, <3>1, <3>2, Tagged
    <2>5. Sees(r, m, f, e)
      BY <2>3, <2>4 DEF SeesSince
    <2>6. a.st # "ok" => X = a
      BY <2>1, <2>3 DEF DecodeEkg
    <2>7. a.st = "ok" => X = Made(d, e, v)
      BY <2>1, <2>2, <2>3 DEF DecodeEkg
    <2>8. ASSUME e.st = "ok"
          PROVE  v = y
      <3>1. (Last(e.got) = 0) = al
        BY <1>2, <2>4, <2>8
      <3> QED
        BY <1>2, <2>3, <3>1
    <2>9. ItemOf("ekg message", d) = X
      BY <2>3, Kinds
    <2> QED
      BY <2>5, <2>6, <2>7, <2>8, <2>9 DEF BodyRead
  <1>5. Spells("ekg message", w, y)
    <2>1. BodiesRead("ekg message", "u8", k, t, x, y)
      BY <1>4 DEF BodiesRead
    <2> QED
      BY <1>3, <2>1, TagSpells
  <1> QED
    BY <1>1, <1>5

(* DecodeEkg reads a MsgDone as it was written.                            *)
LEMMA SpellsStop ==
  ASSUME NEW y, y = [is |-> "Done"], NEW form, NEW order
  PROVE  Spells("ekg message", EncodeEkg(form, y, order), y)
  <1>1. PICK w, x, k, t : w = EncodeEkg(form, y, order) /\ x = << >> /\ k = 1 /\ t = 1
    OBVIOUS
  <1>2. TagWord(w, k, t, x)
    <2>1. y.is = "Done"
      OBVIOUS
    <2>2. w = <<Arr(1), Int64(1)>>
      BY <1>1, <2>1 DEF EncodeEkg
    <2>3. w = w \o x /\ IsVec(x)
      BY <1>1, <2>2, Tuples, VecNeutral
    <2> QED
      BY <1>1, <2>2, <2>3, Small DEF TagWord
  <1>3. ASSUME NEW r, NEW m, NEW g, NEW d, NEW z, NEW q, NEW a, NEW h, IsVec(r), q = x \o r, Shorter(r, q),
               TagRead(z, q, m, g, d, "u8", k, t, a, h)
        PROVE  BodyRead("ekg message", r, m, d, a, y)
    <2>1. a = Reads(d, <<"array", "u8">>)
      BY <1>3 DEF TagRead
    <2>2. a.st = "ok" => Since(d, a) = <<1, 1>>
      <3>1. a.st = "ok" => Since(d, a) = <<k, t>>
        BY <1>3, TagSince
      <3> QED
        BY <1>1, <3>1
    <2>3. PICK X : X = DecodeEkg(d)
      OBVIOUS
    <2>4. a.st # "ok" => X = a
      BY <2>1, <2>3 DEF DecodeEkg
    <2>5. a.st = "ok" => X = Made(d, a, y)
      <3>1. <<1, 1>> # <<2, 0>>
        OBVIOUS
      <3> QED
        BY <2>1, <2>2, <2>3, <3>1 DEF DecodeEkg
    <2>6. ItemOf("ekg message", d) = X
      BY <2>3, Kinds
    <2>7. q = << >> \o r
      BY <1>1, <1>3
    <2> QED
      BY <1>3, <2>4, <2>5, <2>6, <2>7, NoBody
  <1>4. Spells("ekg message", w, y)
    <2>1. BodiesRead("ekg message", "u8", k, t, x, y)
      BY <1>3 DEF BodiesRead
    <2> QED
      BY <1>2, <2>1, TagSpells
  <1> QED
    BY <1>1, <1>4

(* DecodeEkg reads a reply as it was written, in either spelling and in    *)
(* any order of its metrics, up to values of an unknown kind.              *)
LEMMA SpellsResp ==
  ASSUME NEW y, y.is = "Resp", y = [is |-> "Resp", metrics |-> y.metrics], IsTable(y.metrics),
         \A k \in DOMAIN y.metrics : IsValue(y.metrics[k]), NEW form, NEW order, Orders(order, DOMAIN y.metrics)
  PROVE  Spells("ekg message", EncodeEkg(form, y, order), AsReceived(y))
  <1>1. PICK w, f, D, F, k, t : /\ w = EncodeEkg(form, y, order) /\ f = y.metrics /\ D = DOMAIN f
                                /\ F = [j \in D |-> Known(f[j])] /\ k = 2 /\ t = 1
    OBVIOUS
  <1>2. Orders(order, D) /\ \A j \in D : IsValue(f[j])
    BY <1>1
  <1>3. AsReceived(y) = [is |-> "Resp", metrics |-> F]
    <2>1. AsReceived(y) = [y EXCEPT !.metrics = [j \in DOMAIN y.metrics |-> Known(y.metrics[j])]]
      BY DEF AsReceived
    <2>2. AsReceived(y) = [y EXCEPT !.metrics = F]
      BY <1>1, <2>1
    <2> QED
      BY <2>2
  <1>4. PICK n : n = Len(order) /\ n \in Nat /\ DOMAIN order = 1..n /\ \A i \in 1..n : order[i] \in D
    BY <1>2, VecFacts DEF Orders
  <1>5. PICK ws, ps : /\ ws = [i \in DOMAIN order |-> EncodeMetric(order[i], f[order[i]])]
                      /\ ps = [i \in DOMAIN order |-> <<order[i], F[order[i]]>>]
    OBVIOUS
  <1>6. IsVec(ps) /\ Len(ps) = n /\ DOMAIN ps = 1..n /\ MapFrom(ps) = F
    <2>1. F = [j \in D |-> F[j]]
      BY <1>1
    <2>2. MapFrom(ps) = F
      <3>1. PairsOf(F, D, order, ps)
        BY <1>2, <1>5, <2>1 DEF PairsOf
      <3> QED
        BY <3>1, MapBuilt
    <2>3. ps = [i \in 1..n |-> ps[i]]
      BY <1>4, <1>5
    <2> QED
      BY <1>4, <2>2, <2>3, TableIsVec
  <1>7. ListSpelled("metric", ws, ps)
    <2>1. ws = [i \in DOMAIN ps |-> ws[i]]
      BY <1>4, <1>5, <1>6
    <2>2. ASSUME NEW i \in DOMAIN ps
          PROVE  Spells("metric", ws[i], ps[i])
      <3>1. PICK a, v : a = order[i] /\ a \in D /\ v = f[a] /\ IsValue(v)
        BY <1>2, <1>4, <1>6
      <3>2. F[a] = Known(v)
        BY <1>1, <3>1
      <3>3. ws[i] = EncodeMetric(a, v) /\ ps[i] = <<a, Known(v)>>
        BY <1>4, <1>5, <1>6, <3>1, <3>2
      <3>4. Spells("metric", EncodeMetric(a, v), <<a, Known(v)>>)
        BY <3>1, SpellsMetric
      <3> QED
        BY <3>3, <3>4
    <2> QED
      BY <1>6, <2>1, <2>2, RangeSpelled
  <1>8. PICK l, A, x : l = List(form, ws) /\ A = <<Arr(2), Int64(0)>> /\ x = A \o l
    OBVIOUS
  <1>9. IsVec(l) /\ IsVec(A) /\ IsVec(x) /\ TagWord(x, 2, 0, l)
    <2>1. IsVec(List(form, ws))
      BY <1>7, ListStream, Tuples DEF ListSpelled
    <2>2. IsVec(A)
      BY <1>8, Tuples
    <2>3. IsVec(l)
      BY <1>8, <2>1
    <2>4. IsVec(x)
      BY <1>8, <2>2, <2>3, VecConcat
    <2>5. TagWord(x, 2, 0, l)
      BY <1>8, <2>3, Small DEF TagWord
    <2> QED
      BY <2>2, <2>3, <2>4, <2>5
  <1>10. TagWord(w, k, t, x)
    <2>1. PICK B : B = <<Arr(2), Int64(1)>> /\ IsVec(B)
      BY Tuples
    <2>2. B \o A = <<Arr(2), Int64(1), Arr(2), Int64(0)>>
      BY <1>8, <2>1, TwoAndTwo
    <2>3. ws = [i \in DOMAIN order |-> EncodeMetric(order[i], y.metrics[order[i]])]
      BY <1>1, <1>5
    <2>4. w = <<Arr(2), Int64(1), Arr(2), Int64(0)>> \o l
      BY <1>1, <1>8, <2>3 DEF EncodeEkg
    <2>5. Assoc(B, A, l)
      BY <1>9, <2>1, VecsAssoc
    <2>6. w = B \o x
      BY <1>8, <2>2, <2>4, <2>5 DEF Assoc
    <2> QED
      BY <1>1, <1>9, <2>1, <2>6, Small DEF TagWord
  <1>11. ASSUME NEW r, NEW m, NEW g, NEW d, NEW z, NEW q, NEW a, NEW h, IsVec(r), q = x \o r, Shorter(r, q),
                TagRead(z, q, m, g, d, "u8", k, t, a, h)
         PROVE  BodyRead("ekg message", r, m, d, a, AsReceived(y))
    <2>1. a = Reads(d, <<"array", "u8">>) /\ Sees(q, m, h, a)
      BY <1>11 DEF TagRead
    <2>2. a.st = "ok" => Since(d, a) = <<2, 1>>
      <3>1. a.st = "ok" => Since(d, a) = <<k, t>>
        BY <1>11, TagSince
      <3> QED
        BY <1>1, <3>1
    <2>3. PICK b, e, v, X : /\ b = Reads(a, <<"array", "u8">>) /\ e = ArrayOf(b, DecodeMetric)
                            /\ v = [is |-> "Resp", metrics |-> MapFrom(Last(e.got))] /\ X = DecodeEkg(d)
      OBVIOUS
    <2>4. PICK g2 : g2 = h \o <<2, 0>> /\ IsVec(g2) /\ Sees(l \o r, m, g2, b)
      <3>1. Starts(x \o r, 2, 0, l \o r)
        BY <1>9, <1>11, TagSpelled
      <3>2. Starts(q, 2, 0, l \o r)
        BY <1>11, <3>1
      <3>3. Heads(a, "u8", b)
        BY <2>3 DEF Heads
      <3>4. SeesSince(l \o r, m, h, <<2, 0>>, b)
        BY <2>1, <3>2, <3>3, Tagged
      <3>5. Sees(l \o r, m, h \o <<2, 0>>, b)
        BY <3>4 DEF SeesSince
      <3>6. IsVec(h \o <<2, 0>>)
        BY <3>5, SeesTypes
      <3> QED
        BY <3>5, <3>6
    <2>5. PICK f2 : f2 = Append(g2, ps) /\ Sees(r, m, f2, e)
      <3>1. Sees(List(form, ws) \o r, m, g2, b)
        BY <1>8, <2>4
      <3>2. Sees(r, m, Append(g2, ps), ArrayOf(b, DecodeMetric))
        BY <1>7, <1>11, <3>1, ArrayMetrics
      <3> QED
        BY <2>3, <3>2
    <2>6. e.st = "ok" => Last(e.got) = ps
      <3>1. Sees(r, m, Append(g2, ps), e)
        BY <2>5
      <3> QED
        BY <2>4, <3>1, LastRead
    <2>7. a.st # "ok" => X = a
      BY <2>1, <2>3 DEF DecodeEkg
    <2>8. a.st = "ok" => X = Made(d, e, v)
      <3>1. <<2, 1>> # <<2, 0>> /\ <<2, 1>> # <<1, 1>>
        OBVIOUS
      <3> QED
        BY <2>1, <2>2, <2>3, <3>1 DEF DecodeEkg
    <2>9. e.st = "ok" => v = AsReceived(y)
      BY <1>3, <1>6, <2>3, <2>6
    <2>10. ItemOf("ekg message", d) = X
      BY <2>3, Kinds
    <2> QED
      BY <2>5, <2>7, <2>8, <2>9, <2>10 DEF BodyRead
  <1>12. Spells("ekg message", w, AsReceived(y))
    <2>1. BodiesRead("ekg message", "u8", k, t, x, AsReceived(y))
      BY <1>11 DEF BodiesRead
    <2> QED
      BY <1>10, <2>1, TagSpells
  <1> QED
    BY <1>1, <1>12

(* EKG messages are spelled as they are decoded.                           *)
LEMMA SpellsEkg ==
  ASSUME NEW y, IsEkg(y), NEW form, NEW order, order \in EncodeEkgOrders(y)
  PROVE  Spells("ekg message", EncodeEkg(form, y, order), AsReceived(y))
  <1>1. CASE y.is = "Req" /\ y \in [is : {"Req"}, all : BOOLEAN]
    <2>1. AsReceived(y) = y
      BY <1>1 DEF AsReceived
    <2> QED
      BY <1>1, <2>1, SpellsReq
  <1>2. CASE /\ y.is = "Resp" /\ y = [is |-> "Resp", metrics |-> y.metrics] /\ IsTable(y.metrics)
             /\ \A k \in DOMAIN y.metrics : IsValue(y.metrics[k])
    <2>1. order \in SetToSeqs(DOMAIN y.metrics) /\ IsFiniteSet(DOMAIN y.metrics)
      BY <1>2 DEF EncodeEkgOrders, IsTable
    <2>2. Orders(order, DOMAIN y.metrics)
      BY <2>1, AnyOrder
    <2> QED
      BY <1>2, <2>2, SpellsResp
  <1>3. CASE y = Done
    <2>1. y = [is |-> "Done"] /\ AsReceived(y) = y
      BY <1>3 DEF AsReceived, Done
    <2> QED
      BY <2>1, SpellsStop
  <1> QED
    BY <1>1, <1>2, <1>3 DEF IsEkg

-----------------------------------------------------------------------------
(* The stream                                                              *)

(* u is what follows the first k words of ss.                              *)
IsRest(u, ss, k) ==
  /\ Words(u) /\ IsVec(u) /\ Len(u) = Len(ss) - k
  /\ \A i \in 1..(Len(ss) - k) : u[i] = ss[k + i]

(* The words from the k-th on are words.                                   *)
LEMMA WordsPart ==
  ASSUME NEW ss, Words(ss), NEW k \in 0..Len(ss)
  PROVE  IsRest(SubSeq(ss, k + 1, Len(ss)), ss, k)
  <1>1. PICK n : n = Len(ss) /\ n \in Nat /\ IsVec(ss)
    BY VecFacts DEF Words
  <1>2. k \in 0..n /\ k + 1 \in Nat \ {0} /\ n \in 0..Len(ss)
    BY <1>1
  <1>3. PICK u : u = SubSeq(ss, k + 1, n) /\ IsVec(u) /\ Len(u) = (IF k + 1 <= n THEN n - (k + 1) + 1 ELSE 0)
                 /\ \A i \in 1..(n - (k + 1) + 1) : u[i] = ss[(k + 1) + i - 1]
    <2>1. PICK a : a = k + 1 /\ a \in Nat \ {0}
      BY <1>2
    <2>2. /\ IsVec(SubSeq(ss, a, n)) /\ Len(SubSeq(ss, a, n)) = (IF a <= n THEN n - a + 1 ELSE 0)
          /\ \A i \in 1..(n - a + 1) : SubSeq(ss, a, n)[i] = ss[a + i - 1]
      BY <1>1, <1>2, <2>1, VecPart
    <2> QED
      BY <2>1, <2>2
  <1>4. Len(u) = n - k /\ n - (k + 1) + 1 = n - k
    BY <1>1, <1>2, <1>3
  <1>5. \A i \in 1..(n - k) : u[i] = ss[k + i]
    <2> SUFFICES ASSUME NEW i \in 1..(n - k) PROVE u[i] = ss[k + i]
      OBVIOUS
    <2>1. u[i] = ss[(k + 1) + i - 1] /\ (k + 1) + i - 1 = k + i
      BY <1>1, <1>2, <1>3, <1>4
    <2> QED
      BY <2>1
  <1>6. Words(u)
    <2>1. ASSUME NEW i \in 1..Len(u)
          PROVE  IsVec(u[i]) /\ u[i] # << >>
      <3>1. i \in 1..(n - k) /\ k + i \in 1..n
        BY <1>1, <1>2, <1>4
      <3>2. IsVec(ss[k + i]) /\ ss[k + i] # << >>
        BY <1>1, <3>1 DEF Words
      <3> QED
        BY <1>5, <3>1, <3>2
    <2> QED
      BY <1>3, <2>1 DEF Words
  <1>7. IsRest(u, ss, k)
    BY <1>1, <1>3, <1>4, <1>5, <1>6 DEF IsRest
  <1> QED
    BY <1>1, <1>3, <1>7

(* What is still to come, after the first k of the messages written.       *)
Unread(ss, k) == FlattenSeq(SubSeq(ss, k + 1, Len(ss)))

(* What is unread is a vector.                                             *)
LEMMA UnreadIsVec ==
  ASSUME NEW ss, Words(ss), NEW k \in 0..Len(ss)
  PROVE  IsVec(Unread(ss, k))
  <1>1. PICK u : u = SubSeq(ss, k + 1, Len(ss)) /\ Words(u)
    BY WordsPart DEF IsRest
  <1>2. PICK S : u \in Seq(Seq(S))
    BY <1>1, WordsType
  <1>3. FlattenSeq(u) \in Seq(S)
    BY <1>2, FlattenType
  <1>4. IsVec(FlattenSeq(u))
    BY <1>3, SeqIsVec
  <1> QED
    BY <1>1, <1>4 DEF Unread

(* After all the messages nothing is unread.                               *)
LEMMA NothingUnread ==
  ASSUME NEW ss, Words(ss)
  PROVE  Unread(ss, Len(ss)) = << >>
  <1>1. PICK n : n = Len(ss) /\ n \in Nat
    BY VecFacts DEF Words
  <1>2. n \in 0..Len(ss) /\ Len(ss) - n = 0
    BY <1>1
  <1>3. PICK u : u = SubSeq(ss, n + 1, Len(ss)) /\ Words(u) /\ Len(u) = Len(ss) - n
    BY <1>2, WordsPart DEF IsRest
  <1>4. u = << >>
    BY <1>2, <1>3, VecEmpty DEF Words
  <1>5. Unread(ss, n) = << >>
    BY <1>3, <1>4, FlattenEmpty DEF Unread
  <1> QED
    BY <1>1, <1>5

(* What is unread begins with the next message.                            *)
LEMMA FirstUnread ==
  ASSUME NEW ss, Words(ss), NEW k \in Nat, k < Len(ss)
  PROVE  Unread(ss, k) = ss[k + 1] \o Unread(ss, k + 1)
  <1>1. PICK n : n = Len(ss) /\ n \in Nat /\ k \in 0..n /\ k + 1 \in 0..n /\ k + 1 \in 1..n
    BY VecFacts DEF Words
  <1>2. PICK u : /\ u = SubSeq(ss, k + 1, Len(ss)) /\ Words(u) /\ Len(u) = Len(ss) - k
                 /\ \A i \in 1..(Len(ss) - k) : u[i] = ss[k + i]
    <2>1. k \in 0..Len(ss)
      BY <1>1
    <2>2. PICK u : u = SubSeq(ss, k + 1, Len(ss))
      OBVIOUS
    <2>3. IsRest(SubSeq(ss, k + 1, Len(ss)), ss, k)
      BY <2>1, WordsPart
    <2>4. IsRest(u, ss, k)
      BY <2>2, <2>3
    <2> QED
      BY <2>2, <2>4 DEF IsRest
  <1>3. PICK v : /\ v = SubSeq(ss, (k + 1) + 1, Len(ss)) /\ Words(v) /\ Len(v) = Len(ss) - (k + 1)
                 /\ \A i \in 1..(Len(ss) - (k + 1)) : v[i] = ss[(k + 1) + i]
    <2>1. k + 1 \in 0..Len(ss)
      BY <1>1
    <2>2. PICK v : v = SubSeq(ss, (k + 1) + 1, Len(ss))
      OBVIOUS
    <2>3. IsRest(SubSeq(ss, (k + 1) + 1, Len(ss)), ss, k + 1)
      BY <2>1, WordsPart
    <2>4. IsRest(v, ss, k + 1)
      BY <2>2, <2>3
    <2> QED
      BY <2>2, <2>4 DEF IsRest
  <1>4. IsVec(u) /\ IsVec(v) /\ u # << >>
    <2>1. IsVec(u) /\ IsVec(v)
      BY <1>2, <1>3 DEF Words
    <2>2. Len(u) # 0
      BY <1>1, <1>2
    <2> QED
      BY <2>1, <2>2, VecEmpty
  <1>5. PICK t : /\ t = Tail(u) /\ IsVec(t) /\ Len(t) + 1 = Len(u) /\ Head(u) = u[1]
                 /\ \A i \in 1..Len(t) : t[i] = u[i + 1]
    BY <1>4, VecTail
  <1>6. Head(u) = ss[k + 1]
    <2>1. 1 \in 1..(Len(ss) - k)
      BY <1>1
    <2> QED
      BY <1>2, <1>5, <2>1
  <1>7. t = v
    <2>1. Len(t) = n - (k + 1) /\ Len(v) = n - (k + 1) /\ Len(t) \in Nat
      BY <1>1, <1>2, <1>3, <1>5, VecFacts
    <2>2. ASSUME NEW i \in 1..Len(t)
          PROVE  t[i] = v[i]
      <3>1. i + 1 \in 1..(n - k) /\ i \in 1..(n - (k + 1)) /\ k + (i + 1) = (k + 1) + i
        BY <1>1, <2>1
      <3>2. t[i] = u[i + 1] /\ u[i + 1] = ss[k + (i + 1)] /\ v[i] = ss[(k + 1) + i]
        BY <1>1, <1>2, <1>3, <1>5, <3>1
      <3> QED
        BY <3>1, <3>2
    <2> QED
      BY <1>4, <1>5, <2>1, <2>2, VecEqual
  <1>8. PICK S : u \in Seq(Seq(S))
    BY <1>2, WordsType
  <1>9. FlattenSeq(u) = Head(u) \o FlattenSeq(Tail(u))
    BY <1>4, <1>8, FlattenFirst
  <1>10. Unread(ss, k) = FlattenSeq(u) /\ Unread(ss, k + 1) = FlattenSeq(v)
    BY <1>2, <1>3 DEF Unread
  <1> QED
    BY <1>5, <1>6, <1>7, <1>9, <1>10

(* A message more is unread at the end.                                    *)
LEMMA MoreUnread ==
  ASSUME NEW ss, Words(ss), NEW k \in 0..Len(ss), NEW w, IsVec(w), w # << >>
  PROVE  Words(Append(ss, w)) /\ Unread(Append(ss, w), k) = Unread(ss, k) \o w
  <1>1. PICK n : n = Len(ss) /\ n \in Nat /\ IsVec(ss) /\ k \in 0..n
    BY VecFacts DEF Words
  <1>2. PICK tt : tt = Append(ss, w) /\ IsVec(tt) /\ Len(tt) = n + 1 /\ tt[n + 1] = w /\ \A i \in 1..n : tt[i] = ss[i]
    <2>1. PICK tt : tt = Append(ss, w)
      OBVIOUS
    <2>2. IsVec(Append(ss, w)) /\ Len(Append(ss, w)) = Len(ss) + 1 /\ Append(ss, w)[Len(ss) + 1] = w
      BY <1>1, VecAppend
    <2>3. \A i \in 1..Len(ss) : Append(ss, w)[i] = ss[i]
      BY <1>1, VecAppend
    <2> QED
      BY <1>1, <2>1, <2>2, <2>3
  <1>3. Words(tt)
    <2>1. ASSUME NEW i \in 1..Len(tt)
          PROVE  IsVec(tt[i]) /\ tt[i] # << >>
      <3>1. CASE i = n + 1
        BY <1>2, <3>1
      <3>2. CASE i # n + 1
        <4>1. i \in 1..n
          BY <1>1, <1>2, <3>2
        <4>2. IsVec(ss[i]) /\ ss[i] # << >>
          BY <1>1, <4>1 DEF Words
        <4> QED
          BY <1>2, <4>1, <4>2
      <3> QED
        BY <3>1, <3>2
    <2> QED
      BY <1>2, <2>1 DEF Words
  <1>4. PICK u : /\ u = SubSeq(ss, k + 1, Len(ss)) /\ Words(u) /\ Len(u) = Len(ss) - k
                 /\ \A i \in 1..(Len(ss) - k) : u[i] = ss[k + i]
    <2>1. PICK u : u = SubSeq(ss, k + 1, Len(ss))
      OBVIOUS
    <2>2. IsRest(SubSeq(ss, k + 1, Len(ss)), ss, k)
      BY WordsPart
    <2>3. IsRest(u, ss, k)
      BY <2>1, <2>2
    <2> QED
      BY <2>1, <2>3 DEF IsRest
  <1>5. k \in 0..Len(tt)
    BY <1>1, <1>2
  <1>6. PICK v : /\ v = SubSeq(tt, k + 1, Len(tt)) /\ Words(v) /\ Len(v) = Len(tt) - k
                 /\ \A i \in 1..(Len(tt) - k) : v[i] = tt[k + i]
    <2>1. PICK v : v = SubSeq(tt, k + 1, Len(tt))
      OBVIOUS
    <2>2. IsRest(SubSeq(tt, k + 1, Len(tt)), tt, k)
      BY <1>3, <1>5, WordsPart
    <2>3. IsRest(v, tt, k)
      BY <2>1, <2>2
    <2> QED
      BY <2>1, <2>3 DEF IsRest
  <1>7. v = Append(u, w)
    <2>1. IsVec(u) /\ IsVec(v)
      BY <1>4, <1>6 DEF Words
    <2>2. PICK a : a = Append(u, w) /\ IsVec(a) /\ Len(a) = Len(u) + 1 /\ a[Len(u) + 1] = w /\ \A i \in 1..Len(u) : a[i] = u[i]
      <3>1. PICK a : a = Append(u, w)
        OBVIOUS
      <3>2. IsVec(Append(u, w)) /\ Len(Append(u, w)) = Len(u) + 1 /\ Append(u, w)[Len(u) + 1] = w
        BY <2>1, VecAppend
      <3>3. \A i \in 1..Len(u) : Append(u, w)[i] = u[i]
        BY <2>1, VecAppend
      <3> QED
        BY <3>1, <3>2, <3>3
    <2>3. Len(u) = n - k /\ Len(v) = n + 1 - k /\ Len(a) = n + 1 - k
      <3>1. Len(u) = n - k
        BY <1>1, <1>4
      <3>2. Len(v) = n + 1 - k
        <4>1. Len(v) = Len(tt) - k
          BY <1>6
        <4>2. Len(tt) = n + 1
          BY <1>2
        <4> QED
          BY <1>1, <4>1, <4>2
      <3>3. Len(a) = (n - k) + 1
        BY <2>2, <3>1
      <3> QED
        BY <1>1, <3>1, <3>2, <3>3
    <2>4. ASSUME NEW i \in 1..Len(v)
          PROVE  v[i] = a[i]
      <3>1. v[i] = tt[k + i]
        BY <1>6
      <3>2. CASE i = n + 1 - k
        <4>1. k + i = n + 1 /\ i = Len(u) + 1
          BY <1>1, <2>3, <3>2
        <4> QED
          BY <1>2, <2>2, <3>1, <4>1
      <3>3. CASE i # n + 1 - k
        <4>1. k + i \in 1..n /\ i \in 1..Len(u) /\ i \in 1..(Len(ss) - k)
          BY <1>1, <2>3, <3>3
        <4>2. tt[k + i] = ss[k + i] /\ u[i] = ss[k + i] /\ a[i] = u[i]
          BY <1>2, <1>4, <2>2, <4>1
        <4> QED
          BY <3>1, <4>2
      <3> QED
        BY <3>2, <3>3
    <2>5. v = a
      BY <2>1, <2>2, <2>3, <2>4, VecEqual
    <2> QED
      BY <2>2, <2>5
  <1>8. FlattenSeq(Append(u, w)) = FlattenSeq(u) \o w
    <2>1. Words(v)
      BY <1>6
    <2>2. PICK S : v \in Seq(Seq(S))
      BY <2>1, WordsType
    <2>3. u \in Seq(Seq(S)) /\ w \in Seq(S)
      <3>1. IsVec(u) /\ Len(v) = Len(u) + 1 /\ v[Len(u) + 1] = w /\ Len(u) \in Nat /\ \A i \in 1..Len(u) : v[i] = u[i]
        <4>1. IsVec(u) /\ Len(u) \in Nat
          BY <1>4, VecFacts DEF Words
        <4> QED
          BY <1>7, <4>1, VecAppend
      <3>2. \A i \in 1..Len(v) : v[i] \in Seq(S)
        BY <2>2, ElementOfSeq
      <3>3. Len(u) + 1 \in 1..Len(v) /\ \A i \in 1..Len(u) : i \in 1..Len(v)
        BY <3>1
      <3>4. w \in Seq(S)
        BY <3>1, <3>2, <3>3
      <3>5. \A i \in 1..Len(u) : u[i] \in Seq(S)
        BY <3>1, <3>2, <3>3
      <3>6. u \in Seq(Seq(S))
        BY <3>1, <3>5, VecIn
      <3> QED
        BY <3>4, <3>6
    <2> QED
      BY <2>3, FlattenAppend
  <1>9. Unread(ss, k) = FlattenSeq(u) /\ Unread(tt, k) = FlattenSeq(v)
    BY <1>4, <1>6 DEF Unread
  <1>10. Unread(tt, k) = Unread(ss, k) \o w
    BY <1>7, <1>8, <1>9
  <1> QED
    BY <1>2, <1>3, <1>10

-----------------------------------------------------------------------------
(* Sessions                                                                *)

(* What the messages of a mini-protocol are called here.                   *)
KindOf(p) ==
  CASE p = "trace"     -> "trace message"
    [] p = "handshake" -> "handshake message"
    [] p = "datapoint" -> "datapoint message"
    [] p = "ekg"       -> "ekg message"

(* A message of a mini-protocol has the type of one, or a foreign tag.     *)
LEMMA OwnMessage ==
  ASSUME NEW p \in DOMAIN Messages, NEW y \in Messages[p]
  PROVE  /\ p \in {"trace", "handshake", "datapoint", "ekg"}
         /\ y = Foreign <=> y.is = "Foreign"
         /\ y # Foreign /\ p = "trace" => IsTraceMessage(y)
         /\ y # Foreign /\ p = "handshake" => IsHandshake(y)
         /\ y # Foreign /\ p = "datapoint" => IsDataPoint(y)
         /\ y # Foreign /\ p = "ekg" => IsEkg(y)
  <1>1. p \in {"trace", "handshake", "datapoint", "ekg"}
    BY MessagesTyped
  <1>2. \/ y = Foreign
        \/ p = "trace" /\ IsTraceMessage(y)
        \/ p = "handshake" /\ IsHandshake(y)
        \/ p = "datapoint" /\ IsDataPoint(y)
        \/ p = "ekg" /\ IsEkg(y)
    BY MessagesTyped
  <1>3. y = Foreign => y.is = "Foreign"
    BY DEF Foreign
  <1>4. Done.is = "Done"
    BY DEF Done
  <1>5. IsTraceMessage(y) => y.is # "Foreign"
    BY <1>4 DEF IsTraceMessage
  <1>6. IsHandshake(y) => y.is # "Foreign"
    BY DEF IsHandshake
  <1>7. IsDataPoint(y) => y.is # "Foreign"
    BY <1>4 DEF IsDataPoint
  <1>8. IsEkg(y) => y.is # "Foreign"
    BY <1>4 DEF IsEkg
  <1>9. y # Foreign => y.is # "Foreign"
    BY <1>2, <1>5, <1>6, <1>7, <1>8
  <1>10. y # Foreign /\ p = "trace" => IsTraceMessage(y)
    BY <1>2
  <1>11. y # Foreign /\ p = "handshake" => IsHandshake(y)
    BY <1>2
  <1>12. y # Foreign /\ p = "datapoint" => IsDataPoint(y)
    BY <1>2
  <1>13. y # Foreign /\ p = "ekg" => IsEkg(y)
    BY <1>2
  <1> QED
    BY <1>1, <1>3, <1>9, <1>10, <1>11, <1>12, <1>13

(* Only an EKG response is not received as it was sent.                    *)
LEMMA ReceivedSame ==
  ASSUME NEW y, IsTraceMessage(y) \/ IsHandshake(y) \/ IsDataPoint(y)
  PROVE  AsReceived(y) = y
  <1>1. Done.is = "Done"
    BY DEF Done
  <1>2. IsTraceMessage(y) => y.is # "Resp"
    BY <1>1 DEF IsTraceMessage
  <1>3. IsHandshake(y) => y.is # "Resp"
    BY DEF IsHandshake
  <1>4. IsDataPoint(y) => y.is # "Resp"
    BY <1>1 DEF IsDataPoint
  <1> QED
    BY <1>2, <1>3, <1>4 DEF AsReceived

(* However a message is written, it is decoded as itself.                  *)
LEMMA EncodingSpells ==
  ASSUME proto \in DOMAIN Messages, NEW y \in Messages[proto], y # Foreign, NEW w \in Encodings(y)
  PROVE  Spells(KindOf(proto), w, AsReceived(y))
  <1>1. y.is # "Foreign" /\ proto \in {"trace", "handshake", "datapoint", "ekg"}
    BY OwnMessage
  <1>2. CASE proto = "trace"
    <2>1. IsTraceMessage(y)
      BY <1>2, OwnMessage
    <2>2. PICK f \in Forms : w = EncodeMessage(f, y)
      BY <1>1, <1>2 DEF Encodings
    <2>3. Spells("trace message", w, y)
      BY <2>1, <2>2, SpellsTraceMessage
    <2>4. AsReceived(y) = y
      BY <2>1, ReceivedSame
    <2> QED
      BY <1>2, <2>3, <2>4 DEF KindOf
  <1>3. CASE proto = "handshake"
    <2>1. IsHandshake(y)
      BY <1>3, OwnMessage
    <2>2. w = EncodeHandshake(y)
      BY <1>1, <1>3 DEF Encodings
    <2>3. Spells("handshake message", w, y)
      BY <2>1, <2>2, SpellsHandshake
    <2>4. AsReceived(y) = y
      BY <2>1, ReceivedSame
    <2> QED
      BY <1>3, <2>3, <2>4 DEF KindOf
  <1>4. CASE proto = "datapoint"
    <2>1. IsDataPoint(y)
      BY <1>4, OwnMessage
    <2>2. PICK f \in Forms : w = EncodeDataPoint(f, y)
      BY <1>1, <1>4 DEF Encodings
    <2>3. Spells("datapoint message", w, y)
      BY <2>1, <2>2, SpellsDataPoint
    <2>4. AsReceived(y) = y
      BY <2>1, ReceivedSame
    <2> QED
      BY <1>4, <2>3, <2>4 DEF KindOf
  <1>5. CASE proto = "ekg"
    <2>1. IsEkg(y)
      BY <1>5, OwnMessage
    <2>2. PICK fo \in Forms \X EncodeEkgOrders(y) : w = EncodeEkg(fo[1], y, fo[2])
      BY <1>1, <1>5 DEF Encodings
    <2>3. fo[2] \in EncodeEkgOrders(y)
      BY <2>2
    <2>4. Spells("ekg message", EncodeEkg(fo[1], y, fo[2]), AsReceived(y))
      BY <2>1, <2>3, SpellsEkg
    <2> QED
      BY <1>5, <2>2, <2>4 DEF KindOf
  <1> QED
    BY <1>1, <1>2, <1>3, <1>4, <1>5

(* A foreign message is spelled in one way.                                *)
LEMMA EncodingForeign ==
  ASSUME NEW w \in Encodings(Foreign)
  PROVE  w = <<Arr(2), Int64(9), Int64(0)>>
  <1>1. Foreign.is = "Foreign"
    BY DEF Foreign
  <1> QED
    BY <1>1 DEF Encodings

(* No message is spelled by nothing.                                       *)
LEMMA EncodingWord ==
  ASSUME proto \in DOMAIN Messages, NEW y \in Messages[proto], NEW w \in Encodings(y)
  PROVE  IsVec(w) /\ w # << >>
  <1>1. CASE y = Foreign
    <2>1. w = <<Arr(2), Int64(9), Int64(0)>>
      BY <1>1, EncodingForeign
    <2>2. IsVec(<<Arr(2), Int64(9), Int64(0)>>) /\ <<Arr(2), Int64(9), Int64(0)>> # << >>
      BY Tuples
    <2> QED
      BY <2>1, <2>2
  <1>2. CASE y # Foreign
    BY <1>2, EncodingSpells DEF Spells, Leads
  <1> QED
    BY <1>1, <1>2

(* Decode is the decoder of the mini-protocol.                             *)
LEMMA DecodeIs ==
  ASSUME proto \in DOMAIN Messages, NEW s
  PROVE  Decode(s) = ItemOf(KindOf(proto), Decoder(s))
  <1>1. proto \in {"trace", "handshake", "datapoint", "ekg"}
    BY MessagesTyped
  <1>2. PICK d : d = Decoder(s)
    OBVIOUS
  <1>3. /\ ItemOf("trace message", d) = DecodeMessage(d)
        /\ ItemOf("handshake message", d) = DecodeHandshake(d)
        /\ ItemOf("datapoint message", d) = DecodeDataPoint(d)
        /\ ItemOf("ekg message", d) = DecodeEkg(d)
    BY Kinds
  <1> QED
    BY <1>1, <1>2, <1>3 DEF Decode, KindOf

-----------------------------------------------------------------------------
(* The inductive invariant                                                 *)

(* Every message is written in one of its spellings, and received in order. *)
SentAndGot ==
  /\ proto \in DOMAIN Messages
  /\ plan \in [1..PlanLength -> Messages[proto]]
  /\ IsVec(encoded) /\ Len(encoded) <= PlanLength
  /\ \A i \in 1..Len(encoded) : encoded[i] \in Encodings(plan[i])
  /\ IsVec(got) /\ Len(got) <= Len(encoded)
  /\ \A i \in 1..Len(got) : got[i] = AsReceived(plan[i])

(* The inductive invariant: what was sent is spelled, what was received is *)
(* what was sent, and the buffer and the wire hold the rest.               *)
WireInv ==
  /\ SentAndGot
  /\ IsVec(temp) /\ IsVec(wire)
  /\ StreamAligned
  /\ RefusesOnlyForeign

(* What has been encoded are words, and not fewer than were received.      *)
LEMMA EncodedWords ==
  ASSUME SentAndGot
  PROVE  /\ Words(encoded) /\ Len(encoded) \in Nat /\ Len(got) \in Nat /\ Len(got) \in 0..Len(encoded)
         /\ \A i \in 1..Len(encoded) : plan[i] \in Messages[proto]
  <1>1. Len(encoded) \in Nat /\ Len(got) \in Nat
    BY VecFacts DEF SentAndGot
  <1>2. \A i \in 1..Len(encoded) : plan[i] \in Messages[proto]
    <2> SUFFICES ASSUME NEW i \in 1..Len(encoded) PROVE plan[i] \in Messages[proto]
      OBVIOUS
    <2>1. i \in 1..PlanLength
      BY <1>1, WirePlan DEF SentAndGot
    <2> QED
      BY <2>1 DEF SentAndGot
  <1>3. ASSUME NEW i \in 1..Len(encoded)
        PROVE  IsVec(encoded[i]) /\ encoded[i] # << >>
    <2>1. encoded[i] \in Encodings(plan[i]) /\ plan[i] \in Messages[proto] /\ proto \in DOMAIN Messages
      BY <1>2, <1>3 DEF SentAndGot
    <2> QED
      BY <2>1, EncodingWord
  <1>4. Words(encoded)
    BY <1>3 DEF SentAndGot, Words
  <1>5. Len(got) \in 0..Len(encoded)
    BY <1>1 DEF SentAndGot
  <1> QED
    BY <1>1, <1>2, <1>4, <1>5

(* What the receiver makes of its buffer.                                  *)
Stands(k, n, d) ==
  /\ d.st \in {"ok", "end", "bad"}
  /\ d.st = "ok" =>
       /\ k < n /\ d.got = <<AsReceived(plan[k + 1])>>
       /\ IsVec(d.rest) /\ d.rest \o wire = Unread(encoded, k + 1)
  /\ d.st = "bad" => k < n /\ plan[k + 1].is = "Foreign"
  /\ d.st = "end" /\ wire = << >> => k = n

(* The fields of a decoder.                                                *)
IsDecoder(d) == d = [rest |-> d.rest, got |-> d.got, st |-> d.st]

(* Nothing is read after the end or after an error.                        *)
LEMMA ReadStays ==
  ASSUME NEW d, IsDecoder(d), d.st # "ok", NEW want
  PROVE  Read(d, want) = d
  BY DEF Read, IsDecoder

(* Where the input ends, reading finds it ended.                           *)
LEMMA ReadAtEnd ==
  ASSUME NEW d, IsDecoder(d), d.st = "ok", AtEnd(d), NEW want
  PROVE  Read(d, want) = [d EXCEPT !.st = "end"]
  BY DEF Read, IsDecoder

(* And again.                                                              *)
LEMMA ReadEnded ==
  ASSUME NEW d, IsDecoder(d), d.st = "ok", AtEnd(d), NEW e, e = [d EXCEPT !.st = "end"], IsDecoder(e), e.st = "end", NEW want
  PROVE  Read(d, want) = e /\ Read(e, want) = e
  <1>1. Read(d, want) = e
    BY ReadAtEnd
  <1>2. Read(e, want) = e
    <2>1. e.st # "ok"
      OBVIOUS
    <2> QED
      BY <2>1, ReadStays
  <1> QED
    BY <1>1, <1>2

(* With an empty buffer the receiver waits.                                *)
LEMMA EmptyWaits ==
  ASSUME proto \in DOMAIN Messages
  PROVE  Decode(<< >>).st = "end"
  <1>1. PICK d, e : d = Decoder(<< >>) /\ e = [d EXCEPT !.st = "end"]
    OBVIOUS
  <1>2. d.st = "ok" /\ d.rest = << >> /\ e.st = "end"
    BY <1>1 DEF Decoder
  <1>3. \A want : Read(d, want) = e /\ Read(e, want) = e
    <2>1. AtEnd(d)
      BY <1>2 DEF AtEnd
    <2>2. ASSUME NEW want
          PROVE  Read(d, want) = e /\ Read(e, want) = e
      <3>1. IsDecoder(d) /\ IsDecoder(e)
        BY <1>1 DEF IsDecoder, Decoder
      <3> QED
        BY <1>1, <1>2, <2>1, <3>1, ReadEnded
    <2> QED
      BY <2>2
  <1>4. Reads(d, <<"array", "u16">>) = e /\ Reads(d, <<"array", "u8">>) = e
    BY <1>3, TwoReads
  <1>5. \A S : Expect(e, S) = e
    BY <1>2 DEF Expect
  <1>6. DecodeMessage(d) = e
    BY <1>2, <1>4, <1>5 DEF DecodeMessage
  <1>7. DecodeHandshake(d) = e
    BY <1>2, <1>4, <1>5 DEF DecodeHandshake
  <1>8. DecodeDataPoint(d) = e
    BY <1>2, <1>4, <1>5 DEF DecodeDataPoint
  <1>9. DecodeEkg(d) = e
    BY <1>2, <1>4 DEF DecodeEkg
  <1>10. proto \in {"trace", "handshake", "datapoint", "ekg"}
    BY MessagesTyped
  <1>11. Decode(<< >>) = e
    BY <1>1, <1>6, <1>7, <1>8, <1>9, <1>10 DEF Decode
  <1> QED
    BY <1>2, <1>11

(* The buffer and the wire, seen from the decoder.                         *)
LEMMA BufferSees ==
  ASSUME NEW s, IsVec(s), NEW m, IsVec(m), NEW z, z = s \o m
  PROVE  Sees(z, m, << >>, Decoder(s))
  <1>1. IsVec(z) /\ Len(z) = Len(s) + Len(m) /\ Len(s) \in Nat /\ Len(m) \in Nat
    BY VecConcat, VecFacts
  <1>2. Len(m) <= Len(z) /\ ~(Len(m) > Len(z))
    BY <1>1
  <1>3. PICK d : d = Decoder(s)
    OBVIOUS
  <1>4. d.rest = s /\ d.got = << >> /\ d.st = "ok" /\ d = [rest |-> d.rest, got |-> d.got, st |-> d.st]
    BY <1>3 DEF Decoder
  <1>5. IsVec(<< >>)
    BY Tuples
  <1>6. Sees(z, m, << >>, d)
    BY <1>1, <1>2, <1>4, <1>5 DEF Sees
  <1> QED
    BY <1>3, <1>6

(* In every state of the invariant the receiver stands at the next         *)
(* message: it receives that one, waits for the rest of it, or refuses a   *)
(* foreign one.                                                            *)
LEMMA StandsHere ==
  ASSUME WireInv
  PROVE  Stands(Len(got), Len(encoded), Decode(temp))
  <1>1. PICK k, n, d : k = Len(got) /\ n = Len(encoded) /\ d = Decode(temp)
    OBVIOUS
  <1>2. SentAndGot /\ IsVec(temp) /\ IsVec(wire) /\ proto \in DOMAIN Messages
    BY DEF WireInv, SentAndGot
  <1>3. Words(encoded) /\ n \in Nat /\ k \in Nat /\ k \in 0..n /\ \A i \in 1..n : plan[i] \in Messages[proto]
    BY <1>1, <1>2, EncodedWords
  <1>4. temp \o wire = Unread(encoded, k)
    BY <1>1 DEF WireInv, StreamAligned, Unread
  <1>5. CASE k = n
    <2>1. temp \o wire = << >>
      <3>1. Unread(encoded, Len(encoded)) = << >>
        BY <1>3, NothingUnread
      <3> QED
        BY <1>1, <1>4, <1>5, <3>1
    <2>2. temp = << >>
      <3>1. Len(temp) \in Nat /\ Len(wire) \in Nat /\ Len(temp \o wire) = Len(temp) + Len(wire) /\ IsVec(temp \o wire)
        BY <1>2, VecFacts, VecConcat
      <3>2. Len(temp \o wire) = 0
        BY <2>1, <3>1, VecEmpty
      <3>3. Len(temp) = 0
        BY <3>1, <3>2
      <3> QED
        BY <1>2, <3>3, VecEmpty
    <2>3. d.st = "end"
      BY <1>1, <1>2, <2>2, EmptyWaits
    <2>4. Stands(k, n, d)
      BY <1>5, <2>3 DEF Stands
    <2> QED
      BY <1>1, <2>4
  <1>6. CASE k # n
    <2>1. k < n /\ k + 1 \in 1..n
      BY <1>3, <1>6
    <2>2. PICK y, w, r, z : y = plan[k + 1] /\ w = encoded[k + 1] /\ r = Unread(encoded, k + 1) /\ z = w \o r
      OBVIOUS
    <2>3. y \in Messages[proto] /\ w \in Encodings(y)
      <3>1. plan[k + 1] \in Messages[proto]
        BY <1>3, <2>1
      <3>2. encoded[k + 1] \in Encodings(plan[k + 1])
        BY <1>1, <1>2, <2>1 DEF SentAndGot
      <3> QED
        BY <2>2, <3>1, <3>2
    <2>4. z = temp \o wire
      <3>1. k \in Nat /\ k < Len(encoded)
        BY <1>1, <1>3, <2>1
      <3>2. Unread(encoded, k) = encoded[k + 1] \o Unread(encoded, k + 1)
        BY <1>3, <3>1, FirstUnread
      <3> QED
        BY <1>4, <2>2, <3>2
    <2>5. IsVec(r)
      <3>1. k + 1 \in 0..Len(encoded)
        BY <1>1, <1>3, <2>1
      <3>2. IsVec(Unread(encoded, k + 1))
        BY <1>3, <3>1, UnreadIsVec
      <3> QED
        BY <2>2, <3>2
    <2>6. PICK c : c = Decoder(temp) /\ Sees(z, wire, << >>, c)
      BY <1>2, <2>4, BufferSees
    <2>7. d = ItemOf(KindOf(proto), c)
      BY <1>1, <1>2, <2>6, DecodeIs
    <2>8. CASE y # Foreign
      <3>1. PICK v, g : v = AsReceived(y) /\ g = Append(<< >>, v) /\ g = <<v>>
        BY Tuples
      <3>2. Spells(KindOf(proto), w, v)
        BY <1>2, <2>3, <2>8, <3>1, EncodingSpells
      <3>3. Sees(w \o r, wire, << >>, c)
        BY <2>2, <2>6
      <3>4. Sees(r, wire, Append(<< >>, v), ItemOf(KindOf(proto), c))
        BY <2>5, <3>2, <3>3 DEF Spells
      <3>5. Sees(r, wire, g, d)
        BY <2>7, <3>1, <3>4
      <3>6. d.st \in {"ok", "end"}
        BY <3>5, SeesTypes
      <3>7. d.st = "ok" => d.got = g /\ IsVec(d.rest) /\ d.rest \o wire = r
        BY <3>5, SeesTypes DEF Sees
      <3>8. wire = << >> => d.st = "ok"
        <4>1. SUFFICES ASSUME wire = << >> PROVE d.st = "ok"
          OBVIOUS
        <4>2. Len(wire) = 0 /\ Len(r) \in Nat
          BY <1>2, <2>5, <4>1, VecEmpty, VecFacts
        <4>3. Len(wire) <= Len(r)
          BY <4>2
        <4> QED
          BY <3>5, <4>3 DEF Sees
      <3>9. Stands(k, n, d)
        BY <2>1, <2>2, <3>1, <3>6, <3>7, <3>8 DEF Stands
      <3> QED
        BY <1>1, <3>9
    <2>9. CASE y = Foreign
      <3>1. w = <<Arr(2), Int64(9), Int64(0)>>
        BY <2>3, <2>9, EncodingForeign
      <3>2. Sees(<<Arr(2), Int64(9), Int64(0)>> \o r, wire, << >>, c)
        BY <2>2, <2>6, <3>1
      <3>3. /\ DecodeMessage(c).st \in {"end", "bad"} /\ DecodeHandshake(c).st \in {"end", "bad"}
            /\ DecodeDataPoint(c).st \in {"end", "bad"} /\ DecodeEkg(c).st \in {"end", "bad"}
        BY <2>5, <3>2, ForeignRead
      <3>4. wire = << >> =>
              /\ DecodeMessage(c).st = "bad" /\ DecodeHandshake(c).st = "bad"
              /\ DecodeDataPoint(c).st = "bad" /\ DecodeEkg(c).st = "bad"
        BY <2>5, <3>2, ForeignRead
      <3>5. d \in {DecodeMessage(c), DecodeHandshake(c), DecodeDataPoint(c), DecodeEkg(c)}
        <4>1. proto \in {"trace", "handshake", "datapoint", "ekg"}
          BY <1>2, MessagesTyped
        <4> QED
          BY <1>1, <2>6, <4>1 DEF Decode
      <3>6. d.st \in {"end", "bad"} /\ (wire = << >> => d.st = "bad")
        BY <3>3, <3>4, <3>5
      <3>7. plan[k + 1].is = "Foreign"
        BY <2>2, <2>9 DEF Foreign
      <3>8. Stands(k, n, d)
        BY <2>1, <3>6, <3>7 DEF Stands
      <3> QED
        BY <1>1, <3>8
    <2> QED
      BY <2>8, <2>9
  <1> QED
    BY <1>5, <1>6

(* The invariant holds at first.                                           *)
LEMMA InvInit ==
  ASSUME WireInit
  PROVE  WireInv
  <1>1. PICK e : e = << >> /\ IsVec(e) /\ Len(e) = 0
    BY Tuples, VecEmpty
  <1>2. encoded = e /\ got = e /\ temp = e /\ wire = e /\ refused = FALSE
    BY <1>1 DEF WireInit
  <1>3. SentAndGot
    <2>1. proto \in DOMAIN Messages /\ plan \in [1..PlanLength -> Messages[proto]]
      BY DEF WireInit
    <2>2. PlanLength \in Nat /\ 1..0 = {}
      BY WirePlan
    <2> QED
      BY <1>1, <1>2, <2>1, <2>2 DEF SentAndGot
  <1>4. StreamAligned
    <2>1. Words(e)
      BY <1>1 DEF Words
    <2>2. Unread(e, Len(e)) = << >>
      BY <2>1, NothingUnread
    <2>3. e \o e = << >>
      BY <1>1, VecNeutral
    <2>4. FlattenSeq(SubSeq(e, Len(e) + 1, Len(e))) = << >>
      BY <2>2 DEF Unread
    <2> QED
      BY <1>2, <2>3, <2>4 DEF StreamAligned
  <1>5. RefusesOnlyForeign
    BY <1>2 DEF RefusesOnlyForeign
  <1> QED
    BY <1>1, <1>2, <1>3, <1>4, <1>5 DEF WireInv

(* What the peer has written and the receiver has got stays.               *)
LEMMA SentStays ==
  ASSUME WireInv, UNCHANGED <<proto, plan, encoded, got>>
  PROVE  SentAndGot'
  <1>1. \A y : Encodings(y)' = Encodings(y)
    BY DEF Encodings
  <1> QED
    BY <1>1 DEF WireInv, SentAndGot

(* Sending a message keeps the invariant.                                  *)
LEMMA SendKeeps ==
  ASSUME WireInv, SendMessage
  PROVE  WireInv'
  <1>1. PICK tokens \in Encodings(plan[Len(encoded) + 1]) : encoded' = Append(encoded, tokens) /\ wire' = wire \o tokens
    BY DEF SendMessage
  <1>2. /\ Len(encoded) < PlanLength /\ proto' = proto /\ plan' = plan /\ temp' = temp /\ got' = got
        /\ refused' = refused
    BY DEF SendMessage
  <1>3. PICK k, n : k = Len(got) /\ n = Len(encoded)
    OBVIOUS
  <1>4. SentAndGot /\ IsVec(temp) /\ IsVec(wire) /\ IsVec(encoded) /\ IsVec(got) /\ proto \in DOMAIN Messages
    BY DEF WireInv, SentAndGot
  <1>5. Words(encoded) /\ n \in Nat /\ k \in 0..n
    BY <1>3, <1>4, EncodedWords
  <1>6. IsVec(tokens) /\ tokens # << >>
    <2>1. n + 1 \in 1..PlanLength
      BY <1>2, <1>3, <1>5, WirePlan
    <2>2. plan[n + 1] \in Messages[proto]
      BY <1>4, <2>1 DEF SentAndGot
    <2> QED
      BY <1>1, <1>3, <1>4, <2>2, EncodingWord
  <1>7. PICK ss : ss = Append(encoded, tokens) /\ Words(ss) /\ Unread(ss, k) = Unread(encoded, k) \o tokens
    BY <1>3, <1>5, <1>6, MoreUnread
  <1>8. IsVec(ss) /\ Len(ss) = n + 1 /\ ss[n + 1] = tokens /\ \A i \in 1..n : ss[i] = encoded[i]
    <2>1. IsVec(ss)
      BY <1>7 DEF Words
    <2>2. Len(Append(encoded, tokens)) = Len(encoded) + 1 /\ Append(encoded, tokens)[Len(encoded) + 1] = tokens
      BY <1>4, VecAppend
    <2>3. \A i \in 1..Len(encoded) : Append(encoded, tokens)[i] = encoded[i]
      BY <1>4, VecAppend
    <2> QED
      BY <1>3, <1>7, <2>1, <2>2, <2>3
  <1>9. SentAndGot'
    <2>1. \A y : Encodings(y)' = Encodings(y)
      BY <1>2 DEF Encodings
    <2>2. ASSUME NEW i \in 1..(n + 1)
          PROVE  ss[i] \in Encodings(plan[i])
      <3>1. CASE i = n + 1
        BY <1>1, <1>3, <1>8, <3>1
      <3>2. CASE i # n + 1
        <4>1. i \in 1..n
          BY <1>5, <3>2
        <4>2. encoded[i] \in Encodings(plan[i])
          BY <1>3, <1>4, <4>1 DEF SentAndGot
        <4> QED
          BY <1>8, <4>1, <4>2
      <3> QED
        BY <3>1, <3>2
    <2>3. \A i \in 1..(n + 1) : ss[i] \in Encodings(plan[i])'
      BY <1>2, <2>1, <2>2
    <2>4. encoded' = ss
      BY <1>1, <1>7
    <2>5. \A i \in 1..Len(encoded') : encoded'[i] \in Encodings(plan[i])'
      BY <1>8, <2>3, <2>4
    <2>6. Len(encoded') <= PlanLength /\ Len(got') <= Len(encoded') /\ IsVec(encoded') /\ IsVec(got')
      <3>1. n < PlanLength /\ n + 1 <= PlanLength
        BY <1>2, <1>3, <1>5, WirePlan
      <3>2. k <= n + 1
        BY <1>5
      <3> QED
        BY <1>2, <1>3, <1>4, <1>8, <2>4, <3>1, <3>2
    <2>7. proto' \in DOMAIN Messages /\ plan' \in [1..PlanLength -> Messages[proto']]
      BY <1>2, <1>4 DEF SentAndGot
    <2>8. \A i \in 1..Len(got') : got'[i] = AsReceived(plan'[i])
      BY <1>2, <1>4 DEF SentAndGot
    <2> QED
      BY <2>5, <2>6, <2>7, <2>8 DEF SentAndGot
  <1>10. StreamAligned'
    <2>1. temp \o wire = Unread(encoded, k)
      BY <1>3 DEF WireInv, StreamAligned, Unread
    <2>2. Assoc(temp, wire, tokens)
      BY <1>4, <1>6, VecsAssoc
    <2>3. temp \o (wire \o tokens) = Unread(ss, k)
      BY <1>7, <2>1, <2>2 DEF Assoc
    <2>4. temp' \o wire' = FlattenSeq(SubSeq(encoded', Len(got') + 1, Len(encoded')))
      BY <1>1, <1>2, <1>3, <1>7, <2>3 DEF Unread
    <2> QED
      BY <2>4 DEF StreamAligned
  <1>11. IsVec(temp') /\ IsVec(wire')
    BY <1>1, <1>2, <1>4, <1>6, VecConcat
  <1>12. RefusesOnlyForeign'
    <2>1. refused => k < n /\ plan[k + 1].is = "Foreign"
      BY <1>3 DEF WireInv, RefusesOnlyForeign
    <2>2. Len(encoded') = n + 1
      BY <1>1, <1>7, <1>8
    <2>3. k < n => k < n + 1
      BY <1>5
    <2> QED
      BY <1>2, <1>3, <2>1, <2>2, <2>3 DEF RefusesOnlyForeign
  <1> QED
    BY <1>9, <1>10, <1>11, <1>12 DEF WireInv

(* Receiving a message keeps the invariant.                                *)
LEMMA ReceiveKeeps ==
  ASSUME WireInv, ReceiveMessage
  PROVE  WireInv'
  <1>1. PICK d : d = Decode(temp)
    OBVIOUS
  <1>2. /\ ~refused /\ d.st = "ok" /\ got' = got \o d.got /\ temp' = d.rest /\ proto' = proto /\ plan' = plan
        /\ encoded' = encoded /\ wire' = wire /\ refused' = refused
    BY <1>1 DEF ReceiveMessage
  <1>3. PICK k, n, v : k = Len(got) /\ n = Len(encoded) /\ v = AsReceived(plan[k + 1])
    OBVIOUS
  <1>4. SentAndGot /\ IsVec(wire) /\ IsVec(encoded) /\ IsVec(got)
    BY DEF WireInv, SentAndGot
  <1>5. n \in Nat /\ k \in 0..n
    BY <1>3, <1>4, EncodedWords
  <1>6. k < n /\ d.got = <<v>> /\ IsVec(d.rest) /\ d.rest \o wire = Unread(encoded, k + 1)
    <2>1. Stands(k, n, d)
      BY <1>1, <1>3, StandsHere
    <2> QED
      BY <1>2, <1>3, <2>1 DEF Stands
  <1>7. PICK g : g = Append(got, v) /\ got' = g
    <2>1. got \o <<v>> = Append(got, v)
      BY <1>4, AppendJoin
    <2> QED
      BY <1>2, <1>6, <2>1
  <1>8. IsVec(g) /\ Len(g) = k + 1 /\ g[k + 1] = v /\ \A i \in 1..k : g[i] = got[i]
    <2>1. IsVec(Append(got, v)) /\ Len(Append(got, v)) = Len(got) + 1 /\ Append(got, v)[Len(got) + 1] = v
      BY <1>4, VecAppend
    <2>2. \A i \in 1..Len(got) : Append(got, v)[i] = got[i]
      BY <1>4, VecAppend
    <2> QED
      BY <1>3, <1>7, <2>1, <2>2
  <1>9. SentAndGot'
    <2>1. \A y : Encodings(y)' = Encodings(y)
      BY <1>2 DEF Encodings
    <2>2. \A i \in 1..Len(encoded') : encoded'[i] \in Encodings(plan[i])'
      BY <1>2, <1>4, <2>1 DEF SentAndGot
    <2>3. ASSUME NEW i \in 1..(k + 1)
          PROVE  g[i] = AsReceived(plan[i])
      <3>1. CASE i = k + 1
        BY <1>3, <1>8, <3>1
      <3>2. CASE i # k + 1
        <4>1. i \in 1..k
          BY <1>5, <3>2
        <4>2. got[i] = AsReceived(plan[i])
          BY <1>3, <1>4, <4>1 DEF SentAndGot
        <4> QED
          BY <1>8, <4>1, <4>2
      <3> QED
        BY <3>1, <3>2
    <2>4. \A i \in 1..Len(got') : got'[i] = AsReceived(plan'[i])
      BY <1>2, <1>7, <1>8, <2>3
    <2>5. IsVec(got') /\ Len(got') <= Len(encoded')
      <3>1. k + 1 <= n
        BY <1>5, <1>6
      <3> QED
        BY <1>2, <1>3, <1>7, <1>8, <3>1
    <2>6. proto' \in DOMAIN Messages /\ plan' \in [1..PlanLength -> Messages[proto']]
      BY <1>2, <1>4 DEF SentAndGot
    <2>7. IsVec(encoded') /\ Len(encoded') <= PlanLength
      BY <1>2, <1>4 DEF SentAndGot
    <2> QED
      BY <2>2, <2>4, <2>5, <2>6, <2>7 DEF SentAndGot
  <1>10. StreamAligned'
    <2>1. temp' \o wire' = Unread(encoded, k + 1)
      BY <1>2, <1>6
    <2>2. Len(got') = k + 1 /\ encoded' = encoded
      BY <1>2, <1>7, <1>8
    <2> QED
      BY <2>1, <2>2 DEF StreamAligned, Unread
  <1>11. IsVec(temp') /\ IsVec(wire')
    BY <1>2, <1>4, <1>6
  <1>12. RefusesOnlyForeign'
    BY <1>2 DEF RefusesOnlyForeign
  <1> QED
    BY <1>9, <1>10, <1>11, <1>12 DEF WireInv

(* Taking a chunk, cut anywhere, keeps the invariant.                      *)
LEMMA DequeueKeeps ==
  ASSUME WireInv, DequeueChunk
  PROVE  WireInv'
  <1>1. PICK n \in 1..Len(wire) : temp' = temp \o SubSeq(wire, 1, n) /\ wire' = SubSeq(wire, n + 1, Len(wire))
    BY DEF DequeueChunk
  <1>2. /\ proto' = proto /\ plan' = plan /\ encoded' = encoded /\ got' = got /\ refused' = refused
    BY DEF DequeueChunk
  <1>3. IsVec(temp) /\ IsVec(wire) /\ SentAndGot
    BY DEF WireInv
  <1>4. PICK L : L = Len(wire) /\ L \in Nat /\ n \in 1..L /\ n \in 0..L /\ n + 1 \in Nat \ {0}
    <2>1. Len(wire) \in Nat
      BY <1>3, VecFacts
    <2> QED
      BY <2>1
  <1>5. PICK a : a = SubSeq(wire, 1, n) /\ IsVec(a) /\ Len(a) = n /\ \A i \in 1..n : a[i] = wire[i]
    <2>1. PICK j : j = 1 /\ j \in Nat \ {0}
      OBVIOUS
    <2>2. n \in 0..Len(wire)
      BY <1>4
    <2>3. /\ IsVec(SubSeq(wire, j, n)) /\ Len(SubSeq(wire, j, n)) = (IF j <= n THEN n - j + 1 ELSE 0)
          /\ \A i \in 1..(n - j + 1) : SubSeq(wire, j, n)[i] = wire[j + i - 1]
      BY <1>3, <2>1, <2>2, VecPart
    <2>4. n - j + 1 = n /\ j <= n /\ \A i \in 1..n : j + i - 1 = i
      BY <1>4, <2>1
    <2>5. Len(SubSeq(wire, j, n)) = n /\ \A i \in 1..n : SubSeq(wire, j, n)[i] = wire[i]
      BY <2>3, <2>4
    <2> QED
      BY <2>1, <2>3, <2>5
  <1>6. PICK b : b = SubSeq(wire, n + 1, L) /\ IsVec(b) /\ Len(b) = L - n /\ \A i \in 1..(L - n) : b[i] = wire[n + i]
    <2>1. PICK j : j = n + 1 /\ j \in Nat \ {0}
      BY <1>4
    <2>2. L \in 0..Len(wire)
      BY <1>4
    <2>3. /\ IsVec(SubSeq(wire, j, L)) /\ Len(SubSeq(wire, j, L)) = (IF j <= L THEN L - j + 1 ELSE 0)
          /\ \A i \in 1..(L - j + 1) : SubSeq(wire, j, L)[i] = wire[j + i - 1]
      BY <1>3, <2>1, <2>2, VecPart
    <2>4. L - j + 1 = L - n /\ (~(j <= L) => L - n = 0) /\ \A i \in 1..(L - n) : j + i - 1 = n + i
      BY <1>4, <2>1
    <2>5. Len(SubSeq(wire, j, L)) = L - n /\ \A i \in 1..(L - n) : SubSeq(wire, j, L)[i] = wire[n + i]
      BY <2>3, <2>4
    <2> QED
      BY <2>1, <2>3, <2>5
  <1>7. a \o b = wire
    <2>1. PICK c : c = a \o b
      OBVIOUS
    <2>2. IsVec(a \o b) /\ Len(a \o b) = Len(a) + Len(b)
      BY <1>5, <1>6, VecConcat
    <2>6. IsVec(a) /\ IsVec(b)
      BY <1>5, <1>6
    <2>7. \A i \in 1..Len(a) : (a \o b)[i] = a[i]
      BY <2>6, VecConcat
    <2>8. \A i \in 1..Len(b) : (a \o b)[Len(a) + i] = b[i]
      BY <2>6, VecConcat
    <2>4. IsVec(c) /\ Len(c) = L
      BY <1>4, <1>5, <1>6, <2>1, <2>2
    <2>5. ASSUME NEW i \in 1..L
          PROVE  c[i] = wire[i]
      <3>1. CASE i <= n
        <4>1. i \in 1..n
          BY <1>4, <3>1
        <4> QED
          BY <1>5, <2>1, <2>7, <2>8, <4>1
      <3>2. CASE ~(i <= n)
        <4>1. PICK j : j = i - n /\ j \in 1..(L - n) /\ n + j = i
          BY <1>4, <3>2
        <4>2. c[n + j] = b[j] /\ b[j] = wire[n + j]
          BY <1>5, <1>6, <2>1, <2>7, <2>8, <4>1
        <4> QED
          BY <4>1, <4>2
      <3> QED
        BY <3>1, <3>2
    <2>9. c = wire
      BY <1>3, <1>4, <2>4, <2>5, VecEqual
    <2> QED
      BY <2>1, <2>9
  <1>8. temp' \o wire' = temp \o wire
    <2>1. Assoc(temp, a, b)
      BY <1>3, <1>5, <1>6, VecsAssoc
    <2>2. (temp \o a) \o b = temp \o wire
      BY <1>7, <2>1 DEF Assoc
    <2> QED
      BY <1>1, <1>4, <1>5, <1>6, <2>2
  <1>9. IsVec(temp') /\ IsVec(wire')
    <2>1. IsVec(temp \o a)
      BY <1>3, <1>5, VecConcat
    <2> QED
      BY <1>1, <1>4, <1>5, <1>6, <2>1
  <1>10. StreamAligned'
    <2>1. temp \o wire = FlattenSeq(SubSeq(encoded, Len(got) + 1, Len(encoded)))
      BY DEF WireInv, StreamAligned
    <2> QED
      BY <1>2, <1>8, <2>1 DEF StreamAligned
  <1>11. SentAndGot'
    BY <1>2, SentStays
  <1>12. RefusesOnlyForeign'
    BY <1>2 DEF WireInv, RefusesOnlyForeign
  <1> QED
    BY <1>9, <1>10, <1>11, <1>12 DEF WireInv

(* Refusing keeps the invariant: only a foreign message is refused.        *)
LEMMA RefuseKeeps ==
  ASSUME WireInv, RefuseInput
  PROVE  WireInv'
  <1>1. PICK d, k, n : d = Decode(temp) /\ k = Len(got) /\ n = Len(encoded)
    OBVIOUS
  <1>2. /\ d.st = "bad" /\ proto' = proto /\ plan' = plan /\ encoded' = encoded /\ got' = got
        /\ wire' = wire /\ temp' = temp
    BY <1>1 DEF RefuseInput
  <1>3. k < n /\ plan[k + 1].is = "Foreign"
    <2>1. Stands(k, n, d)
      BY <1>1, StandsHere
    <2> QED
      BY <1>2, <2>1 DEF Stands
  <1>4. RefusesOnlyForeign'
    BY <1>1, <1>2, <1>3 DEF RefusesOnlyForeign
  <1>5. SentAndGot'
    BY <1>2, SentStays
  <1>6. StreamAligned' /\ IsVec(temp') /\ IsVec(wire')
    BY <1>2 DEF WireInv, StreamAligned
  <1> QED
    BY <1>4, <1>5, <1>6 DEF WireInv

(* The invariant holds in every reachable state.                           *)
LEMMA WireInvariant == WireSpec => []WireInv
  <1>1. WireInit => WireInv
    BY InvInit
  <1>2. WireInv /\ [WireNext]_wireVars => WireInv'
    <2> SUFFICES ASSUME WireInv, [WireNext]_wireVars PROVE WireInv'
      OBVIOUS
    <2>1. CASE SendMessage
      BY <2>1, SendKeeps
    <2>2. CASE ReceiveMessage
      BY <2>2, ReceiveKeeps
    <2>3. CASE DequeueChunk
      BY <2>3, DequeueKeeps
    <2>4. CASE RefuseInput
      BY <2>4, RefuseKeeps
    <2>5. CASE UNCHANGED wireVars
      <3>1. /\ proto' = proto /\ plan' = plan /\ encoded' = encoded /\ got' = got
            /\ wire' = wire /\ temp' = temp /\ refused' = refused
        BY <2>5 DEF wireVars
      <3>2. SentAndGot'
        BY <3>1, SentStays
      <3>3. StreamAligned' /\ RefusesOnlyForeign' /\ IsVec(temp') /\ IsVec(wire')
        BY <3>1 DEF WireInv, StreamAligned, RefusesOnlyForeign
      <3> QED
        BY <3>2, <3>3 DEF WireInv
    <2> QED
      BY <2>1, <2>2, <2>3, <2>4, <2>5 DEF WireNext
  <1> QED
    BY <1>1, <1>2, PTL DEF WireSpec

(* However many messages are sent, whatever they hold and in whatever      *)
(* spelling, and however the stream is cut into chunks, what has arrived   *)
(* and what is under way are exactly the messages not yet received: every  *)
(* decode of protocol/messages.rs, protocol/types.rs, mux/handshake.rs,    *)
(* server/datapoint.rs and server/ekg.rs takes the tokens of its message   *)
(* from ChannelBuffer::temp and no others.                                 *)
THEOREM StreamIsAligned == WireSpec => []StreamAligned
  <1>1. WireInv => StreamAligned
    BY DEF WireInv
  <1> QED
    BY <1>1, WireInvariant, PTL

(* The messages recv_full_msg returns are the ones that were encoded, with *)
(* the same contents and in the order of sending.                          *)
THEOREM MessagesReceivedAsSent == WireSpec => []ReceivedAsSent
  <1>1. WireInv => ReceivedAsSent
    <2> SUFFICES ASSUME WireInv PROVE ReceivedAsSent
      OBVIOUS
    <2>1. SentAndGot /\ IsVec(got)
      BY DEF WireInv, SentAndGot
    <2>2. DOMAIN got = 1..Len(got)
      BY <2>1, VecFacts
    <2> QED
      BY <2>1, <2>2 DEF SentAndGot, ReceivedAsSent
  <1> QED
    BY <1>1, WireInvariant, PTL

(* A decoding error ends a session only at a message of a tag this crate   *)
(* does not know: no beginning of a message is taken for anything but an   *)
(* incomplete one.                                                         *)
THEOREM OnlyForeignRefused == WireSpec => []RefusesOnlyForeign
  <1>1. WireInv => RefusesOnlyForeign
    BY DEF WireInv
  <1> QED
    BY <1>1, WireInvariant, PTL

(* When all that was sent has arrived and recv_full_msg waits for more,    *)
(* it has returned every message.                                          *)
THEOREM ReceiverNeverStuck == WireSpec => []NothingStuck
  <1>1. WireInv => NothingStuck
    <2> SUFFICES ASSUME WireInv, Len(encoded) = PlanLength, wire = << >>, Decode(temp).st = "end"
                 PROVE  Len(got) = PlanLength
      BY DEF NothingStuck
    <2>1. Stands(Len(got), Len(encoded), Decode(temp))
      BY StandsHere
    <2> QED
      BY <2>1 DEF Stands
  <1> QED
    BY <1>1, WireInvariant, PTL
=============================================================================

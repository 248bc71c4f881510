--------------------------- MODULE DispatcherProofs ---------------------------
(***************************************************************************)
(* What the dispatcher promises, for every set of namespaces, set-ups,     *)
(* threads and frequencies, and however long the clock runs: the token     *)
(* buckets admit exactly what the rate allows and dispatches use them as   *)
(* RateLimiter says; every backend gets what the longest prefix of the     *)
(* namespace lists; and a DataPoint reply holds nothing that was replaced  *)
(* before it was asked for.                                                *)
(***************************************************************************)
EXTENDS Dispatcher, SequenceLemmas, FunctionTheorems

(* A bucket made for frequency f and used no later than `at'.              *)
BucketOK(b, at) ==
  /\ b \in [tokens : Nat, max_tokens : Nat, refill_rate : Nat, last_refill : Nat]
  /\ b.max_tokens = Burst(b.refill_rate)
  /\ b.tokens <= b.max_tokens
  /\ b.last_refill <= at

(* What a namespace may still send at once, given all of the messages sent *)
(* since the i-th of them: the burst, plus the rate, less those messages.  *)
Headroom(b, a, i) ==
  Allowance(b.refill_rate, a[i], b.last_refill) - (Len(a) - i + 1) * Cost

(* The tokens are the least such headroom, and the burst if that is less.  *)
LevelOK(b, a) ==
  /\ \A i \in 1..Len(a) : b.tokens <= Headroom(b, a, i)
  /\ \/ b.tokens = Burst(b.refill_rate)
     \/ \E i \in 1..Len(a) : b.tokens = Headroom(b, a, i)

LimTypeOK ==
  /\ now \in Nat
  /\ DOMAIN buckets \subseteq Namespaces
  /\ \A ns \in DOMAIN buckets : BucketOK(buckets[ns], now)
  /\ admitted \in [Namespaces -> Seq(Nat)]
  /\ refused \in [Namespaces -> SUBSET (Nat \X Nat)]

(* The inductive invariant: how full each bucket is tells what was sent.   *)
LimInv ==
  /\ LimTypeOK
  /\ \A ns \in Namespaces \ DOMAIN buckets : admitted[ns] = << >> /\ refused[ns] = {}
  /\ \A ns \in DOMAIN buckets : LevelOK(buckets[ns], admitted[ns])
  /\ \A ns \in Namespaces : \A r \in refused[ns] : r[2] <= Len(admitted[ns])
  /\ AdmitsExactlyWithinRate

-----------------------------------------------------------------------------
(* Rate times time is linear in the time.                                  *)
LEMMA RateOverTime ==
  ASSUME NEW f \in Nat, NEW x \in Int, NEW y \in Int
  PROVE  /\ f * x \in Int
         /\ f * (x + y) = f * x + f * y
         /\ y >= 0 => f * y \in Nat
         /\ f * 0 = 0
  OBVIOUS

(* Refilling keeps a bucket a bucket and its level true.                   *)
LEMMA RefillKeepsLevel ==
  ASSUME NEW a \in Seq(Nat), NEW at \in Nat, NEW b, BucketOK(b, at), LevelOK(b, a)
  PROVE  /\ BucketOK(refill(b, at), at)
         /\ LevelOK(refill(b, at), a)
         /\ refill(b, at).refill_rate = b.refill_rate
         /\ refill(b, at).last_refill = at
  <1> DEFINE f == b.refill_rate
             d == at - b.last_refill
             gained == b.tokens + d * f
             c == refill(b, at)
  <1>1. /\ f \in Nat /\ b.tokens \in Nat /\ b.max_tokens = 2 * f
        /\ b.last_refill \in Nat /\ d \in Nat /\ b.tokens <= 2 * f
    BY DEF BucketOK, Burst
  <1>2. d * f = f * d /\ f * d \in Nat /\ gained \in Nat
    <2>1. f * d \in Nat
      BY <1>1, RateOverTime
    <2>2. d * f = f * d
      BY <1>1
    <2> QED
      BY <1>1, <2>1, <2>2
  <1> HIDE DEF gained
  <1>3. c = [b EXCEPT !.tokens = AtMost(gained, b.max_tokens), !.last_refill = at]
    BY DEF refill, gained
  <1>4. /\ c.tokens = AtMost(gained, b.max_tokens) /\ c.max_tokens = b.max_tokens
        /\ c.refill_rate = f /\ c.last_refill = at
        /\ c \in [tokens : Nat, max_tokens : Nat, refill_rate : Nat, last_refill : Nat]
    BY <1>1, <1>2, <1>3 DEF BucketOK, AtMost
  <1>5. c.tokens <= gained /\ c.tokens <= 2 * f /\ (c.tokens = gained \/ c.tokens = 2 * f)
    BY <1>1, <1>2, <1>4 DEF AtMost
  <1>6. BucketOK(c, at)
    BY <1>1, <1>4, <1>5 DEF BucketOK, Burst
  <1>7. \A i \in 1..Len(a) : /\ Headroom(c, a, i) = Headroom(b, a, i) + d * f
                             /\ Headroom(b, a, i) \in Int
    <2> SUFFICES ASSUME NEW i \in 1..Len(a)
                 PROVE  /\ Headroom(c, a, i) = Headroom(b, a, i) + d * f
                        /\ Headroom(b, a, i) \in Int
      OBVIOUS
    <2>1. a[i] \in Nat /\ Len(a) \in Nat
      BY LenProperties, ElementOfSeq
    <2>2. f * ((b.last_refill - a[i]) + d) = f * (b.last_refill - a[i]) + f * d
      <3>1. PICK x \in Int : x = b.last_refill - a[i]
        BY <1>1, <2>1
      <3>2. PICK k \in Nat, y \in Nat : k = f /\ y = d
        BY <1>1
      <3>3. k * (x + y) = k * x + k * y
        BY RateOverTime
      <3> QED
        BY <3>1, <3>2, <3>3
    <2>3. (b.last_refill - a[i]) + d = at - a[i]
      BY <1>1, <2>1
    <2>4. f * (b.last_refill - a[i]) \in Int
      BY <1>1, <2>1, RateOverTime
    <2>5. Headroom(b, a, i) = 2 * f + f * (b.last_refill - a[i]) - (Len(a) - i + 1) * 4
      BY <1>1, <2>1, <2>4 DEF Headroom, Allowance, Burst, Cost
    <2>6. Headroom(c, a, i) = 2 * f + f * (at - a[i]) - (Len(a) - i + 1) * 4
      BY <1>4 DEF Headroom, Allowance, Burst, Cost
    <2>7. f * (at - a[i]) = f * (b.last_refill - a[i]) + d * f
      BY <1>2, <2>2, <2>3
    <2> DEFINE p == f * (b.last_refill - a[i])
               q == d * f
               r == f * (at - a[i])
    <2>8. p \in Int /\ q \in Int /\ r = p + q
      BY <1>2, <2>4, <2>7
    <2>9. /\ Headroom(b, a, i) = 2 * f + p - (Len(a) - i + 1) * 4
          /\ Headroom(c, a, i) = 2 * f + r - (Len(a) - i + 1) * 4
      BY <2>5, <2>6
    <2> HIDE DEF p, q, r
    <2>10. /\ Headroom(c, a, i) = Headroom(b, a, i) + q
           /\ Headroom(b, a, i) \in Int
      BY SMTT(60), <1>1, <2>1, <2>8, <2>9
    <2> QED
      BY <2>10 DEF q
  <1> HIDE DEF c
  <1>8. \A i \in 1..Len(a) : c.tokens <= Headroom(c, a, i)
    <2> SUFFICES ASSUME NEW i \in 1..Len(a)
                 PROVE  c.tokens <= Headroom(c, a, i)
      OBVIOUS
    <2>1. b.tokens <= Headroom(b, a, i)
      BY DEF LevelOK
    <2> DEFINE q == d * f
    <2>2. /\ q \in Int /\ gained = b.tokens + q
          /\ Headroom(c, a, i) = Headroom(b, a, i) + q /\ Headroom(b, a, i) \in Int
      BY <1>2, <1>7 DEF gained
    <2> HIDE DEF q
    <2> QED
      BY <1>1, <1>4, <1>5, <2>1, <2>2
  <1>9. c.tokens = Burst(c.refill_rate) \/ \E i \in 1..Len(a) : c.tokens = Headroom(c, a, i)
    <2>1. CASE c.tokens = 2 * f
      BY <1>4, <2>1 DEF Burst
    <2>2. CASE c.tokens = gained /\ b.tokens = Burst(f)
      BY <1>1, <1>2, <1>4, <1>5, <2>2 DEF Burst, gained
    <2>3. CASE c.tokens = gained /\ \E i \in 1..Len(a) : b.tokens = Headroom(b, a, i)
      BY <1>1, <1>2, <1>7, <2>3 DEF gained
    <2> QED
      BY <1>5, <2>1, <2>2, <2>3 DEF LevelOK
  <1> QED
    BY <1>4, <1>6, <1>8, <1>9 DEF LevelOK, c

(* What try_acquire finds: a bucket refilled up to now, whose level is     *)
(* true of what the namespace has sent.                                    *)
LEMMA BucketFound ==
  ASSUME LimInv, NEW ns \in Namespaces, NEW f \in Nat
  PROVE  /\ BucketOK(Bucket(ns, f), now)
         /\ LevelOK(Bucket(ns, f), admitted[ns])
         /\ Bucket(ns, f).last_refill = now
         /\ ns \in DOMAIN buckets => Bucket(ns, f).refill_rate = buckets[ns].refill_rate
  <1>1. now \in Nat /\ admitted[ns] \in Seq(Nat)
    BY DEF LimInv, LimTypeOK
  <1>2. CASE ns \in DOMAIN buckets
    BY <1>1, <1>2, RefillKeepsLevel DEF Bucket, LimInv, LimTypeOK
  <1>3. CASE ns \notin DOMAIN buckets
    <2> DEFINE b == TokenBucket(f, now)
    <2>1. BucketOK(b, now)
      BY <1>1 DEF BucketOK, TokenBucket, Burst
    <2>2. LevelOK(b, admitted[ns])
      BY <1>3 DEF LimInv, LevelOK, TokenBucket
    <2> HIDE DEF b
    <2> QED
      BY <1>1, <1>3, <2>1, <2>2, RefillKeepsLevel DEF Bucket, b
  <1> QED
    BY <1>2, <1>3

-----------------------------------------------------------------------------
(* At first nothing was sent.                                              *)
LEMMA LimInvInit == LimInit => LimInv
  <1> SUFFICES ASSUME LimInit PROVE LimInv
    OBVIOUS
  <1>1. DOMAIN buckets = {}
    BY DEF LimInit
  <1>2. /\ now = 0 /\ admitted = [n \in Namespaces |-> << >>]
        /\ refused = [n \in Namespaces |-> {}]
    BY DEF LimInit
  <1>3. << >> \in Seq(Nat)
    OBVIOUS
  <1> QED
    BY <1>1, <1>2, <1>3
    DEF LimInv, LimTypeOK, AdmitsExactlyWithinRate, NeverOverTheRate, DropsOnlyOverTheRate

(* The clock: a bucket's level is as of its last refill.                   *)
LEMMA LimInvTick == LimInv /\ Tick => LimInv'
  <1> SUFFICES ASSUME LimInv, Tick PROVE LimInv'
    OBVIOUS
  <1>1. /\ now \in Nat /\ now' = now + 1
        /\ buckets' = buckets /\ admitted' = admitted /\ refused' = refused
    BY DEF LimInv, LimTypeOK, Tick
  <1>2. \A ns \in DOMAIN buckets : BucketOK(buckets[ns], now')
    BY <1>1 DEF LimInv, LimTypeOK, BucketOK
  <1>3. LimTypeOK'
    BY <1>1, <1>2 DEF LimInv, LimTypeOK
  <1>4. AdmitsExactlyWithinRate'
    BY <1>1 DEF LimInv, AdmitsExactlyWithinRate, NeverOverTheRate, DropsOnlyOverTheRate
  <1> QED
    BY <1>1, <1>3, <1>4 DEF LimInv

(* A message that passes: the bucket had a token for it, so every stretch  *)
(* that ends with it had room for it.                                      *)
LEMMA LimInvAdmit ==
  ASSUME LimInv, NEW ns \in Namespaces, NEW f \in Nat, Admit(ns, f)
  PROVE  LimInv'
  <1> DEFINE b == Bucket(ns, f)
             c == [b EXCEPT !.tokens = @ - Cost]
             a == admitted[ns]
             rate == b.refill_rate
  <1>1. /\ now \in Nat /\ a \in Seq(Nat) /\ BucketOK(b, now) /\ LevelOK(b, a)
        /\ b.last_refill = now
        /\ ns \in DOMAIN buckets => rate = buckets[ns].refill_rate
    BY BucketFound DEF LimInv, LimTypeOK
  <1>2. /\ b.tokens >= 4 /\ now' = now /\ refused' = refused
        /\ admitted' = [admitted EXCEPT ![ns] = Append(@, now)]
        /\ buckets' = [n \in DOMAIN buckets \cup {ns} |-> IF n = ns THEN c ELSE buckets[n]]
    BY DEF Admit, HasToken, Store, Cost
  <1> HIDE DEF b
  <1>3. /\ rate \in Nat /\ b.tokens \in Nat /\ c.tokens = b.tokens - 4
        /\ c.refill_rate = rate /\ c.last_refill = now /\ BucketOK(c, now)
        /\ b.tokens <= Burst(rate)
    BY <1>1, <1>2 DEF BucketOK, Cost
  <1> HIDE DEF c
  <1>4. /\ DOMAIN buckets' = DOMAIN buckets \cup {ns} /\ buckets'[ns] = c
        /\ \A n \in DOMAIN buckets \ {ns} : buckets'[n] = buckets[n]
    BY <1>2
  <1>5. /\ admitted \in [Namespaces -> Seq(Nat)] /\ DOMAIN buckets \subseteq Namespaces
        /\ refused \in [Namespaces -> SUBSET (Nat \X Nat)]
    BY DEF LimInv, LimTypeOK
  <1> DEFINE a1 == admitted'[ns]
  <1>6. /\ a1 = Append(a, now)
        /\ a1 \in Seq(Nat) /\ Len(a1) = Len(a) + 1 /\ a1[Len(a) + 1] = now
        /\ \A i \in 1..Len(a) : a1[i] = a[i]
        /\ Len(a) \in Nat
        /\ \A n \in Namespaces \ {ns} : admitted'[n] = admitted[n]
        /\ admitted' \in [Namespaces -> Seq(Nat)]
    BY <1>1, <1>2, <1>5, AppendProperties
  <1>0. Len(a) \in Nat /\ Len(a1) = Len(a) + 1
    BY <1>6
  <1>7. \A i \in 1..Len(a) : Headroom(c, a1, i) = Headroom(b, a, i) - 4 /\ Headroom(b, a, i) \in Int
    <2> SUFFICES ASSUME NEW i \in 1..Len(a)
                 PROVE  /\ Headroom(c, a1, i) = Headroom(b, a, i) - 4
                        /\ Headroom(b, a, i) \in Int
      OBVIOUS
    <2> DEFINE room == Allowance(rate, a[i], now)
    <2>1. a[i] \in Nat /\ a1[i] = a[i]
      BY <1>1, <1>6, ElementOfSeq
    <2>2. room \in Int
      <3>1. rate * (now - a[i]) \in Int
        BY SMTT(60), <1>1, <1>3, <2>1, RateOverTime
      <3> QED
        BY <1>3, <3>1 DEF Allowance, Burst
    <2>3. /\ Headroom(b, a, i) = room - (Len(a) - i + 1) * 4
          /\ Headroom(c, a1, i) = room - (Len(a) + 1 - i + 1) * 4
      BY <1>1, <1>3, <1>6, <2>1 DEF Headroom, Cost
    <2> DEFINE n == Len(a)
               before == Headroom(b, a, i)
               after == Headroom(c, a1, i)
    <2>4. n \in Nat /\ i \in 1..n /\ before = room - (n - i + 1) * 4
          /\ after = room - (n + 1 - i + 1) * 4
      BY <1>0, <2>3
    <2> HIDE DEF room, n, before, after
    <2>5. after = before - 4 /\ before \in Int
      BY <2>2, <2>4
    <2> QED
      BY <2>5 DEF before, after
  <1>8. Headroom(c, a1, Len(a) + 1) = Burst(rate) - 4
    <2>1. Allowance(rate, now, now) = Burst(rate) + rate * 0
      BY <1>1 DEF Allowance
    <2>2. rate * 0 = 0 /\ Burst(rate) \in Nat
      BY <1>3, RateOverTime DEF Burst
    <2>3. Headroom(c, a1, Len(a) + 1) = Allowance(rate, now, now) - (Len(a) + 1 - (Len(a) + 1) + 1) * 4
      BY <1>3, <1>6 DEF Headroom, Cost
    <2> QED
      BY <1>6, <2>1, <2>2, <2>3
  <1> HIDE DEF a1
  <1>9. LevelOK(c, a1)
    <2>1. \A i \in 1..Len(a1) : c.tokens <= Headroom(c, a1, i)
      <3> SUFFICES ASSUME NEW i \in 1..Len(a1) PROVE c.tokens <= Headroom(c, a1, i)
        OBVIOUS
      <3>1. CASE i \in 1..Len(a)
        BY <1>1, <1>3, <1>7, <3>1 DEF LevelOK
      <3>2. CASE i = Len(a) + 1
        BY <1>3, <1>8, <3>2 DEF Burst
      <3> QED
        BY <1>0, <3>1, <3>2
    <2>2. \E i \in 1..Len(a1) : c.tokens = Headroom(c, a1, i)
      <3>1. CASE b.tokens = Burst(rate)
        BY <1>3, <1>6, <1>8, <3>1
      <3>2. CASE \E i \in 1..Len(a) : b.tokens = Headroom(b, a, i)
        BY <1>3, <1>6, <1>7, <3>2
      <3> QED
        BY <1>1, <3>1, <3>2 DEF LevelOK
    <2> QED
      BY <2>1, <2>2 DEF LevelOK
  <1>10. LimTypeOK'
    BY <1>1, <1>2, <1>3, <1>4, <1>5, <1>6 DEF LimInv, LimTypeOK
  <1>11. \A n \in DOMAIN buckets' : LevelOK(buckets'[n], admitted'[n])
    BY <1>4, <1>5, <1>6, <1>9 DEF LimInv, a1
  <1>12. \A n \in Namespaces \ DOMAIN buckets' : admitted'[n] = << >> /\ refused'[n] = {}
    BY <1>2, <1>4, <1>6 DEF LimInv
  <1>13. \A n \in Namespaces : \A r \in refused'[n] : r[2] <= Len(admitted'[n])
    <2> SUFFICES ASSUME NEW n \in Namespaces, NEW r \in refused[n]
                 PROVE  r[2] <= Len(admitted'[n])
      BY <1>2
    <2>1. r[2] \in Nat /\ r[2] <= Len(admitted[n])
      BY <1>5 DEF LimInv
    <2>2. CASE n = ns
      BY <1>0, <2>1, <2>2 DEF a1
    <2>3. CASE n # ns
      BY <1>6, <2>1, <2>3
    <2> QED
      BY <2>2, <2>3
  <1>14. NeverOverTheRate'
    <2> SUFFICES ASSUME NEW n \in DOMAIN buckets', NEW i \in DOMAIN admitted'[n],
                        NEW j \in DOMAIN admitted'[n], i <= j
                 PROVE  (j - i + 1) * Cost <=
                          Allowance(buckets'[n].refill_rate, admitted'[n][i], admitted'[n][j])
      BY DEF NeverOverTheRate
    <2>1. CASE n # ns
      BY <1>4, <1>5, <1>6, <2>1 DEF LimInv, AdmitsExactlyWithinRate, NeverOverTheRate
    <2>2. CASE n = ns /\ j \in 1..Len(a)
      <3>1. ns \in DOMAIN buckets /\ i \in 1..Len(a)
        <4>1. i \in 1..Len(a1)
          BY <1>6, <2>2, LenProperties DEF a1
        <4>2. i \in 1..Len(a)
          BY <1>6, <2>2, <4>1
        <4>3. Len(a) # 0
          BY <1>6, <4>2
        <4> QED
          BY <4>2, <4>3 DEF LimInv
      <3>2. DOMAIN a = 1..Len(a) /\ a1[i] = a[i] /\ a1[j] = a[j]
        BY <1>1, <1>6, <2>2, <3>1, LenProperties
      <3> QED
        BY <1>1, <1>3, <1>4, <2>2, <3>1, <3>2
        DEF LimInv, AdmitsExactlyWithinRate, NeverOverTheRate, a1
    <2>3. CASE n = ns /\ j = Len(a) + 1
      <3>1. i \in 1..Len(a1)
        BY <1>6, <2>3, LenProperties DEF a1
      <3>2. 0 <= Headroom(c, a1, i) /\ Headroom(c, a1, i) \in Int
        <4>1. c.tokens \in Nat /\ Burst(rate) - 4 \in Int
          BY <1>2, <1>3 DEF Burst
        <4>2. i \in 1..Len(a) \/ i = Len(a) + 1
          BY <1>6, <3>1
        <4>3. Headroom(c, a1, i) \in Int
          BY <1>7, <1>8, <4>1, <4>2
        <4> QED
          BY <1>9, <3>1, <4>1, <4>3 DEF LevelOK
      <3> DEFINE room == Allowance(rate, a1[i], now)
      <3>3. room \in Int
        <4>1. a1[i] \in Nat
          BY <1>6, <3>1, ElementOfSeq
        <4>2. rate * (now - a1[i]) \in Int
          BY <1>1, <1>3, <4>1, RateOverTime
        <4> QED
          BY <1>3, <4>2 DEF Allowance, Burst
      <3>4. Headroom(c, a1, i) = room - (Len(a) + 1 - i + 1) * 4
        <4>1. Len(a1) - i + 1 = Len(a) + 1 - i + 1
          BY <1>0, <3>1
        <4> HIDE DEF room
        <4>2. Headroom(c, a1, i) = room - (Len(a1) - i + 1) * 4
          <5>1. c.refill_rate = rate /\ c.last_refill = now
            BY <1>3
          <5> QED
            BY <5>1 DEF Headroom, Cost, room
        <4> QED
          BY <4>1, <4>2
      <3> HIDE DEF room
      <3> DEFINE n1 == Len(a)
                 after == Headroom(c, a1, i)
      <3>5. n1 \in Nat /\ i \in 1..(n1 + 1) /\ j = n1 + 1 /\ 0 <= after
            /\ after = room - (n1 + 1 - i + 1) * 4
        BY <1>0, <2>3, <3>1, <3>2, <3>4
      <3> HIDE DEF n1, after
      <3>6. (j - i + 1) * 4 <= room
        BY <3>3, <3>5
      <3> QED
        BY <1>3, <1>4, <1>6, <2>3, <3>6 DEF Cost, room, a1
    <2> QED
      <3>1. CASE n = ns
        <4>1. j \in 1..Len(a1)
          BY <1>6, <3>1, LenProperties DEF a1
        <4> QED
          BY <1>0, <2>2, <2>3, <3>1, <4>1
      <3> QED
        BY <2>1, <3>1
  <1>15. DropsOnlyOverTheRate'
    <2> SUFFICES ASSUME NEW n \in DOMAIN buckets', NEW r \in refused[n]
                 PROVE  \/ Cost > Burst(buckets'[n].refill_rate)
                        \/ \E i \in 1..r[2] : (r[2] - i + 2) * Cost
                             > Allowance(buckets'[n].refill_rate, admitted'[n][i], r[1])
      BY <1>2 DEF DropsOnlyOverTheRate
    <2>1. n \in Namespaces /\ n \in DOMAIN buckets
      BY <1>4, <1>5 DEF LimInv
    <2>2. buckets'[n].refill_rate = buckets[n].refill_rate
      BY <1>1, <1>3, <1>4, <2>1
    <2>3. r[2] \in Nat /\ r[2] <= Len(admitted[n])
      BY <1>5, <2>1 DEF LimInv
    <2>4. \A i \in 1..r[2] : admitted'[n][i] = admitted[n][i]
      <3>1. CASE n = ns
        <4>1. \A i \in 1..r[2] : i \in 1..Len(a)
          BY <1>0, <2>3, <3>1
        <4> QED
          BY <1>6, <3>1, <4>1 DEF a1
      <3>2. CASE n # ns
        BY <1>6, <2>1, <3>2
      <3> QED
        BY <3>1, <3>2
    <2> QED
      BY <2>1, <2>2, <2>4 DEF LimInv, AdmitsExactlyWithinRate, DropsOnlyOverTheRate
  <1> QED
    BY <1>10, <1>11, <1>12, <1>13, <1>14, <1>15 DEF LimInv, AdmitsExactlyWithinRate

(* A message that is refused: the bucket is not full, so its level is the  *)
(* headroom of some stretch, and one more message does not fit in it.      *)
LEMMA LimInvRefuse ==
  ASSUME LimInv, NEW ns \in Namespaces, NEW f \in Nat, Refuse(ns, f)
  PROVE  LimInv'
  <1> DEFINE b == Bucket(ns, f)
             a == admitted[ns]
             rate == b.refill_rate
             why == <<now, Len(a)>>
  <1>1. /\ now \in Nat /\ a \in Seq(Nat) /\ BucketOK(b, now) /\ LevelOK(b, a)
        /\ b.last_refill = now
        /\ ns \in DOMAIN buckets => rate = buckets[ns].refill_rate
    BY BucketFound DEF LimInv, LimTypeOK
  <1>2. /\ ~(b.tokens >= 4) /\ now' = now /\ admitted' = admitted
        /\ refused' = [refused EXCEPT ![ns] = @ \cup {why}]
        /\ buckets' = [n \in DOMAIN buckets \cup {ns} |-> IF n = ns THEN b ELSE buckets[n]]
    BY DEF Refuse, HasToken, Store, Cost
  <1> HIDE DEF b
  <1>3. rate \in Nat /\ b.tokens \in Nat /\ Len(a) \in Nat
    BY <1>1 DEF BucketOK
  <1>4. /\ DOMAIN buckets' = DOMAIN buckets \cup {ns} /\ buckets'[ns] = b
        /\ \A n \in DOMAIN buckets \ {ns} : buckets'[n] = buckets[n]
    BY <1>2
  <1>5. /\ admitted \in [Namespaces -> Seq(Nat)] /\ DOMAIN buckets \subseteq Namespaces
        /\ refused \in [Namespaces -> SUBSET (Nat \X Nat)]
    BY DEF LimInv, LimTypeOK
  <1>6. /\ refused'[ns] = refused[ns] \cup {why} /\ why \in Nat \X Nat
        /\ why[1] = now /\ why[2] = Len(a)
        /\ \A n \in Namespaces \ {ns} : refused'[n] = refused[n]
        /\ refused' \in [Namespaces -> SUBSET (Nat \X Nat)]
    BY <1>1, <1>2, <1>3, <1>5
  <1> HIDE DEF why
  <1>7. LimTypeOK'
    BY <1>1, <1>2, <1>4, <1>5, <1>6 DEF LimInv, LimTypeOK
  <1>8. \A n \in DOMAIN buckets' : LevelOK(buckets'[n], admitted'[n])
    BY <1>1, <1>2, <1>4 DEF LimInv
  <1>9. \A n \in Namespaces \ DOMAIN buckets' : admitted'[n] = << >> /\ refused'[n] = {}
    BY <1>2, <1>4, <1>6 DEF LimInv
  <1>10. \A n \in Namespaces : \A r \in refused'[n] : r[2] <= Len(admitted'[n])
    BY <1>2, <1>3, <1>6 DEF LimInv
  <1>11. NeverOverTheRate'
    <2> SUFFICES ASSUME NEW n \in DOMAIN buckets', NEW i \in DOMAIN admitted[n],
                        NEW j \in DOMAIN admitted[n], i <= j
                 PROVE  (j - i + 1) * Cost <=
                          Allowance(buckets'[n].refill_rate, admitted[n][i], admitted[n][j])
      <3>1. admitted' = admitted
        BY <1>2
      <3> QED
        BY <3>1 DEF NeverOverTheRate
    <2>1. n \in Namespaces
      BY <1>4, <1>5
    <2>2. n \in DOMAIN buckets
      <3> SUFFICES ASSUME n \notin DOMAIN buckets PROVE FALSE
        OBVIOUS
      <3>1. admitted[n] = << >> /\ DOMAIN admitted[n] = 1..Len(admitted[n])
        BY <1>5, <2>1, LenProperties DEF LimInv
      <3> QED
        BY <3>1
    <2>3. buckets'[n].refill_rate = buckets[n].refill_rate
      BY <1>1, <1>4, <2>2
    <2> QED
      BY <2>2, <2>3 DEF LimInv, AdmitsExactlyWithinRate, NeverOverTheRate
  <1>12. \/ Cost > Burst(rate)
         \/ \E i \in 1..Len(a) : (Len(a) - i + 2) * Cost > Allowance(rate, a[i], now)
    <2>1. CASE b.tokens = Burst(rate)
      BY <1>2, <1>3, <2>1 DEF Cost
    <2>2. ASSUME NEW i \in 1..Len(a), b.tokens = Headroom(b, a, i)
          PROVE  (Len(a) - i + 2) * Cost > Allowance(rate, a[i], now)
      <3> DEFINE room == Allowance(rate, a[i], now)
                 n == Len(a)
      <3>1. room \in Int
        <4>1. a[i] \in Nat
          BY <1>1, ElementOfSeq
        <4>2. rate * (now - a[i]) \in Int
          BY <1>1, <1>3, <4>1, RateOverTime
        <4> QED
          BY <1>3, <4>2 DEF Allowance, Burst
      <3>2. b.tokens = room - (n - i + 1) * 4
        BY <1>1, <1>3, <2>2 DEF Headroom, Cost
      <3>3. n \in Nat /\ i \in 1..n
        BY <1>3
      <3> HIDE DEF room, n
      <3>4. (n - i + 2) * 4 > room
        BY <1>2, <1>3, <3>1, <3>2, <3>3
      <3> QED
        BY <3>4 DEF room, n, Cost
    <2> QED
      BY <1>1, <2>1, <2>2 DEF LevelOK
  <1>13. DropsOnlyOverTheRate'
    <2> SUFFICES ASSUME NEW n \in DOMAIN buckets', NEW r \in refused'[n]
                 PROVE  \/ Cost > Burst(buckets'[n].refill_rate)
                        \/ \E i \in 1..r[2] : (r[2] - i + 2) * Cost
                             > Allowance(buckets'[n].refill_rate, admitted[n][i], r[1])
      <3>1. admitted' = admitted
        BY <1>2
      <3> QED
        BY <3>1 DEF DropsOnlyOverTheRate
    <2>1. CASE n = ns /\ r = why
      BY <1>4, <1>6, <1>12, <2>1
    <2>2. CASE r \in refused[n]
      <3>1. n \in Namespaces /\ n \in DOMAIN buckets
        BY <1>4, <1>5, <2>2 DEF LimInv
      <3>2. buckets'[n].refill_rate = buckets[n].refill_rate
        BY <1>1, <1>4, <3>1
      <3> QED
        BY <2>2, <3>1, <3>2 DEF LimInv, AdmitsExactlyWithinRate, DropsOnlyOverTheRate
    <2> QED
      BY <1>4, <1>5, <1>6, <2>1, <2>2
  <1> QED
    BY <1>7, <1>8, <1>9, <1>10, <1>11, <1>13 DEF LimInv, AdmitsExactlyWithinRate

(* Every step of the limiter keeps the invariant.                          *)
LEMMA LimInvStep == LimInv /\ [LimNext]_limVars => LimInv'
  <1> SUFFICES ASSUME LimInv, [LimNext]_limVars PROVE LimInv'
    OBVIOUS
  <1>1. CASE Tick
    BY <1>1, LimInvTick
  <1>2. ASSUME NEW ns \in Namespaces, NEW f \in Frequencies, Admit(ns, f) \/ Refuse(ns, f)
        PROVE  LimInv'
    BY <1>2, LimInvAdmit, LimInvRefuse, LimiterBounds
  <1>3. CASE UNCHANGED limVars
    BY <1>3 DEF limVars, LimInv, LimTypeOK, AdmitsExactlyWithinRate, NeverOverTheRate,
                DropsOnlyOverTheRate
  <1> QED
    BY <1>1, <1>2, <1>3 DEF LimNext

(* A bucket lets through what the rate allows and drops nothing else.      *)
THEOREM LimiterCorrect == LimSpec => []AdmitsExactlyWithinRate
  <1>1. LimInv => AdmitsExactlyWithinRate
    BY DEF LimInv
  <1> QED
    BY <1>1, LimInvInit, LimInvStep, PTL DEF LimSpec

-----------------------------------------------------------------------------
(* What the application decided before the first message stays so.         *)
Decided == setup \in Setups /\ disp = build(setup)

(* What the application decided before it started stays decided.           *)
LEMMA DecidedStep == Decided /\ [DispNext]_allVars => Decided'
  <1> SUFFICES ASSUME Decided, [DispNext]_allVars PROVE Decided'
    OBVIOUS
  <1>1. UNCHANGED <<setup, disp>>
    <2>1. ASSUME NEW t \in Threads, Deliver(t)
          PROVE  UNCHANGED <<setup, disp>>
      BY <2>1 DEF Deliver, Skip, ToStdout, ToForwarder, ToDatapoint, RecordMetric, ToEkg, Return
    <2>2. ASSUME NEW t \in Threads, NEW m \in setup.messages, dispatch(t, m)
          PROVE  UNCHANGED <<setup, disp>>
      BY <2>2 DEF dispatch
    <2>3. ASSUME NEW names \in setup.asked, Request(names)
          PROVE  UNCHANGED <<setup, disp>>
      BY <2>3 DEF Request
    <2>4. CASE Clock \/ on_event \/ ForwarderTakes \/ ForwarderDropped \/ LookUp \/ Receive
      BY <2>4 DEF Clock, dispVars, on_event, ForwarderTakes, ForwarderDropped, LookUp, Receive
    <2>5. CASE UNCHANGED allVars
      BY <2>5 DEF allVars, dispVars
    <2> QED
      BY <2>1, <2>2, <2>3, <2>4, <2>5 DEF DispNext
  <1> QED
    BY <1>1 DEF Decided

(* Only dispatch and the clock touch the buckets, each as the limiter does.*)
LEMMA LimiterStep == Decided /\ [DispNext]_allVars => [LimNext]_limVars
  <1> SUFFICES ASSUME Decided, [DispNext]_allVars PROVE [LimNext]_limVars
    OBVIOUS
  <1>1. ASSUME NEW t \in Threads, NEW m \in setup.messages, dispatch(t, m)
        PROVE  [LimNext]_limVars
    <2>1. CASE Filtered(m)
      BY <2>1 DEF Filtered
    <2>2. disp.config = Config(setup)
      BY DEF Decided, build
    <2>3. Limit(m) # << >> => complete(m.namespace) \in Namespaces /\ Limit(m)[1] \in Frequencies
      BY <2>2, LimitsNamed DEF Decided, Limit
    <2>4. CASE Limited(m)
      BY <2>3, <2>4 DEF Limited, LimNext
    <2>5. CASE LetThrough(t, m)
      BY <2>3, <2>5 DEF LetThrough, LimNext
    <2> QED
      BY <1>1, <2>1, <2>4, <2>5 DEF dispatch
  <1>2. ASSUME NEW t \in Threads, Deliver(t)
        PROVE  UNCHANGED limVars
    BY <1>2 DEF Deliver, Skip, ToStdout, ToForwarder, ToDatapoint, RecordMetric, ToEkg, Return, limVars
  <1>3. ASSUME NEW names \in setup.asked, Request(names)
        PROVE  UNCHANGED limVars
    BY <1>3 DEF Request, limVars
  <1>4. CASE Clock
    BY <1>4 DEF Clock, LimNext
  <1>5. CASE on_event \/ ForwarderTakes \/ ForwarderDropped \/ LookUp \/ Receive
    BY <1>5 DEF on_event, ForwarderTakes, ForwarderDropped, LookUp, Receive, limVars
  <1>6. CASE UNCHANGED allVars
    BY <1>6 DEF allVars, limVars
  <1> QED
    BY <1>1, <1>2, <1>3, <1>4, <1>5, <1>6 DEF DispNext

(* Whatever its threads, its backends and the forwarder do, the dispatcher *)
(* uses its buckets as the limiter's specification says.                   *)
THEOREM DispatcherIsLimited == DispSpec => LimSpec
  <1>1. DispInit => LimInit /\ Decided
    BY DEF DispInit, Decided
  <1> QED
    BY <1>1, DecidedStep, LimiterStep, PTL DEF DispSpec, LimSpec

(* So a namespace's messages pass exactly when its rate allows.            *)
THEOREM DispatcherWithinRate == DispSpec => []AdmitsExactlyWithinRate
  BY LimiterCorrect, DispatcherIsLimited

-----------------------------------------------------------------------------
(* Threads that dispatch                                                   *)

Messages == UNION {s.messages : s \in Setups}
MetricsOf == UNION {Range(m.metrics) : m \in Messages}
Dispatch ==
  [msg : Messages, outcome : {"filtered", "limited", "running", "done", "panicked"},
   reached : Seq(Keys), lost : Nat, metrics : Seq({"ok", "error", "panic"}), end : Nat]
Handling == [id : Nat, left : Seq(Keys), metrics : Seq(MetricsOf)]

(* What a thread is at has not ended, and nobody else is at it.            *)
AtWork(t) ==
  IF call[t].id = 0 THEN call[t] = NoCall
  ELSE /\ call[t].id \in DOMAIN calls
       /\ calls[call[t].id].outcome = "running" /\ calls[call[t].id].end = 0

TaskInv ==
  /\ Decided
  /\ calls \in Seq(Dispatch)
  /\ call \in [Threads -> Handling]
  /\ \A t \in Threads : AtWork(t)
  /\ \A t, u \in Threads : t # u /\ call[t].id # 0 => call[t].id # call[u].id

(* Thread t is at a dispatch: its record becomes c, and the thread d.      *)
Delivers(t, c, d) ==
  /\ calls' = [calls EXCEPT ![call[t].id] = c]
  /\ call' = [call EXCEPT ![t] = d]

(* Whether it is over, and what stays in the record.                       *)
GoesOn(t, c, d) ==
  LET old == calls[call[t].id] IN
    /\ c.msg = old.msg
    /\ \/ d.id = call[t].id /\ c.outcome = "running" /\ c.end = 0
       \/ d = NoCall /\ c.outcome \in {"done", "panicked"} /\ c.end = Len(calls)

(* What a thread is given by its set-up.                                   *)
LEMMA SetupFacts ==
  ASSUME Decided
  PROVE  /\ disp.config = Config(setup)
         /\ disp.config.forwarder = setup.forwarder
         /\ \A m \in setup.messages :
              /\ m \in Messages
              /\ backends_for(disp.config, complete(m.namespace)) \in Seq(Keys)
              /\ m.metrics \in Seq(MetricsOf)
  <1>1. setup \in Setups /\ disp.config = Config(setup)
    BY DEF Decided, build
  <1>2. disp.config.forwarder = setup.forwarder
    BY <1>1 DEF Config, into_trace_config
  <1>3. ASSUME NEW m \in setup.messages
        PROVE  /\ m \in Messages
               /\ backends_for(disp.config, complete(m.namespace)) \in Seq(Keys)
               /\ m.metrics \in Seq(MetricsOf)
    <2>1. m \in Messages
      BY <1>1 DEF Messages
    <2>2. Range(m.metrics) \subseteq MetricsOf
      BY <2>1 DEF MetricsOf
    <2>3. m.metrics \in Seq(Range(m.metrics))
      BY <1>1, SetupsTyped
    <2> QED
      BY <1>1, <2>1, <2>2, <2>3, SetupsTyped
  <1> QED
    BY <1>1, <1>2, <1>3

(* A thread that has a backend to go to is at a dispatch.                  *)
LEMMA AtFacts ==
  ASSUME TaskInv, NEW t \in Threads, call[t].left # << >> \/ ~Idle(t)
  PROVE  /\ call[t].id # 0 /\ call[t].id \in DOMAIN calls
         /\ calls[call[t].id] \in Dispatch /\ call[t] \in Handling
         /\ calls[call[t].id].outcome = "running" /\ calls[call[t].id].end = 0
         /\ Msg(t) = calls[call[t].id].msg /\ Msg(t) \in Messages
  <1>1. call[t].id # 0
    BY DEF TaskInv, AtWork, NoCall, Idle
  <1>2. /\ call[t].id \in DOMAIN calls
        /\ calls[call[t].id].outcome = "running" /\ calls[call[t].id].end = 0
    BY <1>1 DEF TaskInv, AtWork
  <1>3. calls[call[t].id] \in Dispatch /\ call[t] \in Handling
    BY <1>2, ElementOfSeq, LenProperties DEF TaskInv
  <1> QED
    BY <1>1, <1>2, <1>3 DEF Msg, Dispatch

(* What a backend, a skip or the return does to the record r of a dispatch *)
(* and to the thread h that is at it.                                      *)
Took(r, key) == [r EXCEPT !.reached = Append(@, key)]
Missed(r) == [r EXCEPT !.lost = @ + 1]
Over(r) == [r EXCEPT !.outcome = "done", !.end = Len(calls)]

Work(t, c, d) ==
  LET r == calls[call[t].id]
      h == call[t]
  IN \/ Skip(t) /\ c = r /\ d = Advanced(h)
     \/ \E key \in Stdouts :
          ToStdout(t) /\ At(t, key) /\ ~IsSkipped(t) /\ c = Took(r, key) /\ d = Advanced(h)
     \/ ToForwarder(t) /\ c \in {Took(r, "Forwarder"), Missed(r)} /\ d = Advanced(h)
     \/ ToDatapoint(t) /\ c = (IF Stores THEN Took(r, "Datapoint") ELSE r) /\ d = Advanced(h)
     \/ /\ RecordMetric(t)
        /\ LET out == Outcome(ekg, Head(h.metrics))
           IN  /\ c = Measured(r, out)
               /\ d = IF out = "panic" THEN NoCall ELSE NextMetric(h)
     \/ ToEkg(t) /\ c = Took(r, "Ekg") /\ d = [Advanced(h) EXCEPT !.metrics = c.msg.metrics]
     \/ Return(t) /\ c = Over(r) /\ d = NoCall

(* Records and threads keep their types.                                   *)
LEMMA WorkTypes ==
  ASSUME NEW r \in Dispatch, NEW h \in Handling, calls \in Seq(Dispatch)
  PROVE  /\ \A key \in Keys : Took(r, key) \in Dispatch
         /\ Missed(r) \in Dispatch /\ Over(r) \in Dispatch
         /\ \A out \in {"ok", "error", "panic"} : Measured(r, out) \in Dispatch
         /\ h.left # << >> => Advanced(h) \in Handling
         /\ h.metrics # << >> => NextMetric(h) \in Handling
         /\ \A ms \in Seq(MetricsOf) : [h EXCEPT !.metrics = ms] \in Handling
         /\ NoCall \in Handling
  <1>1. /\ \A key \in Keys : Append(r.reached, key) \in Seq(Keys)
        /\ \A out \in {"ok", "error", "panic"} :
             Append(r.metrics, out) \in Seq({"ok", "error", "panic"})
        /\ Len(calls) \in Nat
    BY AppendProperties, LenProperties DEF Dispatch
  <1>2. /\ h.left # << >> => Tail(h.left) \in Seq(Keys)
        /\ h.metrics # << >> => Tail(h.metrics) \in Seq(MetricsOf)
    <2>1. h.left \in Seq(Keys) /\ h.metrics \in Seq(MetricsOf)
      BY DEF Handling
    <2> QED
      BY <2>1, HeadTailProperties
  <1>3. NoCall \in Handling
    <2>1. << >> \in Seq(Keys) /\ << >> \in Seq(MetricsOf)
      BY EmptySeq
    <2> QED
      BY <2>1 DEF NoCall, Handling
  <1>4. \A key \in Keys : Took(r, key) \in Dispatch
    BY <1>1 DEF Took, Dispatch
  <1>5. Missed(r) \in Dispatch /\ Over(r) \in Dispatch
    <2>1. r.lost + 1 \in Nat
      BY DEF Dispatch
    <2>2. Missed(r) \in Dispatch
      BY <2>1 DEF Missed, Dispatch
    <2>3. Over(r) \in Dispatch
      BY <1>1 DEF Over, Dispatch
    <2> QED
      BY <2>2, <2>3
  <1>6. \A out \in {"ok", "error", "panic"} : Measured(r, out) \in Dispatch
    BY <1>1 DEF Measured, Dispatch
  <1> QED
    BY <1>2, <1>3, <1>4, <1>5, <1>6 DEF Advanced, NextMetric, Handling

(* A message's metric is recorded, or it is not, or that panics.           *)
LEMMA OutcomeType ==
  ASSUME NEW state, NEW metric
  PROVE  Outcome(state, metric) \in {"ok", "error", "panic"}
  BY DEF Outcome

(* Every step of a thread at a dispatch is one of these.                   *)
LEMMA DeliverWorks ==
  ASSUME TaskInv, NEW t \in Threads, Deliver(t)
  PROVE  \E c \in Dispatch, d \in Handling : Work(t, c, d) /\ Delivers(t, c, d) /\ GoesOn(t, c, d)
  <1> DEFINE r == calls[call[t].id]
             h == call[t]
             Goal == \E c \in Dispatch, d \in Handling :
                       Work(t, c, d) /\ Delivers(t, c, d) /\ GoesOn(t, c, d)
  <1>0. h.left # << >> \/ ~Idle(t)
    BY DEF Deliver, Skip, ToStdout, ToForwarder, ToDatapoint, RecordMetric, ToEkg, Return, At
  <1>1. /\ h.id # 0 /\ h.id \in DOMAIN calls /\ r \in Dispatch /\ h \in Handling
        /\ r.outcome = "running" /\ r.end = 0 /\ Msg(t) = r.msg /\ Msg(t) \in Messages
    BY <1>0, AtFacts
  <1>2. /\ calls \in Seq(Dispatch) /\ call \in [Threads -> Handling]
        /\ calls = [calls EXCEPT ![h.id] = r]
    <2>1. calls \in Seq(Dispatch) /\ call \in [Threads -> Handling]
      BY DEF TaskInv
    <2>2. calls = [i \in 1..Len(calls) |-> calls[i]]
      BY <2>1
    <2> QED
      BY <2>1, <2>2
  <1>3. /\ \A key \in Keys : Took(r, key) \in Dispatch
        /\ Missed(r) \in Dispatch /\ Over(r) \in Dispatch
        /\ \A out \in {"ok", "error", "panic"} : Measured(r, out) \in Dispatch
        /\ h.left # << >> => Advanced(h) \in Handling
        /\ h.metrics # << >> => NextMetric(h) \in Handling
        /\ NoCall \in Handling
    BY <1>1, <1>2, WorkTypes
  <1>4. ASSUME NEW c \in Dispatch, NEW d \in Handling, Work(t, c, d), Delivers(t, c, d),
               c.msg = r.msg, c.outcome = r.outcome, c.end = r.end, d.id = h.id
        PROVE  Goal
    BY <1>1, <1>4 DEF GoesOn
  <1>5. Advanced(h).id = h.id /\ NextMetric(h).id = h.id
    BY <1>1 DEF Advanced, NextMetric, Handling
  <1>6. /\ \A key : /\ Took(r, key).msg = r.msg /\ Took(r, key).outcome = r.outcome
                    /\ Took(r, key).end = r.end
        /\ Missed(r).msg = r.msg /\ Missed(r).outcome = r.outcome /\ Missed(r).end = r.end
    BY <1>1 DEF Took, Missed, Dispatch
  <1>7. CASE Skip(t)
    <2>1. Work(t, r, Advanced(h)) /\ Delivers(t, r, Advanced(h)) /\ h.left # << >>
      BY <1>2, <1>7 DEF Work, Delivers, Skip, Advance
    <2> QED
      BY <1>1, <1>3, <1>4, <1>5, <2>1
  <1>8. CASE ToStdout(t)
    <2>1. PICK key \in Stdouts : At(t, key) /\ ~IsSkipped(t) /\ Reached(t, key)
      BY <1>8 DEF ToStdout
    <2>2. Work(t, Took(r, key), Advanced(h)) /\ h.left # << >> /\ key \in Keys
      BY <1>8, <2>1 DEF Work, At, Stdouts, Keys
    <2>3. Delivers(t, Took(r, key), Advanced(h))
      BY <1>8, <2>1 DEF Delivers, Took, ToStdout, Reached, Advance
    <2> QED
      BY <1>3, <1>4, <1>5, <1>6, <2>2, <2>3
  <1>9. CASE ToForwarder(t)
    <2> DEFINE c == IF HasRoom THEN Took(r, "Forwarder") ELSE Missed(r)
    <2>1. Delivers(t, c, Advanced(h)) /\ h.left # << >>
      BY <1>9 DEF Delivers, Took, Missed, ToForwarder, Reached, Advance, At
    <2>2. c \in Dispatch /\ Work(t, c, Advanced(h))
      BY <1>3, <1>9 DEF Work, Keys
    <2>3. c.msg = r.msg /\ c.outcome = r.outcome /\ c.end = r.end
      BY <1>6
    <2> HIDE DEF c
    <2> QED
      BY <1>3, <1>4, <1>5, <2>1, <2>2, <2>3
  <1>10. CASE ToDatapoint(t)
    <2> DEFINE c == IF Stores THEN Took(r, "Datapoint") ELSE r
    <2>1. Delivers(t, c, Advanced(h)) /\ h.left # << >>
      BY <1>2, <1>10 DEF Delivers, Took, ToDatapoint, Reached, Advance, At
    <2>2. c \in Dispatch /\ Work(t, c, Advanced(h))
      BY <1>1, <1>3, <1>10 DEF Work, Keys
    <2>3. c.msg = r.msg /\ c.outcome = r.outcome /\ c.end = r.end
      BY <1>6
    <2> HIDE DEF c
    <2> QED
      BY <1>3, <1>4, <1>5, <2>1, <2>2, <2>3
  <1>11. CASE RecordMetric(t)
    <2> DEFINE out == Outcome(ekg, Head(h.metrics))
               c == Measured(r, out)
               d == IF out = "panic" THEN NoCall ELSE NextMetric(h)
    <2>1. out \in {"ok", "error", "panic"}
      BY OutcomeType
    <2>2. Delivers(t, c, d) /\ h.metrics # << >>
      <3>1. h.metrics # << >>
        BY <1>11 DEF RecordMetric
      <3>2. calls' = [calls EXCEPT ![h.id] = c]
        BY <1>11 DEF RecordMetric
      <3>3. call' = [call EXCEPT ![t] = d]
        BY <1>11 DEF RecordMetric
      <3> QED
        BY <3>1, <3>2, <3>3 DEF Delivers
    <2>3. c \in Dispatch /\ d \in Handling
      BY <1>3, <2>1, <2>2
    <2>4. Work(t, c, d)
      BY <1>11 DEF Work
    <2>5. GoesOn(t, c, d)
      <3> HIDE DEF out
      <3>1. CASE out = "panic"
        BY <1>1, <3>1 DEF GoesOn, Measured, Dispatch
      <3>2. CASE out # "panic"
        BY <1>1, <1>5, <3>2 DEF GoesOn, Measured, Dispatch
      <3> QED
        BY <3>1, <3>2
    <2> HIDE DEF c, d
    <2> QED
      BY <2>2, <2>3, <2>4, <2>5
  <1>12. CASE ToEkg(t)
    <2> DEFINE d == [Advanced(h) EXCEPT !.metrics = Took(r, "Ekg").msg.metrics]
    <2>1. Took(r, "Ekg").msg = r.msg
      BY <1>6
    <2>2. Delivers(t, Took(r, "Ekg"), d) /\ h.left # << >>
      BY <1>1, <1>12, <2>1 DEF Delivers, Took, ToEkg, Reached, At
    <2>3. Work(t, Took(r, "Ekg"), d)
      BY <1>12 DEF Work
    <2>4. d \in Handling /\ d.id = h.id
      <3>1. Msg(t).metrics \in Seq(MetricsOf)
        <4>1. PICK s \in Setups : Msg(t) \in s.messages
          BY <1>1 DEF Messages
        <4>2. Range(Msg(t).metrics) \subseteq MetricsOf
          BY <1>1 DEF MetricsOf
        <4> QED
          BY <4>1, <4>2, SetupsTyped
      <3>2. Advanced(h) \in Handling
        BY <1>3, <2>2
      <3> QED
        BY <1>1, <1>5, <2>1, <3>1, <3>2 DEF Handling
    <2> HIDE DEF d
    <2> QED
      BY <1>3, <1>4, <1>6, <2>2, <2>3, <2>4 DEF Keys
  <1>13. CASE Return(t)
    <2>1. Delivers(t, Over(r), NoCall)
      BY <1>13 DEF Delivers, Over, Return
    <2>2. Work(t, Over(r), NoCall)
      BY <1>13 DEF Work
    <2>3. GoesOn(t, Over(r), NoCall)
      BY <1>1 DEF GoesOn, Over, Dispatch
    <2> QED
      BY <1>3, <2>1, <2>2, <2>3
  <1> QED
    BY <1>7, <1>8, <1>9, <1>10, <1>11, <1>12, <1>13 DEF Deliver

(* A dispatch is recorded when it begins.                                  *)
Begins(t, m, c) ==
  /\ c \in Dispatch /\ c.msg = m /\ c.reached = << >> /\ c.lost = 0 /\ c.metrics = << >>
  /\ calls' = Append(calls, c)
  /\ \/ c.outcome # "running" /\ UNCHANGED call
     \/ /\ c.outcome = "running" /\ c.end = 0
        /\ call' = [call EXCEPT ![t] =
                      [id |-> Len(calls) + 1,
                       left |-> backends_for(disp.config, complete(m.namespace)),
                       metrics |-> m.metrics]]

(* A call of dispatch adds a record to calls; the message was judged by    *)
(* its severity, then by its limit.                                        *)
LEMMA DispatchBegins ==
  ASSUME TaskInv, NEW t \in Threads, NEW m \in setup.messages, dispatch(t, m)
  PROVE  \E c : Begins(t, m, c) /\ (Filtered(m) \/ Passes(m))
                /\ (Filtered(m) <=> c.outcome = "filtered")
                /\ c.outcome \in {"filtered", "limited", "running"}
  <1>1. m \in Messages /\ Len(calls) \in Nat
    BY SetupFacts, LenProperties DEF TaskInv
  <1>2. \A outcome \in {"filtered", "limited", "running"} :
          /\ Entry(m, outcome) \in Dispatch /\ Entry(m, outcome).msg = m
          /\ Entry(m, outcome).outcome = outcome /\ Entry(m, outcome).reached = << >>
          /\ Entry(m, outcome).lost = 0 /\ Entry(m, outcome).metrics = << >>
    <2>1. << >> \in Seq(Keys) /\ << >> \in Seq({"ok", "error", "panic"})
      BY EmptySeq
    <2> QED
      BY <1>1, <2>1 DEF Entry, Dispatch
  <1>3. Entry(m, "running").end = 0
    BY DEF Entry
  <1>4. CASE Filtered(m)
    BY <1>2, <1>4 DEF Begins, Begin, Filtered
  <1>5. CASE Limited(m)
    <2>1. ~Filtered(m) /\ Passes(m)
      BY <1>5 DEF Filtered, Limited
    <2> QED
      BY <1>2, <1>5, <2>1 DEF Begins, Begin, Limited
  <1>6. CASE LetThrough(t, m)
    <2>1. ~Filtered(m) /\ Passes(m)
      BY <1>6 DEF Filtered, LetThrough
    <2>2. Begins(t, m, Entry(m, "running"))
      BY <1>2, <1>3, <1>6 DEF Begins, Begin, LetThrough
    <2> QED
      BY <1>2, <2>1, <2>2
  <1> QED
    BY <1>4, <1>5, <1>6 DEF dispatch

(* What any step may do to the dispatches.                                 *)
LEMMA StepKinds ==
  ASSUME [DispNext]_allVars
  PROVE  \/ UNCHANGED <<calls, call, store, ekg>>
         \/ \E t \in Threads, m \in setup.messages : dispatch(t, m)
         \/ \E t \in Threads : Deliver(t)
  <1>1. CASE Clock \/ on_event \/ ForwarderTakes \/ ForwarderDropped \/ LookUp \/ Receive
    BY <1>1 DEF Clock, dispVars, on_event, ForwarderTakes, ForwarderDropped, LookUp, Receive
  <1>2. ASSUME NEW names \in setup.asked, Request(names)
        PROVE  UNCHANGED <<calls, call, store, ekg>>
    BY <1>2 DEF Request
  <1>3. CASE UNCHANGED allVars
    BY <1>3 DEF allVars, dispVars
  <1> QED
    BY <1>1, <1>2, <1>3 DEF DispNext

(* No thread works before the first dispatch.                              *)
LEMMA TaskInvInit == DispInit => TaskInv
  <1> SUFFICES ASSUME DispInit PROVE TaskInv
    OBVIOUS
  <1>1. << >> \in Seq(Dispatch) /\ << >> \in Seq(Keys) /\ << >> \in Seq(MetricsOf)
    BY EmptySeq
  <1>2. NoCall \in Handling /\ NoCall.id = 0
    BY <1>1 DEF NoCall, Handling
  <1> QED
    BY <1>1, <1>2 DEF DispInit, TaskInv, Decided, AtWork

(* A dispatch that begins, or ends at once, leaves every thread with work  *)
(* of its own.                                                             *)
LEMMA TaskInvDispatch ==
  ASSUME TaskInv, Decided', NEW t \in Threads, NEW m \in setup.messages, dispatch(t, m)
  PROVE  TaskInv'
  <1>1. PICK c : Begins(t, m, c)
    BY DispatchBegins
  <1>2. /\ calls \in Seq(Dispatch) /\ Len(calls) \in Nat /\ call \in [Threads -> Handling]
        /\ calls' = Append(calls, c) /\ c \in Dispatch
    BY <1>1, LenProperties DEF Begins, TaskInv
  <1>3. /\ calls' \in Seq(Dispatch) /\ DOMAIN calls = 1..Len(calls)
        /\ DOMAIN calls' = 1..(Len(calls) + 1)
        /\ calls'[Len(calls) + 1] = c /\ \A i \in 1..Len(calls) : calls'[i] = calls[i]
    BY <1>2, AppendProperties, LenProperties
  <1>4. CASE UNCHANGED call
    <2>1. ASSUME NEW u \in Threads PROVE AtWork(u)'
      BY <1>2, <1>3, <1>4 DEF AtWork, TaskInv, Handling
    <2>2. \A u, v \in Threads : u # v /\ call'[u].id # 0 => call'[u].id # call'[v].id
      BY <1>4 DEF TaskInv
    <2> QED
      BY <1>2, <1>3, <1>4, <2>1, <2>2 DEF TaskInv
  <1>5. CASE call' # call
    <2> DEFINE d == [id |-> Len(calls) + 1,
                     left |-> backends_for(disp.config, complete(m.namespace)),
                     metrics |-> m.metrics]
    <2>1. c.outcome = "running" /\ c.end = 0 /\ call' = [call EXCEPT ![t] = d]
      BY <1>1, <1>5 DEF Begins
    <2>2. d \in Handling /\ d.id = Len(calls) + 1 /\ d.id # 0
      BY <1>2, SetupFacts DEF TaskInv, Handling
    <2> HIDE DEF d
    <2>3. call' \in [Threads -> Handling] /\ call'[t] = d /\ \A u \in Threads \ {t} : call'[u] = call[u]
      BY <1>2, <2>1, <2>2
    <2>4. \A u \in Threads \ {t} : call[u].id # 0 => call[u].id \in 1..Len(calls)
      BY <1>3 DEF TaskInv, AtWork
    <2>5. ASSUME NEW u \in Threads PROVE AtWork(u)'
      <3>1. CASE u = t
        BY <1>2, <1>3, <2>1, <2>2, <2>3, <3>1 DEF AtWork
      <3>2. CASE u # t
        <4>1. AtWork(u) /\ call'[u] = call[u]
          BY <2>3, <3>2 DEF TaskInv
        <4> QED
          BY <1>3, <2>4, <3>2, <4>1 DEF AtWork
      <3> QED
        BY <3>1, <3>2
    <2>6. ASSUME NEW u \in Threads, NEW v \in Threads, u # v, call'[u].id # 0
          PROVE  call'[u].id # call'[v].id
      <3>1. CASE u = t
        <4>1. call'[v] = call[v] /\ call'[u].id = Len(calls) + 1
          BY <2>2, <2>3, <2>6, <3>1
        <4> QED
          BY <1>2, <2>4, <2>6, <3>1, <4>1
      <3>2. CASE v = t
        <4>1. call'[u] = call[u] /\ call'[v].id = Len(calls) + 1
          BY <2>2, <2>3, <2>6, <3>2
        <4> QED
          BY <1>2, <2>4, <2>6, <3>2, <4>1
      <3>3. CASE u # t /\ v # t
        BY <2>3, <2>6, <3>3 DEF TaskInv
      <3> QED
        BY <3>1, <3>2, <3>3
    <2> QED
      BY <1>3, <2>3, <2>5, <2>6 DEF TaskInv
  <1> QED
    BY <1>4, <1>5

(* So does a step to the next backend.                                     *)
LEMMA TaskInvDeliver ==
  ASSUME TaskInv, Decided', NEW t \in Threads, NEW c \in Dispatch, NEW d \in Handling,
         call[t].id # 0, Delivers(t, c, d), GoesOn(t, c, d)
  PROVE  TaskInv'
  <1> DEFINE id == call[t].id
  <1>1. /\ calls \in Seq(Dispatch) /\ call \in [Threads -> Handling] /\ id \in DOMAIN calls
        /\ calls' = [calls EXCEPT ![id] = c] /\ call' = [call EXCEPT ![t] = d]
    BY DEF TaskInv, AtWork, Delivers
  <1>2. /\ calls' \in Seq(Dispatch) /\ DOMAIN calls' = DOMAIN calls
        /\ calls'[id] = c /\ \A i \in DOMAIN calls \ {id} : calls'[i] = calls[i]
    BY <1>1, ExceptSeq
  <1>3. call' \in [Threads -> Handling] /\ call'[t] = d /\ \A u \in Threads \ {t} : call'[u] = call[u]
    BY <1>1
  <1>4. \A u \in Threads \ {t} : call[u].id # id
    BY DEF TaskInv
  <1>5. \/ d.id = id /\ c.outcome = "running" /\ c.end = 0
        \/ d = NoCall
    BY DEF GoesOn
  <1>6. NoCall.id = 0
    BY DEF NoCall
  <1> HIDE DEF id
  <1>7. ASSUME NEW u \in Threads PROVE AtWork(u)'
    <2>1. CASE u = t
      <3>1. CASE d.id = id /\ c.outcome = "running" /\ c.end = 0
        <4>1. call'[u].id = id /\ id \in DOMAIN calls' /\ calls'[id].outcome = "running" /\ calls'[id].end = 0
          BY <1>1, <1>2, <1>3, <2>1, <3>1
        <4>2. id # 0
          BY DEF id
        <4> QED
          BY <4>1, <4>2 DEF AtWork
      <3>2. CASE d = NoCall
        BY <1>3, <1>6, <2>1, <3>2 DEF AtWork
      <3> QED
        BY <1>5, <3>1, <3>2
    <2>2. CASE u # t
      <3>1. AtWork(u) /\ call'[u] = call[u] /\ call[u].id # id
        BY <1>3, <1>4, <2>2 DEF TaskInv
      <3> QED
        BY <1>2, <3>1 DEF AtWork
    <2> QED
      BY <2>1, <2>2
  <1>8. ASSUME NEW u \in Threads, NEW v \in Threads, u # v, call'[u].id # 0
        PROVE  call'[u].id # call'[v].id
    <2>1. d.id \in {0, id}
      BY <1>5, <1>6
    <2>2. CASE u = t
      BY <1>3, <1>4, <1>8, <2>1, <2>2
    <2>3. CASE v = t
      BY <1>3, <1>4, <1>8, <2>1, <2>3
    <2>4. CASE u # t /\ v # t
      BY <1>3, <1>8, <2>4 DEF TaskInv
    <2> QED
      BY <2>2, <2>3, <2>4
  <1> QED
    BY <1>2, <1>3, <1>7, <1>8 DEF TaskInv

(* Every dispatch that runs is one thread's.                               *)
LEMMA TaskInvStep == TaskInv /\ [DispNext]_allVars => TaskInv'
  <1> SUFFICES ASSUME TaskInv, [DispNext]_allVars PROVE TaskInv'
    OBVIOUS
  <1>1. Decided'
    BY DecidedStep DEF TaskInv
  <1>2. CASE UNCHANGED <<calls, call, store>>
    <2>1. \A t \in Threads : AtWork(t)'
      BY <1>2 DEF TaskInv, AtWork
    <2> QED
      BY <1>1, <1>2, <2>1 DEF TaskInv
  <1>3. ASSUME NEW t \in Threads, NEW m \in setup.messages, dispatch(t, m) PROVE TaskInv'
    BY <1>1, <1>3, TaskInvDispatch
  <1>4. ASSUME NEW t \in Threads, Deliver(t) PROVE TaskInv'
    <2>1. call[t].left # << >> \/ ~Idle(t)
      BY <1>4 DEF Deliver, Skip, ToStdout, ToForwarder, ToDatapoint, RecordMetric, ToEkg, Return, At
    <2>2. call[t].id # 0
      BY <2>1, AtFacts
    <2> QED
      BY <1>1, <1>4, <2>2, DeliverWorks, TaskInvDeliver
  <1> QED
    BY <1>2, <1>3, <1>4, StepKinds

-----------------------------------------------------------------------------
(* What a reply says of a name                                             *)

HasStored(c) == \E k \in DOMAIN c.reached : c.reached[k] = "Datapoint"

(* Dispatch i stored under name, and none there that began after it ended. *)
Latest(i, name) ==
  /\ complete(calls[i].msg.namespace) = name /\ StoredBy(i)
  /\ \A j \in DOMAIN calls :
       complete(calls[j].msg.namespace) = name /\ StoredBy(j) => ~After(j, i)

StoreInv ==
  /\ \A name \in DOMAIN store : store[name] \in DOMAIN calls /\ Latest(store[name], name)
  /\ \A i \in DOMAIN calls : StoredBy(i) => complete(calls[i].msg.namespace) \in DOMAIN store

(* What was stored before a request, and what the answers so far refer to. *)
PointInv ==
  /\ point = [left |-> point.left, reply |-> point.reply, before |-> point.before]
  /\ point.reply \in Seq(Range(point.reply))
  /\ \A i \in point.before : i \in DOMAIN calls /\ StoredBy(i)
  /\ open \/ point.left # << >> => setup.forwarder # << >>
  /\ \A k \in DOMAIN point.reply :
       point.reply[k][1] # NodeInfo /\ point.reply[k][2] # << >> =>
         point.reply[k][2][1] \in DOMAIN calls

(* No step takes back that a dispatch stored, and one that ends does so    *)
(* after all that began.                                                   *)
Kept ==
  /\ DOMAIN calls = 1..Len(calls) /\ Len(calls) \in Nat
  /\ DOMAIN calls \subseteq DOMAIN calls'
  /\ \A i \in DOMAIN calls :
       /\ calls'[i].msg = calls[i].msg
       /\ HasStored(calls[i]) => HasStored(calls'[i])
       /\ \/ calls'[i].end = calls[i].end
          \/ calls[i].end = 0 /\ calls'[i].end = Len(calls)

(* None has stored that had not.                                           *)
NoneStores(others) ==
  \A i \in DOMAIN calls' \ others :
    HasStored(calls'[i]) => i \in DOMAIN calls /\ HasStored(calls[i])

Stored(id) ==
  /\ id \in DOMAIN calls /\ HasStored(calls'[id]) /\ calls'[id].end = 0
  /\ store' = put(store, complete(calls[id].msg.namespace), id)
  /\ NoneStores({id})

(* A dispatch has stored once it has come past the datapoint backend.      *)
LEMMA HasStoredTook ==
  ASSUME NEW c \in Dispatch, NEW key \in Keys
  PROVE  HasStored(Took(c, key)) <=> HasStored(c) \/ key = "Datapoint"
  <1> DEFINE s == c.reached
             r == Append(s, key)
  <1>1. Took(c, key).reached = r /\ s \in Seq(Keys)
    BY DEF Took, Dispatch
  <1>2. /\ r \in Seq(Keys) /\ Len(r) = Len(s) + 1 /\ Len(s) \in Nat /\ r[Len(s) + 1] = key
        /\ DOMAIN s = 1..Len(s) /\ DOMAIN r = 1..(Len(s) + 1)
        /\ \A i \in 1..Len(s) : r[i] = s[i]
    BY <1>1, AppendProperties, LenProperties
  <1> HIDE DEF r
  <1>3. DOMAIN r = DOMAIN s \cup {Len(s) + 1}
    BY <1>2
  <1> QED
    BY <1>1, <1>2, <1>3 DEF HasStored

(* The datapoint backend is the only one that stores.                      *)
LEMMA WorkStores ==
  ASSUME NEW t \in Threads, NEW c \in Dispatch, NEW d \in Handling, Work(t, c, d),
         calls[call[t].id] \in Dispatch
  PROVE  /\ HasStored(calls[call[t].id]) => HasStored(c)
         /\ \/ UNCHANGED store /\ (HasStored(c) => HasStored(calls[call[t].id]))
            \/ /\ HasStored(c) /\ ToDatapoint(t) /\ Stores
               /\ c.end = calls[call[t].id].end
  <1> DEFINE r == calls[call[t].id]
  <1>1. \A key \in Keys : HasStored(Took(r, key)) <=> HasStored(r) \/ key = "Datapoint"
    BY HasStoredTook
  <1>2. /\ HasStored(Missed(r)) <=> HasStored(r)
        /\ HasStored(Over(r)) <=> HasStored(r)
        /\ \A out : HasStored(Measured(r, out)) <=> HasStored(r)
    BY DEF HasStored, Missed, Over, Measured, Dispatch
  <1>3. CASE Skip(t) /\ c = r
    BY <1>3 DEF Skip
  <1>4. ASSUME NEW key \in Stdouts, ToStdout(t), c = Took(r, key)
        PROVE  UNCHANGED store /\ (HasStored(c) <=> HasStored(r))
    <2>1. key \in Keys /\ key # "Datapoint"
      BY DEF Stdouts, Keys
    <2> QED
      BY <1>1, <1>4, <2>1 DEF ToStdout
  <1>5. CASE ToForwarder(t) /\ c \in {Took(r, "Forwarder"), Missed(r)}
    BY <1>1, <1>2, <1>5 DEF ToForwarder, Keys
  <1>6. CASE ToDatapoint(t) /\ c = IF Stores THEN Took(r, "Datapoint") ELSE r
    <2>1. CASE Stores
      <3>1. c = Took(r, "Datapoint") /\ HasStored(c)
        BY <1>1, <1>6, <2>1 DEF Keys
      <3>2. c.end = r.end
        BY <3>1 DEF Took, Dispatch
      <3> QED
        BY <1>6, <2>1, <3>1, <3>2
    <2>2. CASE ~Stores
      BY <1>6, <2>2 DEF ToDatapoint
    <2> QED
      BY <2>1, <2>2
  <1>7. CASE RecordMetric(t) /\ c = Measured(r, Outcome(ekg, Head(call[t].metrics)))
    BY <1>2, <1>7 DEF RecordMetric
  <1>8. CASE ToEkg(t) /\ c = Took(r, "Ekg")
    BY <1>1, <1>8 DEF ToEkg, Keys
  <1>9. CASE Return(t) /\ c = Over(r)
    BY <1>2, <1>9 DEF Return
  <1> HIDE DEF r
  <1> QED
    BY <1>3, <1>4, <1>5, <1>6, <1>7, <1>8, <1>9 DEF Work, r

(* A step changes the store not at all, or by the one dispatch that        *)
(* stores.                                                                 *)
LEMMA StoresStep ==
  ASSUME TaskInv, [DispNext]_allVars
  PROVE  Kept /\ ((UNCHANGED store /\ NoneStores({})) \/ \E id : Stored(id))
  <1>1. calls \in Seq(Dispatch) /\ DOMAIN calls = 1..Len(calls) /\ Len(calls) \in Nat
    BY LenProperties DEF TaskInv
  <1>2. CASE UNCHANGED <<calls, call, store>>
    BY <1>1, <1>2 DEF Kept, NoneStores
  <1>3. ASSUME NEW t \in Threads, NEW m \in setup.messages, dispatch(t, m)
        PROVE  Kept /\ UNCHANGED store /\ NoneStores({})
    <2>1. PICK c : Begins(t, m, c)
      BY <1>3, DispatchBegins
    <2>2. /\ calls' \in Seq(Dispatch) /\ DOMAIN calls' = 1..(Len(calls) + 1)
          /\ calls'[Len(calls) + 1] = c /\ \A i \in 1..Len(calls) : calls'[i] = calls[i]
      BY <1>1, <2>1, AppendProperties, LenProperties DEF Begins
    <2>3. ~HasStored(c)
      BY <2>1, EmptySeq DEF Begins, HasStored
    <2>4. Kept
      BY <1>1, <2>2 DEF Kept
    <2>5. NoneStores({})
      BY <1>1, <2>2, <2>3 DEF NoneStores
    <2> QED
      BY <1>3, <2>4, <2>5 DEF dispatch
  <1>4. ASSUME NEW t \in Threads, Deliver(t)
        PROVE  Kept /\ ((UNCHANGED store /\ NoneStores({})) \/ \E id : Stored(id))
    <2> DEFINE id == call[t].id
               r == calls[id]
    <2>1. call[t].left # << >> \/ ~Idle(t)
      BY <1>4 DEF Deliver, Skip, ToStdout, ToForwarder, ToDatapoint, RecordMetric, ToEkg, Return, At
    <2>2. id \in DOMAIN calls /\ r \in Dispatch /\ r.end = 0 /\ Msg(t) = r.msg
      BY <2>1, AtFacts
    <2>3. PICK c \in Dispatch, d \in Handling : Work(t, c, d) /\ Delivers(t, c, d) /\ GoesOn(t, c, d)
      BY <1>4, DeliverWorks
    <2>4. /\ calls' \in Seq(Dispatch) /\ DOMAIN calls' = DOMAIN calls
          /\ calls'[id] = c /\ \A i \in DOMAIN calls \ {id} : calls'[i] = calls[i]
      BY <1>1, <2>2, <2>3, ExceptSeq DEF Delivers
    <2>5. /\ HasStored(r) => HasStored(c)
          /\ \/ UNCHANGED store /\ (HasStored(c) => HasStored(r))
             \/ HasStored(c) /\ ToDatapoint(t) /\ Stores /\ c.end = r.end
      BY <2>2, <2>3, WorkStores
    <2>6. c.msg = r.msg /\ c.end \in {0, Len(calls)}
      BY <2>3 DEF GoesOn
    <2> HIDE DEF id, r
    <2>7. r = calls[id]
      BY DEF r
    <2>8. Kept
      BY <1>1, <2>2, <2>4, <2>5, <2>6, <2>7 DEF Kept
    <2>9. CASE UNCHANGED store /\ (HasStored(c) => HasStored(r))
      BY <2>2, <2>4, <2>7, <2>8, <2>9 DEF NoneStores
    <2>10. CASE HasStored(c) /\ ToDatapoint(t) /\ Stores /\ c.end = r.end
      <3>1. store' = put(store, complete(r.msg.namespace), id)
        BY <2>2, <2>10 DEF ToDatapoint, id
      <3>2. Stored(id)
        BY <2>2, <2>4, <2>7, <2>10, <3>1 DEF Stored, NoneStores
      <3> QED
        BY <2>8, <3>2
    <2> QED
      BY <2>5, <2>9, <2>10
  <1> QED
    BY <1>2, <1>3, <1>4, StepKinds

(* A later dispatch stays one that was later already.                      *)
LEMMA AfterKept ==
  ASSUME Kept, NEW i \in DOMAIN calls, NEW j \in DOMAIN calls, ~After(j, i)
  PROVE  ~After(j, i)'
  <1>1. /\ j \in Nat /\ j <= Len(calls) /\ Len(calls) \in Nat
        /\ \/ calls'[i].end = calls[i].end
           \/ calls'[i].end = Len(calls)
    BY DEF Kept
  <1> QED
    BY <1>1 DEF After

(* What was the latest value of a name stays it while others store under   *)
(* other names only.                                                       *)
LEMMA LatestKept ==
  ASSUME Kept, NEW others, NoneStores(others), NEW i \in DOMAIN calls, NEW name, Latest(i, name),
         \A j \in DOMAIN calls' \cap others : complete(calls'[j].msg.namespace) # name
  PROVE  Latest(i, name)'
  <1>1. complete(calls'[i].msg.namespace) = name /\ HasStored(calls'[i])
    BY DEF Kept, Latest, StoredBy, HasStored
  <1>2. ASSUME NEW j \in DOMAIN calls', complete(calls'[j].msg.namespace) = name, HasStored(calls'[j])
        PROVE  ~After(j, i)'
    <2>1. j \in DOMAIN calls /\ HasStored(calls[j])
      BY <1>2 DEF NoneStores
    <2>2. complete(calls[j].msg.namespace) = name
      BY <1>2, <2>1 DEF Kept
    <2>3. ~After(j, i)
      BY <2>1, <2>2 DEF Latest, StoredBy, HasStored
    <2> QED
      BY <2>1, <2>3, AfterKept
  <1> QED
    BY <1>1, <1>2 DEF Latest, StoredBy, HasStored

(* The store holds the latest value of every name after each step.         *)
LEMMA StoreInvStep ==
  ASSUME TaskInv, TaskInv', StoreInv, [DispNext]_allVars
  PROVE  StoreInv'
  <1>1. Kept /\ ((UNCHANGED store /\ NoneStores({})) \/ \E id : Stored(id))
    BY StoresStep
  <1>2. CASE UNCHANGED store /\ NoneStores({})
    <2>1. ASSUME NEW name \in DOMAIN store
          PROVE  store[name] \in DOMAIN calls' /\ Latest(store[name], name)'
      <3>1. PICK i : i = store[name]
        OBVIOUS
      <3>2. i \in DOMAIN calls /\ Latest(i, name)
        BY <3>1 DEF StoreInv
      <3>3. /\ i \in DOMAIN calls'
            /\ \A j \in DOMAIN calls' \cap {} : complete(calls'[j].msg.namespace) # name
        BY <1>1, <3>2 DEF Kept
      <3>4. Latest(i, name)'
        BY <1>1, <1>2, <3>2, <3>3, LatestKept
      <3> QED
        BY <1>2, <3>1, <3>3, <3>4 DEF Latest, After, StoredBy
    <2>2. ASSUME NEW i \in DOMAIN calls', HasStored(calls'[i])
          PROVE  complete(calls'[i].msg.namespace) \in DOMAIN store
      BY <1>1, <1>2, <2>2 DEF NoneStores, Kept, StoreInv, StoredBy, HasStored
    <2> QED
      BY <1>2, <2>1, <2>2 DEF StoreInv, StoredBy, HasStored
  <1>3. ASSUME NEW id, Stored(id) PROVE StoreInv'
    <2>0. PICK new : new = complete(calls[id].msg.namespace)
      OBVIOUS
    <2>1. /\ id \in DOMAIN calls /\ id \in DOMAIN calls' /\ calls'[id].end = 0
          /\ HasStored(calls'[id]) /\ complete(calls'[id].msg.namespace) = new
          /\ NoneStores({id})
      BY <1>1, <1>3, <2>0 DEF Stored, Kept
    <2>2. store' = Put(store, new, id)
      BY <1>3, <2>0 DEF Stored, put
    <2>3. /\ DOMAIN store' = DOMAIN store \cup {new} /\ store'[new] = id
          /\ \A name \in DOMAIN store \ {new} : store'[name] = store[name]
      BY <2>2 DEF Put
    <2>4. Latest(id, new)'
      <3>1. StoredBy(id)'
        BY <2>1 DEF StoredBy, HasStored
      <3>2. ASSUME NEW j \in DOMAIN calls' PROVE ~After(j, id)'
        BY <2>1 DEF After
      <3> QED
        BY <2>1, <3>1, <3>2 DEF Latest
    <2>5. ASSUME NEW name \in DOMAIN store', NEW i, i = store'[name]
          PROVE  i \in DOMAIN calls' /\ Latest(i, name)'
      <3>1. CASE name = new
        <4>1. i = id
          BY <2>3, <2>5, <3>1
        <4> QED
          BY <2>1, <2>4, <3>1, <4>1 DEF Latest, After, StoredBy
      <3>2. CASE name # new
        <4>1. i = store[name] /\ name \in DOMAIN store
          BY <2>3, <2>5, <3>2
        <4>2. i \in DOMAIN calls /\ Latest(i, name)
          BY <4>1 DEF StoreInv
        <4>3. \A j \in DOMAIN calls' \cap {id} : complete(calls'[j].msg.namespace) # name
          BY <2>1, <3>2
        <4> QED
          BY <1>1, <2>1, <4>2, <4>3, LatestKept DEF Kept
      <3> QED
        BY <3>1, <3>2
    <2>6. ASSUME NEW i \in DOMAIN calls', HasStored(calls'[i])
          PROVE  complete(calls'[i].msg.namespace) \in DOMAIN store'
      <3>1. CASE i = id
        BY <2>1, <2>3, <3>1
      <3>2. CASE i # id
        <4>1. i \in DOMAIN calls /\ HasStored(calls[i]) /\ calls'[i].msg = calls[i].msg
          BY <1>1, <2>1, <2>6, <3>2 DEF NoneStores, Kept
        <4> QED
          BY <2>3, <4>1 DEF StoreInv, StoredBy, HasStored
      <3> QED
        BY <3>1, <3>2
    <2>7. \A name \in DOMAIN store' : store'[name] \in DOMAIN calls' /\ Latest(store[name], name)'
      BY <2>5 DEF Latest, After, StoredBy
    <2> QED
      BY <2>6, <2>7 DEF StoreInv, StoredBy, HasStored
  <1> QED
    BY <1>1, <1>2, <1>3

(* What RepliesAreFresh says of one answer.                                *)
Fresh(name, value) ==
  LET before == {i \in point.before : complete(calls[i].msg.namespace) = name}
  IN  IF name = NodeInfo THEN value = disp.config.node_name
      ELSE IF value = << >> THEN before = {} \/ ~setup.responder_store
      ELSE /\ complete(calls[value[1]].msg.namespace) = name /\ StoredBy(value[1])
           /\ \A j \in before : ~After(j, value[1])

(* The property in terms of a single answer.                               *)
LEMMA FreshAnswers ==
  RepliesAreFresh <=> \A k \in DOMAIN point.reply : Fresh(point.reply[k][1], point.reply[k][2])
  BY DEF RepliesAreFresh, Fresh

(* An answer stays fresh while the exchange goes on.                       *)
LEMMA FreshStays ==
  ASSUME Kept, NEW name, NEW value, Fresh(name, value), point'.before = point.before,
         UNCHANGED <<setup, disp>>,
         \A i \in point.before : i \in DOMAIN calls,
         name # NodeInfo /\ value # << >> => value[1] \in DOMAIN calls
  PROVE  Fresh(name, value)'
  <1>1. CASE name = NodeInfo
    BY <1>1 DEF Fresh
  <1>2. ASSUME NEW j \in point.before
        PROVE  calls'[j].msg = calls[j].msg /\ j \in DOMAIN calls
    BY DEF Kept
  <1>3. CASE name # NodeInfo /\ value = << >>
    <2>1. CASE ~setup.responder_store
      BY <1>3, <2>1 DEF Fresh
    <2>2. CASE setup.responder_store
      <3>1. \A j \in point.before : complete(calls[j].msg.namespace) # name
        BY <1>3, <2>2 DEF Fresh
      <3>2. \A j \in point'.before : complete(calls'[j].msg.namespace) # name
        BY <1>2, <3>1
      <3> QED
        BY <1>3, <3>2 DEF Fresh
    <2> QED
      BY <2>1, <2>2
  <1>4. CASE name # NodeInfo /\ value # << >>
    <2>1. /\ value[1] \in DOMAIN calls /\ HasStored(calls[value[1]])
          /\ complete(calls[value[1]].msg.namespace) = name
          /\ \A j \in point.before : complete(calls[j].msg.namespace) = name => ~After(j, value[1])
      BY <1>4 DEF Fresh, StoredBy, HasStored
    <2>2. HasStored(calls'[value[1]]) /\ complete(calls'[value[1]].msg.namespace) = name
      BY <2>1 DEF Kept
    <2>3. ASSUME NEW j \in point'.before, complete(calls'[j].msg.namespace) = name
          PROVE  ~After(j, value[1])'
      <3>1. j \in DOMAIN calls /\ ~After(j, value[1])
        BY <1>2, <2>1, <2>3
      <3> QED
        BY <2>1, <3>1, AfterKept
    <2> QED
      BY <1>4, <2>2, <2>3 DEF Fresh, StoredBy, HasStored
  <1> QED
    BY <1>1, <1>3, <1>4

(* And so is the answer that the responder looks up.                       *)
LEMMA FoundFresh ==
  ASSUME TaskInv, StoreInv, PointInv, NEW name, point.left # << >>
  PROVE  /\ Fresh(name, Found(name))
         /\ name # NodeInfo /\ Found(name) # << >> => Found(name)[1] \in DOMAIN calls
  <1>1. CASE name = NodeInfo
    <2>1. disp.config.forwarder # << >>
      BY SetupFacts DEF TaskInv, PointInv
    <2>2. Found(name) = disp.config.node_name
      BY <1>1, <2>1 DEF Found, forwarder_config
    <2> QED
      BY <1>1, <2>2 DEF Fresh
  <1>2. CASE name # NodeInfo /\ setup.responder_store /\ name \in DOMAIN store
    <2> DEFINE i == store[name]
    <2>1. Found(name) = <<i>> /\ Found(name) # << >> /\ Found(name)[1] = i
      BY <1>2 DEF Found
    <2>2. i \in DOMAIN calls /\ Latest(i, name)
      BY <1>2 DEF StoreInv
    <2> HIDE DEF i
    <2> QED
      BY <1>2, <2>1, <2>2 DEF Fresh, Latest, PointInv
  <1>3. CASE name # NodeInfo /\ ~(setup.responder_store /\ name \in DOMAIN store)
    <2>1. Found(name) = << >>
      BY <1>3 DEF Found
    <2>2. name \notin DOMAIN store => \A j \in point.before : complete(calls[j].msg.namespace) # name
      BY DEF PointInv, StoreInv
    <2> QED
      BY <1>3, <2>1, <2>2 DEF Fresh
  <1> QED
    BY <1>1, <1>2, <1>3

FreshInv == StoreInv /\ PointInv /\ RepliesAreFresh

(* No exchange is under way at first.                                      *)
LEMMA FreshInvInit == DispInit => FreshInv
  <1> SUFFICES ASSUME DispInit PROVE FreshInv
    OBVIOUS
  <1>1. << >> \in Seq(Range(<< >>)) /\ DOMAIN << >> = {}
    BY EmptySeq
  <1>2. StoreInv
    BY <1>1 DEF DispInit, StoreInv, NoMap
  <1>3. /\ point = NoPoint /\ point.reply = << >> /\ point.left = << >> /\ point.before = {}
        /\ open => setup.forwarder # << >>
    BY DEF DispInit, NoPoint
  <1>4. PointInv
    BY <1>1, <1>3 DEF PointInv, NoPoint
  <1>5. RepliesAreFresh
    BY <1>1, <1>3 DEF RepliesAreFresh
  <1> QED
    BY <1>2, <1>4, <1>5 DEF FreshInv

(* The exchange itself: a request, an answer to one name, the reply.       *)
LEMMA PointStep ==
  ASSUME [DispNext]_allVars
  PROVE  /\ UNCHANGED <<setup, disp>> /\ (open' => open)
         /\ \/ UNCHANGED point
            \/ \E names \in setup.asked : Request(names)
            \/ LookUp
            \/ Receive
  <1>1. ASSUME NEW t \in Threads, Deliver(t)
        PROVE  UNCHANGED <<setup, disp, open, point>>
    BY <1>1 DEF Deliver, Skip, ToStdout, ToForwarder, ToDatapoint, RecordMetric, ToEkg, Return
  <1>2. ASSUME NEW t \in Threads, NEW m \in setup.messages, dispatch(t, m)
        PROVE  UNCHANGED <<setup, disp, open, point>>
    BY <1>2 DEF dispatch
  <1>3. CASE Clock \/ on_event \/ ForwarderTakes
    BY <1>3 DEF Clock, dispVars, on_event, ForwarderTakes
  <1>4. CASE ForwarderDropped
    BY <1>4 DEF ForwarderDropped
  <1>5. CASE LookUp \/ Receive
    BY <1>5 DEF LookUp, Receive
  <1>6. ASSUME NEW names \in setup.asked, Request(names)
        PROVE  UNCHANGED <<setup, disp, open>>
    BY <1>6 DEF Request
  <1>7. CASE UNCHANGED allVars
    BY <1>7 DEF allVars, dispVars
  <1> QED
    BY <1>1, <1>2, <1>3, <1>4, <1>5, <1>6, <1>7 DEF DispNext

(* Every step keeps the answers fresh.                                     *)
LEMMA FreshInvStep ==
  ASSUME TaskInv, TaskInv', FreshInv, [DispNext]_allVars
  PROVE  FreshInv'
  <1>1. StoreInv /\ PointInv /\ RepliesAreFresh /\ StoreInv'
    BY StoreInvStep DEF FreshInv
  <1>2. /\ Kept /\ UNCHANGED <<setup, disp>> /\ (open' => open)
        /\ \/ UNCHANGED point
           \/ \E names \in setup.asked : Request(names)
           \/ LookUp
           \/ Receive
    BY StoresStep, PointStep
  <1> SUFFICES PointInv' /\ RepliesAreFresh'
    BY <1>1 DEF FreshInv
  <1>3. ASSUME NEW i \in point.before
        PROVE  i \in DOMAIN calls' /\ HasStored(calls'[i])
    BY <1>1, <1>2 DEF PointInv, Kept, StoredBy, HasStored
  <1>4. ASSUME NEW k \in DOMAIN point.reply, NEW name, NEW value,
               name = point.reply[k][1], value = point.reply[k][2], point'.before = point.before
        PROVE  /\ Fresh(name, value)'
               /\ name # NodeInfo /\ value # << >> => value[1] \in DOMAIN calls'
    <2>1. Fresh(name, value)
      BY <1>1, <1>4, FreshAnswers
    <2>2. name # NodeInfo /\ value # << >> => value[1] \in DOMAIN calls
      BY <1>1, <1>4 DEF PointInv
    <2>3. \A i \in point.before : i \in DOMAIN calls
      BY <1>1 DEF PointInv
    <2> QED
      BY <1>2, <1>4, <2>1, <2>2, <2>3, FreshStays DEF Kept
  <1>5. CASE UNCHANGED point
    <2>1. PICK r : r = point.reply
      OBVIOUS
    <2>2. \A k \in DOMAIN r : /\ Fresh(r[k][1], r[k][2])'
                              /\ r[k][1] # NodeInfo /\ r[k][2] # << >> => r[k][2][1] \in DOMAIN calls'
      BY <1>4, <1>5, <2>1
    <2>3. point'.reply = r
      BY <1>5, <2>1
    <2>4. RepliesAreFresh'
      BY <2>2, <2>3 DEF RepliesAreFresh, Fresh
    <2> QED
      BY <1>1, <1>2, <1>3, <1>5, <2>2, <2>3, <2>4 DEF PointInv, StoredBy, HasStored
  <1>6. CASE Receive
    <2>1. point' = NoPoint /\ NoPoint.reply = << >> /\ NoPoint.left = << >> /\ NoPoint.before = {}
      BY <1>6 DEF Receive, NoPoint
    <2>2. << >> \in Seq(Range(<< >>)) /\ DOMAIN << >> = {}
      BY EmptySeq
    <2>3. open' => setup'.forwarder # << >>
      BY <1>1, <1>2 DEF PointInv
    <2>4. PointInv'
      BY <2>1, <2>2, <2>3 DEF PointInv, NoPoint
    <2> QED
      BY <2>1, <2>2, <2>4 DEF RepliesAreFresh
  <1>7. ASSUME NEW names \in setup.asked, Request(names)
        PROVE  PointInv' /\ RepliesAreFresh'
    <2> DEFINE seen == {i \in DOMAIN calls : StoredBy(i)}
    <2>1. /\ point' = [left |-> names, reply |-> << >>, before |-> seen]
          /\ UNCHANGED calls /\ open
      BY <1>7 DEF Request, NoPoint
    <2>2. << >> \in Seq(Range(<< >>)) /\ DOMAIN << >> = {}
      BY EmptySeq
    <2>3. setup'.forwarder # << >>
      BY <1>1, <1>2, <2>1 DEF PointInv
    <2>4. \A i \in seen : i \in DOMAIN calls' /\ HasStored(calls'[i])
      BY <2>1 DEF StoredBy, HasStored
    <2> HIDE DEF seen
    <2>5. PointInv'
      BY <2>1, <2>2, <2>3, <2>4 DEF PointInv, StoredBy, HasStored
    <2> QED
      BY <2>1, <2>2, <2>5 DEF RepliesAreFresh
  <1>8. CASE LookUp
    <2>1. PICK name, value : name = Head(point.left) /\ value = Found(Head(point.left))
      OBVIOUS
    <2>2. /\ point.left # << >> /\ UNCHANGED calls
          /\ point' = [point EXCEPT !.left = Tail(@), !.reply = Append(@, <<name, value>>)]
      BY <1>8, <2>1 DEF LookUp
    <2>3. PICK s : s = point.reply
      OBVIOUS
    <2>4. PICK S : S = Range(s) \cup {<<name, value>>}
      OBVIOUS
    <2>5. s \in Seq(S) /\ <<name, value>> \in S
      <3>1. s \in Seq(Range(s))
        BY <1>1, <2>3 DEF PointInv
      <3> QED
        BY <2>4, <3>1
    <2>6. PICK r : r = Append(s, <<name, value>>)
      OBVIOUS
    <2>7. /\ r \in Seq(S) /\ DOMAIN r = 1..(Len(s) + 1) /\ DOMAIN s = 1..Len(s) /\ Len(s) \in Nat
          /\ r[Len(s) + 1] = <<name, value>> /\ \A k \in 1..Len(s) : r[k] = s[k]
      BY <2>5, <2>6, AppendProperties, LenProperties
    <2>8. /\ point' = [left |-> Tail(point.left), reply |-> r, before |-> point.before]
          /\ setup'.forwarder # << >>
      BY <1>1, <1>2, <2>2, <2>3, <2>6 DEF PointInv
    <2>9. Fresh(name, value) /\ (name # NodeInfo /\ value # << >> => value[1] \in DOMAIN calls)
      BY <1>1, <2>1, <2>2, FoundFresh
    <2>10. Fresh(name, value)'
      <3>1. \A i \in point.before : i \in DOMAIN calls
        BY <1>1 DEF PointInv
      <3> QED
        BY <1>2, <2>8, <2>9, <3>1, FreshStays
    <2>11. ASSUME NEW k \in DOMAIN r, NEW n, NEW v, n = r[k][1], v = r[k][2]
           PROVE  Fresh(n, v)' /\ (n # NodeInfo /\ v # << >> => v[1] \in DOMAIN calls')
      <3>1. CASE k = Len(s) + 1
        <4>1. n = name /\ v = value
          BY <2>7, <2>11, <3>1
        <4> QED
          BY <2>2, <2>9, <2>10, <4>1
      <3>2. CASE k \in 1..Len(s)
        <4>1. k \in DOMAIN point.reply /\ n = point.reply[k][1] /\ v = point.reply[k][2]
          BY <2>3, <2>7, <2>11, <3>2
        <4>2. point'.before = point.before
          BY <2>8
        <4> QED
          BY <1>4, <4>1, <4>2
      <3> QED
        BY <2>7, <3>1, <3>2
    <2>12. r \in Seq(Range(r))
      BY <2>7 DEF Range
    <2>13. PointInv'
      <3>1. \A k \in DOMAIN r : r[k][1] # NodeInfo /\ r[k][2] # << >> => r[k][2][1] \in DOMAIN calls'
        BY <2>11
      <3>2. point'.reply = r /\ point'.before = point.before /\ point'.left = Tail(point.left)
        BY <2>8
      <3> QED
        BY <1>3, <2>8, <2>12, <3>1, <3>2 DEF PointInv, StoredBy, HasStored
    <2>14. \A k \in DOMAIN r : Fresh(r[k][1], r[k][2])'
      BY <2>11
    <2>15. point'.reply = r
      BY <2>8
    <2>16. RepliesAreFresh'
      BY <2>14, <2>15 DEF RepliesAreFresh, Fresh
    <2> QED
      BY <2>13, <2>16
  <1> QED
    BY <1>2, <1>5, <1>6, <1>7, <1>8

(* What a reply says of a name was stored under it by a dispatch that none *)
(* stored there before the request came after, however the threads, the    *)
(* request and the lookups interleave; and NodeInfo is the node's own.     *)
THEOREM DataPointsAreFresh == DispSpec => []RepliesAreFresh
  <1>1. TaskInv /\ FreshInv /\ [DispNext]_allVars => TaskInv' /\ FreshInv'
    BY TaskInvStep, FreshInvStep
  <1>2. FreshInv => RepliesAreFresh
    BY DEF FreshInv
  <1> QED
    BY <1>1, <1>2, TaskInvInit, FreshInvInit, PTL DEF DispSpec

-----------------------------------------------------------------------------
(* What the configuration says of a namespace                              *)

SetBy(config, ns, kind, n) == {k \in 0..n : Sets(config, SubSeq(ns, 1, k), kind)}

(* What the longest of the first n prefixes that sets this kind says.      *)
Longest(config, ns, kind, n) ==
  LET longest == CHOOSE k \in SetBy(config, ns, kind, n) :
                   \A j \in SetBy(config, ns, kind, n) : j <= k
  IN  IF SetBy(config, ns, kind, n) = {} THEN << >>
      ELSE <<config.options[SubSeq(ns, 1, longest)][kind]>>

(* The longest prefix within n segments is the whole n, or one within n -  *)
(* 1.                                                                      *)
LEMMA LongestSteps ==
  ASSUME NEW config, NEW ns, NEW kind, NEW n \in Nat
  PROVE  Longest(config, ns, kind, n) =
           IF Sets(config, SubSeq(ns, 1, n), kind)
           THEN <<config.options[SubSeq(ns, 1, n)][kind]>>
           ELSE IF n = 0 THEN << >> ELSE Longest(config, ns, kind, n - 1)
  <1> DEFINE P(m) == SetBy(config, ns, kind, m)
  <1>1. CASE Sets(config, SubSeq(ns, 1, n), kind)
    <2>1. n \in P(n) /\ \A j \in P(n) : j \in Nat /\ j <= n
      BY <1>1 DEF SetBy
    <2> DEFINE longest == CHOOSE k \in P(n) : \A j \in P(n) : j <= k
    <2>2. longest \in P(n) /\ \A j \in P(n) : j <= longest
      <3> HIDE DEF P
      <3> QED
        BY <2>1
    <2>3. longest = n
      <3> HIDE DEF P, longest
      <3>1. longest <= n /\ n <= longest /\ longest \in Nat
        BY <2>1, <2>2
      <3> QED
        BY <3>1
    <2>4. Longest(config, ns, kind, n) = <<config.options[SubSeq(ns, 1, longest)][kind]>>
      BY <2>1 DEF Longest
    <2> HIDE DEF longest
    <2> QED
      BY <1>1, <2>3, <2>4
  <1>2. CASE ~Sets(config, SubSeq(ns, 1, n), kind) /\ n = 0
    <2>1. P(n) = {}
      BY <1>2 DEF SetBy
    <2> QED
      BY <1>2, <2>1 DEF Longest
  <1>3. CASE ~Sets(config, SubSeq(ns, 1, n), kind) /\ n # 0
    <2>1. n - 1 \in Nat /\ \A k \in 0..n : k \in 0..(n - 1) \/ k = n
      BY <1>3
    <2>2. 0..(n - 1) \subseteq 0..n
      OBVIOUS
    <2>3. P(n) = P(n - 1)
      BY <1>3, <2>1, <2>2 DEF SetBy
    <2> QED
      BY <1>3, <2>3 DEF Longest
  <1> QED
    BY <1>1, <1>2, <1>3

(* get_option finds what the longest prefix that sets the kind says.       *)
LEMMA GetOptionLongest ==
  ASSUME NEW config, NEW S, NEW ns \in Seq(S), NEW kind
  PROVE  get_option(config, ns, kind) = Longest(config, ns, kind, Len(ns))
  <1> DEFINE N == Len(ns)
             key(n) == SubSeq(ns, 1, n)
             upto(at) == [n \in 0..N |->
                            IF Sets(config, key(n), kind) THEN <<config.options[key(n)][kind]>>
                            ELSE IF n = 0 THEN << >> ELSE at[n - 1]]
             F == [n \in 0..N |-> Longest(config, ns, kind, n)]
             U == CHOOSE at : at = upto(at)
  <1>1. N \in Nat
    BY LenProperties
  <1>2. F = upto(F)
    <2>1. ASSUME NEW n \in 0..N
          PROVE  F[n] = IF Sets(config, key(n), kind) THEN <<config.options[key(n)][kind]>>
                        ELSE IF n = 0 THEN << >> ELSE F[n - 1]
      <3>1. n \in Nat /\ (n # 0 => n - 1 \in 0..N)
        BY <1>1
      <3>2. Longest(config, ns, kind, n) =
              IF Sets(config, key(n), kind) THEN <<config.options[key(n)][kind]>>
              ELSE IF n = 0 THEN << >> ELSE Longest(config, ns, kind, n - 1)
        BY <3>1, LongestSteps
      <3> HIDE DEF N, key
      <3> QED
        BY <3>1, <3>2
    <2> HIDE DEF N, key
    <2>2. F = [n \in 0..N |-> F[n]]
      OBVIOUS
    <2> HIDE DEF F
    <2> QED
      BY <2>1, <2>2
  <1>3. U = upto(U)
    <2> HIDE DEF F, upto
    <2> QED
      BY <1>2
  <1>4. get_option(config, ns, kind) = U[N]
    BY DEF get_option
  <1> HIDE DEF U
  <1>5. 0 \in 0..N /\ N \in 0..N /\ \A n \in 1..N : n \in 0..N /\ n # 0
    BY <1>1
  <1>6. U[0] = F[0]
    <2>1. upto(U)[0] = upto(F)[0]
      BY <1>5
    <2> HIDE DEF upto, F
    <2> QED
      BY <1>2, <1>3, <2>1
  <1>7. ASSUME NEW n \in 1..N, U[n - 1] = F[n - 1] PROVE U[n] = F[n]
    <2>1. upto(U)[n] = upto(F)[n]
      <3> HIDE DEF F, N
      <3> QED
        BY <1>5, <1>7
    <2> HIDE DEF upto, F
    <2> QED
      BY <1>2, <1>3, <2>1
  <1>8. Agree(U, F, N)
    <2> HIDE DEF F, N
    <2> QED
      BY <1>1, <1>6, <1>7, SameSteps
  <1>9. U[N] = F[N]
    BY <1>5, <1>8 DEF Agree
  <1> QED
    BY <1>4, <1>5, <1>9

(* The lookup of an option gives the option of the longest prefix that     *)
(* sets it.                                                                *)
LEMMA GoverningIsGiven ==
  ASSUME NEW S, NEW ns \in Seq(S), NEW kind
  PROVE  get_option(disp.config, ns, kind) = Governing(ns, kind)
  BY GetOptionLongest DEF Governing, Longest, SetBy

-----------------------------------------------------------------------------
(* How often a sequence has an element                                     *)

Places(s, x) == {i \in 1..Len(s) : s[i] = x}

(* How often a list names x, as the number of places it has there.         *)
LEMMA TimesPlaces ==
  ASSUME NEW S, NEW s \in Seq(S), NEW x
  PROVE  /\ Times(s, x) = Cardinality(Places(s, x)) /\ IsFiniteSet(Places(s, x))
         /\ Times(s, x) \in Nat
  <1>1. DOMAIN s = 1..Len(s) /\ Len(s) \in Nat
    BY LenProperties
  <1>2. Times(s, x) = Cardinality(Places(s, x))
    BY <1>1 DEF Times, Places
  <1>3. IsFiniteSet(1..Len(s)) /\ Places(s, x) \in SUBSET (1..Len(s))
    BY <1>1, FS_Interval DEF Places
  <1> HIDE DEF Places
  <1>4. IsFiniteSet(Places(s, x))
    BY <1>3, FS_Subset
  <1> QED
    BY <1>2, <1>4, FS_CardinalityType

(* An empty list names nothing.                                            *)
LEMMA TimesEmpty ==
  ASSUME NEW x
  PROVE  Times(<< >>, x) = 0
  <1>1. {i \in DOMAIN << >> : << >>[i] = x} = {}
    BY EmptySeq
  <1> QED
    BY <1>1, FS_EmptySet DEF Times

(* One more element is named once more.                                    *)
LEMMA TimesAppend ==
  ASSUME NEW S, NEW s \in Seq(S), NEW y \in S, NEW x
  PROVE  Times(Append(s, y), x) = Times(s, x) + IF y = x THEN 1 ELSE 0
  <1> DEFINE t == Append(s, y)
             n == Len(s)
  <1>1. /\ t \in Seq(S) /\ n \in Nat /\ Len(t) = n + 1 /\ t[n + 1] = y
        /\ \A i \in 1..n : t[i] = s[i]
    BY AppendProperties, LenProperties
  <1>2. /\ Times(t, x) = Cardinality(Places(t, x))
        /\ Times(s, x) = Cardinality(Places(s, x)) /\ IsFiniteSet(Places(s, x))
        /\ Times(s, x) \in Nat
    BY <1>1, TimesPlaces
  <1> HIDE DEF t
  <1>3. n + 1 \notin Places(s, x)
    BY <1>1 DEF Places
  <1>4. \A i \in 1..(n + 1) : i \in 1..n \/ i = n + 1
    BY <1>1
  <1>5. 1..n \subseteq 1..(n + 1) /\ n + 1 \in 1..(n + 1)
    BY <1>1
  <1>6. CASE y = x
    <2>1. Places(t, x) = Places(s, x) \cup {n + 1}
      BY <1>1, <1>4, <1>5, <1>6 DEF Places
    <2>2. Cardinality(Places(s, x) \cup {n + 1}) = Cardinality(Places(s, x)) + 1
      BY <1>2, <1>3, FS_AddElement
    <2> QED
      BY <1>2, <1>6, <2>1, <2>2 DEF t
  <1>7. CASE y # x
    <2>1. Places(t, x) = Places(s, x)
      BY <1>1, <1>4, <1>5, <1>7 DEF Places
    <2> QED
      BY <1>2, <1>7, <2>1 DEF t
  <1> QED
    BY <1>6, <1>7

(* Without its head a list names the head once less.                       *)
LEMMA TimesTail ==
  ASSUME NEW S, NEW s \in Seq(S), NEW x, s # << >>
  PROVE  Times(s, x) = Times(Tail(s), x) + IF Head(s) = x THEN 1 ELSE 0
  <1> DEFINE t == Tail(s)
             n == Len(t)
             P == Places(t, x)
             Q == Places(s, x) \ {1}
             f == [i \in P |-> i + 1]
  <1>1. /\ t \in Seq(S) /\ n \in Nat /\ Len(s) = n + 1 /\ s[1] = Head(s)
        /\ \A i \in 1..n : t[i] = s[i + 1]
    BY SeqFacts, HeadTailProperties, LenProperties
  <1>2. /\ Times(t, x) = Cardinality(P) /\ IsFiniteSet(P) /\ Times(t, x) \in Nat
        /\ Times(s, x) = Cardinality(Places(s, x)) /\ IsFiniteSet(Places(s, x))
    BY <1>1, TimesPlaces
  <1> HIDE DEF t
  <1>3. f \in Bijection(P, Q)
    <2>1. \A i \in P : i \in Nat /\ i + 1 \in Q
      BY <1>1 DEF Places
    <2>2. \A i, j \in P : i + 1 = j + 1 => i = j
      BY <2>1
    <2>3. \A k \in Q : k - 1 \in P /\ (k - 1) + 1 = k
      BY <1>1 DEF Places
    <2> HIDE DEF P, Q
    <2>4. f \in [P -> Q] /\ (\A a, b \in P : f[a] = f[b] => a = b) /\ \A k \in Q : \E i \in P : f[i] = k
      BY <2>1, <2>2, <2>3
    <2> HIDE DEF f
    <2> QED
      BY <2>4, Fun_IsBij
  <1> HIDE DEF f, P, Q
  <1>4. Cardinality(Q) = Cardinality(P) /\ IsFiniteSet(Q)
    BY <1>2, <1>3, FS_Bijection, Fun_ExistsBij
  <1>5. 1 \notin Q
    BY DEF Q
  <1>6. CASE Head(s) = x
    <2>1. Places(s, x) = Q \cup {1}
      BY <1>1, <1>6 DEF Places, Q
    <2>2. Cardinality(Q \cup {1}) = Cardinality(Q) + 1
      BY <1>4, <1>5, FS_AddElement
    <2> QED
      BY <1>2, <1>4, <1>6, <2>1, <2>2 DEF t
  <1>7. CASE Head(s) # x
    <2>1. Places(s, x) = Q
      BY <1>1, <1>7 DEF Places, Q
    <2> QED
      BY <1>2, <1>4, <1>7, <2>1 DEF t
  <1> QED
    BY <1>6, <1>7

-----------------------------------------------------------------------------
(* What becomes of a metric                                                *)

(* The registry knows what the caches have, by its sanitised name.         *)
EkgInv ==
  /\ ekg = [gauges |-> ekg.gauges, counters |-> ekg.counters,
            registered |-> ekg.registered, samples |-> ekg.samples]
  /\ \A n \in ekg.registered :
       \E name \in ekg.counters \cup DOMAIN ekg.gauges : sanitise_name(name) = n

(* The caches only grow, and a gauge keeps its labels.                     *)
EkgGrows ==
  /\ ekg.counters \subseteq ekg'.counters
  /\ DOMAIN ekg.gauges \subseteq DOMAIN ekg'.gauges
  /\ \A name \in DOMAIN ekg.gauges : ekg'.gauges[name] = ekg.gauges[name]

NameClash(e, metric) ==
  LET Clash(names) == \E n \in names : sanitise_name(n) = sanitise_name(metric.name)
  IN  IF metric.kind = "CounterM" THEN Clash(e.counters \ {metric.name}) \/ Clash(DOMAIN e.gauges)
      ELSE Clash(DOMAIN e.gauges \ {metric.name}) \/ Clash(e.counters)

(* What in the backend's state e explains an outcome.                      *)
Told(e, metric, outcome) ==
  \/ outcome = "ok"
  \/ outcome = "error" /\ (NameClash(e, metric) \/ ~CanRegister(EkgNew, metric.name))
  \/ /\ outcome = "panic" /\ metric.name \in DOMAIN e.gauges
     /\ Len(e.gauges[metric.name]) # Len(metric.values)

(* What a backend said of a metric is explained by what the registry holds *)
(* now.                                                                    *)
LEMMA ToldExplains ==
  ASSUME NEW metric, NEW outcome, Told(ekg, metric, outcome)
  PROVE  Explained(metric, outcome)
  <1>1. NameClash(ekg, metric) => NameTaken(metric)
    BY DEF NameClash, NameTaken
  <1> QED
    BY <1>1 DEF Told, Explained

(* What explains an outcome now will explain it later.                     *)
LEMMA ToldStays ==
  ASSUME EkgGrows, NEW metric, NEW outcome, Told(ekg, metric, outcome)
  PROVE  Told(ekg', metric, outcome)
  <1>1. NameClash(ekg, metric) => NameClash(ekg', metric)
    BY DEF EkgGrows, NameClash
  <1> QED
    BY <1>1 DEF Told, EkgGrows

(* A metric of some message.                                               *)
LEMMA MetricTypes ==
  ASSUME NEW metric \in MetricsOf
  PROVE  /\ metric.kind \in {"IntM", "DoubleM", "CounterM", "PrometheusM"}
         /\ Len(metric.labels) = Len(metric.values)
         /\ metric.kind = "CounterM" => Len(metric.values) = 0
  <1>1. PICK m \in Messages : metric \in Range(m.metrics)
    BY DEF MetricsOf
  <1>2. PICK s \in Setups : m \in s.messages
    BY DEF Messages
  <1>3. /\ metric.kind \in {"IntM", "DoubleM", "CounterM", "PrometheusM"}
        /\ Len(metric.labels) = Len(metric.values)
        /\ metric.kind # "PrometheusM" => metric.labels = << >>
    BY <1>1, <1>2, SetupsTyped
  <1> QED
    BY <1>3, EmptySeq

(* Recording a metric keeps the registry's invariant, forgets nothing and  *)
(* tells the outcome.                                                      *)
LEMMA RecordFacts ==
  ASSUME EkgInv, NEW metric \in MetricsOf, ekg' = record_metric(ekg, metric),
         NEW out, out = Outcome(ekg, metric)
  PROVE  EkgInv' /\ EkgGrows /\ Told(ekg', metric, out)
  <1> DEFINE reg == get_or_create(ekg, metric)
  <1>1. /\ metric.kind \in {"IntM", "DoubleM", "CounterM", "PrometheusM"}
        /\ Len(metric.labels) = Len(metric.values)
        /\ metric.kind = "CounterM" => Len(metric.values) = 0
    BY MetricTypes
  <1>2. out \in {"ok", "error", "panic"}
    BY OutcomeType
  <1>3. /\ reg = [gauges |-> reg.gauges, counters |-> reg.counters,
                  registered |-> reg.registered, samples |-> reg.samples]
        /\ ekg.counters \subseteq reg.counters
        /\ DOMAIN ekg.gauges \subseteq DOMAIN reg.gauges
        /\ \A name \in DOMAIN ekg.gauges : reg.gauges[name] = ekg.gauges[name]
        /\ \A n \in reg.registered :
             \E name \in reg.counters \cup DOMAIN reg.gauges : sanitise_name(name) = n
        /\ metric.kind # "CounterM" => metric.name \in DOMAIN reg.gauges
    <2>1. CASE Known(ekg, metric)
      BY <2>1 DEF get_or_create, EkgInv, Known
    <2>2. CASE ~Known(ekg, metric) /\ metric.kind = "CounterM"
      <3>1. reg = [gauges |-> ekg.gauges, counters |-> ekg.counters \cup {metric.name},
                   registered |-> ekg.registered \cup {sanitise_name(metric.name)},
                   samples |-> ekg.samples]
        BY <2>2 DEF get_or_create, EkgInv
      <3> HIDE DEF reg
      <3> QED
        BY <2>2, <3>1 DEF EkgInv
    <2>3. CASE ~Known(ekg, metric) /\ metric.kind # "CounterM"
      <3>1. reg = [gauges |-> Put(ekg.gauges, metric.name, metric.labels),
                   counters |-> ekg.counters,
                   registered |-> ekg.registered \cup {sanitise_name(metric.name)},
                   samples |-> ekg.samples]
        BY <2>3 DEF get_or_create, EkgInv
      <3>2. metric.name \notin DOMAIN ekg.gauges
        BY <2>3 DEF Known
      <3>3. /\ DOMAIN reg.gauges = DOMAIN ekg.gauges \cup {metric.name}
            /\ \A name \in DOMAIN ekg.gauges : reg.gauges[name] = ekg.gauges[name]
        BY <3>1, <3>2 DEF Put
      <3> HIDE DEF reg
      <3> QED
        BY <2>3, <3>1, <3>3 DEF EkgInv
    <2> QED
      BY <2>1, <2>2, <2>3
  <1>4. /\ out = "error" => ekg' = ekg
        /\ out # "error" => /\ ekg'.gauges = reg.gauges /\ ekg'.counters = reg.counters
                            /\ ekg'.registered = reg.registered
                            /\ ekg' = [gauges |-> ekg'.gauges, counters |-> ekg'.counters,
                                       registered |-> ekg'.registered, samples |-> ekg'.samples]
    <2> HIDE DEF reg
    <2>1. CASE out = "error"
      BY <2>1 DEF record_metric
    <2>2. CASE out = "panic"
      BY <1>3, <2>2 DEF record_metric, reg
    <2>3. CASE out = "ok"
      <3>1. \E samples : ekg' = [reg EXCEPT !.samples = samples]
        BY <2>3 DEF record_metric, reg
      <3> QED
        BY <1>3, <2>3, <3>1
    <2> QED
      BY <1>2, <2>1, <2>2, <2>3
  <1>5. EkgInv' /\ EkgGrows
    <2> HIDE DEF reg
    <2>1. CASE out = "error"
      BY <1>4, <2>1 DEF EkgInv, EkgGrows
    <2>2. CASE out # "error"
      BY <1>3, <1>4, <2>2 DEF EkgInv, EkgGrows
    <2> QED
      BY <2>1, <2>2
  <1>6. CASE out = "ok"
    BY <1>5, <1>6 DEF Told
  <1>7. CASE out = "error"
    <2>1. ~Known(ekg, metric) /\ ~CanRegister(ekg, metric.name)
      BY <1>7 DEF Outcome
    <2>2. ASSUME CanRegister(EkgNew, metric.name) PROVE NameClash(ekg, metric)
      <3>1. sanitise_name(metric.name) \in ekg.registered
        BY <2>1, <2>2 DEF CanRegister
      <3>2. PICK name \in ekg.counters \cup DOMAIN ekg.gauges :
              sanitise_name(name) = sanitise_name(metric.name)
        BY <3>1 DEF EkgInv
      <3> QED
        BY <2>1, <3>2 DEF Known, NameClash
    <2>3. Told(ekg, metric, out)
      BY <1>7, <2>2 DEF Told
    <2> QED
      BY <1>5, <2>3, ToldStays
  <1>8. CASE out = "panic"
    <2>1. Arity(ekg, metric) # Len(metric.values)
      BY <1>8 DEF Outcome
    <2>2. metric.kind # "CounterM" /\ Len(reg.gauges[metric.name]) # Len(metric.values)
      BY <1>1, <2>1 DEF Arity
    <2> HIDE DEF reg
    <2>3. ekg'.gauges = reg.gauges /\ metric.name \in DOMAIN reg.gauges
      BY <1>3, <1>4, <1>8, <2>2
    <2> QED
      BY <1>5, <1>8, <2>2, <2>3 DEF Told
  <1> QED
    BY <1>2, <1>5, <1>6, <1>7, <1>8

(* The index of a metric in its message, from how many are still to come.  *)
LEMMA RemainderIs ==
  ASSUME NEW L \in Nat \ {0}, NEW q \in Int, NEW r \in 0..(L - 1), NEW p \in Nat, p = q * L + r
  PROVE  p % L = r
  OBVIOUS

(* With r of L metrics to go, the number recorded leaves the remainder L - *)
(* r.                                                                      *)
LEMMA RemainderToGo ==
  ASSUME NEW L \in Nat \ {0}, NEW p \in Nat, NEW r \in 1..L, (p + r) % L = 0
  PROVE  p % L = L - r
  <1>1. PICK q \in Nat : p + r = q * L
    <2> DEFINE n == p + r
    <2>1. n \in Nat
      OBVIOUS
    <2> HIDE DEF n
    <2>2. n = (n \div L) * L + (n % L) /\ n \div L \in Nat
      BY <2>1
    <2> QED
      BY <2>2 DEF n
  <1>2. (q - 1) * L = q * L - L
    OBVIOUS
  <1> DEFINE k == q - 1
             rest == L - r
  <1>3. p = k * L + rest /\ k \in Int /\ rest \in 0..(L - 1)
    BY <1>1, <1>2
  <1> HIDE DEF k, rest
  <1>4. p % L = rest
    BY <1>3, RemainderIs
  <1> QED
    BY <1>4 DEF rest

(* A whole round more leaves the same remainder.                           *)
LEMMA RemainderAgain ==
  ASSUME NEW L \in Nat \ {0}, NEW p \in Nat, p % L = 0
  PROVE  (p + L) % L = 0
  <1>1. PICK q \in Nat : p = q * L
    <2>1. p = (p \div L) * L + (p % L) /\ p \div L \in Nat
      OBVIOUS
    <2> QED
      BY <2>1
  <1>2. (q + 1) * L = q * L + L
    OBVIOUS
  <1> DEFINE n == p + L
             k == q + 1
  <1>3. n = k * L + 0 /\ k \in Int /\ 0 \in 0..(L - 1) /\ n \in Nat
    BY <1>1, <1>2
  <1> HIDE DEF n, k
  <1>4. n % L = 0
    BY <1>3, RemainderIs
  <1> QED
    BY <1>4 DEF n

(* The metrics that h has still to record are the last of its message.     *)
Placed(c, h) ==
  LET ms == c.msg.metrics
      r  == Len(h.metrics)
  IN  /\ r <= Len(ms)
      /\ \A j \in 1..r : h.metrics[j] = ms[Len(ms) - r + j]
      /\ Len(ms) # 0 => (Len(c.metrics) + r) % Len(ms) = 0

MetricOf(c, k) == c.msg.metrics[1 + ((k - 1) % Len(c.msg.metrics))]

AllTold(e, c) == \A k \in DOMAIN c.metrics : Told(e, MetricOf(c, k), c.metrics[k])

(* The metrics and the namespace of a message of any set-up are lists.     *)
LEMMA MessageMetrics ==
  ASSUME NEW m \in Messages
  PROVE  m.metrics \in Seq(MetricsOf) /\ complete(m.namespace) \in Seq(Range(complete(m.namespace)))
  <1>1. PICK s \in Setups : m \in s.messages
    BY DEF Messages
  <1>2. Range(m.metrics) \subseteq MetricsOf
    BY DEF MetricsOf
  <1> QED
    BY <1>1, <1>2, SetupsTyped

(* A new dispatch, and a second list entry for the EKG backend: all are to *)
(* be recorded.                                                            *)
LEMMA PlacedFirst ==
  ASSUME NEW c \in Dispatch, NEW h \in Handling, h.metrics = c.msg.metrics,
         \/ c.metrics = << >>
         \/ \E g \in Handling : Placed(c, g) /\ g.metrics = << >>
  PROVE  Placed(c, h)
  <1> DEFINE ms == c.msg.metrics
  <1>1. ms \in Seq(MetricsOf) /\ Len(ms) \in Nat /\ Len(c.metrics) \in Nat
    BY MessageMetrics, LenProperties DEF Dispatch
  <1>2. Len(ms) # 0 => Len(c.metrics) % Len(ms) = 0
    <2>1. CASE c.metrics = << >>
      <3>1. Len(c.metrics) = 0
        BY <2>1
      <3>2. Len(ms) # 0 => 0 = 0 * Len(ms) + 0 /\ 0 \in 0..(Len(ms) - 1)
        BY <1>1
      <3> HIDE DEF ms
      <3> QED
        BY <1>1, <3>1, <3>2, RemainderIs
    <2>2. ASSUME NEW g \in Handling, Placed(c, g), g.metrics = << >>
          PROVE  Len(ms) # 0 => Len(c.metrics) % Len(ms) = 0
      <3>1. Len(g.metrics) = 0
        BY <2>2
      <3>2. Len(ms) # 0 => (Len(c.metrics) + 0) % Len(ms) = 0
        BY <2>2, <3>1 DEF Placed
      <3>3. Len(c.metrics) + 0 = Len(c.metrics)
        BY <1>1
      <3> QED
        BY <3>2, <3>3
    <2> QED
      BY <2>1, <2>2
  <1> HIDE DEF ms
  <1>3. Len(ms) # 0 => (Len(c.metrics) + Len(ms)) % Len(ms) = 0
    BY <1>1, <1>2, RemainderAgain
  <1>4. \A j \in 1..Len(ms) : Len(ms) - Len(ms) + j = j
    BY <1>1
  <1>5. h.metrics = ms
    BY DEF ms
  <1>6. Len(ms) <= Len(ms) /\ \A j \in 1..Len(ms) : ms[j] = ms[Len(ms) - Len(ms) + j]
    BY <1>1, <1>4
  <1> QED
    BY <1>3, <1>5, <1>6 DEF Placed, ms

(* One is recorded: it is the one that its place in the record says.       *)
LEMMA PlacedNext ==
  ASSUME NEW c \in Dispatch, NEW h \in Handling, Placed(c, h), h.metrics # << >>,
         NEW out \in {"ok", "error", "panic"}
  PROVE  /\ Head(h.metrics) \in MetricsOf
         /\ MetricOf(c, Len(c.metrics) + 1) = Head(h.metrics)
         /\ Placed(Measured(c, out), NextMetric(h))
  <1> DEFINE ms == c.msg.metrics
             L == Len(ms)
             p == Len(c.metrics)
             hm == h.metrics
             r == Len(hm)
  <1>1. /\ ms \in Seq(MetricsOf) /\ L \in Nat /\ p \in Nat /\ hm \in Seq(MetricsOf)
        /\ c.metrics \in Seq({"ok", "error", "panic"})
    BY MessageMetrics, LenProperties DEF Dispatch, Handling
  <1>2. /\ r \in Nat \ {0} /\ Head(hm) \in MetricsOf /\ Head(hm) = hm[1]
        /\ Tail(hm) \in Seq(MetricsOf) /\ Len(Tail(hm)) = r - 1
        /\ \A j \in 1..(r - 1) : Tail(hm)[j] = hm[j + 1]
    BY <1>1, SeqFacts, HeadTailProperties
  <1>3. r <= L /\ \A j \in 1..r : hm[j] = ms[L - r + j]
    BY DEF Placed
  <1>4. L # 0 => (p + r) % L = 0
    BY DEF Placed
  <1>5. /\ Measured(c, out).msg = c.msg /\ Measured(c, out).metrics = Append(c.metrics, out)
        /\ NextMetric(h).metrics = Tail(hm)
    BY DEF Measured, NextMetric, Dispatch, Handling
  <1>6. Len(Append(c.metrics, out)) = p + 1
    BY <1>1, AppendProperties
  <1> HIDE DEF ms, L, p, hm, r
  <1>7. L \in Nat \ {0} /\ r \in 1..L
    BY <1>1, <1>2, <1>3
  <1>8. p % L = L - r
    BY <1>1, <1>4, <1>7, RemainderToGo
  <1>9. hm[1] = ms[L - r + 1]
    BY <1>2, <1>3
  <1>10. (p + 1) - 1 = p /\ 1 + (L - r) = L - r + 1
    BY <1>1, <1>2
  <1>11. MetricOf(c, p + 1) = Head(hm)
    BY <1>2, <1>8, <1>9, <1>10 DEF MetricOf, ms, L
  <1>12. \A j \in 1..(r - 1) : Tail(hm)[j] = ms[L - (r - 1) + j]
    <2>1. ASSUME NEW j \in 1..(r - 1)
          PROVE  j + 1 \in 1..r /\ L - r + (j + 1) = L - (r - 1) + j
      BY <1>1, <1>2
    <2> QED
      BY <1>2, <1>3, <2>1
  <1>13. (p + 1) + (r - 1) = p + r /\ r - 1 <= L
    BY <1>1, <1>2, <1>3
  <1>14. Placed(Measured(c, out), NextMetric(h))
    <2>1. Len(NextMetric(h).metrics) = r - 1 /\ Measured(c, out).msg.metrics = ms
          /\ Len(Measured(c, out).metrics) = p + 1 /\ Len(ms) = L
      BY <1>2, <1>5, <1>6 DEF ms, L
    <2> QED
      BY <1>4, <1>5, <1>7, <1>12, <1>13, <2>1 DEF Placed
  <1> QED
    BY <1>2, <1>11, <1>14 DEF p, hm

-----------------------------------------------------------------------------
(* Every configured backend is served                                      *)

Wanted(m, key) ==
  /\ key \in disp.backends
  /\ key = "Forwarder" => m.privacy # "Confidential"
  /\ key = "Datapoint" => Stores

DueBy(m, key) ==
  IF Wanted(m, key) THEN Times(backends_for(disp.config, complete(m.namespace)), key) ELSE 0

ToGo(m, left, key) == IF Wanted(m, key) THEN Times(left, key) ELSE 0

(* What a backend has taken, and what it will, make up what is due to it.  *)
Balanced(c, left) == \A key \in Keys : Taken(c, key) + ToGo(c.msg, left, key) = DueBy(c.msg, key)

Served(c) ==
  /\ (c.outcome = "filtered") <=> ~Passes(c.msg)
  /\ \A key \in Keys : IF c.outcome = "done" THEN Taken(c, key) = DueBy(c.msg, key)
                       ELSE Taken(c, key) <= DueBy(c.msg, key)
  /\ c.outcome = "panicked" => c.metrics[Len(c.metrics)] = "panic"

InHand(c, h) == Placed(c, h) /\ Balanced(c, h.left)

ServedInv ==
  /\ EkgInv
  /\ \A i \in DOMAIN calls : Served(calls[i]) /\ AllTold(ekg, calls[i])
  /\ \A t \in Threads : call[t].id # 0 => InHand(calls[call[t].id], call[t])

(* What backends have taken is counted.                                    *)
LEMMA TakenNumbers ==
  ASSUME NEW c \in Dispatch, NEW key \in Keys
  PROVE  Taken(c, key) \in Nat
  <1>1. Times(c.reached, key) \in Nat
    BY TimesPlaces DEF Dispatch
  <1> QED
    BY <1>1 DEF Taken, Dispatch

(* What they are due is counted.                                           *)
LEMMA DueNumbers ==
  ASSUME Decided, NEW m \in setup.messages, NEW key \in Keys
  PROVE  DueBy(m, key) \in Nat
  <1>1. backends_for(disp.config, complete(m.namespace)) \in Seq(Keys)
    BY SetupFacts
  <1>2. Times(backends_for(disp.config, complete(m.namespace)), key) \in Nat
    BY <1>1, TimesPlaces
  <1> QED
    BY <1>2 DEF DueBy

(* A step of a dispatch adds to what one backend has taken.                *)
LEMMA TakenTook ==
  ASSUME NEW c \in Dispatch, NEW x \in Keys, NEW key \in Keys
  PROVE  /\ Taken(Took(c, x), key) = Taken(c, key) + IF x = key THEN 1 ELSE 0
         /\ Taken(Missed(c), key) = Taken(c, key) + IF "Forwarder" = key THEN 1 ELSE 0
         /\ Taken(Over(c), key) = Taken(c, key)
         /\ \A out : Taken(Measured(c, out), key) = Taken(c, key)
  <1>1. c.reached \in Seq(Keys) /\ c.lost \in Nat
    BY DEF Dispatch
  <1>2. /\ Times(Append(c.reached, x), key) = Times(c.reached, key) + IF x = key THEN 1 ELSE 0
        /\ Times(c.reached, key) \in Nat
    BY <1>1, TimesAppend, TimesPlaces
  <1>3. /\ Took(c, x).reached = Append(c.reached, x) /\ Took(c, x).lost = c.lost
        /\ Missed(c).reached = c.reached /\ Missed(c).lost = c.lost + 1
        /\ Over(c).reached = c.reached /\ Over(c).lost = c.lost
        /\ \A out : Measured(c, out).reached = c.reached /\ Measured(c, out).lost = c.lost
    BY DEF Took, Missed, Over, Measured, Dispatch
  <1>4. Taken(Took(c, x), key) = Taken(c, key) + IF x = key THEN 1 ELSE 0
    <2>1. Times(Took(c, x).reached, key) = Times(c.reached, key) + IF x = key THEN 1 ELSE 0
      BY <1>2, <1>3
    <2>2. Took(c, x).lost = c.lost
      BY <1>3
    <2> QED
      BY <1>1, <1>2, <2>1, <2>2 DEF Taken
  <1>5. Taken(Missed(c), key) = Taken(c, key) + IF "Forwarder" = key THEN 1 ELSE 0
    <2>1. /\ Times(Missed(c).reached, key) = Times(c.reached, key)
          /\ Missed(c).lost = c.lost + 1
      BY <1>3
    <2>2. CASE key = "Forwarder"
      BY <1>1, <1>2, <2>1, <2>2 DEF Taken
    <2>3. CASE key # "Forwarder"
      BY <1>1, <1>2, <2>1, <2>3 DEF Taken
    <2> QED
      BY <2>2, <2>3
  <1> QED
    BY <1>3, <1>4, <1>5 DEF Taken

(* A backend takes the message, or it is not one that gets it.             *)
LEMMA BalancedNext ==
  ASSUME NEW r \in Dispatch, NEW c \in Dispatch, c.msg = r.msg,
         NEW left \in Seq(Keys), left # << >>, Balanced(r, left),
         \A key \in Keys :
           Taken(c, key) = Taken(r, key) + IF Head(left) = key /\ Wanted(r.msg, key) THEN 1 ELSE 0
  PROVE  Balanced(c, Tail(left))
  <1> SUFFICES ASSUME NEW key \in Keys
               PROVE  Taken(c, key) + ToGo(r.msg, Tail(left), key) = DueBy(r.msg, key)
    BY DEF Balanced
  <1>1. /\ Times(left, key) = Times(Tail(left), key) + IF Head(left) = key THEN 1 ELSE 0
        /\ Times(Tail(left), key) \in Nat /\ Taken(r, key) \in Nat
    BY TimesTail, TimesPlaces, TakenNumbers, HeadTailProperties
  <1>2. Taken(r, key) + ToGo(r.msg, left, key) = DueBy(r.msg, key)
    BY DEF Balanced
  <1>3. CASE Wanted(r.msg, key)
    BY <1>1, <1>2, <1>3 DEF ToGo
  <1>4. CASE ~Wanted(r.msg, key)
    BY <1>1, <1>2, <1>4 DEF ToGo
  <1> QED
    BY <1>3, <1>4

(* Nothing is taken before its turn.                                       *)
LEMMA BalancedBounds ==
  ASSUME NEW c \in Dispatch, NEW left \in Seq(Keys), Balanced(c, left), NEW key \in Keys
  PROVE  /\ Taken(c, key) <= DueBy(c.msg, key)
         /\ left = << >> => Taken(c, key) = DueBy(c.msg, key)
  <1>1. Times(left, key) \in Nat /\ Taken(c, key) \in Nat
    BY TimesPlaces, TakenNumbers
  <1>2. Taken(c, key) + ToGo(c.msg, left, key) = DueBy(c.msg, key)
    BY DEF Balanced
  <1>3. left = << >> => Times(left, key) = 0
    BY TimesEmpty
  <1> QED
    BY <1>1, <1>2, <1>3 DEF ToGo

(* The work of one thread, but for its metrics.                            *)
LEMMA WorkBalances ==
  ASSUME NEW t \in Threads, NEW c \in Dispatch, NEW d \in Handling, Work(t, c, d),
         GoesOn(t, c, d), NEW r \in Dispatch, r = calls[call[t].id], r.outcome = "running",
         NEW h \in Handling, h = call[t], h.id # 0, Balanced(r, h.left)
  PROVE  \/ d.id = h.id /\ c.outcome = "running" /\ Balanced(c, d.left)
         \/ c.outcome = "panicked" /\ Balanced(c, h.left) /\ d = NoCall
         \/ c.outcome = "done" /\ Balanced(c, << >>) /\ d = NoCall
  <1>1. /\ Msg(t) = r.msg /\ c.msg = r.msg /\ h.left \in Seq(Keys) /\ NoCall.id = 0
        /\ \/ d.id = h.id /\ c.outcome = "running"
           \/ d = NoCall
    BY DEF Msg, GoesOn, Handling, NoCall
  <1>2. /\ Advanced(h).left = Tail(h.left)
        /\ NextMetric(h).left = h.left
        /\ \A ms : [Advanced(h) EXCEPT !.metrics = ms].left = Tail(h.left)
    BY DEF Advanced, NextMetric, Handling
  <1>3. ASSUME NEW key \in Keys
        PROVE  /\ Taken(r, key) \in Nat
               /\ \A x \in Keys : Taken(Took(r, x), key) = Taken(r, key) + IF x = key THEN 1 ELSE 0
               /\ Taken(Missed(r), key) = Taken(r, key) + IF "Forwarder" = key THEN 1 ELSE 0
               /\ Taken(Over(r), key) = Taken(r, key)
               /\ \A out : Taken(Measured(r, out), key) = Taken(r, key)
    BY TakenTook, TakenNumbers
  <1>4. /\ Advanced(h).id = h.id
         /\ \A ms : [Advanced(h) EXCEPT !.metrics = ms].id = h.id
    BY DEF Advanced, Handling
  <1>5. ASSUME d.id = h.id, Balanced(c, d.left)
         PROVE  d.id = h.id /\ c.outcome = "running" /\ Balanced(c, d.left)
    BY <1>1, <1>5
  <1>6. ASSUME c = r, h.left # << >>, ~Wanted(r.msg, Head(h.left)), d.left = Tail(h.left)
        PROVE  Balanced(c, d.left)
    <2>1. \A key \in Keys :
            Taken(c, key) = Taken(r, key) + IF Head(h.left) = key /\ Wanted(r.msg, key) THEN 1 ELSE 0
      BY <1>3, <1>6
    <2> QED
      BY <1>1, <1>6, <2>1, BalancedNext
  <1>7. ASSUME NEW x \in Keys, h.left # << >>, Head(h.left) = x, Wanted(r.msg, x),
               d.left = Tail(h.left),
               c = Took(r, x) \/ (c = Missed(r) /\ x = "Forwarder")
        PROVE  Balanced(c, d.left)
    <2>1. \A key \in Keys :
            Taken(c, key) = Taken(r, key) + IF Head(h.left) = key /\ Wanted(r.msg, key) THEN 1 ELSE 0
      BY <1>3, <1>7
    <2> QED
      BY <1>1, <1>7, <2>1, BalancedNext
  <1>8. ~IsSkipped(t) => /\ Head(h.left) \in disp.backends
                         /\ At(t, "Forwarder") => r.msg.privacy # "Confidential"
    BY <1>1 DEF IsSkipped
  <1>9. CASE Skip(t) /\ c = r /\ d = Advanced(h)
    <2>1. h.left # << >> /\ ~Wanted(r.msg, Head(h.left))
      BY <1>1, <1>9 DEF Skip, IsSkipped, At, Wanted
    <2>2. Balanced(c, d.left)
      BY <1>2, <1>6, <1>9, <2>1
    <2> QED
      BY <1>1, <1>9, <2>2 DEF Advanced, Handling
  <1>10. ASSUME NEW key \in Stdouts, At(t, key), ~IsSkipped(t), c = Took(r, key), d = Advanced(h)
        PROVE  Balanced(c, d.left)
    <2>1. h.left # << >> /\ Head(h.left) = key /\ key \in Keys
      BY <1>10 DEF At, Stdouts, Keys
    <2>2. Wanted(r.msg, key)
      BY <1>8, <1>10, <2>1 DEF Wanted, Stdouts
    <2> QED
      BY <1>2, <1>7, <1>10, <2>1, <2>2
  <1>11. CASE ToForwarder(t) /\ c \in {Took(r, "Forwarder"), Missed(r)} /\ d = Advanced(h)
    <2>1. h.left # << >> /\ Head(h.left) = "Forwarder" /\ "Forwarder" \in Keys
      BY <1>11 DEF ToForwarder, At, Keys
    <2>2. Wanted(r.msg, "Forwarder")
      BY <1>8, <1>11, <2>1 DEF Wanted, ToForwarder
    <2>3. Balanced(c, d.left)
      BY <1>2, <1>7, <1>11, <2>1, <2>2
    <2> QED
      BY <1>4, <1>5, <1>11, <2>3
  <1>12. CASE ToDatapoint(t) /\ c = (IF Stores THEN Took(r, "Datapoint") ELSE r) /\ d = Advanced(h)
    <2>1. h.left # << >> /\ Head(h.left) = "Datapoint" /\ "Datapoint" \in Keys
      BY <1>12 DEF ToDatapoint, At, Keys
    <2>2. ASSUME Stores PROVE Balanced(c, d.left)
      <3>1. Wanted(r.msg, "Datapoint")
        BY <1>8, <1>12, <2>1, <2>2 DEF Wanted, ToDatapoint
      <3> QED
        BY <1>2, <1>7, <1>12, <2>1, <2>2, <3>1
    <2>3. ASSUME ~Stores PROVE Balanced(c, d.left)
      <3>1. ~Wanted(r.msg, "Datapoint")
        BY <2>3 DEF Wanted
      <3> QED
        BY <1>2, <1>6, <1>12, <2>1, <2>3, <3>1
    <2> QED
      BY <1>4, <1>5, <1>12, <2>2, <2>3
  <1>13. CASE ToEkg(t) /\ c = Took(r, "Ekg") /\ d = [Advanced(h) EXCEPT !.metrics = c.msg.metrics]
    <2>1. h.left # << >> /\ Head(h.left) = "Ekg" /\ "Ekg" \in Keys
      BY <1>13 DEF ToEkg, At, Keys
    <2>2. Wanted(r.msg, "Ekg")
      BY <1>8, <1>13, <2>1 DEF Wanted, ToEkg
    <2>3. Balanced(c, d.left)
      BY <1>2, <1>7, <1>13, <2>1, <2>2
    <2> QED
      BY <1>4, <1>5, <1>13, <2>3
  <1>14. ASSUME RecordMetric(t), NEW out \in {"ok", "error", "panic"}, c = Measured(r, out),
                d = IF out = "panic" THEN NoCall ELSE NextMetric(h)
         PROVE  /\ out # "panic" => Balanced(c, d.left) /\ d.id = h.id
                /\ out = "panic" => Balanced(c, h.left) /\ d = NoCall /\ c.outcome = "panicked"
    <2>1. Balanced(c, h.left)
      BY <1>1, <1>3, <1>14 DEF Balanced
    <2>2. out = "panic" => c.outcome = "panicked"
      BY <1>14 DEF Measured, Dispatch
    <2>3. NextMetric(h).id = h.id
      BY DEF NextMetric, Handling
    <2> QED
      BY <1>2, <1>14, <2>1, <2>2, <2>3
  <1>15. CASE Return(t) /\ c = Over(r) /\ d = NoCall
    <2>1. h.left = << >> /\ c.outcome = "done"
      BY <1>15 DEF Return, Over, Dispatch
    <2>2. Balanced(c, << >>)
      BY <1>1, <1>3, <1>15, <2>1 DEF Balanced
    <2> QED
      BY <1>15, <2>1, <2>2
  <1>16. CASE \E key \in Stdouts :
                ToStdout(t) /\ At(t, key) /\ ~IsSkipped(t) /\ c = Took(r, key) /\ d = Advanced(h)
    BY <1>10, <1>4, <1>5, <1>16
  <1>17. CASE RecordMetric(t) /\ c = Measured(r, Outcome(ekg, Head(h.metrics)))
              /\ d = IF Outcome(ekg, Head(h.metrics)) = "panic" THEN NoCall ELSE NextMetric(h)
    <2>1. PICK out : out = Outcome(ekg, Head(h.metrics))
      OBVIOUS
    <2>2. out \in {"ok", "error", "panic"}
      BY <2>1, OutcomeType
    <2> QED
      BY <1>14, <1>5, <1>17, <2>1, <2>2
  <1> QED
    BY <1>9, <1>11, <1>12, <1>13, <1>15, <1>4, <1>5, <1>16, <1>17 DEF Work

(* The books of a dispatch depend on the set-up and on itself only.        *)
LEMMA ServedStays ==
  ASSUME UNCHANGED <<setup, disp>>, NEW c
  PROVE  /\ Served(c) => Served(c)'
         /\ \A left : Balanced(c, left) => Balanced(c, left)'
  <1>1. \A m, key : (Wanted(m, key)' <=> Wanted(m, key)) /\ DueBy(m, key)' = DueBy(m, key)
    BY DEF Wanted, DueBy, Stores
  <1>2. \A m : Passes(m)' <=> Passes(m)
    BY DEF Passes
  <1>3. Served(c) => Served(c)'
    BY <1>1, <1>2 DEF Served
  <1>4. ASSUME NEW left PROVE Balanced(c, left) => Balanced(c, left)'
    BY <1>1 DEF Balanced, ToGo
  <1> QED
    BY <1>3, <1>4

(* There are no books before the first dispatch.                           *)
LEMMA ServedInvInit == DispInit => ServedInv
  <1> SUFFICES ASSUME DispInit PROVE ServedInv
    OBVIOUS
  <1>1. DOMAIN << >> = {} /\ calls = << >>
    BY EmptySeq DEF DispInit
  <1>2. EkgInv
    BY DEF DispInit, EkgInv, EkgNew, NoMap
  <1>3. \A t \in Threads : call[t].id = 0
    BY DEF DispInit, NoCall
  <1> QED
    BY <1>1, <1>2, <1>3 DEF ServedInv

(* What begins is judged by the severity of its namespace, and due to its  *)
(* backends.                                                               *)
LEMMA BeginServes ==
  ASSUME TaskInv, NEW t \in Threads, NEW m \in setup.messages, dispatch(t, m)
  PROVE  \E c \in Dispatch, h \in Handling :
           /\ Served(c) /\ c.metrics = << >> /\ calls' = Append(calls, c)
           /\ \/ UNCHANGED call
              \/ /\ call' = [call EXCEPT ![t] = h] /\ InHand(c, h)
                 /\ h.id = Len(calls) + 1
  <1>1. PICK c : /\ Begins(t, m, c) /\ (Filtered(m) \/ Passes(m))
                 /\ (Filtered(m) <=> c.outcome = "filtered")
                 /\ c.outcome \in {"filtered", "limited", "running"}
    BY DispatchBegins
  <1>2. /\ c \in Dispatch /\ c.msg = m /\ c.reached = << >> /\ c.lost = 0 /\ c.metrics = << >>
        /\ calls' = Append(calls, c)
    BY <1>1 DEF Begins
  <1> DEFINE left == backends_for(disp.config, complete(m.namespace))
             h == [id |-> Len(calls) + 1, left |-> left, metrics |-> m.metrics]
  <1>3. UNCHANGED call \/ call' = [call EXCEPT ![t] = h]
    BY <1>1 DEF Begins
  <1>4. h \in Handling /\ left \in Seq(Keys)
    BY SetupFacts, LenProperties DEF TaskInv, Handling
  <1>5. \A key \in Keys : Taken(c, key) = 0
    BY <1>2, TimesEmpty DEF Taken
  <1>6. \A key \in Keys : ToGo(m, left, key) = DueBy(m, key) /\ DueBy(m, key) \in Nat
    BY DueNumbers DEF ToGo, DueBy, TaskInv
  <1>7. Served(c)
    <2>1. (c.outcome = "filtered") <=> ~Passes(m)
      BY <1>1 DEF Filtered
    <2>2. \A key \in Keys : Taken(c, key) <= DueBy(m, key)
      BY <1>5, <1>6
    <2> QED
      BY <1>1, <1>2, <2>1, <2>2 DEF Served
  <1>8. Balanced(c, left)
    BY <1>2, <1>5, <1>6 DEF Balanced
  <1>9. Placed(c, h)
    BY <1>2, <1>4, PlacedFirst
  <1> QED
    BY <1>2, <1>3, <1>4, <1>7, <1>8, <1>9 DEF InHand

(* What a thread does to its dispatch.                                     *)
LEMMA WorkServes ==
  ASSUME EkgInv, NEW t \in Threads, NEW c \in Dispatch, NEW d \in Handling, Work(t, c, d),
         GoesOn(t, c, d), NEW r \in Dispatch, r = calls[call[t].id], r.outcome = "running",
         NEW h \in Handling, h = call[t], h.id # 0, InHand(r, h), Served(r), AllTold(ekg, r)
  PROVE  /\ Served(c) /\ EkgInv' /\ EkgGrows /\ AllTold(ekg', c)
         /\ d.id # 0 => InHand(c, d)
  <1>1. /\ c.msg = r.msg /\ NoCall.id = 0 /\ h.left \in Seq(Keys) /\ << >> \in Seq(Keys)
        /\ Placed(r, h) /\ Balanced(r, h.left)
    BY EmptySeq DEF GoesOn, InHand, Handling, NoCall
  <1>2. \/ d.id = h.id /\ c.outcome = "running" /\ Balanced(c, d.left)
        \/ c.outcome = "panicked" /\ Balanced(c, h.left) /\ d = NoCall
        \/ c.outcome = "done" /\ Balanced(c, << >>) /\ d = NoCall
    BY <1>1, WorkBalances
  <1>3. \A key \in Keys : IF c.outcome = "done" THEN Taken(c, key) = DueBy(c.msg, key)
                          ELSE Taken(c, key) <= DueBy(c.msg, key)
    <2>1. d.left \in Seq(Keys)
      BY DEF Handling
    <2> QED
      BY <1>1, <1>2, <2>1, BalancedBounds
  <1>4. (c.outcome = "filtered") <=> ~Passes(c.msg)
    BY <1>1, <1>2 DEF Served
  <1>5. d.id # 0 => Balanced(c, d.left)
    BY <1>1, <1>2
  <1>6. CASE RecordMetric(t) /\ c = Measured(r, Outcome(ekg, Head(h.metrics)))
              /\ d = IF Outcome(ekg, Head(h.metrics)) = "panic" THEN NoCall ELSE NextMetric(h)
    <2>1. PICK out : out = Outcome(ekg, Head(h.metrics))
      OBVIOUS
    <2>2. out \in {"ok", "error", "panic"}
      BY <2>1, OutcomeType
    <2>3. PICK metric : metric = Head(h.metrics)
      OBVIOUS
    <2>4. h.metrics # << >> /\ ekg' = record_metric(ekg, metric)
      BY <1>6, <2>3 DEF RecordMetric
    <2>5. /\ metric \in MetricsOf /\ MetricOf(r, Len(r.metrics) + 1) = metric
          /\ Placed(c, NextMetric(h))
      BY <1>1, <1>6, <2>1, <2>2, <2>3, <2>4, PlacedNext
    <2>6. EkgInv' /\ EkgGrows /\ Told(ekg', metric, out)
      BY <2>1, <2>3, <2>4, <2>5, RecordFacts
    <2>7. /\ c.metrics = Append(r.metrics, out) /\ r.metrics \in Seq({"ok", "error", "panic"})
          /\ c.outcome = "panicked" <=> out = "panic"
      BY <1>6, <2>1 DEF Measured, Dispatch
    <2>8. /\ DOMAIN c.metrics = 1..(Len(r.metrics) + 1) /\ Len(r.metrics) \in Nat
          /\ Len(c.metrics) = Len(r.metrics) + 1 /\ DOMAIN r.metrics = 1..Len(r.metrics)
          /\ c.metrics[Len(r.metrics) + 1] = out
          /\ \A k \in 1..Len(r.metrics) : c.metrics[k] = r.metrics[k]
      <3> DEFINE s == r.metrics
                 a == Append(s, out)
                 V == {"ok", "error", "panic"}
      <3>1. s \in Seq(V) /\ out \in V /\ c.metrics = a
        BY <2>2, <2>7
      <3> HIDE DEF s, V
      <3>2. /\ a \in Seq(V) /\ Len(a) = Len(s) + 1 /\ a[Len(s) + 1] = out
            /\ \A k \in 1..Len(s) : a[k] = s[k]
        BY <3>1, AppendProperties
      <3> HIDE DEF a
      <3>3. DOMAIN a = 1..Len(a) /\ DOMAIN s = 1..Len(s) /\ Len(s) \in Nat
        BY <3>1, <3>2, LenProperties
      <3> QED
        BY <3>1, <3>2, <3>3 DEF s
    <2>9. \A k : MetricOf(c, k) = MetricOf(r, k)
      BY <1>1 DEF MetricOf
    <2>10. ASSUME NEW k \in 1..(Len(r.metrics) + 1)
           PROVE  Told(ekg', MetricOf(c, k), c.metrics[k])
      <3>1. CASE k = Len(r.metrics) + 1
        BY <2>5, <2>6, <2>8, <2>9, <3>1
      <3>2. CASE k \in 1..Len(r.metrics)
        <4>1. Told(ekg, MetricOf(r, k), r.metrics[k])
          BY <2>8, <3>2 DEF AllTold
        <4>2. Told(ekg', MetricOf(r, k), r.metrics[k])
          BY <2>6, <4>1, ToldStays
        <4> QED
          BY <2>8, <2>9, <3>2, <4>2
      <3>3. Len(r.metrics) \in Nat
        BY <2>8
      <3>4. k = Len(r.metrics) + 1 \/ k \in 1..Len(r.metrics)
        BY <3>3
      <3> QED
        BY <3>1, <3>2, <3>4
    <2>11. AllTold(ekg', c)
      BY <2>8, <2>10 DEF AllTold
    <2>12. Served(c)
      BY <1>3, <1>4, <2>7, <2>8 DEF Served
    <2>13. d.id # 0 => Placed(c, d)
      BY <1>1, <1>6, <2>1, <2>5
    <2> QED
      BY <1>5, <2>6, <2>11, <2>12, <2>13 DEF InHand
  <1>7. ASSUME UNCHANGED ekg, c.metrics = r.metrics, d.id # 0 => Placed(c, d), c.outcome # "panicked"
        PROVE  /\ Served(c) /\ EkgInv' /\ EkgGrows /\ AllTold(ekg', c)
               /\ d.id # 0 => InHand(c, d)
    <2>1. EkgInv' /\ EkgGrows
      BY <1>7 DEF EkgInv, EkgGrows
    <2>2. AllTold(ekg', c)
      BY <1>1, <1>7 DEF AllTold, MetricOf
    <2> QED
      BY <1>3, <1>4, <1>5, <1>7, <2>1, <2>2 DEF InHand, Served
  <1>8. /\ \A key : Took(r, key).metrics = r.metrics /\ Took(r, key).outcome = "running"
        /\ Missed(r).metrics = r.metrics /\ Missed(r).outcome = "running"
        /\ Over(r).metrics = r.metrics /\ Over(r).outcome = "done"
        /\ Advanced(h).metrics = h.metrics
    BY DEF Took, Missed, Over, Advanced, Dispatch, Handling
  <1>9. ASSUME c.metrics = r.metrics, d.metrics = h.metrics
        PROVE  Placed(c, d)
    BY <1>1, <1>9 DEF Placed
  <1>10. CASE Skip(t) /\ c = r /\ d = Advanced(h)
    BY <1>7, <1>8, <1>9, <1>10 DEF Skip
  <1>11. ASSUME NEW key \in Stdouts, ToStdout(t), c = Took(r, key), d = Advanced(h)
         PROVE  /\ Served(c) /\ EkgInv' /\ EkgGrows /\ AllTold(ekg', c)
                /\ d.id # 0 => InHand(c, d)
    BY <1>7, <1>8, <1>9, <1>11 DEF ToStdout
  <1>12. CASE ToForwarder(t) /\ c \in {Took(r, "Forwarder"), Missed(r)} /\ d = Advanced(h)
    BY <1>7, <1>8, <1>9, <1>12 DEF ToForwarder
  <1>13. CASE ToDatapoint(t) /\ c = (IF Stores THEN Took(r, "Datapoint") ELSE r) /\ d = Advanced(h)
    BY <1>7, <1>8, <1>9, <1>13 DEF ToDatapoint
  <1>14. CASE ToEkg(t) /\ c = Took(r, "Ekg") /\ d = [Advanced(h) EXCEPT !.metrics = c.msg.metrics]
    <2>1. d.metrics = c.msg.metrics
      BY <1>14 DEF Advanced, Handling
    <2>2. h.metrics = << >> /\ UNCHANGED ekg
      BY <1>14 DEF ToEkg
    <2>3. Placed(c, h)
      <3>1. c.msg = r.msg /\ c.metrics = r.metrics
        BY <1>1, <1>8, <1>14
      <3> QED
        BY <1>1, <3>1 DEF Placed
    <2>4. Placed(c, d)
      BY <2>1, <2>2, <2>3, PlacedFirst
    <2> QED
      BY <1>7, <1>8, <1>14, <2>2, <2>4
  <1>15. CASE Return(t) /\ c = Over(r) /\ d = NoCall
    BY <1>1, <1>7, <1>8, <1>15 DEF Return
  <1> QED
    BY <1>6, <1>10, <1>11, <1>12, <1>13, <1>14, <1>15 DEF Work

(* Every step keeps the books.                                             *)
LEMMA ServedInvStep ==
  ASSUME TaskInv, TaskInv', ServedInv, [DispNext]_allVars
  PROVE  ServedInv'
  <1>1. UNCHANGED <<setup, disp>>
    BY PointStep
  <1>2. /\ calls \in Seq(Dispatch) /\ DOMAIN calls = 1..Len(calls) /\ Len(calls) \in Nat
        /\ call \in [Threads -> Handling] /\ call' \in [Threads -> Handling]
    BY LenProperties DEF TaskInv
  <1>3. ASSUME NEW i \in DOMAIN calls
        PROVE  Served(calls[i]) /\ AllTold(ekg, calls[i])
    BY DEF ServedInv
  <1>4. ASSUME NEW c, Served(c)
        PROVE  Served(c)'
    BY <1>1, <1>4, ServedStays
  <1>5. ASSUME NEW c, NEW h, InHand(c, h)
        PROVE  InHand(c, h)'
    BY <1>1, <1>5, ServedStays DEF InHand
  <1>6. ASSUME EkgGrows, NEW c, AllTold(ekg, c)
        PROVE  AllTold(ekg', c)
    BY <1>6, ToldStays DEF AllTold
  <1>7. UNCHANGED ekg => EkgInv' /\ EkgGrows
    BY DEF ServedInv, EkgInv, EkgGrows
  <1>8. ASSUME EkgInv',
               \A i \in DOMAIN calls' : Served(calls'[i]) /\ AllTold(ekg', calls'[i]),
               \A t \in Threads : call'[t].id # 0 => InHand(calls'[call'[t].id], call'[t])
        PROVE  ServedInv'
    <2>1. PICK cs, hs : cs = calls' /\ hs = call'
      OBVIOUS
    <2>2. /\ \A i \in DOMAIN cs : Served(cs[i])'
          /\ \A t \in Threads : hs[t].id # 0 => InHand(cs[hs[t].id], hs[t])'
      BY <1>4, <1>5, <1>8, <2>1
    <2> QED
      BY <1>8, <2>1, <2>2 DEF ServedInv, Served, InHand, Balanced, Passes, DueBy, ToGo, Wanted, Stores
  <1>9. CASE UNCHANGED <<calls, call, store, ekg>>
    BY <1>3, <1>6, <1>7, <1>8, <1>9 DEF ServedInv
  <1>10. ASSUME NEW t \in Threads, NEW m \in setup.messages, dispatch(t, m)
         PROVE  ServedInv'
    <2>1. PICK c \in Dispatch, h \in Handling :
            /\ Served(c) /\ c.metrics = << >> /\ calls' = Append(calls, c)
            /\ \/ UNCHANGED call
               \/ /\ call' = [call EXCEPT ![t] = h] /\ InHand(c, h)
                  /\ h.id = Len(calls) + 1
      BY <1>10, BeginServes
    <2>2. /\ DOMAIN calls' = 1..(Len(calls) + 1) /\ calls'[Len(calls) + 1] = c
          /\ \A i \in 1..Len(calls) : calls'[i] = calls[i]
      BY <1>2, <2>1, AppendProperties, LenProperties
    <2>3. UNCHANGED ekg /\ EkgInv' /\ EkgGrows
      BY <1>7, <1>10 DEF dispatch
    <2>4. AllTold(ekg', c)
      BY <2>1, EmptySeq DEF AllTold
    <2>5. \A i \in DOMAIN calls' : Served(calls'[i]) /\ AllTold(ekg', calls'[i])
      <3>1. \A i \in 1..(Len(calls) + 1) : i \in 1..Len(calls) \/ i = Len(calls) + 1
        BY <1>2
      <3> QED
        BY <1>2, <1>3, <1>6, <2>1, <2>2, <2>3, <2>4, <3>1
    <2>6. \A u \in Threads : call[u].id # 0 =>
            call[u].id \in 1..Len(calls) /\ InHand(calls[call[u].id], call[u])
      BY <1>2 DEF TaskInv, AtWork, ServedInv
    <2>7. \A u \in Threads : call'[u].id # 0 => call'[u].id \in DOMAIN calls'
      BY DEF TaskInv, AtWork
    <2>8. ASSUME NEW u \in Threads, call'[u].id # 0
          PROVE  InHand(calls'[call'[u].id], call'[u])
      <3>1. CASE call'[u] = call[u]
        BY <2>2, <2>6, <2>8, <3>1
      <3>2. CASE call'[u] # call[u]
        <4>1. u = t /\ call'[u] = h /\ InHand(c, h) /\ h.id = Len(calls) + 1
          BY <1>2, <2>1, <3>2
        <4> QED
          BY <2>2, <4>1
      <3> QED
        BY <3>1, <3>2
    <2> QED
      BY <1>8, <2>3, <2>5, <2>8
  <1>11. ASSUME NEW t \in Threads, Deliver(t)
         PROVE  ServedInv'
    <2> DEFINE id == call[t].id
               r == calls[id]
    <2>1. call[t].left # << >> \/ ~Idle(t)
      BY <1>11 DEF Deliver, Skip, ToStdout, ToForwarder, ToDatapoint, RecordMetric, ToEkg, Return, At
    <2>2. id # 0 /\ id \in DOMAIN calls /\ r \in Dispatch /\ r.outcome = "running" /\ call[t] \in Handling
      BY <2>1, AtFacts
    <2>3. PICK c \in Dispatch, d \in Handling : Work(t, c, d) /\ Delivers(t, c, d) /\ GoesOn(t, c, d)
      BY <1>11, DeliverWorks
    <2>4. EkgInv /\ Served(r) /\ AllTold(ekg, r) /\ InHand(r, call[t])
      BY <2>2 DEF ServedInv
    <2>5. /\ Served(c) /\ EkgInv' /\ EkgGrows /\ AllTold(ekg', c)
          /\ d.id # 0 => InHand(c, d)
      BY <2>2, <2>3, <2>4, WorkServes
    <2>6. /\ DOMAIN calls' = DOMAIN calls
          /\ calls'[id] = c /\ \A i \in DOMAIN calls \ {id} : calls'[i] = calls[i]
      BY <1>2, <2>2, <2>3, ExceptSeq DEF Delivers
    <2>7. call'[t] = d /\ \A u \in Threads \ {t} : call'[u] = call[u]
      BY <1>2, <2>3 DEF Delivers
    <2>8. d.id \in {0, id}
      BY <2>3 DEF GoesOn, NoCall
    <2>9. \A u \in Threads \ {t} : call[u].id # 0 =>
            call[u].id \in DOMAIN calls \ {id} /\ InHand(calls[call[u].id], call[u])
      BY <2>2 DEF TaskInv, AtWork, ServedInv
    <2> HIDE DEF id, r
    <2>10. \A i \in DOMAIN calls' : Served(calls'[i]) /\ AllTold(ekg', calls'[i])
      BY <1>3, <1>6, <2>5, <2>6
    <2>11. \A u \in Threads : call'[u].id # 0 => InHand(calls'[call'[u].id], call'[u])
      <3>1. ASSUME NEW u \in Threads, call'[u].id # 0
            PROVE  InHand(calls'[call'[u].id], call'[u])
        <4>1. CASE u = t
          BY <2>5, <2>6, <2>7, <2>8, <3>1, <4>1
        <4>2. CASE u # t
          BY <2>6, <2>7, <2>9, <3>1, <4>2
        <4> QED
          BY <4>1, <4>2
      <3> QED
        BY <3>1
    <2> QED
      BY <1>8, <2>5, <2>10, <2>11
  <1> QED
    BY <1>9, <1>10, <1>11, StepKinds

(* Every dispatch is judged by the severity its longest prefix gives, and  *)
(* every backend that its longest prefix lists gets it once for each time  *)
(* it is listed: whatever becomes of the other backends, of the forwarder's*)
(* queue and of the metrics, and however many threads dispatch.            *)
THEOREM EveryBackendIsServed == DispSpec => []EveryBackendServed
  <1>1. TaskInv /\ ServedInv /\ [DispNext]_allVars => TaskInv' /\ ServedInv'
    BY TaskInvStep, ServedInvStep
  <1>2. ASSUME TaskInv, ServedInv PROVE EveryBackendServed
    <2> SUFFICES ASSUME NEW i \in DOMAIN calls
        PROVE  LET c == calls[i]
                   severity == unwrap_or(Governing(complete(c.msg.namespace), "severity"), Warning)
               IN  /\ (c.outcome = "filtered") <=> ~passes(severity, message_sev(c.msg))
                   /\ \A key \in Keys :
                        IF c.outcome = "done" THEN Taken(c, key) = Due(c.msg, key)
                        ELSE Taken(c, key) <= Due(c.msg, key)
                   /\ \A k \in DOMAIN c.metrics :
                        Explained(c.msg.metrics[1 + ((k - 1) % Len(c.msg.metrics))], c.metrics[k])
                   /\ c.outcome = "panicked" => c.metrics[Len(c.metrics)] = "panic"
      BY DEF EveryBackendServed
    <2> DEFINE c == calls[i]
               ns == complete(c.msg.namespace)
    <2>1. c \in Dispatch /\ Served(c) /\ AllTold(ekg, c)
      BY <1>2, ElementOfSeq, LenProperties DEF TaskInv, ServedInv
    <2>2. ns \in Seq(Range(ns))
      BY <2>1, MessageMetrics DEF Dispatch
    <2> HIDE DEF c
    <2>3. \A kind : get_option(disp.config, ns, kind) = Governing(ns, kind)
      <3> HIDE DEF ns
      <3> QED
        BY <2>2, GoverningIsGiven
    <2>4. Passes(c.msg) <=> passes(unwrap_or(Governing(ns, "severity"), Warning), message_sev(c.msg))
      BY <2>3 DEF Passes, severity_for
    <2>5. \A key \in Keys : Due(c.msg, key) = DueBy(c.msg, key)
      BY <2>3 DEF Due, DueBy, Wanted, backends_for
    <2>6. \A k \in DOMAIN c.metrics :
            Explained(c.msg.metrics[1 + ((k - 1) % Len(c.msg.metrics))], c.metrics[k])
      BY <2>1, ToldExplains DEF AllTold, MetricOf
    <2> QED
      BY <2>1, <2>4, <2>5, <2>6 DEF Served, c
  <1> QED
    BY <1>1, <1>2, TaskInvInit, ServedInvInit, PTL DEF DispSpec

=============================================================================

------------------------------ MODULE RateLimiter ------------------------------
(***************************************************************************)
(* The token buckets of the dispatcher (src/dispatcher/limiter.rs), one for*)
(* each complete namespace that has a frequency, made when its first       *)
(* message comes and shared by every thread under one mutex.               *)
(*                                                                         *)
(* The f64 arithmetic is done in integers.  Time is counted in ticks of    *)
(* half a second and a frequency in messages per two seconds, so that a    *)
(* tick brings `frequency' quarters of a token; a bucket holds two ticks'  *)
(* worth (one second), and a message costs four quarters.                  *)
(***************************************************************************)
EXTENDS Integers, Sequences

CONSTANTS
  Namespaces,     \* complete namespaces
  Frequencies,    \* configured limits
  MaxTick         \* how long the clock runs (a bound)

ASSUME LimiterBounds == MaxTick \in Nat /\ Frequencies \subseteq Nat

VARIABLES
  now,        \* Instant::now()
  buckets,    \* Dispatcher::limiters: namespace -> TokenBucket
  admitted,   \* history: namespace -> when its messages were let through
  refused     \* history: namespace -> <<when, messages let through before>> of the others

limVars == <<now, buckets, admitted, refused>>

--------------------------------------------------------------------------------
Cost == 4                 \* one message
Burst(f) == 2 * f         \* one second of refill

TokenBucket(f, at) ==
  [tokens |-> Burst(f), max_tokens |-> Burst(f), refill_rate |-> f, last_refill |-> at]

AtMost(a, b) == IF a < b THEN a ELSE b

\* Mutant: a bucket that saves up for as long as its namespace is quiet.
refill_Unbounded(b, at) ==
  [b EXCEPT !.tokens = @ + (at - b.last_refill) * b.refill_rate, !.last_refill = at]

refill(b, at) ==
  [b EXCEPT !.tokens = AtMost(@ + (at - b.last_refill) * b.refill_rate, b.max_tokens),
            !.last_refill = at]

\* The namespace's bucket as try_acquire finds it, made full on first use.
Bucket(ns, f) ==
  refill(IF ns \in DOMAIN buckets THEN buckets[ns] ELSE TokenBucket(f, now), now)

HasToken(ns, f) == Bucket(ns, f).tokens >= Cost

Store(ns, b) == buckets' = [n \in DOMAIN buckets \cup {ns} |-> IF n = ns THEN b ELSE buckets[n]]

Admit(ns, f) ==
  /\ HasToken(ns, f)
  /\ Store(ns, [Bucket(ns, f) EXCEPT !.tokens = @ - Cost])
  /\ admitted' = [admitted EXCEPT ![ns] = Append(@, now)]
  /\ UNCHANGED <<now, refused>>

Refuse(ns, f) ==
  /\ ~HasToken(ns, f)
  /\ Store(ns, Bucket(ns, f))
  /\ refused' = [refused EXCEPT ![ns] = @ \cup {<<now, Len(admitted[ns])>>}]
  /\ UNCHANGED <<now, admitted>>

Tick ==
  /\ now < MaxTick
  /\ now' = now + 1
  /\ UNCHANGED <<buckets, admitted, refused>>

LimInit ==
  /\ now = 0
  /\ buckets = [n \in {} |-> TokenBucket(0, 0)]
  /\ admitted = [n \in Namespaces |-> <<>>]
  /\ refused = [n \in Namespaces |-> {}]

LimNext == Tick \/ \E ns \in Namespaces, f \in Frequencies : Admit(ns, f) \/ Refuse(ns, f)

LimSpec == LimInit /\ [][LimNext]_limVars

--------------------------------------------------------------------------------
\* The limit, without buckets: what a namespace may send from `from' to `to'.
Allowance(f, from, to) == Burst(f) + f * (to - from)

\* Each bucket is what limiter.rs promises in total: in no stretch of time do
\* more messages of a namespace pass than one second's burst plus the rate.
NeverOverTheRate ==
  \A ns \in DOMAIN buckets : \A i, j \in DOMAIN admitted[ns] :
    i <= j => (j - i + 1) * Cost
                <= Allowance(buckets[ns].refill_rate, admitted[ns][i], admitted[ns][j])

\* And none is dropped without need: had it passed, some stretch that ends with
\* it would have been over the rate (or the burst is less than one message).
DropsOnlyOverTheRate ==
  \A ns \in DOMAIN buckets : \A r \in refused[ns] :
    \/ Cost > Burst(buckets[ns].refill_rate)
    \/ \E i \in 1..r[2] : (r[2] - i + 2) * Cost
                            > Allowance(buckets[ns].refill_rate, admitted[ns][i], r[1])

\* limiter.rs:36-51 under the mutex of mod.rs:108: a namespace's messages pass
\* exactly when the rate allows, whatever the threads, the pauses and the order.
AdmitsExactlyWithinRate == NeverOverTheRate /\ DropsOnlyOverTheRate
================================================================================

-------------------------- MODULE RpmBucketProofs --------------------------
(***************************************************************************)
(* RateBound and RetryHint of RpmBucket, for every window, limit and       *)
(* length of time.  The arithmetic is in two lemmas; the rest is one step  *)
(* per action.                                                             *)
(***************************************************************************)
EXTENDS RpmBucket, TLAPS

\* The division of Accrued rounds down, at every limit up to MaxLimit.
LEMMA DivisionBounds ==
  ASSUME NEW a \in Nat, NEW w \in Nat \ {0}
  PROVE  /\ a \div w \in Nat
         /\ w * (a \div w) <= a
         /\ a < w * (a \div w) + w
BY Z3

\* Nat is closed under products, and products are monotone.
LEMMA ProductMonotone ==
  ASSUME NEW a \in Nat, NEW b \in Nat, NEW c \in Nat, a <= b
  PROVE  /\ a * c \in Nat
         /\ a * c <= b * c
         /\ c * a = a * c
BY Z3

\* What accrues in `time - since` costs no more time than has passed.
LEMMA AccruedBound ==
  ASSUME NEW lim \in 1..MaxLimit, NEW time \in Nat, NEW since \in Nat
  PROVE  /\ Accrued(lim, time, since) \in Nat
         /\ Window * Accrued(lim, time, since) <= MaxLimit * Surplus(time, since)
         /\ time <= since => Accrued(lim, time, since) = 0
<1> DEFINE d == Surplus(time, since)
<1>1. d \in Nat /\ (time <= since => d = 0)
  BY DEF Surplus
<1>2. lim \in Nat /\ MaxLimit \in Nat /\ lim <= MaxLimit /\ Window \in Nat \ {0}
  BY RpmBucketAssumptions
<1>3. d * lim \in Nat /\ d * lim <= MaxLimit * d
  BY <1>1, <1>2, ProductMonotone
<1>4. /\ (d * lim) \div Window \in Nat
      /\ Window * ((d * lim) \div Window) <= d * lim
  BY <1>2, <1>3, DivisionBounds
<1>5. MaxLimit * d \in Nat
  BY <1>1, <1>2, ProductMonotone
<1>6. ASSUME time <= since PROVE (d * lim) \div Window = 0
  <2>1. d * lim = 0
    BY <1>1, <1>2, <1>6
  <2> QED BY <2>1, <1>2, DivisionBounds
<1>7. Window * ((d * lim) \div Window) <= MaxLimit * d
  <2> DEFINE q == (d * lim) \div Window
  <2>1. Window * q \in Nat
    BY <1>2, <1>4
  <2> QED BY <2>1, <1>3, <1>4, <1>5
<1> QED BY <1>4, <1>6, <1>7 DEF Accrued

(***************************************************************************)
(* Type correctness                                                        *)
(***************************************************************************)

\* What a call finds is at most its limit, and at most what was there plus
\* what has accrued.
LEMMA ReplenishedType ==
  ASSUME TypeOK, NEW lim \in 1..MaxLimit
  PROVE  /\ Replenished(lim, now) \in 0..lim
         /\ Replenished(lim, now) <= tokens + Accrued(lim, now, last)
<1>1. Accrued(lim, now, last) \in Nat
  BY AccruedBound, RpmBucketAssumptions DEF TypeOK
<1> QED BY <1>1, RpmBucketAssumptions DEF TypeOK, Replenished, Minimum

\* The bucket, the clock and the history variables keep their types; in
\* particular the refill time never precedes the bucket's creation, even when
\* the clock is set back (budget/mod.rs:103-127).
THEOREM TypeCorrect == Spec => []TypeOK
<1>1. Init => TypeOK
  <2> SUFFICES ASSUME Init PROVE TypeOK
    OBVIOUS
  <2>1. exists \in BOOLEAN
    BY Zenon DEF Init
  <2>2. retry = -1 /\ -1 \in Int /\ -1 >= -1
    BY DEF Init
  <2>3. 0 \in 0..MaxTime /\ 0 \in 0..MaxLimit /\ 1 \in 1..MaxLimit /\ 0 \in 0..MaxSlips
    BY RpmBucketAssumptions
  <2> QED BY <2>1, <2>2, <2>3 DEF Init, TypeOK
<1>2. TypeOK /\ [Next]_vars => TypeOK'
  <2> SUFFICES ASSUME TypeOK, [Next]_vars PROVE TypeOK'
    OBVIOUS
  <2> USE RpmBucketAssumptions
  <2>1. CASE UNCHANGED vars
    BY <2>1 DEF TypeOK, vars
  <2>2. ASSUME NEW lim \in 1..MaxLimit, Create(lim) PROVE TypeOK'
    BY <2>2 DEF TypeOK, Create
  <2>3. ASSUME NEW lim \in 1..MaxLimit, Admit(lim) PROVE TypeOK'
    <3>1. Replenished(lim, now) \in 0..lim
      BY ReplenishedType
    <3>2. Accrued(lim, now, last) > 0 => last < now
      BY AccruedBound DEF TypeOK
    <3>3. slips' \in 0..MaxSlips
      BY <2>3 DEF TypeOK, Admit
    <3> QED BY <2>3, <3>1, <3>2, <3>3 DEF TypeOK, Admit
  <2>4. ASSUME NEW lim \in 1..MaxLimit, Refuse(lim) PROVE TypeOK'
    <3>1. Window \div lim \in Nat
      BY DivisionBounds
    <3>2. Surplus(last + (Window \div lim), now) \in Nat
      BY <3>1 DEF TypeOK, Surplus
    <3>3. retry' \in Nat
      BY <2>4, <3>2, DivisionBounds DEF Refuse, AsSecs
    <3> QED BY <2>4, <3>3 DEF TypeOK, Refuse
  <2>5. ASSUME NEW t \in 0..MaxTime, SetClock(t) PROVE TypeOK'
    BY <2>5 DEF TypeOK, SetClock
  <2> QED BY <2>1, <2>2, <2>3, <2>4, <2>5 DEF Next
<1> QED BY <1>1, <1>2, PTL DEF Spec

(***************************************************************************)
(* RateBound                                                               *)
(***************************************************************************)

\* What may be admitted at once, with so many slips.
Allowed(n) == MaxLimit * (Window * (1 + n))

\* A slip allows one full bucket more.
LEMMA AllowedGrows ==
  ASSUME NEW n \in Nat
  PROVE  /\ Allowed(n) \in Nat
         /\ MaxLimit * Window <= Allowed(n)
         /\ Allowed(n + 1) = Allowed(n) + Window * MaxLimit
<1> USE RpmBucketAssumptions
<1>1. Window * (1 + n) \in Nat /\ Window * 1 <= Window * (1 + n)
  BY ProductMonotone
<1>2. Window * (1 + n) >= Window
  BY <1>1
<1>3. Allowed(n) \in Nat /\ MaxLimit * Window <= Allowed(n)
  BY <1>1, <1>2, ProductMonotone DEF Allowed
<1>4. Window * (1 + (n + 1)) = Window * (1 + n) + Window
  OBVIOUS
<1>5. MaxLimit * (Window * (1 + n) + Window) = MaxLimit * (Window * (1 + n)) + MaxLimit * Window
  BY <1>1
<1> QED BY <1>3, <1>4, <1>5 DEF Allowed

\* One step keeps the bound: an admission adds at most what the time since
\* the last refill paid for, and moves the refill time past it; or it counts
\* as a slip, and adds at most a full bucket.
LEMMA RateBoundStep ==
  ASSUME TypeOK, TypeOK', RateBound, Next
  PROVE  RateBound'
<1> USE RpmBucketAssumptions
<1>1. ASSUME NEW lim \in 1..MaxLimit, Create(lim) PROVE RateBound'
  <2>1. Window * lim <= MaxLimit * Window
    BY ProductMonotone
  <2>2. admitted' + tokens' = lim /\ last' - born' = 0 /\ slips' = slips /\ slips \in Nat
    BY <1>1 DEF Create, TypeOK
  <2>3. MaxLimit * 0 = 0 /\ Window * lim \in Nat /\ MaxLimit * Window \in Nat
    BY ProductMonotone
  <2>4. MaxLimit * Window <= Allowed(slips)
    BY <2>2, AllowedGrows
  <2>5. Allowed(slips) \in Nat
    BY <2>2, AllowedGrows
  <2>6. Window * lim <= Allowed(slips) + 0
    BY <2>1, <2>3, <2>4, <2>5
  <2> QED BY <2>2, <2>3, <2>6 DEF RateBound, Allowed
<1>2. ASSUME NEW lim \in 1..MaxLimit, Admit(lim) PROVE RateBound'
  <2> DEFINE acc == Accrued(lim, now, last)
             x == admitted' + tokens'
             y == admitted + tokens
  <2>1. /\ acc \in Nat
        /\ Window * acc <= MaxLimit * Surplus(now, last)
        /\ now <= last => acc = 0
    <3>1. now \in Nat /\ last \in Nat
      BY DEF TypeOK
    <3> QED BY <3>1, AccruedBound
  <2>2. x \in Nat /\ y \in Nat /\ x <= y + acc /\ x <= y + MaxLimit
    BY <1>2, <2>1, ReplenishedType DEF Admit, TypeOK
  <2>3. Window * y <= Allowed(slips) + MaxLimit * (last - born)
    BY <1>2 DEF Admit, RateBound, Allowed
  <2>4. born' = born /\ exists' /\ slips \in Nat /\ last - born \in Int /\ last' - born \in Int
    BY <1>2 DEF Admit, TypeOK
  <2>5. CASE slips' = slips /\ last' = IF acc > 0 THEN now ELSE last
    <3>1. Window * x <= Window * y + Window * acc
      <4>1. Window * x <= Window * (y + acc)
        BY <2>1, <2>2, ProductMonotone
      <4>2. Window * (y + acc) = Window * y + Window * acc
        BY <2>1, <2>2
      <4> QED BY <4>1, <4>2
    <3>2. Window * acc <= MaxLimit * (last' - last)
      <4>1. CASE acc > 0
        BY <4>1, <2>5, <2>1 DEF Surplus, TypeOK
      <4>2. CASE acc = 0
        BY <4>2, <2>5 DEF TypeOK
      <4> QED BY <2>1, <4>1, <4>2
    <3>3. MaxLimit * (last - born) + MaxLimit * (last' - last) = MaxLimit * (last' - born)
      BY DEF TypeOK
    <3>4. /\ Window * x \in Int /\ Window * y \in Int /\ Window * acc \in Int
          /\ MaxLimit * (last - born) \in Int /\ MaxLimit * (last' - last) \in Int
          /\ MaxLimit * (last' - born) \in Int /\ Allowed(slips) \in Int
      BY <2>1, <2>2, <2>4, AllowedGrows DEF TypeOK
    <3>5. Window * x <= Allowed(slips) + MaxLimit * (last' - born)
      BY <2>3, <3>1, <3>2, <3>3, <3>4
    <3> QED BY <2>4, <2>5, <3>5 DEF RateBound, Allowed
  <2>6. CASE slips' = slips + 1 /\ last' = last
    <3>1. Window * x <= Window * y + Window * MaxLimit
      <4>1. Window * x <= Window * (y + MaxLimit)
        BY <2>2, ProductMonotone
      <4>2. Window * (y + MaxLimit) = Window * y + Window * MaxLimit
        BY <2>2
      <4> QED BY <4>1, <4>2
    <3>2. Allowed(slips + 1) = Allowed(slips) + Window * MaxLimit
      BY <2>4, AllowedGrows
    <3>3. /\ Window * x \in Int /\ Window * y \in Int /\ Window * MaxLimit \in Int
          /\ MaxLimit * (last - born) \in Int /\ Allowed(slips) \in Int
      BY <2>2, <2>4, AllowedGrows
    <3>4. Window * x <= Allowed(slips + 1) + MaxLimit * (last - born)
      BY <2>3, <3>1, <3>2, <3>3
    <3> QED BY <2>4, <2>6, <3>4 DEF RateBound, Allowed
  <2> QED BY <1>2, <2>5, <2>6 DEF Admit
<1>3. ASSUME NEW lim \in 1..MaxLimit, Refuse(lim) PROVE RateBound'
  BY <1>3 DEF Refuse, RateBound
<1>4. ASSUME NEW t \in 0..MaxTime, SetClock(t) PROVE RateBound'
  BY <1>4 DEF SetClock, RateBound
<1> QED BY <1>1, <1>2, <1>3, <1>4 DEF Next

\* The limiter credits a stretch of time twice only when the refill time could
\* not be stored, and then at most a full bucket (budget/mod.rs:97-135):
\* RateBound holds for every window, limit and clock.
THEOREM RateBoundHolds == Spec => []RateBound
<1>1. Init => RateBound
  BY DEF Init, RateBound
<1>2. TypeOK /\ TypeOK' /\ RateBound /\ [Next]_vars => RateBound'
  BY RateBoundStep DEF vars, RateBound
<1> QED BY <1>1, <1>2, TypeCorrect, PTL DEF Spec

(***************************************************************************)
(* RetryHint                                                               *)
(***************************************************************************)

\* The hint rounds the time of a token down by less than one tick.
LEMMA OneTickMore ==
  ASSUME NEW lim \in 1..MaxLimit, NEW d \in Nat, d >= (Window \div lim) + 1
  PROVE  (d * lim) \div Window > 0
<1> USE RpmBucketAssumptions
<1> DEFINE q == Window \div lim
<1>1. q \in Nat /\ Window < lim * q + lim
  BY DivisionBounds
<1>2. (q + 1) * lim = lim * q + lim
  BY <1>1
<1>3. (q + 1) * lim <= d * lim /\ d * lim \in Nat
  BY <1>1, ProductMonotone
<1>4. Window < d * lim
  <2>1. (q + 1) * lim \in Nat
    BY <1>1, ProductMonotone
  <2> QED BY <1>1, <1>2, <1>3, <2>1
<1>5. /\ (d * lim) \div Window \in Nat
      /\ d * lim < Window * ((d * lim) \div Window) + Window
  BY <1>3, DivisionBounds
<1>6. ASSUME (d * lim) \div Window = 0 PROVE FALSE
  BY <1>3, <1>4, <1>5, <1>6
<1> QED BY <1>5, <1>6

\* Before the time of a token nothing has accrued.
LEMMA NoTickLess ==
  ASSUME NEW lim \in 1..MaxLimit, NEW d \in Nat, d < Window \div lim
  PROVE  (d * lim) \div Window = 0
<1> USE RpmBucketAssumptions
<1> DEFINE q == Window \div lim
<1>1. q \in Nat /\ lim * q <= Window
  BY DivisionBounds
<1>2. (d + 1) * lim <= q * lim /\ (d + 1) * lim = d * lim + lim
  BY <1>1, ProductMonotone
<1>3. d * lim \in Nat /\ q * lim = lim * q /\ lim * q \in Nat
  BY <1>1, ProductMonotone
<1>4. d * lim < Window
  BY <1>1, <1>2, <1>3
<1>5. /\ (d * lim) \div Window \in Nat
      /\ Window * ((d * lim) \div Window) <= d * lim
  BY <1>3, DivisionBounds
<1>6. ASSUME (d * lim) \div Window >= 1 PROVE FALSE
  <2>1. Window * 1 <= Window * ((d * lim) \div Window)
    BY <1>5, <1>6, ProductMonotone
  <2> QED BY <2>1, <1>3, <1>4, <1>5
<1> QED BY <1>5, <1>6

\* The Retry-After of a refused client (budget/mod.rs:108-110, handlers.rs:820)
\* is right to the second, at every limit and whatever the clock did.
THEOREM RetryHintHolds == Spec => []RetryHint
<1> USE RpmBucketAssumptions
<1>1. Init => RetryHint
  BY DEF Init, RetryHint
<1>2. TypeOK /\ TypeOK' /\ RetryHint /\ [Next]_vars => RetryHint'
  <2> SUFFICES ASSUME TypeOK, TypeOK', RetryHint, [Next]_vars PROVE RetryHint'
    OBVIOUS
  <2>1. CASE UNCHANGED vars
    BY <2>1 DEF vars, RetryHint, Accrued, Surplus
  <2>2. ASSUME NEW lim \in 1..MaxLimit, Create(lim) PROVE RetryHint'
    BY <2>2 DEF Create, RetryHint
  <2>3. ASSUME NEW lim \in 1..MaxLimit, Admit(lim) PROVE RetryHint'
    BY <2>3 DEF Admit, RetryHint
  <2>4. ASSUME NEW lim \in 1..MaxLimit, Refuse(lim) PROVE RetryHint'
    <3> DEFINE h == Surplus(last + (Window \div lim), now)
               n == h \div Second
    <3>1. Window \div lim \in Nat
      BY DivisionBounds
    <3>2. h \in Nat /\ now + h >= last + (Window \div lim)
      BY <3>1 DEF Surplus, TypeOK
    <3>3. /\ n \in Nat /\ Second * n \in Nat
          /\ Second * n <= h /\ h < Second * n + Second
      <4>1. n \in Nat /\ Second * n <= h /\ h < Second * n + Second
        BY <3>2, DivisionBounds
      <4> QED BY <4>1, ProductMonotone
    <3>4. asked' = lim /\ now' = now /\ last' = last /\ retry' = n
      BY <2>4 DEF Refuse, AsSecs
    <3>5. Accrued(lim, now + Second * n + Second, last) > 0
      <4> DEFINE d == Surplus(now + Second * n + Second, last)
      <4>1. d \in Nat /\ d >= (Window \div lim) + 1
        BY <3>1, <3>2, <3>3 DEF Surplus, TypeOK
      <4> QED BY <4>1, OneTickMore DEF Accrued
    <3>6. ASSUME n > 0 PROVE Accrued(lim, now + Second * n - 1, last) = 0
      <4> DEFINE d == Surplus(now + Second * n - 1, last)
      <4>1. h > 0 /\ Second * n >= 1
        <5>1. Second * 1 <= Second * n
          BY <3>3, <3>6, ProductMonotone
        <5> QED BY <5>1, <3>2, <3>3
      <4>2. now + h = last + (Window \div lim)
        BY <3>1, <4>1 DEF Surplus, TypeOK
      <4>3. CASE d > 0
        <5>1. d \in Nat /\ d < Window \div lim
          BY <3>1, <3>2, <3>3, <4>1, <4>2, <4>3 DEF Surplus, TypeOK
        <5> QED BY <5>1, NoTickLess DEF Accrued
      <4>4. CASE d = 0
        <5>1. 0 * lim = 0 /\ 0 \div Window = 0
          BY DivisionBounds
        <5> QED BY <4>4, <5>1 DEF Accrued
      <4>5. d \in Nat
        BY <3>3, <4>1 DEF Surplus, TypeOK
      <4> QED BY <4>3, <4>4, <4>5
    <3> QED BY <3>4, <3>5, <3>6 DEF RetryHint
  <2>5. ASSUME NEW t \in 0..MaxTime, SetClock(t) PROVE RetryHint'
    BY <2>5 DEF SetClock, RetryHint
  <2> QED BY <2>1, <2>2, <2>3, <2>4, <2>5 DEF Next
<1> QED BY <1>1, <1>2, TypeCorrect, PTL DEF Spec
=============================================================================

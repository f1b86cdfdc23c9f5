----------------------------- MODULE RpmBucket -----------------------------
(***************************************************************************)
(* The request-per-minute limiter of one API key (RpmBucket::try_take and  *)
(* take_rpm, src/src/budget/mod.rs).                                       *)
(*                                                                         *)
(* take_rpm holds the write lock of the key's map entry while it calls     *)
(* try_take, so calls for one key do not overlap: a call is one step, and  *)
(* its compare-and-swap on `tokens` cannot lose to another call; when it   *)
(* fails spuriously it is repeated.  The one on `last_refill_ms` is weak   *)
(* too, and is not repeated.  The clock is the wall clock: it may be set   *)
(* back, and it may stand still between calls.  A configuration reload may *)
(* change the limit.                                                       *)
(***************************************************************************)
EXTENDS Integers

CONSTANTS
  Window,   \* 60_000 ms
  Second,   \* 1000 ms
  MaxLimit, \* the largest rpm_limit the key is ever given
  MaxTime,  \* the clock stays below this (bound)
  MaxSlips  \* compare_exchange_weak fails spuriously so often (bound)

ASSUME RpmBucketAssumptions ==
  /\ Window \in Nat \ {0}
  /\ Second \in Nat \ {0}
  /\ MaxLimit \in Nat \ {0}
  /\ MaxTime \in Nat
  /\ MaxSlips \in Nat

VARIABLES
  now,       \* now_ms()
  exists,    \* has the key a bucket yet?
  tokens,    \* RpmBucket.tokens
  last,      \* RpmBucket.last_refill_ms
  born,      \* history: when the bucket was created
  admitted,  \* history: requests admitted since then
  slips,     \* history: refill times that were not stored
  retry,     \* the Retry-After of the call just refused, or -1
  asked      \* history: the limit of that call

vars == <<now, exists, tokens, last, born, admitted, slips, retry, asked>>

Minimum(a, b) == IF a <= b THEN a ELSE b
Surplus(a, b) == IF a >= b THEN a - b ELSE 0

\* The tokens that have accrued since the last refill, rounded down.
Accrued(lim, time, since) == (Surplus(time, since) * lim) \div Window

\* Mutant of Replenished: a bucket that fills beyond the limit.
ReplenishedUncapped(lim, time) == tokens + Accrued(lim, time, last)

\* What a call with limit lim finds in the bucket.
Replenished(lim, time) == Minimum(tokens + Accrued(lim, time, last), lim)

\* The first request of a key creates a full bucket and takes one token.
Create(lim) ==
  /\ ~exists
  /\ exists' = TRUE
  /\ tokens' = lim - 1
  /\ last' = now
  /\ born' = now
  /\ admitted' = 1
  /\ retry' = -1
  /\ UNCHANGED <<now, slips, asked>>

\* Mutant of Admit: the refill time is never stored.
AdmitKeepsLast(lim) ==
  /\ exists
  /\ Replenished(lim, now) > 0
  /\ tokens' = Replenished(lim, now) - 1
  /\ admitted' = admitted + 1
  /\ admitted < MaxLimit * MaxTime
  /\ retry' = -1
  /\ UNCHANGED <<now, exists, born, asked, last, slips>>

\* A token is there: it is taken, and the refill time moves if it counted,
\* unless compare_exchange_weak fails spuriously.
Admit(lim) ==
  /\ exists
  /\ Replenished(lim, now) > 0
  /\ tokens' = Replenished(lim, now) - 1
  /\ \/ /\ last' = IF Accrued(lim, now, last) > 0 THEN now ELSE last
        /\ UNCHANGED slips
     \/ /\ Accrued(lim, now, last) > 0 /\ slips < MaxSlips
        /\ slips' = slips + 1
        /\ UNCHANGED last
  /\ admitted' = admitted + 1
  /\ retry' = -1
  /\ UNCHANGED <<now, exists, born, asked>>

\* What the client is told: Duration::as_secs rounds down.
AsSecs(millis) == millis \div Second

\* Mutant of Refuse: the subtraction of the hint the wrong way round.
RefuseSwapped(lim) ==
  /\ exists
  /\ Replenished(lim, now) = 0
  /\ retry' = AsSecs(Surplus(now, last + (Window \div lim)))
  /\ asked' = lim
  /\ UNCHANGED <<now, exists, tokens, last, born, admitted, slips>>

\* The bucket is empty: Err(retry_after), nothing is stored, and the handler
\* answers 429 with the hint in seconds.
Refuse(lim) ==
  /\ exists
  /\ Replenished(lim, now) = 0
  /\ retry' = AsSecs(Surplus(last + (Window \div lim), now))
  /\ asked' = lim
  /\ UNCHANGED <<now, exists, tokens, last, born, admitted, slips>>

\* The wall clock runs, or is set back.
SetClock(t) ==
  /\ now' = t
  /\ retry' = -1
  /\ UNCHANGED <<exists, tokens, last, born, admitted, slips, asked>>

Init ==
  /\ now \in 0..MaxTime
  /\ exists = FALSE
  /\ tokens = 0
  /\ last = 0
  /\ born = 0
  /\ admitted = 0
  /\ slips = 0
  /\ retry = -1
  /\ asked = 1

Next ==
  \/ \E lim \in 1..MaxLimit : Create(lim) \/ Admit(lim) \/ Refuse(lim)
  \/ \E t \in 0..MaxTime : SetClock(t)

Spec == Init /\ [][Next]_vars

(***************************************************************************)
(* Properties                                                              *)
(***************************************************************************)

\* Type invariant.
TypeOK ==
  /\ now \in 0..MaxTime
  /\ exists \in BOOLEAN
  /\ tokens \in 0..MaxLimit
  /\ last \in 0..MaxTime /\ born \in 0..MaxTime
  /\ born <= last
  /\ admitted \in Nat /\ slips \in 0..MaxSlips
  /\ retry \in Int /\ retry >= -1
  /\ asked \in 1..MaxLimit

\* The limiter credits a stretch of time twice only when the refill time could
\* not be stored, and then no more than one full bucket each time: what it has
\* admitted, and what it still would admit at once, is at most a full bucket,
\* one more for each such failure, and what the time between its creation and
\* its last refill allows, at the largest limit it was given
\* (budget/mod.rs:97-135).  Rounding, a clock that is set back and a limit that
\* changes do not break it.
RateBound ==
  exists =>
    Window * (admitted + tokens)
      <= MaxLimit * (Window * (1 + slips)) + MaxLimit * (last - born)

\* The Retry-After a refused client gets (handlers.rs:820) is right to the
\* second: one second more and it finds a token, whatever the roundings and
\* the clock did, and one tick less than it says would have been too early.
\* The header itself may be up to a second short, and 0 above 60 rpm.
RetryHint ==
  retry >= 0 =>
    /\ Accrued(asked, now + Second * retry + Second, last) > 0
    /\ retry > 0 => Accrued(asked, now + Second * retry - 1, last) = 0
=============================================================================

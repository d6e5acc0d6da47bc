------------------------------ MODULE JobOptions ------------------------------
(***************************************************************************)
(* The options of a job, from the call of Add over the JSON in Redis to    *)
(* what the worker makes of them: retention, and the delay of a retry.     *)
(*                                                                         *)
(* A Go pointer is a sequence: empty for nil, else with the value.  A JSON *)
(* value is a record of its kind and its fields.  Durations are integers   *)
(* of Width bits that wrap like int64; jitter and random numbers count     *)
(* quarters.                                                               *)
(***************************************************************************)
EXTENDS Integers, Sequences

CONSTANTS
  Width,    \* bits of a time.Duration (64 in the code)
  Milli,    \* time.Millisecond
  Second    \* time.Second

ASSUME UnitAssumption ==
  /\ Width \in Nat \ {0, 1}
  /\ Milli \in Nat \ {0}
  /\ Second \in { Milli * k : k \in 1..1000 }
  /\ \A n \in 0..Width : 2^n \in Nat \ {0}

MaxDur == 2^(Width - 1) - 1

\* the value of n in two's complement
Wrap(n) ==
  LET all == 2 * (MaxDur + 1)
      m == n % all
  IN  IF m > MaxDur THEN m - all ELSE m

\* Go's division and conversion to an integer go towards zero.
Trunc(n, d) == IF n >= 0 THEN n \div d ELSE -((-n) \div d)

Larger(a, b) == IF a >= b THEN a ELSE b

Milliseconds(d) == Trunc(d, Milli)

-----------------------------------------------------------------------------
(* The caller: options, addConfig, JSON *)

\* addConfig before any option: the pointers are nil
NoConfig ==
  [attempts |-> 0, backoff |-> <<>>, keepCompleted |-> <<>>, keepCompletedAge |-> <<>>,
   keepFailed |-> <<>>, keepFailedAge |-> <<>>]

WithAttempts(c, n) == [c EXCEPT !.attempts = n]
WithBackoff(c, b) == [c EXCEPT !.backoff = <<b>>]
WithKeepCompleted(c, n) == [c EXCEPT !.keepCompleted = <<n>>]
WithKeepFailed(c, n) == [c EXCEPT !.keepFailed = <<n>>]
WithKeepCompletedAge(c, age) == [c EXCEPT !.keepCompletedAge = <<age>>]
WithKeepFailedAge(c, age) == [c EXCEPT !.keepFailedAge = <<age>>]

FixedBackoff(d) == [type |-> "fixed", delay |-> d, jitter |-> 0]
FixedBackoffWithJitter(d, j) == [type |-> "fixed", delay |-> d, jitter |-> j]
ExponentialBackoff(d) == [type |-> "exponential", delay |-> d, jitter |-> 0]
ExponentialBackoffWithJitter(d, j) == [type |-> "exponential", delay |-> d, jitter |-> j]
CustomBackoff == [type |-> "custom", delay |-> 0, jitter |-> 0]

Absent == [kind |-> "absent", num |-> 0, count |-> <<>>, age |-> <<>>]

NumberValue(n) == [Absent EXCEPT !.kind = "number", !.num = n]

\* Slip: an age of less than a second is written as 0.
EncodeRetentionLimitZero(count, secs) ==
  IF secs = <<>>
    THEN IF count = <<>> THEN Absent ELSE NumberValue(count[1])
    ELSE [Absent EXCEPT !.kind = "object", !.count = count, !.age = secs]

\* encodeRetentionLimit: a number for a count alone, an object with an age that
\* is positive.
EncodeRetentionLimit(count, secs) ==
  IF secs = <<>> \/ (secs # <<>> /\ secs[1] <= 0)
    THEN IF count = <<>> THEN Absent ELSE NumberValue(count[1])
    ELSE [Absent EXCEPT !.kind = "object", !.count = count, !.age = secs]

\* buildRetentionLimit: ages have a resolution of a second.
BuildRetentionLimit(count, age) ==
  EncodeRetentionLimit(count, IF age = <<>> THEN <<>> ELSE <<Trunc(age[1], Second)>>)

NoBackoff == [kind |-> "absent", type |-> "", delay |-> 0, jitter |-> 0]

\* The backoff part of toProtoOpts and EncodeAddOpts.
EncodeBackoff(b) ==
  IF b = <<>> THEN NoBackoff
  ELSE [kind |-> "object", type |-> b[1].type, delay |-> Milliseconds(b[1].delay),
        jitter |-> IF b[1].jitter > 0 THEN b[1].jitter ELSE 0]

\* Add: the opts field that the script stores.
EncodeAddOpts(c) ==
  [ok |-> TRUE, attempts |-> c.attempts, backoff |-> EncodeBackoff(c.backoff),
   removeOnComplete |-> BuildRetentionLimit(c.keepCompleted, c.keepCompletedAge),
   removeOnFail |-> BuildRetentionLimit(c.keepFailed, c.keepFailedAge)]

-----------------------------------------------------------------------------
(* The worker: JSON to jobOpts *)

KeepAll == [count |-> <<>>, age |-> <<>>]

\* parseRemoveOpt: boolean, number or object; anything else counts as not set.
ParseRemoveOpt(v) ==
  IF v.kind = "true" THEN [KeepAll EXCEPT !.count = <<0>>]
  ELSE IF v.kind = "number" THEN [KeepAll EXCEPT !.count = <<v.num>>]
  ELSE IF v.kind = "object" THEN [count |-> v.count, age |-> v.age]
  ELSE KeepAll

\* parseBackoffOpt: the milliseconds are multiplied without a check.
ParseBackoffOpt(v) ==
  IF v.kind = "number" THEN
    << [type |-> "fixed", delay |-> Wrap(v.delay * Milli), jitter |-> 0] >>
  ELSE IF v.kind = "object" /\ v.type # "" THEN
    << [type |-> v.type, delay |-> Wrap(v.delay * Milli), jitter |-> v.jitter] >>
  ELSE <<>>

\* parseJobOpts: JSON that is broken as a whole means no options at all.
ParseJobOpts(raw) ==
  [attempts |-> IF raw.ok THEN raw.attempts ELSE 0,
   backoff |-> IF raw.ok THEN ParseBackoffOpt(raw.backoff) ELSE <<>>,
   removeOnComplete |-> IF raw.ok THEN ParseRemoveOpt(raw.removeOnComplete) ELSE KeepAll,
   removeOnFail |-> IF raw.ok THEN ParseRemoveOpt(raw.removeOnFail) ELSE KeepAll]

\* runMoveToFinished and EncodeMoveToFinishedOpts: what the script is told to
\* keep; an age that is not positive is left out.
KeepJobs(limit) ==
  [count |-> limit.count,
   age |-> IF limit.age # <<>> /\ limit.age[1] > 0 THEN limit.age ELSE <<>>]

\* moveToFinished keeps the job unless the count is 0.
Kept(keep) == keep.count # <<0>>

-----------------------------------------------------------------------------
(* The delay of a retry *)

\* Slip: the shift is guarded, the product is not.
ComputeBackoffDelayWraps(b, n) ==
  IF b.type # "exponential" THEN b.delay
  ELSE IF n - 1 >= Width - 1 THEN MaxDur
  ELSE Wrap(b.delay * 2^(n - 1))

\* computeBackoffDelay for the built-in types
ComputeBackoffDelay(b, n) ==
  IF b.type # "exponential" THEN b.delay
  ELSE IF n - 1 >= Width - 1 \/ b.delay > MaxDur \div 2^(n - 1) THEN MaxDur
  ELSE Wrap(b.delay * 2^(n - 1))

\* Slip: the random part is added to the whole delay.
ApplyJitterOnTop(base, jitter, r) ==
  LET j == IF jitter > 4 THEN 4 ELSE jitter IN base + Trunc(base * r * j, 16)

\* applyJitter, with r < 4 quarters
ApplyJitter(base, jitter, r) ==
  LET j == IF jitter > 4 THEN 4 ELSE jitter
  IN  IF jitter <= 0 THEN base ELSE Trunc(base * r * j + base * (4 - j) * 4, 16)

\* callBackoffStrategy: the context-aware function wins; without one, or when it
\* panics, the job is retried at once.
CallBackoffStrategy(hooks) ==
  LET f == IF hooks.func.kind # "none" THEN hooks.func ELSE hooks.plain
  IN  IF f.kind = "answer" THEN f.delay ELSE 0

\* callRetryDelayOverride: a panic is the same as declining.
OverrideDecides(hooks) == hooks.override.kind = "answer"

\* computeRetryDelay for attempt n
ComputeRetryDelay(backoff, hooks, n, r) ==
  IF OverrideDecides(hooks) THEN hooks.override.delay
  ELSE IF backoff = <<>> THEN 0
  ELSE IF backoff[1].type \in {"fixed", "exponential"} THEN
    ApplyJitter(ComputeBackoffDelay(backoff[1], n), backoff[1].jitter, r)
  ELSE CallBackoffStrategy(hooks)

\* retryDelayed and moveToDelayedKeepingAttempts never pass less than 1 ms.
DelayMillis(d) == Larger(Milliseconds(d), 1)

\* shouldRetry, with the attempts made before this one
ShouldRetry(opts, atm, outcome) ==
  outcome # "unrecoverable" /\ opts.attempts > 0 /\ atm + 1 < opts.attempts

=============================================================================

------------------------------ MODULE MCJobTiming ------------------------------
(* Instances of JobTiming: one setting for each kind of options, and settings   *)
(* with two workers whose scans fall differently and of which one may die.      *)
EXTENDS JobTiming, TLC

CONSTANTS a, b

Attempts(n) == WithAttempts(NoConfig, n)

Backoffs ==
  { FixedBackoff(55), FixedBackoff(7), FixedBackoffWithJitter(45, 2), ExponentialBackoff(300),
    ExponentialBackoffWithJitter(300, 5), CustomBackoff }

Retention(c, count, age) ==
  LET d == IF count = 9 THEN c ELSE WithKeepCompleted(c, count)
  IN  IF age = 0 THEN d ELSE WithKeepCompletedAge(d, age)

Adds ==
  { Attempts(4) } \cup { WithBackoff(Attempts(4), bo) : bo \in Backoffs }
  \cup { WithBackoff(Attempts(13), ExponentialBackoff(10)) }
  \cup { WithKeepFailedAge(WithKeepFailed(Retention(Attempts(2), c, g), 0), 310) :
           c \in {-1, 0, 2, 9}, g \in {-150, 0, 99, 250} }

\* what another client may have stored
Foreign ==
  LET base == EncodeAddOpts(Attempts(3))
      number(n) == [NoBackoff EXCEPT !.kind = "number", !.delay = n]
  IN  { [base EXCEPT !.backoff = v] :
          v \in { number(5), number(110), [NoBackoff EXCEPT !.kind = "other"] } }
      \cup { [base EXCEPT !.removeOnComplete.kind = k] :
               k \in {"true", "false", "other", "object"} }
      \cup { [base EXCEPT !.ok = FALSE] }

Hook(d) == [kind |-> "answer", delay |-> d]
Panics == [kind |-> "panic", delay |-> 0]
Declines == [kind |-> "decline", delay |-> 0]

Hooks ==
  { NoHooks } \cup { [NoHooks EXCEPT !.override = h] : h \in {Declines, Panics, Hook(35), Hook(-1)} }

CustomHooks ==
  { [NoHooks EXCEPT !.func = f, !.plain = p] :
      f \in {NoHook, Panics, Hook(25)}, p \in {NoHook, Hook(-1)} }

Quiet(raw, own, hooks) ==
  [raw |-> raw, own |-> own, hooks |-> hooks, rands |-> {0, 3},
   outcomes |-> {"ok", "error"}, asked |-> 0, durations |-> {5}, lock |-> 3000,
   running |-> {a}, maxTime |-> 6000, interval |-> 0, first |-> [w \in Worker |-> 0],
   scanTimes |-> {0}, idle |-> 30, unreliable |-> FALSE, cooldowns |-> {}, others |-> {},
   mortal |-> {}, maxStalled |-> 1]

\* handlers that also give up or ask to be put back
PutBack(d) ==
  LET c == WithKeepCompleted(WithBackoff(Attempts(3), FixedBackoff(55)), 0)
  IN  [Quiet(EncodeAddOpts(c), <<c>>, NoHooks) EXCEPT
         !.outcomes = {"error", "unrecoverable", "delay"}, !.asked = d]

Policies ==
  { Quiet(EncodeAddOpts(c), <<c>>, h) : c \in Adds, h \in Hooks }
  \cup { Quiet(EncodeAddOpts(WithBackoff(Attempts(3), CustomBackoff)), <<>>, h) : h \in CustomHooks }
  \cup { Quiet(raw, <<>>, NoHooks) : raw \in Foreign }
  \cup { PutBack(d) : d \in {-5, 250} }

\* two workers; a may die
Dying(lock, interval, first, stalls, maxTime) ==
  LET c == WithBackoff(Attempts(2), FixedBackoff(150))
  IN  [Quiet(EncodeAddOpts(c), <<c>>, NoHooks) EXCEPT
         !.lock = lock, !.interval = interval, !.durations = {40, 420},
         !.first = (a :> 0) @@ (b :> first), !.scanTimes = {0, 7}, !.rands = {0},
         !.running = {a, b}, !.mortal = {a}, !.maxStalled = stalls, !.maxTime = maxTime]

\* calls fail, the rate limit is used up, or other jobs are delayed
Troubled(unreliable, cooldowns, others, maxTime) ==
  [Dying(130, 200, 70, 1, maxTime) EXCEPT
     !.mortal = {}, !.durations = {40}, !.scanTimes = {0},
     !.idle = 110, !.unreliable = unreliable, !.cooldowns = cooldowns, !.others = others]

\* a worker that scans alone
Lone(interval) ==
  [Dying(130, interval, 7, 1, 600) EXCEPT !.running = {b}, !.mortal = {}]

TimingSettings ==
  Policies
  \cup { Troubled(TRUE, {}, {}, 400), Troubled(FALSE, {60}, {}, 400),
         Troubled(FALSE, {}, {40, 250}, 400), Troubled(TRUE, {60}, {40, 250}, 260) }
  \cup { Lone(100), Lone(117), Lone(200) }
  \cup { Dying(130, 20, first, 1, 300) : first \in {0, 13} }
  \cup { Dying(lock, 200, first, stalls, 900) :
           lock \in {130, 240}, first \in {0, 70, 185}, stalls \in {0, 1} }

\* WithLockDuration of less than a second
ShortLock ==
  { [Dying(60, 200, 70, 1, 900) EXCEPT !.mortal = {}] }

=============================================================================

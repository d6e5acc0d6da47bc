------------------------------ MODULE JobTiming ------------------------------
(***************************************************************************)
(* One job in time: the timers of the workers that run it (the waits of    *)
(* dispatchLoop, the heartbeat, stalledLoop), the keys in Redis that       *)
(* expire (the lock, the stalled-check key), and the delays of its         *)
(* retries.  Of the other jobs of the queue the model has what makes a     *)
(* worker sleep: the rate limit they use up, and the next delayed one.     *)
(*                                                                         *)
(* The clock counts the units of a time.Duration; Redis sees milliseconds. *)
(* A timer fires on time and a call takes no time, except that a scan may  *)
(* take as long as the setting says.  Each worker has one dispatcher, so   *)
(* the worker names the lock token.                                        *)
(***************************************************************************)
EXTENDS JobOptions, FiniteSets, FiniteSetsExt

CONSTANTS
  Worker,         \* the workers
  Nobody,         \* no token
  MaxIdleWait,    \* maxIdleWait, in the units of the clock
  Settings,       \* the surroundings under study, see Setting
  MaxStarts       \* bound: how often the job is taken

\* What a user function answers: none (not registered), decline, panic, answer.
NoHook == [kind |-> "none", delay |-> 0]

NoHooks == [override |-> NoHook, func |-> NoHook, plain |-> NoHook]

\* A pointer to an integer
IsPointer(p) == p \in Seq(Int) /\ Len(p) <= 1

ASSUME TimingAssumption ==
  /\ Nobody \notin Worker
  /\ MaxIdleWait \in Nat \ {0} /\ MaxIdleWait >= Second
  /\ \A s \in Settings :
       /\ s.lock \in Nat /\ s.lock >= Milli /\ s.interval \in Nat /\ s.idle \in Nat \ {0}
       /\ s.running \subseteq Worker /\ s.first \in [Worker -> 0..s.interval]
       /\ s.durations \subseteq Nat /\ s.scanTimes \subseteq Nat
       /\ \E longest \in s.scanTimes : \A t \in s.scanTimes : t <= longest
       /\ s.unreliable \in BOOLEAN /\ s.cooldowns \subseteq Nat \ {0} /\ s.others \subseteq Nat \ {0}
       /\ s.outcomes \subseteq {"ok", "error", "unrecoverable", "delay"}
       /\ s.asked \in Int /\ s.rands \subseteq 0..3
       /\ \A h \in {s.hooks.override, s.hooks.func, s.hooks.plain} : h.delay \in Int
       /\ s.raw.attempts \in Int /\ s.raw.backoff.delay \in Int /\ s.raw.backoff.jitter \in Int
       /\ s.own # <<>> =>
            LET c == s.own[1]
            IN  /\ s.raw = EncodeAddOpts(c)
                /\ \A p \in {c.keepCompleted, c.keepCompletedAge, c.keepFailed, c.keepFailedAge} :
                     IsPointer(p)
                /\ c.backoff # <<>> => c.backoff[1].delay \in 0..MaxDur

VARIABLES
  setting,   \* the surroundings, chosen once
  now,       \* the clock
  job,       \* the job in Redis
  checkEnd,  \* the millisecond until which the stalled-check key exists
  marker,    \* whether the marker key has a member
  pc,        \* asking, sleeping (until the job is due), napping (for another
             \* reason), parked (on the marker), running or dead, for each worker
  until,     \* when a worker's sleep, wait or handler ends
  beat,      \* when its heartbeat ticks, -1 when there is none
  scan,      \* when its next stalled scan is, -1 when there is none
  idleWait,  \* dispatchLoop's idleWait
  snap,      \* the stacktrace and start times it read when it took the job
  fails      \* failures that a script has recorded

vars == <<setting, now, job, checkEnd, marker, pc, until, beat, scan, idleWait, snap, fails>>

Ms(t) == t \div Milli

Opts == ParseJobOpts(setting.raw)

Alive(end) == Ms(now) <= end

Locked == job.owner # Nobody /\ Alive(job.lockEnd)

NoHistory == [traces |-> 0, starts |-> <<>>]

\* stalledLoop scans once at the start; an interval of 0 or less means no scans.
FirstScan(w) ==
  IF setting.interval > 0 /\ w \in setting.running THEN Milli + setting.first[w] ELSE -1

Init ==
  /\ setting \in Settings
  /\ now = Milli
  /\ job = [at |-> "wait", due |-> 0, atm |-> 0, stc |-> 0, ats |-> 0, defa |-> FALSE,
            owner |-> Nobody, lockEnd |-> 0, marked |-> FALSE, processedOn |-> 0,
            history |-> NoHistory]
  /\ checkEnd = -1 /\ marker = TRUE
  /\ pc = [w \in Worker |-> IF w \in setting.running THEN "asking" ELSE "dead"]
  /\ until = [w \in Worker |-> 0]
  /\ beat = [w \in Worker |-> -1]
  /\ scan = [w \in Worker |-> FirstScan(w)]
  /\ idleWait = [w \in Worker |-> setting.idle]
  /\ snap = [w \in Worker |-> NoHistory]
  /\ fails = 0

-----------------------------------------------------------------------------
(* Waiting *)

NextIdleWait(cur) ==
  IF setting.idle >= MaxIdleWait THEN setting.idle
  ELSE IF cur * 2 > MaxIdleWait THEN MaxIdleWait ELSE cur * 2

\* awaitMarker: at least a second; the client sends whole seconds.
MarkerWait(d) == IF d < Second THEN Second ELSE (d \div Second) * Second

\* Slip: every wait for a delayed job is a wait for the marker.
DelayedWaitParks(d) ==
  [pc |-> "parked", time |-> MarkerWait(IF d > MaxIdleWait THEN MaxIdleWait ELSE d)]

\* dispatchLoop with a delayed job ahead: a precise sleep below a second.
DelayedWait(d) ==
  IF d < Second THEN [pc |-> "sleeping", time |-> d]
  ELSE [pc |-> "parked", time |-> MarkerWait(IF d > MaxIdleWait THEN MaxIdleWait ELSE d)]

Waits(w, how) ==
  /\ pc' = [pc EXCEPT ![w] = how.pc]
  /\ until' = [until EXCEPT ![w] = now + how.time]

-----------------------------------------------------------------------------
(* Taking the job *)

\* promoteDelayedJobs
IsDue == job.at = "delayed" /\ job.due <= Ms(now)

\* Slip: the start times are replaced by the one of this attempt.
RecordedAnew(history, start) ==
  [traces |-> history.traces + 1, starts |-> <<start>>]

\* buildFailureHistory: this failure after those that were read.
Recorded(history, start) ==
  [traces |-> history.traces + 1, starts |-> Append(history.starts, start)]

\* moveToFinished
Finished(to, keep, history) ==
  [job EXCEPT !.at = IF Kept(keep) THEN to ELSE "gone", !.owner = Nobody, !.marked = FALSE,
              !.defa = IF to = "failed" THEN FALSE ELSE @, !.atm = @ + 1, !.history = history]

\* Slip: the tick is as long as the lock.
BeatsLate == setting.lock + Milli

\* the interval of the heartbeat
Tick == Larger(setting.lock \div 2, Second)

\* tryOnce finds the job: the lock is set, and the heartbeat and the handler
\* start.  A job that stalled too often fails without its handler.
Take(w) ==
  /\ job.at = "wait" \/ IsDue
  /\ job.ats < MaxStarts
  /\ marker' = TRUE
  /\ idleWait' = [idleWait EXCEPT ![w] = setting.idle]
  /\ IF job.defa
       THEN /\ job' = [Finished("failed", KeepJobs(Opts.removeOnFail),
                                Recorded(job.history, Ms(now)))
                         EXCEPT !.ats = @ + 1, !.processedOn = Ms(now)]
            /\ fails' = fails + 1
            /\ UNCHANGED <<pc, until, beat, snap>>
       ELSE /\ job' = [job EXCEPT !.at = "active", !.owner = w, !.ats = @ + 1,
                                  !.lockEnd = Ms(now) + Milliseconds(setting.lock),
                                  !.processedOn = Ms(now)]
            /\ pc' = [pc EXCEPT ![w] = "running"]
            /\ \E d \in setting.durations : until' = [until EXCEPT ![w] = now + d]
            /\ beat' = [beat EXCEPT ![w] = now + Tick]
            /\ snap' = [snap EXCEPT ![w] = job.history]
            /\ UNCHANGED fails

\* tryOnce finds nothing, and dispatchLoop waits.
FindNothing(w) ==
  /\ ~(job.at = "wait" \/ IsDue)
  /\ IF job.at = "delayed"
       THEN /\ Waits(w, DelayedWait(job.due * Milli - now))
            /\ UNCHANGED idleWait
       ELSE /\ Waits(w, [pc |-> "parked", time |-> MarkerWait(idleWait[w])])
            /\ idleWait' = [idleWait EXCEPT ![w] = NextIdleWait(@)]
  /\ UNCHANGED <<job, marker, beat, snap, fails>>

\* moveToActive fails before the script has run (JobQueue has the lost reply).
FetchFails(w) ==
  /\ setting.unreliable
  /\ Waits(w, [pc |-> "napping", time |-> setting.idle])
  /\ UNCHANGED <<job, marker, idleWait, beat, snap, fails>>

\* Other jobs have used up the rate limit: what is due is promoted, nothing is
\* taken, and the worker sleeps out the time that the script reports.
RateLimited(w) ==
  /\ \E t \in setting.cooldowns : Waits(w, [pc |-> "napping", time |-> t])
  /\ job' = IF IsDue THEN [job EXCEPT !.at = "wait"] ELSE job
  /\ marker' = (marker \/ IsDue)
  /\ UNCHANGED <<idleWait, beat, snap, fails>>

\* Another job is the next delayed one: below a second the worker sleeps until then
\* and does not hear the marker.
OtherIsNext(w) ==
  /\ ~(job.at = "wait" \/ IsDue)
  /\ \E d \in setting.others :
       /\ job.at = "delayed" => d < job.due * Milli - now
       /\ LET how == DelayedWait(d)
          IN  Waits(w, IF how.pc = "sleeping" THEN [how EXCEPT !.pc = "napping"] ELSE how)
  /\ UNCHANGED <<job, marker, idleWait, beat, snap, fails>>

KeptWaiting(w) == FetchFails(w) \/ RateLimited(w) \/ OtherIsNext(w)

Ask(w) ==
  /\ pc[w] = "asking"
  /\ Take(w) \/ FindNothing(w) \/ KeptWaiting(w)
  /\ UNCHANGED <<setting, now, checkEnd, scan>>

\* The sleep or the BZPopMin is over, or BZPopMin pops a member.
Wake(w) ==
  /\ \/ pc[w] \in {"sleeping", "napping", "parked"} /\ until[w] = now /\ UNCHANGED marker
     \/ pc[w] = "parked" /\ marker /\ marker' = FALSE
  /\ pc' = [pc EXCEPT ![w] = "asking"]
  /\ UNCHANGED <<setting, now, job, checkEnd, until, beat, scan, idleWait, snap, fails>>

-----------------------------------------------------------------------------
(* Finalising *)

Unlocked(at) == [job EXCEPT !.at = at, !.owner = Nobody, !.marked = FALSE]

\* a negative delay ends the retries
GivesUp(delay) == delay < 0

\* finalise: what the script makes of the job when the lock is the worker's.
Finalised(w, outcome, r) ==
  LET history == Recorded(snap[w], job.processedOn)
      delay == ComputeRetryDelay(Opts.backoff, setting.hooks, job.atm + 1, r)
  IN  IF outcome = "ok" THEN Finished("completed", KeepJobs(Opts.removeOnComplete), job.history)
      ELSE IF outcome = "delay" THEN
        [Unlocked("delayed") EXCEPT !.due = Ms(now) + DelayMillis(setting.asked)]
      ELSE IF ~ShouldRetry(Opts, job.atm, outcome) \/ GivesUp(delay) THEN
        Finished("failed", KeepJobs(Opts.removeOnFail), history)
      ELSE IF delay > 0 THEN
        [Unlocked("delayed") EXCEPT !.due = Ms(now) + DelayMillis(delay),
                                    !.atm = @ + 1, !.history = history]
      ELSE [Unlocked("wait") EXCEPT !.atm = @ + 1, !.history = history]

\* The handler returns, the heartbeat ends and finalise runs.  A script that does
\* not find the lock refuses and changes nothing.
HandlerReturns(w) ==
  /\ pc[w] = "running" /\ until[w] = now
  /\ pc' = [pc EXCEPT ![w] = "asking"]
  /\ beat' = [beat EXCEPT ![w] = -1]
  /\ IF Locked /\ job.owner = w
       THEN \E outcome \in setting.outcomes, r \in setting.rands :
              /\ job' = Finalised(w, outcome, r)
              /\ fails' = IF outcome \in {"error", "unrecoverable"} THEN fails + 1 ELSE fails
              /\ marker' = (marker \/ job'.at \in {"delayed", "wait"})
       ELSE UNCHANGED <<job, fails, marker>>
  /\ UNCHANGED <<setting, now, checkEnd, until, scan, idleWait, snap>>

-----------------------------------------------------------------------------
(* Heartbeat, stalled scans, crashes, time *)

\* extendLock; when it refuses, the handler's context is cancelled: it returns at
\* once, or it does not care.
Heartbeat(w) ==
  /\ pc[w] = "running" /\ beat[w] = now
  /\ IF Locked /\ job.owner = w
       THEN /\ job' = [job EXCEPT !.lockEnd = Ms(now) + Milliseconds(setting.lock),
                                  !.marked = FALSE]
            /\ beat' = [beat EXCEPT ![w] = now + Tick]
            /\ UNCHANGED until
       ELSE /\ beat' = [beat EXCEPT ![w] = -1]
            /\ \E t \in {now, until[w]} : until' = [until EXCEPT ![w] = t]
            /\ UNCHANGED job
  /\ UNCHANGED <<setting, now, checkEnd, marker, pc, scan, idleWait, snap, fails>>

\* Slip: the key lives as long as the interval.
StalledCheckTTLFull == Larger(Milliseconds(setting.interval), 1)

StalledCheckTTL == Larger(Milliseconds(setting.interval - setting.interval \div 10), 1)

\* Slip: only a lock that was released counts, not one that ran out.
SweptReleased ==
  LET back == job.marked /\ job.at = "active" /\ job.owner = Nobody
      moved == [job EXCEPT !.at = "wait", !.stc = @ + 1,
                           !.defa = @ \/ job.stc + 1 > setting.maxStalled]
      left == IF back THEN moved ELSE job
  IN  [left EXCEPT !.marked = (left.at = "active")]

\* moveStalledJobsToWait: the marked job without a lock goes back, and what is
\* active is marked.
Swept ==
  LET back == job.marked /\ job.at = "active" /\ ~Locked
      moved == [job EXCEPT !.at = "wait", !.owner = Nobody, !.stc = @ + 1,
                           !.defa = @ \/ job.stc + 1 > setting.maxStalled]
      left == IF back THEN moved ELSE job
  IN  [left EXCEPT !.marked = (left.at = "active")]

\* stalledLoop: a scan that finds the stalled-check key does nothing.  The next
\* one is due an interval after this one ended.
Scan(w) ==
  /\ scan[w] = now /\ pc[w] # "dead"
  /\ IF Alive(checkEnd)
       THEN UNCHANGED <<job, checkEnd, marker>>
       ELSE /\ checkEnd' = Ms(now) + StalledCheckTTL
            /\ job' = Swept
            /\ marker' = (marker \/ job'.at # job.at)
  /\ \E took \in setting.scanTimes : scan' = [scan EXCEPT ![w] = now + took + setting.interval]
  /\ UNCHANGED <<setting, now, pc, until, beat, idleWait, snap, fails>>

\* The process dies with all its goroutines.
Crash(w) ==
  /\ w \in setting.mortal /\ pc[w] # "dead"
  /\ pc' = [pc EXCEPT ![w] = "dead"]
  /\ beat' = [beat EXCEPT ![w] = -1]
  /\ scan' = [scan EXCEPT ![w] = -1]
  /\ UNCHANGED <<setting, now, job, checkEnd, marker, until, idleWait, snap, fails>>

\* the timers that are set
Timers ==
  { until[w] : w \in { v \in Worker : pc[v] \in {"sleeping", "napping", "parked", "running"} } }
  \cup { beat[w] : w \in { v \in Worker : beat[v] >= 0 } }
  \cup { scan[w] : w \in { v \in Worker : scan[v] >= 0 } }

\* Time goes on to the next timer once nobody has anything to do now.
Advance ==
  /\ \A w \in Worker : pc[w] # "asking" /\ ~(pc[w] = "parked" /\ marker)
  /\ Timers # {} /\ Min(Timers) > now /\ Min(Timers) <= setting.maxTime
  /\ now' = Min(Timers)
  /\ UNCHANGED <<setting, job, checkEnd, marker, pc, until, beat, scan, idleWait, snap, fails>>

Next ==
  \/ Advance
  \/ \E w \in Worker :
       Ask(w) \/ Wake(w) \/ HandlerReturns(w) \/ Heartbeat(w) \/ Scan(w) \/ Crash(w)

Spec == Init /\ [][Next]_vars

-----------------------------------------------------------------------------
(* Properties of the timers *)

Ready == job.at = "wait" \/ IsDue

Idle(w) == pc[w] \in {"sleeping", "parked"}

\* how long a worker may nap
NapTimes == {Second, setting.idle} \cup setting.cooldowns

\* While a handler runs and its heartbeat ticks, the job is the worker's and its
\* lock has not run out: nobody takes it for stalled.  WithLockDuration promises
\* that only a missed heartbeat lets the job be reclaimed.
LockCoversHandler ==
  \A w \in Worker : pc[w] = "running" /\ beat[w] >= 0 => job.owner = w /\ Locked

\* A job whose lock has run out is taken back after two scans, however the scans
\* of several workers fall and whoever dies: each of them comes within two intervals
\* (of at least a millisecond), one for the key that a worker which is gone may have
\* left and one for the next scan of a worker that lives.
RecoveredInTime ==
  job.at = "active" /\ ~Alive(job.lockEnd) /\ setting.interval > 0 =>
    now - (job.lockEnd + 1) * Milli
      <= 2 * (setting.interval + Larger(setting.interval, Milli) + Milli + Max(setting.scanTimes))

\* A worker that scans alone never finds the stalled-check key of its own last
\* scan, so none of its scans is wasted: stalledCheckTTL is rounded down, and the
\* interval counts from the end of a scan.  (Below 10 ms the rounding can eat the
\* tenth by which the key is shorter.)
OwnScanRuns ==
  \A w \in Worker :
    setting.running = {w} /\ setting.interval >= 10 * Milli /\ scan[w] = now => ~Alive(checkEnd)

\* Every wait for the marker or for a delayed job ends within maxIdleWait (or the
\* interval it was given), so a lost marker is noticed; it never becomes a wait of no
\* length; and every sleep that does not hear the marker ends within a second, the
\* idle interval, or the cooldown of the rate limit.
WaitBounded ==
  \A w \in Worker :
    /\ Idle(w) => /\ until[w] - now <= Larger(MaxIdleWait, setting.idle)
                  /\ idleWait[w] >= setting.idle
    /\ pc[w] = "napping" => \E t \in NapTimes : until[w] - now <= t

\* A job that is ready does not wait beside a worker that waits for it or for the
\* marker: the sleep until it is due is exact, the waits for the marker end by it,
\* and none overshoots.  The exception is a worker that naps after a failed call or
\* for the rate limit, since it may have taken the marker that the others wait for.
\* A worker that naps until another delayed job is due has not: it is deaf to the
\* marker itself and keeps a job waiting only when nobody else is parked.
\* WaitBounded says how long a nap lasts, and how long the others may sleep when a
\* worker that dies takes the marker with it.
PromptStart ==
  /\ []WaitBounded
  /\ [][ now' > now /\ (\A w \in Worker : pc[w] # "dead") /\ Ready /\ (\E w \in Worker : Idle(w))
           => /\ setting.unreliable \/ setting.cooldowns # {}
              /\ \E v \in Worker : pc[v] = "napping" ]_vars

-----------------------------------------------------------------------------
(* Properties of the retries *)

Builtin == Opts.backoff # <<>> /\ Opts.backoff[1].type \in {"fixed", "exponential"}

\* the reference for the exponential curve: doubling that stops at the top
Doubled[d \in Nat, n \in Nat] ==
  IF n = 0 THEN d ELSE IF 2 * Doubled[d, n - 1] > MaxDur THEN MaxDur ELSE 2 * Doubled[d, n - 1]

Curve(b, n) == IF b.type = "exponential" THEN Doubled[b.delay, n - 1] ELSE b.delay

Jitter == IF Opts.backoff[1].jitter > 4 THEN 4 ELSE Opts.backoff[1].jitter

Failed == job.at = "active" /\ fails' = fails + 1

\* A retry with a built-in backoff is delayed by the curve, cut at the largest
\* duration, at most the fraction of the jitter less, and by at least 1 ms.  It is
\* never made at once, unless the jitter may take all of the delay.  An override
\* that declines or panics makes no difference, so it causes no hot loop.
DelayFollowsCurve ==
  [][ Failed /\ Builtin /\ setting.hooks.override.kind # "answer"
        => LET base == Curve(Opts.backoff[1], job.atm + 1)
               wait == job'.due - Ms(now)
           IN  /\ job'.at = "delayed" =>
                    /\ wait <= Larger(Milliseconds(base), 1)
                    /\ wait >= Larger(Milliseconds((base * (4 - Jitter)) \div 4), 1)
               /\ job'.at = "wait" => Opts.backoff[1].delay = 0 \/ Jitter = 4 ]_vars

\* The hook whose answer counts: the override, or the strategy of a custom type.
Deciding ==
  IF setting.hooks.override.kind = "answer" THEN setting.hooks.override
  ELSE IF Opts.backoff = <<>> \/ Builtin THEN NoHook
  ELSE IF setting.hooks.func.kind # "none" THEN setting.hooks.func
  ELSE setting.hooks.plain

\* Attempts are given up early only when a hook says so with a negative delay
\* (then always), or when the milliseconds of a foreign backoff do not fit a
\* duration.  An option of a shape the worker does not know costs no attempt.
RetriesUsedUp ==
  [][ Failed /\ setting.raw.ok /\ job.atm + 1 < setting.raw.attempts
        /\ "unrecoverable" \notin setting.outcomes =>
        LET gaveUp == job'.at \in {"failed", "gone"}
        IN  /\ Deciding.kind = "answer" /\ Deciding.delay < 0 => gaveUp
            /\ gaveUp => \/ Deciding.kind = "answer" /\ Deciding.delay < 0
                         \/ setting.raw.backoff.delay * Milli > MaxDur ]_vars

\* The recorded history has one entry for every failure, in the order of the
\* attempts, whatever stalls, crashes and put-backs came between, and the failures
\* stay within the attempts.
HistoryComplete ==
  job.at # "gone" =>
    /\ job.history.traces = fails /\ Len(job.history.starts) = fails
    /\ \A i, k \in 1..fails : i < k => job.history.starts[i] <= job.history.starts[k]
    /\ fails <= Larger(Opts.attempts, 1)

\* what a caller asked to keep, in the resolution of the wire
Asked(count, age) ==
  [count |-> count,
   age |-> IF age # <<>> /\ age[1] >= Second THEN <<age[1] \div Second>> ELSE <<>>]

\* The options of an Add reach the script that finishes the job, to the second
\* and the millisecond, and no age that is not positive is stored, which another
\* client would take for "remove everything".
OptionsSurvive ==
  setting.own # <<>> =>
    LET c == setting.own[1]
    IN  /\ Opts.attempts = c.attempts
        /\ KeepJobs(Opts.removeOnComplete) = Asked(c.keepCompleted, c.keepCompletedAge)
        /\ KeepJobs(Opts.removeOnFail) = Asked(c.keepFailed, c.keepFailedAge)
        /\ \A v \in {setting.raw.removeOnComplete, setting.raw.removeOnFail} :
             v.age = <<>> \/ v.age[1] > 0
        /\ c.backoff # <<>> /\ c.backoff[1].type # "" =>
             /\ Opts.backoff[1].type = c.backoff[1].type
             /\ Opts.backoff[1].jitter = (IF c.backoff[1].jitter > 0 THEN c.backoff[1].jitter ELSE 0)
             /\ c.backoff[1].delay - Opts.backoff[1].delay \in 0..Milli - 1

=============================================================================

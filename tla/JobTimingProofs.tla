--------------------------- MODULE JobTimingProofs ---------------------------
(***************************************************************************)
(* What the timers of the workers and the expiring keys promise a job, for *)
(* every clock, every number of workers and every setting.                 *)
(*                                                                         *)
(* The invariants are about different things and are shown one after the   *)
(* other: no timer is ever in the past (TimeInv), a handler that beats has *)
(* its lock (LockInv), the history follows the failures (HistoryInv), the  *)
(* scans come in time (RecoveryInv), and somebody will ask for a job that  *)
(* is ready (PromptInv).                                                   *)
(***************************************************************************)
EXTENDS JobTiming, WellFoundedInduction, NaturalsInduction, TLAPS

-----------------------------------------------------------------------------
(* Arithmetic *)

Less == { p \in Nat \X Nat : p[1] < p[2] }

\* A set of natural numbers that is not empty has a least one.
LEMMA Least ==
  ASSUME NEW S \in SUBSET Nat, S # {}
  PROVE  \E x \in S : \A y \in S : x <= y
<1>1. IsWellFoundedOn({ss \in Nat \X Nat : ss[1] < ss[2]}, Nat)
  BY NatLessThanWellFounded, Zenon DEF OpToRel
<1>2. IsWellFoundedOn(Less, Nat)
  BY <1>1, Zenon DEF Less
<1>3. PICK x \in S : \A y \in S : ~ (<<y, x>> \in Less)
  BY <1>2, WFMin, Zenon
<1>4. \A y \in S : ~ (y < x)
  BY <1>3, Zenon DEF Less
<1> QED BY <1>4

\* Min of a set of times is its least one.
LEMMA LeastIsMin ==
  ASSUME NEW S \in SUBSET Nat, S # {}
  PROVE  Min(S) \in S /\ \A y \in S : Min(S) <= y
BY Least, Zenon DEF Min

\* The second is a number of milliseconds.
LEMMA Units ==
  /\ Milli \in Nat /\ Milli >= 1 /\ Second \in Nat /\ Second >= Milli
  /\ \E k \in 1..1000 : Second = Milli * k
<1>1. Milli \in Nat /\ Milli >= 1
  BY UnitAssumption
<1>2. PICK k \in 1..1000 : Second = Milli * k
  BY UnitAssumption, ZenonT(30)
<1>3. Milli * k \in Nat /\ Milli * k >= Milli
  BY <1>1
<1> QED BY <1>1, <1>2, <1>3, ZenonT(30)

\* A product of natural numbers.
LEMMA NatProduct ==
  ASSUME NEW a \in Nat, NEW b \in Nat
  PROVE  a * b \in Int /\ a * b >= 0
OBVIOUS

\* UnixMilli rounds down, by less than a millisecond.
LEMMA MsBounds ==
  ASSUME NEW t \in Nat
  PROVE  /\ Ms(t) \in Nat /\ Ms(t) * Milli \in Nat
         /\ Ms(t) * Milli <= t /\ t < Ms(t) * Milli + Milli
BY Units DEF Ms

\* Milliseconds in ticks of the clock.
LEMMA Scaled ==
  ASSUME NEW a \in Int, NEW b \in Int, a <= b
  PROVE  a * Milli <= b * Milli
BY Units

\* UnixMilli keeps the order of times.
LEMMA MsMonotone ==
  ASSUME NEW s \in Nat, NEW t \in Nat, s <= t
  PROVE  Ms(s) <= Ms(t)
BY Units DEF Ms

\* A millisecond has begun when the clock shows it.
LEMMA MsReached ==
  ASSUME NEW t \in Nat, NEW m \in Int
  PROVE  m <= Ms(t) <=> m * Milli <= t
<1>1. /\ Ms(t) \in Nat /\ Ms(t) * Milli \in Nat
      /\ Ms(t) * Milli <= t /\ t < Ms(t) * Milli + Milli
  BY MsBounds, Zenon
<1>2. CASE m <= Ms(t)
  <2>1. m * Milli <= Ms(t) * Milli
    <3>1. Ms(t) \in Int
      BY <1>1
    <3> QED BY <1>2, <3>1, Scaled, Zenon
  <2> QED BY <1>1, <1>2, <2>1, Units
<1>3. CASE Ms(t) + 1 <= m
  <2> DEFINE q == Ms(t) + 1
  <2>1. q * Milli <= m * Milli
    <3>1. q \in Int /\ q <= m
      BY <1>1, <1>3
    <3> QED BY <3>1, Scaled, Zenon
  <2>2. q * Milli = Ms(t) * Milli + Milli
    BY <1>1, Units
  <2> QED BY <1>1, <1>3, <2>1, <2>2, Units
<1> QED BY <1>1, <1>2, <1>3

\* The largest time.Duration.
LEMMA TopDuration == MaxDur \in Nat
<1>1. Width - 1 \in 0..Width
  BY UnitAssumption
<1>2. 2^(Width - 1) \in Nat \ {0}
  BY <1>1, UnitAssumption, Zenon
<1> QED BY <1>2 DEF MaxDur

\* A duration that fits is not wrapped.
LEMMA WrapIsInt ==
  ASSUME NEW n \in Int
  PROVE  Wrap(n) \in Int /\ (n \in 0..MaxDur => Wrap(n) = n)
BY TopDuration DEF Wrap

\* Go rounds a division towards zero.
LEMMA TruncIsInt ==
  ASSUME NEW n \in Int, NEW d \in Nat, d >= 1
  PROVE  Trunc(n, d) \in Int /\ (n >= 0 => Trunc(n, d) >= 0)
BY DEF Trunc

\* Milliseconds of a duration that is not negative is UnixMilli of it.
LEMMA MillisecondsOf ==
  ASSUME NEW n \in Int
  PROVE  Milliseconds(n) \in Int /\ (n >= 0 => Milliseconds(n) = Ms(n) /\ Milliseconds(n) >= 0)
BY Units, TruncIsInt, ZenonT(30) DEF Milliseconds, Trunc, Ms

\* A job is delayed by at least a millisecond.
LEMMA DelayMillisPositive ==
  ASSUME NEW n \in Int
  PROVE  DelayMillis(n) \in Nat /\ DelayMillis(n) >= 1
BY MillisecondsOf DEF DelayMillis, Larger

-----------------------------------------------------------------------------
(* The options of a job *)

\* parseBackoff gives numbers.
LEMMA BackoffParsed ==
  ASSUME NEW s \in Settings, ParseJobOpts(s.raw).backoff # <<>>
  PROVE  /\ ParseJobOpts(s.raw).backoff[1].delay = Wrap(s.raw.backoff.delay * Milli)
         /\ ParseJobOpts(s.raw).backoff[1].delay \in Int
         /\ ParseJobOpts(s.raw).backoff[1].jitter \in Int
<1> DEFINE v == s.raw.backoff
           b == ParseBackoffOpt(v)
<1>1. ParseJobOpts(s.raw).backoff = b
  BY Zenon DEF ParseJobOpts
<1>2. v.delay \in Int /\ v.jitter \in Int
  BY TimingAssumption, Zenon
<1>3. Wrap(v.delay * Milli) \in Int
  BY <1>2, WrapIsInt, Units
<1>4. b # <<>> => b[1].delay = Wrap(v.delay * Milli) /\ b[1].jitter \in {0, v.jitter}
  BY Zenon DEF ParseBackoffOpt
<1> QED BY <1>1, <1>2, <1>3, <1>4

\* applyJitter gives a number.
LEMMA JitterIsInt ==
  ASSUME NEW base \in Int, NEW jitter \in Int, NEW r \in 0..3
  PROVE  ApplyJitter(base, jitter, r) \in Int
<1> DEFINE j == IF jitter > 4 THEN 4 ELSE jitter
           n == base * r * j + base * (4 - j) * 4
<1>1. j \in Int
  OBVIOUS
<1> HIDE DEF j
<1>2. n \in Int
  BY <1>1
<1>3. ApplyJitter(base, jitter, r) = IF jitter <= 0 THEN base ELSE Trunc(n, 16)
  BY Zenon DEF ApplyJitter, j
<1> HIDE DEF n
<1> QED BY <1>2, <1>3, TruncIsInt

\* The built-in curves give numbers.
LEMMA CurveIsInt ==
  ASSUME NEW b, b.delay \in Int, NEW n \in Nat \ {0}
  PROVE  ComputeBackoffDelay(b, n) \in Int
<1>1. CASE n - 1 >= Width - 1
  BY <1>1, TopDuration DEF ComputeBackoffDelay
<1>2. CASE n - 1 < Width - 1
  <2>1. n - 1 \in 0..Width
    BY <1>2, UnitAssumption
  <2>2. 2^(n - 1) \in Nat
    BY <2>1, UnitAssumption, Zenon
  <2> DEFINE q == 2^(n - 1)
             p == b.delay * q
  <2>3. p \in Int
    BY <2>2
  <2>4. ComputeBackoffDelay(b, n) \in {b.delay, MaxDur, Wrap(p)}
    BY Zenon DEF ComputeBackoffDelay
  <2> HIDE DEF p, q
  <2> QED BY <2>3, <2>4, TopDuration, WrapIsInt
<1> QED BY <1>1, <1>2, UnitAssumption

\* computeRetryDelay gives a number, whichever hook decides.
LEMMA RetryDelayIsInt ==
  ASSUME NEW s \in Settings, NEW n \in Nat \ {0}, NEW r \in s.rands
  PROVE  ComputeRetryDelay(ParseJobOpts(s.raw).backoff, s.hooks, n, r) \in Int
<1> DEFINE backoff == ParseJobOpts(s.raw).backoff
<1>1. /\ s.hooks.override.delay \in Int /\ s.hooks.func.delay \in Int
      /\ s.hooks.plain.delay \in Int /\ r \in 0..3
  BY TimingAssumption, Zenon
<1>2. CallBackoffStrategy(s.hooks) \in Int
  BY <1>1 DEF CallBackoffStrategy
<1>3. ASSUME backoff # <<>>
      PROVE  ApplyJitter(ComputeBackoffDelay(backoff[1], n), backoff[1].jitter, r) \in Int
  <2>1. backoff[1].delay \in Int /\ backoff[1].jitter \in Int
    BY <1>3, BackoffParsed, Zenon
  <2> HIDE DEF backoff
  <2>2. ComputeBackoffDelay(backoff[1], n) \in Int
    BY <2>1, CurveIsInt, Zenon
  <2> QED BY <1>1, <2>1, <2>2, JitterIsInt, Zenon
<1> HIDE DEF backoff
<1> QED BY <1>1, <1>2, <1>3 DEF ComputeRetryDelay, backoff

\* A pointer of AddOptions is nil or points to a number.
LEMMA PointerCases ==
  ASSUME NEW p, IsPointer(p)
  PROVE  p = <<>> \/ (p[1] \in Int /\ p = <<p[1]>>)
<1>1. p \in Seq(Int) /\ Len(p) \in Nat /\ Len(p) <= 1
  BY DEF IsPointer
<1>2. CASE Len(p) = 0
  BY <1>1, <1>2
<1>3. CASE Len(p) = 1
  <2>1. p[1] \in Int
    BY <1>1, <1>3
  <2> DEFINE q == <<p[1]>>
  <2>2. q \in Seq(Int) /\ Len(q) = 1 /\ q[1] = p[1]
    BY <2>1
  <2>3. DOMAIN p = 1..1 /\ DOMAIN q = 1..1
    BY <1>1, <1>3, <2>2
  <2>4. \A i \in 1..1 : p[i] = q[i]
    BY <2>2
  <2> HIDE DEF q
  <2>5. p = q
    BY <1>1, <1>3, <2>2, <2>3, <2>4
  <2> QED BY <2>1, <2>5, Zenon DEF q
<1>4. \A n \in Nat : n <= 1 => n = 0 \/ n = 1
  OBVIOUS
<1>5. Len(p) = 0 \/ Len(p) = 1
  BY <1>1, <1>4, Zenon
<1> QED BY <1>2, <1>3, <1>5, Zenon

\* A retention limit reaches the script as it was asked for.
LEMMA LimitSurvives ==
  ASSUME NEW count, IsPointer(count), NEW age, IsPointer(age)
  PROVE  /\ KeepJobs(ParseRemoveOpt(BuildRetentionLimit(count, age))) = Asked(count, age)
         /\ LET v == BuildRetentionLimit(count, age) IN v.age = <<>> \/ v.age[1] > 0
<1> DEFINE v == BuildRetentionLimit(count, age)
<1>1. count = <<>> \/ (count[1] \in Int /\ count = <<count[1]>>)
  BY PointerCases, Zenon
<1>2. age = <<>> \/ (age[1] \in Int /\ age = <<age[1]>>)
  BY PointerCases, Zenon
<1> DEFINE long == age # <<>> /\ age[1] >= Second
<1>3. CASE ~ long
  <2>1. v = EncodeRetentionLimit(count, <<>>) \/
          \E secs \in Int : secs <= 0 /\ v = EncodeRetentionLimit(count, <<secs>>)
    <3>1. CASE age = <<>>
      BY <3>1, Zenon DEF BuildRetentionLimit
    <3>2. CASE age # <<>>
      <4>1. age[1] \in Int /\ age[1] < Second
        BY <1>2, <1>3, <3>2, Units
      <4>2. Trunc(age[1], Second) \in Int /\ Trunc(age[1], Second) <= 0
        BY <4>1, Units, SMTT(30) DEF Trunc
      <4> QED BY <3>2, <4>2, Zenon DEF BuildRetentionLimit
    <3> QED BY <3>1, <3>2, Zenon
  <2>2. v = IF count = <<>> THEN Absent ELSE NumberValue(count[1])
    BY <2>1, Zenon DEF EncodeRetentionLimit
  <2> HIDE DEF v
  <2>3. v.age = <<>> /\ ParseRemoveOpt(v) = [count |-> count, age |-> <<>>]
    <3>1. CASE count = <<>>
      BY <2>2, <3>1, Zenon DEF Absent, ParseRemoveOpt, KeepAll
    <3>2. CASE count # <<>>
      <4>1. v.kind = "number" /\ v.num = count[1] /\ v.age = <<>>
        BY <2>2, <3>2, Zenon DEF NumberValue, Absent
      <4> QED BY <1>1, <3>2, <4>1, Zenon DEF ParseRemoveOpt, KeepAll
    <3> QED BY <3>1, <3>2, Zenon
  <2>4. KeepJobs(ParseRemoveOpt(v)) = [count |-> count, age |-> <<>>]
    BY <2>3 DEF KeepJobs
  <2>5. Asked(count, age) = [count |-> count, age |-> <<>>]
    BY <1>3, Zenon DEF Asked
  <2> QED BY <2>3, <2>4, <2>5, Zenon DEF v
<1>4. CASE long
  <2> DEFINE secs == age[1] \div Second
  <2>1. age[1] \in Int /\ age[1] >= Second /\ age # <<>>
    BY <1>2, <1>4, Zenon
  <2>2. Trunc(age[1], Second) = secs /\ secs \in Int /\ secs > 0
    BY <2>1, Units DEF Trunc
  <2> HIDE DEF secs
  <2>3. v = [Absent EXCEPT !.kind = "object", !.count = count, !.age = <<secs>>]
    BY <2>1, <2>2 DEF BuildRetentionLimit, EncodeRetentionLimit
  <2> HIDE DEF v
  <2>4. v.kind = "object" /\ v.count = count /\ v.age = <<secs>>
    BY <2>3, Zenon DEF Absent
  <2>5. ParseRemoveOpt(v) = [count |-> count, age |-> <<secs>>]
    BY <2>4, Zenon DEF ParseRemoveOpt
  <2>6. KeepJobs(ParseRemoveOpt(v)) = [count |-> count, age |-> <<secs>>]
    BY <2>2, <2>5 DEF KeepJobs
  <2>7. Asked(count, age) = [count |-> count, age |-> <<secs>>]
    BY <2>1, Zenon DEF Asked, secs
  <2> QED BY <2>2, <2>4, <2>6, <2>7 DEF v
<1> QED BY <1>3, <1>4, Zenon

\* A duration comes back to the millisecond.
LEMMA DurationSurvives ==
  ASSUME NEW d \in 0..MaxDur
  PROVE  d - Wrap(Milliseconds(d) * Milli) \in 0..Milli - 1
<1>1. d \in Nat /\ d <= MaxDur /\ MaxDur \in Nat
  BY TopDuration
<1>2. Milliseconds(d) = Ms(d)
  BY <1>1, MillisecondsOf
<1> DEFINE n == Ms(d) * Milli
<1>3. n \in Nat /\ n <= d /\ d < n + Milli
  BY <1>1, MsBounds, Zenon
<1> HIDE DEF n
<1>4. n \in Int /\ n \in 0..MaxDur
  BY <1>1, <1>3
<1>5. Wrap(n) = n
  BY <1>4, WrapIsInt, Zenon
<1>6. d - n \in 0..Milli - 1
  BY <1>1, <1>3, Units
<1> QED BY <1>2, <1>5, <1>6, Zenon DEF n

\* The backoff that Add encodes is the one the worker parses.
LEMMA BackoffSurvives ==
  ASSUME NEW b, b # <<>>, b[1].delay \in 0..MaxDur, b[1].type # ""
  PROVE  LET p == ParseBackoffOpt(EncodeBackoff(b))
         IN  /\ p[1].type = b[1].type /\ b[1].delay - p[1].delay \in 0..Milli - 1
             /\ p[1].jitter = (IF b[1].jitter > 0 THEN b[1].jitter ELSE 0)
<1> DEFINE d == b[1].delay
           v == EncodeBackoff(b)
           p == ParseBackoffOpt(v)
<1>1. v.kind = "object" /\ v.type = b[1].type /\ v.delay = Milliseconds(d)
      /\ v.jitter = (IF b[1].jitter > 0 THEN b[1].jitter ELSE 0)
  BY Zenon DEF EncodeBackoff
<1>2. d - Wrap(Milliseconds(d) * Milli) \in 0..Milli - 1
  BY DurationSurvives, Zenon
<1> HIDE DEF v
<1>3. p[1].type = v.type /\ p[1].delay = Wrap(v.delay * Milli) /\ p[1].jitter = v.jitter
  BY <1>1, ZenonT(30) DEF ParseBackoffOpt
<1> HIDE DEF p, d
<1> QED BY <1>1, <1>2, <1>3, Zenon DEF p, v, d

\* What Add encodes the worker parses, for every setting.
LEMMA OptionsSurviveAlways == setting \in Settings => OptionsSurvive
<1> SUFFICES ASSUME setting \in Settings, setting.own # <<>> PROVE OptionsSurvive
  BY Zenon DEF OptionsSurvive
<1> DEFINE c == setting.own[1]
<1>1. /\ setting.raw = EncodeAddOpts(c)
      /\ IsPointer(c.keepCompleted) /\ IsPointer(c.keepCompletedAge)
      /\ IsPointer(c.keepFailed) /\ IsPointer(c.keepFailedAge)
      /\ c.backoff # <<>> => c.backoff[1].delay \in 0..MaxDur
  BY TimingAssumption, Zenon
<1> HIDE DEF c
<1>2. /\ setting.raw.ok = TRUE /\ setting.raw.attempts = c.attempts
      /\ setting.raw.backoff = EncodeBackoff(c.backoff)
      /\ setting.raw.removeOnComplete = BuildRetentionLimit(c.keepCompleted, c.keepCompletedAge)
      /\ setting.raw.removeOnFail = BuildRetentionLimit(c.keepFailed, c.keepFailedAge)
  BY <1>1 DEF EncodeAddOpts
<1>3. /\ Opts.attempts = c.attempts
      /\ Opts.backoff = ParseBackoffOpt(EncodeBackoff(c.backoff))
      /\ Opts.removeOnComplete
           = ParseRemoveOpt(BuildRetentionLimit(c.keepCompleted, c.keepCompletedAge))
      /\ Opts.removeOnFail = ParseRemoveOpt(BuildRetentionLimit(c.keepFailed, c.keepFailedAge))
  BY <1>2, Zenon DEF Opts, ParseJobOpts
<1>4. KeepJobs(Opts.removeOnComplete) = Asked(c.keepCompleted, c.keepCompletedAge)
  BY <1>1, <1>3, LimitSurvives, Zenon
<1>5. KeepJobs(Opts.removeOnFail) = Asked(c.keepFailed, c.keepFailedAge)
  BY <1>1, <1>3, LimitSurvives, Zenon
<1>6. \A v \in {setting.raw.removeOnComplete, setting.raw.removeOnFail} :
        v.age = <<>> \/ v.age[1] > 0
  BY <1>1, <1>2, LimitSurvives, Zenon
<1>7. ASSUME c.backoff # <<>>, c.backoff[1].type # ""
      PROVE  /\ Opts.backoff[1].type = c.backoff[1].type
             /\ Opts.backoff[1].jitter = (IF c.backoff[1].jitter > 0 THEN c.backoff[1].jitter ELSE 0)
             /\ c.backoff[1].delay - Opts.backoff[1].delay \in 0..Milli - 1
  BY <1>1, <1>3, <1>7, BackoffSurvives, Zenon
<1> QED BY <1>3, <1>4, <1>5, <1>6, <1>7, ZenonT(30) DEF OptionsSurvive, c

-----------------------------------------------------------------------------
(* What the scripts make of the job *)

Place == {"wait", "delayed", "active", "completed", "failed", "gone"}

History == [traces : Nat, starts : Seq(Nat)]

IsJob(j) ==
  /\ DOMAIN j = {"at", "due", "atm", "stc", "ats", "defa", "owner", "lockEnd", "marked",
                 "processedOn", "history"}
  /\ j.at \in Place /\ j.due \in Int /\ j.atm \in Nat /\ j.owner \in Worker \cup {Nobody}
  /\ j.lockEnd \in Nat /\ j.processedOn \in Nat /\ j.history \in History

\* A recorded failure adds a trace and a start.
LEMMA RecordedIs ==
  ASSUME NEW h \in History, NEW start \in Nat
  PROVE  /\ Recorded(h, start) \in History
         /\ Recorded(h, start).traces = h.traces + 1
         /\ Recorded(h, start).starts = Append(h.starts, start)
BY DEF Recorded, History

\* A finished job has no owner, no lock and no mark.
LEMMA FinishedIs ==
  ASSUME IsJob(job), NEW to \in {"completed", "failed"}, NEW keep, NEW history \in History
  PROVE  LET f == Finished(to, keep, history)
         IN  /\ IsJob(f) /\ f.at \in {to, "gone"} /\ f.owner = Nobody
             /\ f.marked = FALSE /\ f.atm = job.atm + 1 /\ f.history = history
             /\ f.processedOn = job.processedOn
<1> DEFINE f == Finished(to, keep, history)
<1>1. f.at \in {to, "gone"} /\ f.owner = Nobody /\ f.marked = FALSE /\ f.atm = job.atm + 1
      /\ f.history = history /\ f.processedOn = job.processedOn
  BY Zenon DEF Finished, IsJob
<1>2. IsJob(f)
  BY DEF Finished, IsJob, Place
<1> QED BY <1>1, <1>2, Zenon

\* What finalising leaves of a job, outcome by outcome.
LEMMA FinalisedIs ==
  ASSUME IsJob(job), setting \in Settings, now \in Nat, NEW w, snap[w] \in History,
         NEW outcome \in setting.outcomes, NEW r \in setting.rands
  PROVE  LET f == Finalised(w, outcome, r)
         IN  /\ IsJob(f) /\ f.at # "active" /\ f.owner = Nobody /\ f.marked = FALSE
             /\ f.processedOn = job.processedOn
             /\ \/ outcome = "ok" /\ f.at \in {"completed", "gone"} /\ f.history = job.history
                \/ /\ outcome = "delay" /\ f.at = "delayed" /\ f.history = job.history
                   /\ f.atm = job.atm
                \/ /\ outcome \in {"error", "unrecoverable"}
                   /\ f.history = Recorded(snap[w], job.processedOn) /\ f.atm = job.atm + 1
                   /\ \/ f.at \in {"failed", "gone"}
                      \/ f.at \in {"wait", "delayed"} /\ job.atm + 1 < Opts.attempts
<1> DEFINE f == Finalised(w, outcome, r)
           history == Recorded(snap[w], job.processedOn)
           delay == ComputeRetryDelay(Opts.backoff, setting.hooks, job.atm + 1, r)
<1>1. history \in History /\ job.history \in History
  BY RecordedIs, Zenon DEF IsJob
<1>2. outcome \in {"ok", "error", "unrecoverable", "delay"} /\ setting.asked \in Int
  BY TimingAssumption, Zenon
<1>3. delay \in Int
  <2>1. job.atm + 1 \in Nat \ {0}
    BY DEF IsJob
  <2> QED BY <2>1, RetryDelayIsInt, Zenon DEF Opts
<1> HIDE DEF history, delay
<1>4. /\ outcome = "ok" =>
           f = Finished("completed", KeepJobs(Opts.removeOnComplete), job.history)
      /\ outcome = "delay" =>
           f = [Unlocked("delayed") EXCEPT !.due = Ms(now) + DelayMillis(setting.asked)]
      /\ outcome \in {"error", "unrecoverable"} =>
           \/ f = Finished("failed", KeepJobs(Opts.removeOnFail), history)
           \/ /\ ShouldRetry(Opts, job.atm, outcome)
              /\ \/ f = [Unlocked("delayed") EXCEPT !.due = Ms(now) + DelayMillis(delay),
                                                    !.atm = @ + 1, !.history = history]
                 \/ f = [Unlocked("wait") EXCEPT !.atm = @ + 1, !.history = history]
  BY Zenon DEF Finalised, history, delay
<1> HIDE DEF f
<1>5. CASE outcome = "ok"
  <2>1. f = Finished("completed", KeepJobs(Opts.removeOnComplete), job.history)
    BY <1>4, <1>5, Zenon
  <2>2. /\ IsJob(f) /\ f.at \in {"completed", "gone"} /\ f.owner = Nobody
        /\ f.marked = FALSE /\ f.history = job.history /\ f.processedOn = job.processedOn
    <3> DEFINE keep == KeepJobs(Opts.removeOnComplete)
               g == Finished("completed", keep, job.history)
    <3>1. f = g
      BY <2>1, Zenon
    <3> HIDE DEF keep
    <3>2. /\ IsJob(g) /\ g.at \in {"completed", "gone"} /\ g.owner = Nobody
          /\ g.marked = FALSE /\ g.history = job.history /\ g.processedOn = job.processedOn
      BY <1>1, FinishedIs, ZenonT(30)
    <3> HIDE DEF g
    <3> QED BY <3>1, <3>2, Zenon
  <2> QED BY <1>5, <2>2, Zenon DEF f
<1>6. CASE outcome = "delay"
  <2> DEFINE due == Ms(now) + DelayMillis(setting.asked)
  <2>1. due \in Int
    BY <1>2, MsBounds, DelayMillisPositive
  <2>2. f = [Unlocked("delayed") EXCEPT !.due = due]
    BY <1>4, <1>6, Zenon
  <2> HIDE DEF due
  <2>3. /\ f.at = "delayed" /\ f.owner = Nobody /\ f.marked = FALSE /\ f.atm = job.atm
        /\ f.history = job.history /\ f.processedOn = job.processedOn
    BY <2>2, Zenon DEF Unlocked, IsJob
  <2>4. IsJob(f)
    BY <2>1, <2>2, Zenon DEF Unlocked, IsJob, Place
  <2> QED BY <1>6, <2>3, <2>4, Zenon DEF f
<1>7. CASE outcome \in {"error", "unrecoverable"}
  <2>1. CASE f = Finished("failed", KeepJobs(Opts.removeOnFail), history)
    <3>1. /\ IsJob(f) /\ f.at \in {"failed", "gone"} /\ f.owner = Nobody
          /\ f.marked = FALSE /\ f.atm = job.atm + 1 /\ f.history = history
          /\ f.processedOn = job.processedOn
      BY <1>1, <2>1, FinishedIs, ZenonT(30)
    <3> QED BY <1>7, <3>1, Zenon DEF f, history
  <2>2. CASE /\ ShouldRetry(Opts, job.atm, outcome)
             /\ f = [Unlocked("delayed") EXCEPT !.due = Ms(now) + DelayMillis(delay),
                                                !.atm = @ + 1, !.history = history]
    <3> DEFINE due == Ms(now) + DelayMillis(delay)
    <3>1. due \in Int
      BY <1>3, MsBounds, DelayMillisPositive
    <3> HIDE DEF due
    <3>2. f = [Unlocked("delayed") EXCEPT !.due = due, !.atm = @ + 1, !.history = history]
      BY <2>2, Zenon DEF due
    <3>3. /\ f.at = "delayed" /\ f.owner = Nobody /\ f.marked = FALSE /\ f.atm = job.atm + 1
          /\ f.history = history /\ f.processedOn = job.processedOn
      BY <3>2, Zenon DEF Unlocked, IsJob
    <3>4. IsJob(f)
      BY <1>1, <3>1, <3>2 DEF Unlocked, IsJob, Place
    <3> QED BY <1>7, <2>2, <3>3, <3>4, Zenon DEF f, history, ShouldRetry
  <2>3. CASE /\ ShouldRetry(Opts, job.atm, outcome)
             /\ f = [Unlocked("wait") EXCEPT !.atm = @ + 1, !.history = history]
    <3>1. /\ f.at = "wait" /\ f.owner = Nobody /\ f.marked = FALSE /\ f.atm = job.atm + 1
          /\ f.history = history /\ f.processedOn = job.processedOn
      BY <2>3, Zenon DEF Unlocked, IsJob
    <3>2. IsJob(f)
      BY <1>1, <2>3 DEF Unlocked, IsJob, Place
    <3> QED BY <1>7, <2>3, <3>1, <3>2, Zenon DEF f, history, ShouldRetry
  <2> QED BY <1>4, <1>7, <2>1, <2>2, <2>3, Zenon
<1> QED BY <1>2, <1>5, <1>6, <1>7, Zenon

\* What a scan leaves of a job.
LEMMA SweptIs ==
  ASSUME IsJob(job)
  PROVE  /\ IsJob(Swept) /\ Swept.atm = job.atm /\ Swept.history = job.history
         /\ Swept.lockEnd = job.lockEnd /\ Swept.processedOn = job.processedOn
         /\ Swept.due = job.due
         /\ \/ /\ job.at = "active" /\ job.marked /\ ~Locked
               /\ Swept.at = "wait" /\ Swept.owner = Nobody /\ ~Swept.marked
            \/ /\ ~ (job.at = "active" /\ job.marked /\ ~Locked)
               /\ Swept.at = job.at /\ Swept.owner = job.owner
               /\ Swept.marked <=> job.at = "active"
<1> DEFINE back == job.marked /\ job.at = "active" /\ ~Locked
           moved == [job EXCEPT !.at = "wait", !.owner = Nobody, !.stc = @ + 1,
                                !.defa = @ \/ job.stc + 1 > setting.maxStalled]
           left == IF back THEN moved ELSE job
<1>1. Swept = [left EXCEPT !.marked = (left.at = "active")]
  BY Zenon DEF Swept
<1>2. CASE back
  <2>1. /\ IsJob(moved) /\ moved.at = "wait" /\ moved.owner = Nobody
        /\ moved.atm = job.atm /\ moved.history = job.history /\ moved.lockEnd = job.lockEnd
        /\ moved.processedOn = job.processedOn /\ moved.due = job.due
    BY Zenon DEF IsJob, Place
  <2>2. left = moved
    BY <1>2, Zenon
  <2> HIDE DEF moved, left
  <2>3. Swept = [moved EXCEPT !.marked = FALSE]
    BY <1>1, <2>1, <2>2, Zenon
  <2> QED BY <1>2, <2>1, <2>3, Zenon DEF IsJob
<1>3. CASE ~back
  <2>1. Swept = [job EXCEPT !.marked = (job.at = "active")]
    BY <1>1, <1>3, Zenon
  <2> QED BY <1>3, <2>1, Zenon DEF IsJob
<1> QED BY <1>2, <1>3, Zenon

-----------------------------------------------------------------------------
(* The timers *)

Pc == {"asking", "sleeping", "napping", "parked", "running", "dead"}

Timer == Nat \cup {-1}

Types ==
  /\ setting \in Settings /\ now \in Nat /\ IsJob(job) /\ fails \in Nat
  /\ pc \in [Worker -> Pc] /\ until \in [Worker -> Nat]
  /\ beat \in [Worker -> Timer] /\ scan \in [Worker -> Timer]
  /\ idleWait \in [Worker -> Nat] /\ snap \in [Worker -> History]

\* Only an active job has an owner or the mark of a scan.
Held ==
  /\ job.at = "active" <=> job.owner # Nobody
  /\ job.at # "active" => ~job.marked

\* No timer of w is in the past, w scans while it lives, and its waits are bounded.
OnTime(w) ==
  /\ pc[w] \in {"sleeping", "napping", "parked", "running"} => until[w] >= now
  /\ beat[w] # -1 => pc[w] = "running" /\ beat[w] >= now
  /\ scan[w] # -1 => pc[w] # "dead" /\ scan[w] >= now
  /\ pc[w] # "dead" /\ setting.interval > 0 => scan[w] # -1
  /\ setting.idle <= idleWait[w] /\ idleWait[w] <= Larger(MaxIdleWait, setting.idle)
  /\ Idle(w) => until[w] <= now + Larger(MaxIdleWait, setting.idle)
  /\ pc[w] = "napping" => \E t \in NapTimes : until[w] <= now + t

TimeInv == Types /\ Held /\ \A w \in Worker : OnTime(w)

\* The numbers of a setting.
LEMMA SettingFacts ==
  ASSUME Types
  PROVE  /\ setting.lock \in Nat /\ setting.lock >= Milli /\ setting.interval \in Nat
         /\ setting.idle \in Nat /\ setting.idle >= 1 /\ setting.durations \subseteq Nat
         /\ setting.scanTimes \subseteq Nat /\ MaxIdleWait \in Nat /\ MaxIdleWait >= Second
         /\ Larger(MaxIdleWait, setting.idle) \in Nat
         /\ MaxIdleWait <= Larger(MaxIdleWait, setting.idle)
         /\ setting.idle <= Larger(MaxIdleWait, setting.idle)
         /\ NapTimes \subseteq Nat /\ setting.cooldowns \subseteq Nat /\ setting.others \subseteq Nat
<1>1. /\ setting.lock \in Nat /\ setting.lock >= Milli /\ setting.interval \in Nat
      /\ setting.idle \in Nat \ {0} /\ setting.durations \subseteq Nat
      /\ setting.scanTimes \subseteq Nat /\ MaxIdleWait \in Nat /\ MaxIdleWait >= Second
  BY TimingAssumption, Zenon DEF Types
<1>2. /\ Larger(MaxIdleWait, setting.idle) \in Nat /\ setting.idle \in Nat /\ setting.idle >= 1
      /\ MaxIdleWait <= Larger(MaxIdleWait, setting.idle)
      /\ setting.idle <= Larger(MaxIdleWait, setting.idle)
  BY <1>1 DEF Larger
<1>3. setting.cooldowns \subseteq Nat /\ setting.others \subseteq Nat
  BY TimingAssumption, Zenon DEF Types
<1>4. Second \in Nat
  BY Units, ZenonT(30)
<1>5. NapTimes \subseteq Nat
  BY <1>2, <1>3, <1>4, Zenon DEF NapTimes
<1> QED BY <1>1, <1>2, <1>3, <1>5, Zenon

\* The ticks of the heartbeat and the lifetime of the lock.
LEMMA TickIs ==
  ASSUME Types
  PROVE  Tick \in Nat /\ Milliseconds(setting.lock) \in Nat
         /\ Milliseconds(setting.lock) = Ms(setting.lock)
<1>1. setting.lock \in Nat
  BY SettingFacts, Zenon
<1>2. Milliseconds(setting.lock) = Ms(setting.lock) /\ Milliseconds(setting.lock) \in Nat
  BY <1>1, MillisecondsOf
<1>3. setting.lock \div 2 \in Nat /\ Second \in Nat
  BY <1>1, Units
<1> QED BY <1>2, <1>3, Zenon DEF Tick, Larger

\* At the start no timer is in the past.
LEMMA TimeInit == Init => TimeInv
<1> SUFFICES ASSUME Init PROVE TimeInv
  BY Zenon
<1>1. Milli \in Nat /\ now = Milli /\ setting \in Settings
  BY Units, ZenonT(30) DEF Init
<1>2. setting.interval \in Nat /\ setting.idle \in Nat /\ setting.first \in [Worker -> 0..setting.interval]
  BY <1>1, TimingAssumption, Zenon
<1>3. NoHistory \in History
  <2>1. <<>> \in Seq(Nat) /\ 0 \in Nat
    OBVIOUS
  <2> QED BY <2>1, Zenon DEF NoHistory, History
<1>4. IsJob(job) /\ job.at = "wait" /\ job.owner = Nobody /\ job.marked = FALSE
  BY <1>3 DEF Init, IsJob, Place
<1>5. ASSUME NEW w \in Worker
      PROVE  /\ FirstScan(w) \in Timer
             /\ FirstScan(w) # -1 => w \in setting.running /\ FirstScan(w) >= now
             /\ w \in setting.running /\ setting.interval > 0 => FirstScan(w) # -1
  <2>1. setting.first[w] \in Nat
    BY <1>2
  <2>2. Milli + setting.first[w] \in Nat /\ Milli + setting.first[w] >= now
    BY <1>1, <2>1
  <2>3. FirstScan(w) = IF setting.interval > 0 /\ w \in setting.running
                         THEN Milli + setting.first[w] ELSE -1
    BY Zenon DEF FirstScan
  <2> QED BY <1>2, <2>2, <2>3 DEF Timer
<1>6. Types
  <2>1. fails \in Nat /\ pc \in [Worker -> Pc] /\ until \in [Worker -> Nat]
    BY Zenon DEF Init, Pc
  <2>2. beat \in [Worker -> Timer] /\ idleWait \in [Worker -> Nat]
    BY <1>2, Zenon DEF Init, Timer
  <2>3. scan \in [Worker -> Timer] /\ snap \in [Worker -> History]
    BY <1>3, <1>5, Zenon DEF Init
  <2> QED BY <1>1, <1>4, <2>1, <2>2, <2>3, Zenon DEF Types
<1>7. Held
  BY <1>4, Zenon DEF Held
<1>8. ASSUME NEW w \in Worker PROVE OnTime(w)
  <2>1. /\ pc[w] = IF w \in setting.running THEN "asking" ELSE "dead"
        /\ beat[w] = -1 /\ scan[w] = FirstScan(w) /\ idleWait[w] = setting.idle
    BY Zenon DEF Init
  <2> QED BY <1>5, <1>6, <2>1, SettingFacts DEF OnTime, Idle
<1> QED BY <1>6, <1>7, <1>8, Zenon DEF TimeInv

\* A step of w leaves the timers of the others alone.
Alone(w) ==
  /\ setting' = setting /\ now' = now
  /\ pc' \in [Worker -> Pc] /\ until' \in [Worker -> Nat]
  /\ beat' \in [Worker -> Timer] /\ scan' \in [Worker -> Timer]
  /\ idleWait' \in [Worker -> Nat]
  /\ \A v \in Worker \ {w} :
       /\ pc'[v] = pc[v] /\ until'[v] = until[v] /\ beat'[v] = beat[v] /\ scan'[v] = scan[v]
       /\ idleWait'[v] = idleWait[v]

\* A step of one worker leaves the timers of the others alone.
LEMMA OneMoves ==
  ASSUME TimeInv, NEW w \in Worker, Alone(w), IsJob(job'), Held', fails' \in Nat,
         snap' \in [Worker -> History], OnTime(w)'
  PROVE  TimeInv'
<1>1. Types'
  BY Zenon DEF TimeInv, Types, Alone
<1>2. ASSUME NEW v \in Worker PROVE OnTime(v)'
  <2>1. CASE v = w
    BY <2>1, Zenon
  <2>2. CASE v # w
    <3>1. NapTimes' = NapTimes
      BY Zenon DEF Alone, NapTimes
    <3> QED BY <2>2, <3>1, Zenon DEF TimeInv, Alone, OnTime, Idle
  <2> QED BY <2>1, <2>2, Zenon
<1> QED BY <1>1, <1>2, Zenon DEF TimeInv

\* What Take makes of the job.
LEMMA TakeIs ==
  ASSUME Types, NEW w \in Worker, Take(w)
  PROVE  /\ IsJob(job') /\ job'.processedOn = Ms(now) /\ Ms(now) \in Nat
         /\ \/ /\ job'.at \in {"failed", "gone"} /\ job'.owner = Nobody /\ ~job'.marked
               /\ job'.atm = job.atm + 1 /\ job'.history = Recorded(job.history, Ms(now))
               /\ fails' = fails + 1 /\ UNCHANGED <<pc, until, beat, snap>>
            \/ /\ job'.at = "active" /\ job'.owner = w /\ job'.marked = job.marked
               /\ job'.atm = job.atm /\ job'.history = job.history /\ job'.due = job.due
               /\ job'.lockEnd = Ms(now) + Ms(setting.lock)
               /\ pc' = [pc EXCEPT ![w] = "running"] /\ fails' = fails
               /\ \E d \in setting.durations : until' = [until EXCEPT ![w] = now + d]
               /\ beat' = [beat EXCEPT ![w] = now + Tick]
               /\ snap' = [snap EXCEPT ![w] = job.history]
<1>1. IsJob(job) /\ now \in Nat /\ Ms(now) \in Nat
  BY MsBounds, Zenon DEF Types
<1>2. CASE job.defa
  <2> DEFINE f == Finished("failed", KeepJobs(Opts.removeOnFail), Recorded(job.history, Ms(now)))
  <2>1. Recorded(job.history, Ms(now)) \in History
    BY <1>1, RecordedIs, Zenon DEF IsJob
  <2>2. /\ IsJob(f) /\ f.at \in {"failed", "gone"} /\ f.owner = Nobody
        /\ f.marked = FALSE /\ f.atm = job.atm + 1 /\ f.history = Recorded(job.history, Ms(now))
    BY <1>1, <2>1, FinishedIs, ZenonT(30)
  <2>3. job' = [f EXCEPT !.ats = @ + 1, !.processedOn = Ms(now)]
        /\ fails' = fails + 1 /\ UNCHANGED <<pc, until, beat, snap>>
    BY <1>2, Zenon DEF Take
  <2> HIDE DEF f
  <2>4. IsJob(job') /\ job'.processedOn = Ms(now) /\ job'.at = f.at /\ job'.owner = f.owner
        /\ job'.marked = f.marked /\ job'.atm = f.atm /\ job'.history = f.history
    BY <1>1, <2>2, <2>3, Zenon DEF IsJob
  <2> QED BY <1>1, <2>2, <2>3, <2>4, Zenon
<1>3. CASE ~job.defa
  <2>1. /\ job' = [job EXCEPT !.at = "active", !.owner = w, !.ats = @ + 1,
                              !.lockEnd = Ms(now) + Milliseconds(setting.lock),
                              !.processedOn = Ms(now)]
        /\ pc' = [pc EXCEPT ![w] = "running"] /\ fails' = fails
        /\ \E d \in setting.durations : until' = [until EXCEPT ![w] = now + d]
        /\ beat' = [beat EXCEPT ![w] = now + Tick]
        /\ snap' = [snap EXCEPT ![w] = job.history]
    BY <1>3, Zenon DEF Take
  <2>2. Milliseconds(setting.lock) = Ms(setting.lock) /\ Ms(now) + Milliseconds(setting.lock) \in Nat
    BY <1>1, TickIs
  <2>3. /\ IsJob(job') /\ job'.at = "active" /\ job'.owner = w /\ job'.marked = job.marked
        /\ job'.atm = job.atm /\ job'.history = job.history /\ job'.due = job.due
        /\ job'.lockEnd = Ms(now) + Milliseconds(setting.lock)
        /\ job'.processedOn = Ms(now)
    BY <1>1, <2>1, <2>2, Zenon DEF IsJob, Place
  <2> QED BY <1>1, <2>1, <2>2, <2>3, Zenon
<1> QED BY <1>2, <1>3, Zenon

\* The wait for a marker lasts a second at least, or as long as asked.
LEMMA MarkerWaitIs ==
  ASSUME NEW d \in Nat
  PROVE  /\ MarkerWait(d) \in Nat /\ MarkerWait(d) <= Larger(d, Second)
         /\ d >= Second => MarkerWait(d) <= d
BY Units DEF MarkerWait, Larger

\* The wait for a delayed job is bounded.
LEMMA DelayedWaitIs ==
  ASSUME NEW d \in Nat
  PROVE  /\ DelayedWait(d).time \in Nat /\ DelayedWait(d).time <= d
         /\ DelayedWait(d).time <= MaxIdleWait
         /\ \/ DelayedWait(d).pc = "sleeping" /\ DelayedWait(d).time = d
            \/ DelayedWait(d).pc = "parked"
<1> DEFINE m == IF d > MaxIdleWait THEN MaxIdleWait ELSE d
<1>1. MaxIdleWait \in Nat /\ MaxIdleWait >= Second /\ Second \in Nat
  BY Units, TimingAssumption, ZenonT(30)
<1>2. CASE d < Second
  <2>1. DelayedWait(d) = [pc |-> "sleeping", time |-> d]
    BY <1>2, Zenon DEF DelayedWait
  <2> QED BY <1>1, <1>2, <2>1
<1>3. CASE ~ (d < Second)
  <2>1. DelayedWait(d) = [pc |-> "parked", time |-> MarkerWait(m)]
    BY <1>3, Zenon DEF DelayedWait
  <2>2. m \in Nat /\ m >= Second /\ m <= d /\ m <= MaxIdleWait
    BY <1>1, <1>3
  <2> HIDE DEF m
  <2>3. MarkerWait(m) \in Nat /\ MarkerWait(m) <= m
    BY <2>2, MarkerWaitIs, Zenon
  <2>4. MarkerWait(m) <= d /\ MarkerWait(m) <= MaxIdleWait
    BY <1>1, <2>2, <2>3
  <2> QED BY <2>1, <2>3, <2>4
<1> QED BY <1>2, <1>3, Zenon

\* What FindNothing makes of the worker's wait.
LEMMA FindNothingIs ==
  ASSUME TimeInv, NEW w \in Worker, FindNothing(w)
  PROVE  /\ job.at # "wait" /\ ~IsDue
         /\ \E how \in {"sleeping", "parked"} : pc' = [pc EXCEPT ![w] = how]
         /\ \E t \in Nat : until' = [until EXCEPT ![w] = now + t]
                           /\ t <= Larger(MaxIdleWait, setting.idle)
         /\ \E t \in Nat : /\ idleWait' = [idleWait EXCEPT ![w] = t]
                           /\ setting.idle <= t /\ t <= Larger(MaxIdleWait, setting.idle)
         /\ job.at = "delayed" =>
              /\ until'[w] <= job.due * Milli /\ job.due * Milli \in Nat
              /\ pc'[w] = "sleeping" => until'[w] = job.due * Milli
         /\ job.at # "delayed" => pc'[w] = "parked"
         /\ UNCHANGED <<job, marker, beat, snap, fails>>
<1>1. Types /\ OnTime(w) /\ now \in Nat /\ job.due \in Int /\ idleWait[w] \in Nat
  BY Zenon DEF TimeInv, Types, IsJob
<1>2. idleWait = [idleWait EXCEPT ![w] = idleWait[w]]
  BY Zenon DEF TimeInv, Types
<1>3. job.at # "wait" /\ ~IsDue /\ UNCHANGED <<job, marker, beat, snap, fails>>
  BY Zenon DEF FindNothing
<1>4. CASE job.at = "delayed"
  <2> DEFINE d == job.due * Milli - now
             how == DelayedWait(d)
  <2>1. ~ (job.due <= Ms(now))
    BY <1>3, <1>4, Zenon DEF IsDue
  <2>2. ~ (job.due * Milli <= now)
    BY <1>1, <2>1, MsReached, Zenon
  <2>3. job.due * Milli \in Int
    BY <1>1, Units
  <2>4. d \in Nat /\ job.due * Milli \in Nat /\ now + d = job.due * Milli
    BY <1>1, <2>2, <2>3
  <2>5. /\ pc' = [pc EXCEPT ![w] = how.pc] /\ until' = [until EXCEPT ![w] = now + how.time]
        /\ idleWait' = idleWait
    BY <1>4, Zenon DEF FindNothing, Waits
  <2> HIDE DEF d
  <2>6. /\ how.time \in Nat /\ how.time <= d /\ how.time <= MaxIdleWait
        /\ \/ how.pc = "sleeping" /\ how.time = d
           \/ how.pc = "parked"
    BY <2>4, DelayedWaitIs, Zenon
  <2> HIDE DEF how
  <2>7. how.time <= Larger(MaxIdleWait, setting.idle)
    BY <1>1, <2>6, SettingFacts
  <2>8. pc'[w] = how.pc /\ until'[w] = now + how.time
    BY <1>1, <2>5, Zenon DEF Types
  <2>9. until'[w] <= job.due * Milli /\ (pc'[w] = "sleeping" => until'[w] = job.due * Milli)
    <3> DEFINE at == job.due * Milli
    <3>1. at \in Nat /\ now + d = at
      BY <2>4, Zenon
    <3> HIDE DEF at
    <3>2. now + how.time <= at /\ (how.time = d => now + how.time = at)
      BY <1>1, <2>4, <2>6, <3>1
    <3>3. until'[w] <= at /\ (pc'[w] = "sleeping" => until'[w] = at)
      BY <2>6, <2>8, <3>2, Zenon
    <3> QED BY <3>3, Zenon DEF at
  <2>10. setting.idle <= idleWait[w] /\ idleWait[w] <= Larger(MaxIdleWait, setting.idle)
    BY <1>1, Zenon DEF OnTime
  <2> QED BY <1>1, <1>2, <1>3, <1>4, <2>4, <2>5, <2>6, <2>7, <2>9, <2>10, Zenon
<1>5. CASE job.at # "delayed"
  <2> DEFINE t == MarkerWait(idleWait[w])
             n == NextIdleWait(idleWait[w])
             top == Larger(MaxIdleWait, setting.idle)
  <2>1. /\ pc' = [pc EXCEPT ![w] = "parked"] /\ until' = [until EXCEPT ![w] = now + t]
        /\ idleWait' = [idleWait EXCEPT ![w] = n]
    BY <1>5, Zenon DEF FindNothing, Waits
  <2>2. /\ top \in Nat /\ MaxIdleWait <= top /\ setting.idle <= top /\ MaxIdleWait \in Nat
        /\ setting.idle \in Nat /\ Second \in Nat /\ Second <= MaxIdleWait
        /\ setting.idle <= idleWait[w] /\ idleWait[w] <= top
    BY <1>1, SettingFacts, Units, ZenonT(30) DEF OnTime
  <2>3. t \in Nat /\ t <= Larger(idleWait[w], Second)
    BY <1>1, MarkerWaitIs, Zenon
  <2> HIDE DEF t, top
  <2>4. t <= top
    BY <1>1, <2>2, <2>3 DEF Larger
  <2>5. n \in Nat /\ setting.idle <= n /\ n <= top
    BY <1>1, <2>2 DEF NextIdleWait
  <2> HIDE DEF n
  <2>6. pc'[w] = "parked"
    BY <1>1, <2>1, Zenon DEF Types
  <2> QED BY <1>3, <1>5, <2>1, <2>3, <2>4, <2>5, <2>6, Zenon DEF top
<1> QED BY <1>4, <1>5, Zenon

\* A delayed job that is promoted, and nothing else of it.
Promoted ==
  /\ job.at = "delayed" /\ job.due <= Ms(now) /\ marker'
  /\ IsJob(job') /\ job'.at = "wait" /\ job'.owner = job.owner /\ job'.marked = job.marked
  /\ job'.atm = job.atm /\ job'.history = job.history /\ job'.processedOn = job.processedOn

\* The naps that may follow on a marker
MayNap == setting.unreliable \/ setting.cooldowns # {}

\* What a failed call, the rate limit or another delayed job makes of the worker's wait.
LEMMA KeptWaitingIs ==
  ASSUME TimeInv, NEW w \in Worker, KeptWaiting(w)
  PROVE  /\ \E how \in {"napping", "parked"} : pc' = [pc EXCEPT ![w] = how]
         /\ \E t \in Nat : until' = [until EXCEPT ![w] = now + t]
         /\ pc'[w] = "parked" => until'[w] <= now + Larger(MaxIdleWait, setting.idle)
         /\ pc'[w] = "napping" => \E t \in NapTimes : until'[w] <= now + t
         /\ \/ job.at \notin {"wait", "delayed"}
            \/ job.at = "delayed" /\ job' = job /\ until'[w] <= job.due * Milli
            \/ MayNap /\ pc'[w] = "napping"
         /\ (job' = job /\ (marker => marker')) \/ Promoted
         /\ UNCHANGED <<idleWait, beat, snap, fails>>
<1>1. /\ Types /\ now \in Nat /\ IsJob(job) /\ job.due \in Int /\ job.at \in Place
      /\ \A how : \A f : f = [pc EXCEPT ![w] = how] => f[w] = how
      /\ \A t : \A f : f = [until EXCEPT ![w] = t] => f[w] = t
  BY Zenon DEF TimeInv, Types, IsJob
<1>2. /\ MaxIdleWait \in Nat /\ Larger(MaxIdleWait, setting.idle) \in Nat /\ setting.idle \in Nat
      /\ MaxIdleWait <= Larger(MaxIdleWait, setting.idle) /\ NapTimes \subseteq Nat
      /\ setting.cooldowns \subseteq Nat /\ setting.others \subseteq Nat /\ Second \in Nat
      /\ setting.idle \in NapTimes /\ Second \in NapTimes /\ setting.cooldowns \subseteq NapTimes
  BY <1>1, SettingFacts, Units, ZenonT(30) DEF NapTimes
<1>3. \A t \in Nat : now + t <= now + t
  BY <1>1
<1>4. CASE FetchFails(w)
  <2>1. /\ MayNap /\ pc' = [pc EXCEPT ![w] = "napping"]
        /\ until' = [until EXCEPT ![w] = now + setting.idle]
        /\ UNCHANGED <<job, marker, idleWait, beat, snap, fails>>
    BY <1>4, Zenon DEF FetchFails, Waits, MayNap
  <2>2. pc'[w] = "napping" /\ until'[w] = now + setting.idle
    BY <1>1, <2>1, Zenon
  <2> QED BY <1>2, <1>3, <2>1, <2>2, Zenon
<1>5. CASE RateLimited(w)
  <2>1. PICK t \in setting.cooldowns : Waits(w, [pc |-> "napping", time |-> t])
    BY <1>5, Zenon DEF RateLimited
  <2>2. /\ MayNap /\ pc' = [pc EXCEPT ![w] = "napping"]
        /\ until' = [until EXCEPT ![w] = now + t]
        /\ UNCHANGED <<idleWait, beat, snap, fails>>
    BY <1>5, <2>1, Zenon DEF RateLimited, Waits, MayNap
  <2>3. pc'[w] = "napping" /\ until'[w] = now + t
    BY <1>1, <2>2, Zenon
  <2>4. (job' = job /\ (marker => marker')) \/ Promoted
    <3>1. CASE IsDue
      <4>1. job' = [job EXCEPT !.at = "wait"] /\ marker'
        BY <1>5, <3>1, Zenon DEF RateLimited
      <4> QED BY <1>1, <3>1, <4>1, Zenon DEF Promoted, IsDue, IsJob, Place
    <3>2. CASE ~IsDue
      BY <1>5, <3>2, Zenon DEF RateLimited
    <3> QED BY <3>1, <3>2, Zenon
  <2> QED BY <1>2, <1>3, <2>1, <2>2, <2>3, <2>4, Zenon
<1>6. CASE OtherIsNext(w)
  <2>1. PICK d \in setting.others :
          /\ job.at = "delayed" => d < job.due * Milli - now
          /\ LET how == DelayedWait(d)
             IN  Waits(w, IF how.pc = "sleeping" THEN [how EXCEPT !.pc = "napping"] ELSE how)
    BY <1>6, Zenon DEF OtherIsNext
  <2> DEFINE t == DelayedWait(d).time
  <2>2. d \in Nat
    BY <1>2, <2>1, Zenon
  <2>3. /\ t \in Nat /\ t <= d /\ t <= MaxIdleWait
        /\ pc' = [pc EXCEPT ![w] = IF DelayedWait(d).pc = "sleeping" THEN "napping" ELSE "parked"]
        /\ until' = [until EXCEPT ![w] = now + t]
        /\ DelayedWait(d).pc = "sleeping" => t <= Second
    <3>1. CASE d < Second
      <4>1. DelayedWait(d) = [pc |-> "sleeping", time |-> d]
        BY <3>1, Zenon DEF DelayedWait
      <4>2. [DelayedWait(d) EXCEPT !.pc = "napping"] = [pc |-> "napping", time |-> d]
        BY <4>1
      <4>3. d <= Second /\ d <= d
        BY <1>2, <2>2, <3>1
      <4>4. DelayedWait(d).time \in Nat /\ DelayedWait(d).time <= d /\ DelayedWait(d).time <= MaxIdleWait
        BY <2>2, DelayedWaitIs, Zenon
      <4>5. DelayedWait(d).pc = "sleeping" /\ DelayedWait(d).time = d
        BY <4>1
      <4>6. Waits(w, [pc |-> "napping", time |-> d])
        BY <2>1, <4>2, <4>5, Zenon
      <4>7. pc' = [pc EXCEPT ![w] = "napping"] /\ until' = [until EXCEPT ![w] = now + d]
        BY <4>6, Zenon DEF Waits
      <4> QED BY <4>3, <4>4, <4>5, <4>7, Zenon
    <3>2. CASE ~ (d < Second)
      <4>1. DelayedWait(d).pc = "parked"
        BY <3>2, Zenon DEF DelayedWait
      <4>2. DelayedWait(d).time \in Nat /\ DelayedWait(d).time <= d /\ DelayedWait(d).time <= MaxIdleWait
        BY <2>2, DelayedWaitIs, Zenon
      <4> QED BY <2>1, <4>1, <4>2, Zenon DEF Waits
    <3> QED BY <3>1, <3>2, Zenon
  <2>4. /\ pc'[w] = IF DelayedWait(d).pc = "sleeping" THEN "napping" ELSE "parked"
        /\ until'[w] = now + t
    BY <1>1, <2>3, Zenon
  <2> HIDE DEF t
  <2>5. now + t <= now + Larger(MaxIdleWait, setting.idle) /\ (t <= Second => now + t <= now + Second)
    BY <1>1, <1>2, <2>3
  <2>6. job.at = "delayed" => now + t <= job.due * Milli
    <3>1. job.due * Milli \in Int
      BY <1>1, Units
    <3> QED BY <1>1, <2>1, <2>2, <2>3, <3>1
  <2>7. job.at # "wait" /\ UNCHANGED <<job, marker, idleWait, beat, snap, fails>>
    BY <1>6, Zenon DEF OtherIsNext
  <2>8. CASE DelayedWait(d).pc = "sleeping"
    <3>1. pc' = [pc EXCEPT ![w] = "napping"] /\ pc'[w] = "napping" /\ now + t <= now + Second
      BY <2>3, <2>4, <2>5, <2>8, Zenon
    <3> QED BY <1>2, <2>3, <2>4, <2>6, <2>7, <3>1, Zenon
  <2>9. CASE DelayedWait(d).pc # "sleeping"
    <3>1. pc' = [pc EXCEPT ![w] = "parked"] /\ pc'[w] = "parked"
      BY <2>3, <2>4, <2>9, Zenon
    <3> QED BY <2>3, <2>4, <2>5, <2>6, <2>7, <3>1, Zenon
  <2> QED BY <2>8, <2>9, Zenon
<1> QED BY <1>4, <1>5, <1>6, Zenon DEF KeptWaiting

\* moveToActive
LEMMA TimeAsk ==
  ASSUME TimeInv, NEW w \in Worker, Ask(w)
  PROVE  TimeInv'
<1>1. /\ Types /\ OnTime(w) /\ now \in Nat /\ fails \in Nat /\ pc[w] = "asking"
      /\ setting' = setting /\ now' = now /\ scan' = scan
  BY Zenon DEF TimeInv, Types, Ask
<1>2. CASE Take(w)
  <2>1. /\ IsJob(job') /\ job'.processedOn = Ms(now) /\ Ms(now) \in Nat
        /\ \/ /\ job'.at \in {"failed", "gone"} /\ job'.owner = Nobody /\ ~job'.marked
              /\ fails' = fails + 1 /\ UNCHANGED <<pc, until, beat, snap>>
           \/ /\ job'.at = "active" /\ job'.owner = w
              /\ pc' = [pc EXCEPT ![w] = "running"] /\ fails' = fails
              /\ \E d \in setting.durations : until' = [until EXCEPT ![w] = now + d]
              /\ beat' = [beat EXCEPT ![w] = now + Tick]
              /\ snap' = [snap EXCEPT ![w] = job.history]
    BY <1>1, <1>2, TakeIs, Zenon
  <2>2. idleWait' = [idleWait EXCEPT ![w] = setting.idle]
    BY <1>2, Zenon DEF Take
  <2>3. /\ idleWait' \in [Worker -> Nat] /\ idleWait'[w] = setting.idle
        /\ \A v \in Worker \ {w} : idleWait'[v] = idleWait[v]
    BY <1>1, <2>2, SettingFacts, Zenon DEF Types
  <2>4. job.history \in History /\ Tick \in Nat /\ setting.durations \subseteq Nat
        /\ setting.idle \in Nat /\ setting.idle <= Larger(MaxIdleWait, setting.idle)
    BY <1>1, TickIs, SettingFacts, Zenon DEF Types, IsJob
  <2>5. CASE /\ job'.at \in {"failed", "gone"} /\ job'.owner = Nobody /\ ~job'.marked
             /\ fails' = fails + 1 /\ UNCHANGED <<pc, until, beat, snap>>
    <3>1. Alone(w)
      BY <1>1, <2>3, <2>5, Zenon DEF Alone, Types
    <3>2. Held' /\ fails' \in Nat /\ snap' \in [Worker -> History]
      BY <1>1, <2>5 DEF Held, Types
    <3>3. OnTime(w)'
      BY <1>1, <2>3, <2>4, <2>5, SMTT(30) DEF OnTime, Idle
    <3> QED BY <2>1, <3>1, <3>2, <3>3, OneMoves, Zenon
  <2>6. CASE /\ job'.at = "active" /\ job'.owner = w
             /\ pc' = [pc EXCEPT ![w] = "running"] /\ fails' = fails
             /\ \E d \in setting.durations : until' = [until EXCEPT ![w] = now + d]
             /\ beat' = [beat EXCEPT ![w] = now + Tick]
             /\ snap' = [snap EXCEPT ![w] = job.history]
    <3>1. PICK d \in setting.durations : until' = [until EXCEPT ![w] = now + d]
      BY <2>6, ZenonT(30)
    <3>2. now + d \in Nat /\ now + d >= now /\ now + Tick \in Nat /\ now + Tick >= now
      BY <1>1, <2>4
    <3>3. now + Tick \in Timer /\ "running" \in Pc
      BY <3>2, Zenon DEF Timer, Pc
    <3>4. /\ pc' \in [Worker -> Pc] /\ pc'[w] = "running"
          /\ \A v \in Worker \ {w} : pc'[v] = pc[v]
      BY <1>1, <2>6, <3>3, Zenon DEF Types
    <3>5. /\ until' \in [Worker -> Nat] /\ until'[w] = now + d
          /\ \A v \in Worker \ {w} : until'[v] = until[v]
      BY <1>1, <3>1, <3>2, Zenon DEF Types
    <3>6. /\ beat' \in [Worker -> Timer] /\ beat'[w] = now + Tick
          /\ \A v \in Worker \ {w} : beat'[v] = beat[v]
      BY <1>1, <2>6, <3>3, Zenon DEF Types
    <3>7. Alone(w)
      BY <1>1, <2>3, <3>4, <3>5, <3>6, Zenon DEF Alone, Types
    <3>8. Held' /\ fails' \in Nat /\ snap' \in [Worker -> History]
      BY <1>1, <2>4, <2>6, TimingAssumption, Zenon DEF Held, Types
    <3>9. OnTime(w)'
      BY <1>1, <2>3, <2>4, <3>2, <3>4, <3>5, <3>6, SMTT(30) DEF OnTime, Idle
    <3> QED BY <2>1, <3>7, <3>8, <3>9, OneMoves, Zenon
  <2> QED BY <2>1, <2>5, <2>6, Zenon
<1>3. CASE FindNothing(w)
  <2>1. /\ job' = job /\ beat' = beat /\ snap' = snap /\ fails' = fails
        /\ \E how \in {"sleeping", "parked"} : pc' = [pc EXCEPT ![w] = how]
        /\ \E t \in Nat : until' = [until EXCEPT ![w] = now + t]
                          /\ t <= Larger(MaxIdleWait, setting.idle)
        /\ \E t \in Nat : /\ idleWait' = [idleWait EXCEPT ![w] = t]
                          /\ setting.idle <= t /\ t <= Larger(MaxIdleWait, setting.idle)
    BY <1>3, FindNothingIs, Zenon
  <2>2. PICK how \in {"sleeping", "parked"} : pc' = [pc EXCEPT ![w] = how]
    BY <2>1, Zenon
  <2>3. PICK t \in Nat : until' = [until EXCEPT ![w] = now + t]
                         /\ t <= Larger(MaxIdleWait, setting.idle)
    BY <2>1, Zenon
  <2>4. PICK n \in Nat : idleWait' = [idleWait EXCEPT ![w] = n]
                         /\ setting.idle <= n /\ n <= Larger(MaxIdleWait, setting.idle)
    BY <2>1, ZenonT(30)
  <2>5. /\ pc' \in [Worker -> Pc] /\ pc'[w] = how
        /\ \A v \in Worker \ {w} : pc'[v] = pc[v]
    BY <1>1, <2>2, Zenon DEF Types, Pc
  <2>6. now + t \in Nat /\ now + t >= now /\ Larger(MaxIdleWait, setting.idle) \in Nat
        /\ now + t <= now + Larger(MaxIdleWait, setting.idle)
    BY <1>1, <2>3, SettingFacts
  <2>7. /\ until' \in [Worker -> Nat] /\ until'[w] = now + t
        /\ \A v \in Worker \ {w} : until'[v] = until[v]
    BY <1>1, <2>3, <2>6, Zenon DEF Types
  <2>8. /\ idleWait' \in [Worker -> Nat] /\ idleWait'[w] = n
        /\ \A v \in Worker \ {w} : idleWait'[v] = idleWait[v]
    BY <1>1, <2>4, Zenon DEF Types
  <2>9. Alone(w)
    BY <1>1, <2>1, <2>5, <2>7, <2>8, Zenon DEF Alone, Types
  <2>10. Held' /\ fails' \in Nat /\ snap' \in [Worker -> History] /\ IsJob(job')
    BY <1>1, <2>1, Zenon DEF TimeInv, Held, Types
  <2>11. OnTime(w)'
    BY <1>1, <2>1, <2>4, <2>5, <2>6, <2>7, <2>8, Zenon DEF OnTime, Idle
  <2> QED BY <2>9, <2>10, <2>11, OneMoves, Zenon
<1>4. CASE KeptWaiting(w)
  <2>1. /\ \E how \in {"napping", "parked"} : pc' = [pc EXCEPT ![w] = how]
        /\ \E t \in Nat : until' = [until EXCEPT ![w] = now + t]
        /\ pc'[w] = "parked" => until'[w] <= now + Larger(MaxIdleWait, setting.idle)
        /\ pc'[w] = "napping" => \E t \in NapTimes : until'[w] <= now + t
        /\ job' = job \/ Promoted
        /\ UNCHANGED <<idleWait, beat, snap, fails>>
    BY <1>4, KeptWaitingIs, Zenon
  <2>2. PICK how \in {"napping", "parked"} : pc' = [pc EXCEPT ![w] = how]
    BY <2>1, Zenon
  <2>3. PICK t \in Nat : until' = [until EXCEPT ![w] = now + t]
    BY <2>1, Zenon
  <2>4. /\ pc' \in [Worker -> Pc] /\ pc'[w] = how
        /\ \A v \in Worker \ {w} : pc'[v] = pc[v]
    BY <1>1, <2>2, Zenon DEF Types, Pc
  <2>5. now + t \in Nat /\ now + t >= now
    BY <1>1
  <2>6. /\ until' \in [Worker -> Nat] /\ until'[w] = now + t
        /\ \A v \in Worker \ {w} : until'[v] = until[v]
    BY <1>1, <2>3, <2>5, Zenon DEF Types
  <2>7. Alone(w)
    BY <1>1, <2>1, <2>4, <2>6, Zenon DEF Alone, Types
  <2>8. Held' /\ fails' \in Nat /\ snap' \in [Worker -> History] /\ IsJob(job')
    BY <1>1, <2>1, Zenon DEF TimeInv, Held, Types, Promoted
  <2>9. NapTimes' = NapTimes
    BY <1>1, Zenon DEF NapTimes
  <2>10. OnTime(w)'
    BY <1>1, <2>1, <2>4, <2>5, <2>6, <2>9, Zenon DEF OnTime, Idle
  <2> QED BY <2>7, <2>8, <2>10, OneMoves, Zenon
<1> QED BY <1>2, <1>3, <1>4, Zenon DEF Ask

\* The end of a wait, or a marker
LEMMA TimeWake ==
  ASSUME TimeInv, NEW w \in Worker, Wake(w)
  PROVE  TimeInv'
<1>1. /\ Types /\ OnTime(w) /\ pc' = [pc EXCEPT ![w] = "asking"]
      /\ UNCHANGED <<setting, now, job, checkEnd, until, beat, scan, idleWait, snap, fails>>
      /\ pc[w] \in {"sleeping", "napping", "parked"}
  BY Zenon DEF TimeInv, Wake
<1>2. /\ pc' \in [Worker -> Pc] /\ pc'[w] = "asking"
      /\ \A v \in Worker \ {w} : pc'[v] = pc[v]
  BY <1>1, Zenon DEF Types, Pc
<1>3. Alone(w)
  BY <1>1, <1>2, Zenon DEF Alone, Types
<1>4. Held' /\ fails' \in Nat /\ snap' \in [Worker -> History] /\ IsJob(job')
  BY <1>1, Zenon DEF TimeInv, Held, Types
<1>5. OnTime(w)'
  BY <1>1, <1>2, Zenon DEF OnTime, Idle
<1> QED BY <1>3, <1>4, <1>5, OneMoves, Zenon

\* What HandlerReturns makes of the job.
LEMMA ReturnIs ==
  ASSUME TimeInv, NEW w \in Worker, HandlerReturns(w)
  PROVE  /\ IsJob(job') /\ job'.processedOn = job.processedOn
         /\ \/ /\ ~(Locked /\ job.owner = w)
               /\ UNCHANGED <<job, fails, marker>>
            \/ /\ Locked /\ job.owner = w
               /\ job'.at # "active" /\ job'.owner = Nobody /\ ~job'.marked
               /\ marker' = (marker \/ job'.at \in {"delayed", "wait"})
               /\ \/ job'.at \in {"completed", "gone"} /\ job'.history = job.history
                     /\ fails' = fails
                  \/ job'.at = "delayed" /\ job'.history = job.history /\ job'.atm = job.atm
                     /\ fails' = fails
                  \/ /\ job'.history = Recorded(snap[w], job.processedOn)
                     /\ job'.atm = job.atm + 1 /\ fails' = fails + 1
                     /\ \/ job'.at \in {"failed", "gone"}
                        \/ job'.at \in {"wait", "delayed"} /\ job.atm + 1 < Opts.attempts
<1>1. Types /\ IsJob(job) /\ setting \in Settings /\ now \in Nat /\ snap[w] \in History
  BY Zenon DEF TimeInv, Types
<1>2. CASE Locked /\ job.owner = w
  <2>1. PICK outcome \in setting.outcomes :
          \E r \in setting.rands :
              /\ job' = Finalised(w, outcome, r)
              /\ fails' = IF outcome \in {"error", "unrecoverable"} THEN fails + 1 ELSE fails
              /\ marker' = (marker \/ job'.at \in {"delayed", "wait"})
    BY <1>2, Zenon DEF HandlerReturns
  <2>2. PICK r \in setting.rands :
              /\ job' = Finalised(w, outcome, r)
              /\ fails' = IF outcome \in {"error", "unrecoverable"} THEN fails + 1 ELSE fails
              /\ marker' = (marker \/ job'.at \in {"delayed", "wait"})
    BY <2>1, Zenon
  <2> DEFINE f == Finalised(w, outcome, r)
  <2>3. /\ IsJob(f) /\ f.at # "active" /\ f.owner = Nobody /\ f.marked = FALSE
        /\ f.processedOn = job.processedOn
        /\ \/ outcome = "ok" /\ f.at \in {"completed", "gone"} /\ f.history = job.history
           \/ /\ outcome = "delay" /\ f.at = "delayed" /\ f.history = job.history
              /\ f.atm = job.atm
           \/ /\ outcome \in {"error", "unrecoverable"}
              /\ f.history = Recorded(snap[w], job.processedOn) /\ f.atm = job.atm + 1
              /\ \/ f.at \in {"failed", "gone"}
                 \/ f.at \in {"wait", "delayed"} /\ job.atm + 1 < Opts.attempts
    BY <1>1, FinalisedIs, Zenon
  <2> HIDE DEF f
  <2>4. job' = f
    BY <2>2, Zenon DEF f
  <2> QED BY <1>2, <2>2, <2>3, <2>4, Zenon
<1>3. CASE ~(Locked /\ job.owner = w)
  BY <1>1, <1>3, Zenon DEF HandlerReturns
<1> QED BY <1>2, <1>3, Zenon

\* The handler returns and the job is finalised.
LEMMA TimeReturn ==
  ASSUME TimeInv, NEW w \in Worker, HandlerReturns(w)
  PROVE  TimeInv'
<1>1. /\ Types /\ Held /\ OnTime(w) /\ pc[w] = "running" /\ pc' = [pc EXCEPT ![w] = "asking"]
      /\ beat' = [beat EXCEPT ![w] = -1] /\ fails \in Nat
      /\ UNCHANGED <<setting, now, checkEnd, until, scan, idleWait, snap>>
  BY Zenon DEF TimeInv, HandlerReturns, Types
<1>2. /\ IsJob(job')
      /\ \/ UNCHANGED <<job, fails, marker>>
         \/ /\ job'.at # "active" /\ job'.owner = Nobody /\ ~job'.marked
            /\ fails' \in {fails, fails + 1}
  BY ReturnIs, Zenon
<1>3. /\ pc' \in [Worker -> Pc] /\ pc'[w] = "asking" /\ beat' \in [Worker -> Timer] /\ beat'[w] = -1
      /\ \A v \in Worker \ {w} : pc'[v] = pc[v] /\ beat'[v] = beat[v]
  BY <1>1, Zenon DEF Types, Pc, Timer
<1>4. Alone(w)
  BY <1>1, <1>3, Zenon DEF Alone, Types
<1>5. Held'
  BY <1>1, <1>2, Zenon DEF Held
<1>6. fails' \in Nat /\ snap' \in [Worker -> History]
  BY <1>1, <1>2, SMTT(30) DEF Types
<1>7. OnTime(w)'
  BY <1>1, <1>3, Zenon DEF OnTime, Idle
<1> QED BY <1>2, <1>4, <1>5, <1>6, <1>7, OneMoves, Zenon

\* What Heartbeat makes of the job.
LEMMA HeartbeatIs ==
  ASSUME TimeInv, NEW w \in Worker, Heartbeat(w)
  PROVE  /\ IsJob(job') /\ job'.at = job.at /\ job'.owner = job.owner /\ job'.atm = job.atm
         /\ job'.history = job.history /\ job'.processedOn = job.processedOn
         /\ job'.due = job.due
         /\ \/ /\ Locked /\ job.owner = w /\ ~job'.marked
               /\ job'.lockEnd = Ms(now) + Ms(setting.lock) /\ Ms(now) \in Nat
               /\ beat' = [beat EXCEPT ![w] = now + Tick] /\ until' = until
            \/ /\ ~(Locked /\ job.owner = w) /\ job' = job
               /\ beat' = [beat EXCEPT ![w] = -1]
               /\ \E t \in {now, until[w]} : until' = [until EXCEPT ![w] = t]
<1>1. Types /\ IsJob(job) /\ now \in Nat /\ Ms(now) \in Nat
  BY MsBounds, Zenon DEF TimeInv, Types
<1>2. Milliseconds(setting.lock) = Ms(setting.lock) /\ Milliseconds(setting.lock) \in Nat
  BY <1>1, TickIs, Zenon
<1>3. CASE Locked /\ job.owner = w
  <2>1. /\ job' = [job EXCEPT !.lockEnd = Ms(now) + Milliseconds(setting.lock), !.marked = FALSE]
        /\ beat' = [beat EXCEPT ![w] = now + Tick] /\ until' = until
    BY <1>3, Zenon DEF Heartbeat
  <2>2. Ms(now) + Milliseconds(setting.lock) \in Nat
    BY <1>1, <1>2
  <2>3. /\ IsJob(job') /\ job'.at = job.at /\ job'.owner = job.owner /\ job'.atm = job.atm
        /\ job'.history = job.history /\ job'.processedOn = job.processedOn
        /\ job'.due = job.due /\ job'.marked = FALSE
        /\ job'.lockEnd = Ms(now) + Milliseconds(setting.lock)
    BY <1>1, <2>1, <2>2, Zenon DEF IsJob
  <2> QED BY <1>1, <1>2, <1>3, <2>1, <2>3, Zenon
<1>4. CASE ~(Locked /\ job.owner = w)
  BY <1>1, <1>4, Zenon DEF Heartbeat
<1> QED BY <1>3, <1>4, Zenon

\* extendLock
LEMMA TimeBeat ==
  ASSUME TimeInv, NEW w \in Worker, Heartbeat(w)
  PROVE  TimeInv'
<1>1. /\ Types /\ Held /\ OnTime(w) /\ pc[w] = "running" /\ now \in Nat /\ until[w] \in Nat
      /\ UNCHANGED <<setting, now, checkEnd, marker, pc, scan, idleWait, snap, fails>>
  BY Zenon DEF TimeInv, Heartbeat, Types
<1>2. /\ IsJob(job') /\ job'.at = job.at /\ job'.owner = job.owner
      /\ \/ /\ Locked /\ job.owner = w /\ ~job'.marked
            /\ beat' = [beat EXCEPT ![w] = now + Tick] /\ until' = until
         \/ /\ job' = job
            /\ beat' = [beat EXCEPT ![w] = -1]
            /\ \E t \in {now, until[w]} : until' = [until EXCEPT ![w] = t]
  BY HeartbeatIs, Zenon
<1>3. Tick \in Nat /\ now + Tick \in Timer /\ now + Tick >= now /\ -1 \in Timer
  BY <1>1, TickIs DEF Timer
<1>4. /\ beat' \in [Worker -> Timer] /\ beat'[w] \in {-1, now + Tick}
      /\ \A v \in Worker \ {w} : beat'[v] = beat[v]
  BY <1>1, <1>2, <1>3, Zenon DEF Types
<1>5. /\ until' \in [Worker -> Nat] /\ until'[w] \in {now, until[w]}
      /\ \A v \in Worker \ {w} : until'[v] = until[v]
  BY <1>1, <1>2 DEF Types
<1>6. Alone(w)
  BY <1>1, <1>4, <1>5, Zenon DEF Alone, Types
<1>7. Held'
  BY <1>1, <1>2, Zenon DEF Held
<1>8. fails' \in Nat /\ snap' \in [Worker -> History]
  BY <1>1, Zenon DEF Types
<1>9. OnTime(w)'
  BY <1>1, <1>3, <1>4, <1>5 DEF OnTime, Idle
<1> QED BY <1>2, <1>6, <1>7, <1>8, <1>9, OneMoves, Zenon

\* moveStalledJobsToWait
LEMMA TimeScan ==
  ASSUME TimeInv, NEW w \in Worker, Scan(w)
  PROVE  TimeInv'
<1>1. /\ Types /\ Held /\ OnTime(w) /\ IsJob(job) /\ now \in Nat /\ scan[w] = now /\ pc[w] # "dead"
      /\ job' \in {job, Swept}
      /\ UNCHANGED <<setting, now, pc, until, beat, idleWait, snap, fails>>
  BY Zenon  DEF TimeInv, Types, Scan
<1>2. PICK took \in setting.scanTimes : scan' = [scan EXCEPT ![w] = now + took + setting.interval]
  BY Zenon DEF Scan
<1>3. now + took + setting.interval \in Nat /\ now + took + setting.interval >= now
  BY <1>1, SettingFacts
<1>4. /\ scan' \in [Worker -> Timer] /\ scan'[w] = now + took + setting.interval
      /\ \A v \in Worker \ {w} : scan'[v] = scan[v]
  BY <1>1, <1>2, <1>3, Zenon DEF Types, Timer
<1>5. Alone(w)
  BY <1>1, <1>4, Zenon DEF Alone, Types
<1>6. IsJob(job') /\ Held'
  BY <1>1, SweptIs, Zenon DEF Held
<1>7. fails' \in Nat /\ snap' \in [Worker -> History]
  BY <1>1, Zenon DEF Types
<1>8. scan'[w] # -1 /\ scan'[w] >= now
  BY <1>3, <1>4
<1>9. NapTimes' = NapTimes
  BY <1>1, Zenon DEF NapTimes
<1>10. OnTime(w)'
  BY <1>1, <1>8, <1>9, Zenon DEF OnTime, Idle
<1> QED BY <1>5, <1>6, <1>7, <1>10, OneMoves, Zenon

\* The process of a worker dies.
LEMMA TimeCrash ==
  ASSUME TimeInv, NEW w \in Worker, Crash(w)
  PROVE  TimeInv'
<1>1. /\ Types /\ OnTime(w) /\ pc' = [pc EXCEPT ![w] = "dead"]
      /\ beat' = [beat EXCEPT ![w] = -1] /\ scan' = [scan EXCEPT ![w] = -1]
      /\ UNCHANGED <<setting, now, job, checkEnd, marker, until, idleWait, snap, fails>>
  BY Zenon DEF TimeInv, Crash
<1>2. /\ pc' \in [Worker -> Pc] /\ pc'[w] = "dead" /\ beat' \in [Worker -> Timer] /\ beat'[w] = -1
      /\ scan' \in [Worker -> Timer] /\ scan'[w] = -1
      /\ \A v \in Worker \ {w} : pc'[v] = pc[v] /\ beat'[v] = beat[v] /\ scan'[v] = scan[v]
  BY <1>1, Zenon DEF Types, Pc, Timer
<1>3. Alone(w)
  BY <1>1, <1>2, Zenon DEF Alone, Types
<1>4. Held' /\ fails' \in Nat /\ snap' \in [Worker -> History] /\ IsJob(job')
  BY <1>1, Zenon DEF TimeInv, Held, Types
<1>5. OnTime(w)'
  BY <1>1, <1>2, Zenon DEF OnTime, Idle
<1> QED BY <1>3, <1>4, <1>5, OneMoves, Zenon

\* Advance stops at the first timer.
LEMMA AdvanceIs ==
  ASSUME TimeInv, Advance
  PROVE  /\ now \in Nat /\ now' \in Nat /\ now' > now
         /\ \A w \in Worker :
              /\ pc[w] \in {"sleeping", "napping", "parked", "running"} => until[w] >= now'
              /\ beat[w] # -1 => beat[w] >= now'
              /\ scan[w] # -1 => scan[w] >= now'
         /\ UNCHANGED <<setting, job, checkEnd, marker, pc, until, beat, scan, idleWait, snap, fails>>
<1>1. Types /\ now \in Nat
  BY Zenon DEF TimeInv, Types
<1>2. \A w \in Worker : /\ until[w] \in Nat
                        /\ beat[w] # -1 => beat[w] \in Nat
                        /\ scan[w] # -1 => scan[w] \in Nat
  BY <1>1, Zenon DEF Types, Timer
<1>3. Timers \in SUBSET Nat /\ Timers # {}
  <2>1. \A w \in Worker : /\ beat[w] >= 0 => beat[w] \in Nat
                          /\ scan[w] >= 0 => scan[w] \in Nat
    BY <1>1 DEF Types, Timer
  <2>2. \A t \in Timers : t \in Nat
    BY <1>2, <2>1, Zenon DEF Timers
  <2> QED BY <2>2, Zenon DEF Advance
<1>4. Min(Timers) \in Timers /\ \A t \in Timers : Min(Timers) <= t
  BY <1>3, LeastIsMin, Zenon
<1>5. now' = Min(Timers) /\ Min(Timers) > now
  BY Zenon DEF Advance
<1>6. \A w \in Worker : /\ pc[w] \in {"sleeping", "napping", "parked", "running"} => until[w] \in Timers
                        /\ beat[w] # -1 => beat[w] \in Timers
                        /\ scan[w] # -1 => scan[w] \in Timers
  BY <1>2 DEF Timers
<1>7. \A t \in Timers : now' <= t /\ t >= now'
  BY <1>3, <1>4, <1>5, Zenon
<1> QED BY <1>1, <1>3, <1>4, <1>5, <1>6, <1>7, Zenon DEF Advance

\* The clock moves to the next timer.
LEMMA TimeAdvance ==
  ASSUME TimeInv, Advance
  PROVE  TimeInv'
<1>1. /\ now \in Nat /\ now' \in Nat /\ now' > now
      /\ \A w \in Worker :
           /\ pc[w] \in {"sleeping", "napping", "parked", "running"} => until[w] >= now'
           /\ beat[w] # -1 => beat[w] >= now'
           /\ scan[w] # -1 => scan[w] >= now'
      /\ UNCHANGED <<setting, job, checkEnd, marker, pc, until, beat, scan, idleWait, snap, fails>>
  BY AdvanceIs, Zenon
<1>2. Types' /\ Held'
  BY <1>1, Zenon DEF TimeInv, Types, Held
<1>3. ASSUME NEW w \in Worker PROVE OnTime(w)'
  <2>1. OnTime(w) /\ until[w] \in Nat /\ Larger(MaxIdleWait, setting.idle) \in Nat
    BY SettingFacts, Zenon DEF TimeInv, Types
  <2>2. pc[w] = "napping" => \E t \in NapTimes : until[w] <= now' + t
    <3>1. NapTimes \subseteq Nat
      BY SettingFacts, Zenon DEF TimeInv
    <3>2. ASSUME NEW t \in NapTimes, until[w] <= now + t PROVE until[w] <= now' + t
      BY <1>1, <2>1, <3>1, <3>2
    <3> QED BY <2>1, <3>2, Zenon DEF OnTime
  <2>3. NapTimes' = NapTimes
    BY <1>1, Zenon DEF NapTimes
  <2>4. Idle(w) => until[w] <= now' + Larger(MaxIdleWait, setting.idle)
    <3>1. Idle(w) => until[w] <= now + Larger(MaxIdleWait, setting.idle)
      BY <2>1, Zenon DEF OnTime
    <3> QED BY <1>1, <2>1, <3>1
  <2> QED BY <1>1, <2>1, <2>2, <2>3, <2>4, Zenon DEF OnTime, Idle
<1> QED BY <1>2, <1>3, Zenon DEF TimeInv

\* Every step keeps the timers ahead.
LEMMA TimeStep == TimeInv /\ [Next]_vars => TimeInv'
<1> SUFFICES ASSUME TimeInv, [Next]_vars PROVE TimeInv'
  BY Zenon
<1>1. CASE UNCHANGED vars
  BY <1>1, ZenonT(30) DEF vars, TimeInv, Types, Held, OnTime, Idle, NapTimes
<1>2. CASE Next
  BY <1>2, TimeAdvance, TimeAsk, TimeWake, TimeReturn, TimeBeat, TimeScan, TimeCrash, Zenon
     DEF Next
<1> QED BY <1>1, <1>2, Zenon

\* In every behaviour no timer is in the past, a live worker has a scan ahead, only
\* an active job is owned or marked, and no wait of dispatchLoop is longer than
\* maxIdleWait or the idle interval of the worker.
THEOREM TimersAhead == Spec => []TimeInv
<1>1. Init => TimeInv
  BY TimeInit, Zenon
<1>2. TimeInv /\ [Next]_vars => TimeInv'
  BY TimeStep, Zenon
<1> QED BY <1>1, <1>2, PTL DEF Spec

\* The options of an Add reach the script that finishes the job, whatever they are:
\* what EncodeAddOpts writes, ParseJobOpts and KeepJobs read back to the second and
\* the millisecond.
THEOREM OptionsAlwaysSurvive == Spec => []OptionsSurvive
<1>1. TimeInv => OptionsSurvive
  BY OptionsSurviveAlways, Zenon DEF TimeInv, Types
<1> QED BY <1>1, TimersAhead, PTL

-----------------------------------------------------------------------------
(* The lock and the heartbeat *)

\* A lock that is set when the heartbeat starts lasts until its first tick.
LEMMA TickInTime ==
  ASSUME NEW t \in Nat, NEW lock \in Nat, lock >= Second
  PROVE  Ms(t + Larger(lock \div 2, Second)) <= Ms(t) + Ms(lock)
<1>1. /\ Ms(t) \in Nat /\ Ms(t) * Milli \in Nat
      /\ Ms(t) * Milli <= t /\ t < Ms(t) * Milli + Milli
  BY MsBounds, Zenon
<1>2. Milli \in Nat /\ Milli >= 1 /\ Second \in Nat /\ Second >= Milli /\ Ms(lock) \in Nat
  BY Units, MsBounds, ZenonT(30)
<1>3. CASE lock \div 2 >= Second
  <2> DEFINE h == lock \div 2
             a == Ms(t)
             b == Ms(h)
  <2>1. h \in Nat /\ h + Milli <= lock /\ Larger(lock \div 2, Second) = h
    BY <1>2, <1>3 DEF Larger
  <2> HIDE DEF h
  <2>2. b \in Nat /\ b * Milli \in Nat /\ b * Milli <= h /\ h < b * Milli + Milli
    BY <2>1, MsBounds, Zenon
  <2>3. Ms(t + h) \in Nat /\ t + h \in Nat
    BY <2>1, MsBounds
  <2> HIDE DEF a, b
  <2>4. a \in Nat /\ a * Milli \in Nat /\ a * Milli <= t /\ t < a * Milli + Milli
    BY <1>1, Zenon DEF a
  <2>5. (a + b + 2) * Milli = a * Milli + b * Milli + 2 * Milli
    BY <1>2, <2>2, <2>4
  <2>6. ~ ((a + b + 2) * Milli <= t + h)
    BY <1>2, <2>1, <2>2, <2>4, <2>5
  <2>7. a + b + 2 \in Int /\ b + 1 \in Int
    BY <2>2, <2>4
  <2>8. ~ (a + b + 2 <= Ms(t + h))
    BY <2>3, <2>6, <2>7, MsReached, Zenon
  <2>9. (b + 1) * Milli <= lock
    BY <1>2, <2>1, <2>2
  <2>10. b + 1 <= Ms(lock)
    BY <2>7, <2>9, MsReached, Zenon
  <2>11. Ms(t + h) <= a + Ms(lock)
    BY <1>2, <2>2, <2>3, <2>4, <2>8, <2>10
  <2> QED BY <2>1, <2>11, Zenon DEF a
<1>4. CASE ~ (lock \div 2 >= Second)
  <2>1. PICK k \in 1..1000 : Second = Milli * k
    BY Units, ZenonT(30)
  <2>2. Larger(lock \div 2, Second) = Second /\ Second = k * Milli
    BY <1>2, <1>4, <2>1 DEF Larger
  <2> DEFINE a == Ms(t)
  <2> HIDE DEF a
  <2>3. a \in Nat /\ a * Milli \in Nat /\ a * Milli <= t /\ t < a * Milli + Milli
    BY <1>1, ZenonT(30) DEF a
  <2>4. (a + k + 1) * Milli = a * Milli + k * Milli + Milli
    BY <1>2, <2>3
  <2>5. ~ ((a + k + 1) * Milli <= t + Second)
    BY <1>2, <2>2, <2>3, <2>4
  <2>6. a + k + 1 \in Int /\ k \in Int /\ t + Second \in Nat /\ Ms(t + Second) \in Nat
    <3>1. t + Second \in Nat
      BY <1>2
    <3>2. Ms(t + Second) \in Nat
      BY <3>1, MsBounds, Zenon
    <3> QED BY <2>3, <3>1, <3>2
  <2>7. ~ (a + k + 1 <= Ms(t + Second))
    BY <2>5, <2>6, MsReached, Zenon
  <2>8. k * Milli <= lock
    BY <1>2, <2>2, ZenonT(30)
  <2>9. k <= Ms(lock)
    BY <2>6, <2>8, MsReached, Zenon
  <2>10. Ms(t + Second) <= a + Ms(lock)
    BY <1>2, <2>3, <2>6, <2>7, <2>9
  <2> QED BY <2>2, <2>10, Zenon DEF a
<1> QED BY <1>3, <1>4, Zenon

\* While a heartbeat ticks, the job is its worker's, and the lock lasts to the tick.
Covered(w) ==
  beat[w] # -1 => /\ job.at = "active" /\ job.owner = w
                  /\ Ms(beat[w]) <= job.lockEnd

LockInv == TimeInv /\ \A w \in Worker : Covered(w)

\* A beating handler owns the job.
LEMMA CoveredLocked ==
  ASSUME LockInv, NEW w \in Worker, beat[w] # -1
  PROVE  /\ pc[w] = "running" /\ job.at = "active" /\ job.owner = w /\ Locked
         /\ Ms(beat[w]) <= job.lockEnd
<1>1. /\ OnTime(w) /\ Covered(w) /\ now \in Nat /\ beat[w] \in Nat /\ job.lockEnd \in Nat
      /\ Nobody \notin Worker
  BY TimingAssumption, Zenon DEF LockInv, TimeInv, Types, Timer, IsJob
<1>2. now <= beat[w] /\ pc[w] = "running"
  BY <1>1, Zenon DEF OnTime
<1>3. Ms(now) <= Ms(beat[w]) /\ Ms(now) \in Nat /\ Ms(beat[w]) \in Nat
  BY <1>1, <1>2, MsMonotone, MsBounds, Zenon
<1>4. Ms(now) <= job.lockEnd
  BY <1>1, <1>3, SMTT(30) DEF Covered
<1> QED BY <1>1, <1>2, <1>4, Zenon DEF Covered, Locked, Alive

\* At the start no handler beats.
LEMMA LockInit == Init => LockInv
BY TimeInit, Zenon DEF Init, LockInv, Covered

\* Every step keeps the lock of a beating handler.
LEMMA LockStep ==
  ASSUME \A s \in Settings : s.lock >= Second
  PROVE  LockInv /\ [Next]_vars => LockInv'
<1> SUFFICES ASSUME LockInv, [Next]_vars PROVE LockInv'
  BY Zenon
<1>1. TimeInv /\ Types /\ TimeInv' /\ Types' /\ now \in Nat
      /\ setting.lock \in Nat /\ setting.lock >= Second
  BY TimeStep, SettingFacts, Zenon DEF LockInv, TimeInv, Types
<1>2. now + Tick \in Nat /\ Ms(now + Tick) <= Ms(now) + Ms(setting.lock)
  BY <1>1, TickInTime, TickIs DEF Tick
<1>3. SUFFICES ASSUME NEW u \in Worker, beat'[u] # -1
               PROVE  job'.at = "active" /\ job'.owner = u /\ Ms(beat'[u]) <= job'.lockEnd
  BY <1>1, Zenon DEF LockInv, Covered
<1>4. beat[u] # -1 => /\ pc[u] = "running" /\ job.at = "active" /\ job.owner = u /\ Locked
                      /\ Ms(beat[u]) <= job.lockEnd
  BY CoveredLocked, Zenon
<1>5. CASE UNCHANGED <<job, beat>>
  BY <1>3, <1>4, <1>5, Zenon
<1>6. ASSUME NEW w \in Worker, Ask(w), Take(w)
      PROVE  job'.at = "active" /\ job'.owner = u /\ Ms(beat'[u]) <= job'.lockEnd
  <2>1. beat[u] = -1
    BY <1>4, <1>6, Zenon DEF Take, IsDue
  <2>2. /\ job'.at = "active" /\ job'.owner = w /\ job'.lockEnd = Ms(now) + Ms(setting.lock)
        /\ beat' = [beat EXCEPT ![w] = now + Tick]
    BY <1>1, <1>3, <1>6, <2>1, TakeIs, Zenon
  <2>3. u = w /\ beat'[u] = now + Tick
    BY <1>1, <1>3, <2>1, <2>2, Zenon DEF Types
  <2> QED BY <1>2, <2>2, <2>3, Zenon
<1>7. ASSUME NEW w \in Worker, HandlerReturns(w)
      PROVE  job'.at = "active" /\ job'.owner = u /\ Ms(beat'[u]) <= job'.lockEnd
  <2>1. beat' = [beat EXCEPT ![w] = -1]
    BY <1>7, Zenon DEF HandlerReturns
  <2>2. u # w /\ beat'[u] = beat[u]
    BY <1>1, <1>3, <2>1, Zenon DEF Types
  <2>3. job' = job
    BY <1>1, <1>3, <1>4, <1>7, <2>2, Zenon DEF HandlerReturns
  <2> QED BY <1>3, <1>4, <2>2, <2>3, Zenon
<1>8. ASSUME NEW w \in Worker, Heartbeat(w)
      PROVE  job'.at = "active" /\ job'.owner = u /\ Ms(beat'[u]) <= job'.lockEnd
  <2>1. /\ job'.at = job.at /\ job'.owner = job.owner
        /\ \/ /\ job.owner = w /\ job'.lockEnd = Ms(now) + Ms(setting.lock)
              /\ beat' = [beat EXCEPT ![w] = now + Tick]
           \/ job' = job /\ beat' = [beat EXCEPT ![w] = -1]
    BY <1>1, <1>8, HeartbeatIs, Zenon
  <2>2. beat[w] # -1
    BY <1>1, <1>8 DEF Heartbeat
  <2>3. job.at = "active" /\ job.owner = w
    BY <2>2, CoveredLocked, Zenon
  <2>4. CASE /\ job.owner = w /\ job'.lockEnd = Ms(now) + Ms(setting.lock)
             /\ beat' = [beat EXCEPT ![w] = now + Tick]
    <3>1. u = w
      BY <1>3, <1>4, <2>3, <2>4 DEF Types
    <3>2. beat'[u] = now + Tick
      BY <1>1, <2>4, <3>1, Zenon DEF Types
    <3> QED BY <1>2, <2>1, <2>3, <2>4, <3>1, <3>2, Zenon
  <2>5. CASE job' = job /\ beat' = [beat EXCEPT ![w] = -1]
    <3>1. beat'[u] = beat[u]
      BY <1>1, <1>3, <2>5, Zenon DEF Types
    <3> QED BY <1>3, <1>4, <2>5, <3>1, Zenon
  <2> QED BY <2>1, <2>4, <2>5, Zenon
<1>9. ASSUME NEW w \in Worker, Scan(w)
      PROVE  job'.at = "active" /\ job'.owner = u /\ Ms(beat'[u]) <= job'.lockEnd
  <2>1. beat' = beat /\ job' \in {job, Swept} /\ IsJob(job)
    BY <1>1, <1>9, Zenon DEF Scan, Types
  <2>2. Locked
    BY <1>3, <1>4, <2>1, Zenon
  <2>3. /\ Swept.lockEnd = job.lockEnd /\ Swept.at = job.at /\ Swept.owner = job.owner
    BY <2>1, <2>2, SweptIs, Zenon
  <2> QED BY <1>3, <1>4, <2>1, <2>3, Zenon
<1>10. ASSUME NEW w \in Worker, Crash(w)
       PROVE  job'.at = "active" /\ job'.owner = u /\ Ms(beat'[u]) <= job'.lockEnd
  <2>1. job' = job /\ beat' = [beat EXCEPT ![w] = -1]
    BY <1>10, Zenon DEF Crash
  <2>2. beat'[u] = beat[u]
    BY <1>1, <1>3, <2>1, Zenon DEF Types
  <2> QED BY <1>3, <1>4, <2>1, <2>2, Zenon
<1>11. ASSUME NEW w \in Worker, KeptWaiting(w)
       PROVE  job'.at = "active" /\ job'.owner = u /\ Ms(beat'[u]) <= job'.lockEnd
  <2>1. beat' = beat /\ (job' = job \/ Promoted)
    BY <1>1, <1>11, KeptWaitingIs, Zenon
  <2>2. job.at # "delayed"
    BY <1>3, <1>4, <2>1, Zenon
  <2> QED BY <1>3, <1>4, <2>1, <2>2, Zenon DEF Promoted
<1>12. \/ UNCHANGED <<job, beat>>
       \/ \E w \in Worker : \/ Ask(w) /\ (Take(w) \/ KeptWaiting(w))
                            \/ HandlerReturns(w) \/ Heartbeat(w) \/ Scan(w) \/ Crash(w)
  BY Zenon DEF Next, vars, Ask, FindNothing, Wake, Advance
<1> QED BY <1>5, <1>6, <1>7, <1>8, <1>9, <1>10, <1>11, <1>12, Zenon

\* When no worker has a lock shorter than a second, the least tick of the heartbeat,
\* a handler whose heartbeat ticks owns its job and the lock has not run out, in
\* every behaviour: whatever the durations of handlers, the scans of others, the
\* retries and the crashes.  (With a shorter lock it is false: run lock_short.)
THEOREM LockCovers ==
  ASSUME \A s \in Settings : s.lock >= Second
  PROVE  Spec => []LockCoversHandler
<1>1. Init => LockInv
  BY LockInit, Zenon
<1>2. LockInv /\ [Next]_vars => LockInv'
  BY LockStep, Zenon
<1>3. LockInv => LockCoversHandler
  <2> SUFFICES ASSUME LockInv, NEW w \in Worker, beat[w] >= 0
               PROVE  job.owner = w /\ Locked
    BY Zenon DEF LockCoversHandler
  <2> QED BY CoveredLocked
<1> QED BY <1>1, <1>2, <1>3, PTL DEF Spec

-----------------------------------------------------------------------------
(* The history of the failures *)

\* h has n entries, in order, and none after top.
Chronicle(h, n, top) ==
  /\ h.traces = n /\ Len(h.starts) = n
  /\ \A i, k \in 1..n : i < k => h.starts[i] <= h.starts[k]
  /\ \A i \in 1..n : h.starts[i] <= top

Unfinished == {"wait", "delayed", "active"}

HistoryInv ==
  /\ TimeInv
  /\ Chronicle(job.history, fails, job.processedOn)
  /\ job.processedOn <= Ms(now)
  /\ \A w \in Worker : job.owner = w => snap[w] = job.history
  /\ job.at \in Unfinished => fails = job.atm /\ job.atm < Larger(Opts.attempts, 1)
  /\ fails <= Larger(Opts.attempts, 1)

\* The attempts of a job, at least one.
LEMMA AttemptsLimit ==
  ASSUME Types
  PROVE  Opts.attempts \in Int /\ Larger(Opts.attempts, 1) \in Nat
         /\ Larger(Opts.attempts, 1) >= 1 /\ Opts.attempts <= Larger(Opts.attempts, 1)
<1>1. Opts.attempts \in Int
  BY TimingAssumption DEF Types, Opts, ParseJobOpts
<1> QED BY <1>1, SMTT(30) DEF Larger

\* One more failure keeps the history complete.
LEMMA ChronicleGrows ==
  ASSUME NEW h \in History, NEW n \in Nat, NEW top \in Nat, NEW start \in Nat,
         Chronicle(h, n, top), top <= start
  PROVE  Chronicle(Recorded(h, start), n + 1, start)
<1> DEFINE r == Recorded(h, start)
<1>1. /\ h.starts \in Seq(Nat) /\ Len(h.starts) = n /\ h.traces = n
      /\ \A i, k \in 1..n : i < k => h.starts[i] <= h.starts[k]
      /\ \A i \in 1..n : h.starts[i] <= top
  BY Zenon DEF Chronicle, History
<1>2. r.traces = n + 1 /\ r.starts = Append(h.starts, start)
  BY <1>1, RecordedIs, Zenon
<1>3. Len(r.starts) = n + 1 /\ r.starts[n + 1] = start
      /\ \A i \in 1..n : r.starts[i] = h.starts[i]
  BY <1>1, <1>2
<1> HIDE DEF r
<1>4. \A i \in 1..n : h.starts[i] \in Nat
  BY <1>1
<1>5. \A i \in 1..(n + 1) : i \in 1..n \/ i = n + 1
  OBVIOUS
<1>6. \A i \in 1..(n + 1) : r.starts[i] <= start
  <2>1. \A i \in 1..n : r.starts[i] \in Nat /\ r.starts[i] <= top
    BY <1>1, <1>3, <1>4, Zenon
  <2>2. \A x \in Nat : x <= top => x <= start
    OBVIOUS
  <2>3. start <= start
    OBVIOUS
  <2> QED BY <1>3, <1>5, <2>1, <2>2, <2>3, Zenon
<1>7. \A i, k \in 1..(n + 1) : i < k => r.starts[i] <= r.starts[k]
  <2> SUFFICES ASSUME NEW i \in 1..(n + 1), NEW k \in 1..(n + 1), i < k
               PROVE  r.starts[i] <= r.starts[k]
    BY Zenon
  <2>1. i \in 1..n
    OBVIOUS
  <2>2. CASE k \in 1..n
    BY <1>1, <1>3, <2>1, <2>2, Zenon
  <2>3. CASE k = n + 1
    BY <1>3, <1>6, <2>3, Zenon
  <2> QED BY <1>5, <2>2, <2>3, Zenon
<1>8. Chronicle(r, n + 1, start)
  BY <1>2, <1>3, <1>6, <1>7, Zenon DEF Chronicle
<1> QED BY <1>8, Zenon DEF r

\* A complete history stays complete as the clock moves.
LEMMA ChronicleLater ==
  ASSUME NEW h \in History, NEW n \in Nat, NEW top \in Nat, NEW later \in Nat,
         Chronicle(h, n, top), top <= later
  PROVE  Chronicle(h, n, later)
<1>1. \A i \in 1..n : h.starts[i] \in Nat /\ h.starts[i] <= top
  BY DEF Chronicle, History
<1> QED BY <1>1 DEF Chronicle

\* At the start the history is empty.
LEMMA HistoryInit == Init => HistoryInv
<1> SUFFICES ASSUME Init PROVE HistoryInv
  BY Zenon
<1>1. TimeInv /\ Types /\ now \in Nat /\ Ms(now) \in Nat
  BY TimeInit, MsBounds, Zenon DEF TimeInv, Types
<1>2. /\ job.history = NoHistory /\ fails = 0 /\ job.processedOn = 0 /\ job.atm = 0
      /\ job.owner = Nobody
  BY Zenon DEF Init
<1>3. Chronicle(NoHistory, 0, 0)
  BY DEF Chronicle, NoHistory
<1>4. Larger(Opts.attempts, 1) \in Nat /\ Larger(Opts.attempts, 1) >= 1
  BY <1>1, AttemptsLimit, Zenon
<1> QED BY <1>1, <1>2, <1>3, <1>4, TimingAssumption DEF HistoryInv

\* A step that leaves the history and its measures alone.
LEMMA HistoryKept ==
  ASSUME HistoryInv, TimeInv', setting' = setting, now' >= now, fails' = fails,
         snap' = snap, job'.history = job.history, job'.processedOn = job.processedOn,
         job'.owner \in {job.owner, Nobody},
         job'.at \in Unfinished => job.at \in Unfinished /\ job'.atm = job.atm
  PROVE  HistoryInv'
<1>1. now \in Nat /\ now' \in Nat /\ job.processedOn \in Nat /\ Nobody \notin Worker
  BY TimingAssumption, ZenonT(30) DEF HistoryInv, TimeInv, Types, IsJob
<1>2. Ms(now) \in Nat /\ Ms(now') \in Nat /\ Ms(now) <= Ms(now')
  BY <1>1, MsBounds, MsMonotone, Zenon
<1>3. Ms(now)' = Ms(now') /\ Opts' = Opts
  BY Zenon DEF Ms, Opts
<1>4. job'.processedOn <= Ms(now')
  BY <1>1, <1>2 DEF HistoryInv
<1> QED BY <1>1, <1>3, <1>4, Zenon DEF HistoryInv

\* Every step keeps the history complete.
LEMMA HistoryStep == HistoryInv /\ [Next]_vars => HistoryInv'
<1> SUFFICES ASSUME HistoryInv, [Next]_vars PROVE HistoryInv'
  BY Zenon
<1>1. /\ TimeInv /\ Types /\ Held /\ TimeInv' /\ now \in Nat /\ fails \in Nat /\ IsJob(job)
      /\ IsJob(job') /\ job.processedOn \in Nat /\ job.history \in History /\ job.atm \in Nat
  BY TimeStep, Zenon DEF HistoryInv, TimeInv, Types, IsJob
<1>2. /\ Larger(Opts.attempts, 1) \in Nat /\ Opts.attempts <= Larger(Opts.attempts, 1)
      /\ Opts.attempts \in Int
  BY <1>1, AttemptsLimit, Zenon
<1>3. Ms(now) \in Nat /\ Nobody \notin Worker
  BY <1>1, MsBounds, TimingAssumption, ZenonT(30)
<1>4. ASSUME UNCHANGED <<setting, now, job, fails, snap>> PROVE HistoryInv'
  BY <1>1, <1>4, HistoryKept
<1>5. ASSUME Advance PROVE HistoryInv'
  <2>1. now' > now /\ now' \in Nat /\ setting' = setting /\ job' = job /\ fails' = fails
        /\ snap' = snap
    BY <1>1, <1>5, AdvanceIs, Zenon
  <2>2. now' >= now
    BY <1>1, <2>1
  <2> QED BY <1>1, <2>1, <2>2, HistoryKept, Zenon
<1>6. ASSUME NEW w \in Worker, Ask(w), Take(w) PROVE HistoryInv'
  <2>1. /\ job'.processedOn = Ms(now) /\ setting' = setting /\ now' = now
        /\ job.at \in {"wait", "delayed"}
        /\ \/ /\ job'.at \in {"failed", "gone"} /\ job'.owner = Nobody
              /\ job'.history = Recorded(job.history, Ms(now)) /\ fails' = fails + 1
           \/ /\ job'.at = "active" /\ job'.owner = w /\ job'.atm = job.atm
              /\ job'.history = job.history /\ fails' = fails
              /\ snap' = [snap EXCEPT ![w] = job.history]
    BY <1>1, <1>6, TakeIs, ZenonT(30) DEF Take, IsDue, Ask
  <2>2. /\ fails = job.atm /\ job.atm < Larger(Opts.attempts, 1)
        /\ Chronicle(job.history, fails, job.processedOn) /\ job.processedOn <= Ms(now)
    BY <2>1, Zenon DEF HistoryInv, Unfinished
  <2>3. Ms(now)' = Ms(now) /\ Opts' = Opts
    BY <2>1, Zenon DEF Ms, Opts
  <2>4. job'.processedOn <= Ms(now)'
    BY <1>3, <2>1, <2>3
  <2>5. CASE /\ job'.at \in {"failed", "gone"} /\ job'.owner = Nobody
             /\ job'.history = Recorded(job.history, Ms(now)) /\ fails' = fails + 1
    <3>1. Chronicle(job'.history, fails', job'.processedOn)
      BY <1>1, <1>3, <2>1, <2>2, <2>5, ChronicleGrows, Zenon
    <3>2. fails' <= Larger(Opts.attempts, 1)
      BY <1>1, <1>2, <2>2, <2>5, SMTT(30)
    <3> QED BY <1>1, <1>3, <2>3, <2>4, <2>5, <3>1, <3>2, Zenon DEF HistoryInv, Unfinished
  <2>6. CASE /\ job'.at = "active" /\ job'.owner = w /\ job'.atm = job.atm
             /\ job'.history = job.history /\ fails' = fails
             /\ snap' = [snap EXCEPT ![w] = job.history]
    <3>1. Chronicle(job'.history, fails', job'.processedOn)
      BY <1>1, <1>3, <2>1, <2>2, <2>6, ChronicleLater, Zenon
    <3>2. \A v \in Worker : job'.owner = v => snap'[v] = job'.history
      BY <1>1, <2>6, Zenon DEF Types
    <3>3. fails' = job'.atm /\ job'.atm < Larger(Opts.attempts, 1)
          /\ fails' <= Larger(Opts.attempts, 1)
      BY <1>1, <1>2, <2>2, <2>6
    <3> QED BY <1>1, <2>3, <2>4, <3>1, <3>2, <3>3, Zenon DEF HistoryInv
  <2> QED BY <2>1, <2>5, <2>6, Zenon
<1>7. ASSUME NEW w \in Worker, HandlerReturns(w) PROVE HistoryInv'
  <2>1. setting' = setting /\ now' = now /\ snap' = snap /\ now' >= now
    BY <1>1, <1>7 DEF HandlerReturns
  <2>2. /\ job'.processedOn = job.processedOn
        /\ \/ UNCHANGED <<job, fails>>
           \/ /\ Locked /\ job.owner = w /\ job'.owner = Nobody
              /\ \/ job'.at \in {"completed", "gone"} /\ job'.history = job.history
                    /\ fails' = fails
                 \/ job'.at = "delayed" /\ job'.history = job.history /\ job'.atm = job.atm
                    /\ fails' = fails
                 \/ /\ job'.history = Recorded(snap[w], job.processedOn)
                    /\ job'.atm = job.atm + 1 /\ fails' = fails + 1
                    /\ \/ job'.at \in {"failed", "gone"}
                       \/ job'.at \in {"wait", "delayed"} /\ job.atm + 1 < Opts.attempts
    BY <1>1, <1>7, ReturnIs, Zenon
  <2>3. CASE UNCHANGED <<job, fails>>
    BY <1>4, <2>1, <2>3, Zenon
  <2>4. CASE Locked /\ job.owner = w /\ job'.owner = Nobody
    <3>1. job.at = "active" /\ snap[w] = job.history
      BY <1>1, <1>3, <2>4, Zenon DEF Held, HistoryInv
    <3>2. /\ fails = job.atm /\ job.atm < Larger(Opts.attempts, 1)
          /\ Chronicle(job.history, fails, job.processedOn) /\ job.processedOn <= Ms(now)
      BY <3>1, Zenon DEF HistoryInv, Unfinished
    <3>3. CASE job'.at \in {"completed", "gone"} /\ job'.history = job.history /\ fails' = fails
      BY <1>1, <2>1, <2>2, <2>4, <3>3, HistoryKept, Zenon DEF Unfinished
    <3>4. CASE job'.at = "delayed" /\ job'.history = job.history /\ job'.atm = job.atm
               /\ fails' = fails
      BY <1>1, <2>1, <2>2, <2>4, <3>1, <3>4, HistoryKept, Zenon DEF Unfinished
    <3>5. CASE /\ job'.history = Recorded(snap[w], job.processedOn)
               /\ job'.atm = job.atm + 1 /\ fails' = fails + 1
               /\ \/ job'.at \in {"failed", "gone"}
                  \/ job'.at \in {"wait", "delayed"} /\ job.atm + 1 < Opts.attempts
      <4>1. Chronicle(job'.history, fails', job'.processedOn)
        <5>1. job.processedOn <= job.processedOn
          BY <1>1
        <5>2. Chronicle(Recorded(job.history, job.processedOn), fails + 1, job.processedOn)
          BY <1>1, <3>2, <5>1, ChronicleGrows, Zenon
        <5> QED BY <2>2, <3>1, <3>5, <5>2, Zenon
      <4>2. Ms(now)' = Ms(now) /\ Opts' = Opts
        BY <2>1, Zenon DEF Ms, Opts
      <4>3. fails' = job'.atm /\ fails' <= Larger(Opts.attempts, 1)
        BY <1>1, <1>2, <3>2, <3>5
      <4>4. job'.at \in Unfinished => job'.atm < Larger(Opts.attempts, 1)
        BY <1>1, <1>2, <3>5 DEF Unfinished
      <4> QED BY <1>1, <1>3, <2>2, <2>4, <3>2, <4>1, <4>2, <4>3, <4>4, ZenonT(30) DEF HistoryInv
    <3> QED BY <1>1, <1>7, <2>2, <2>3, <2>4, <3>3, <3>4, <3>5, Zenon
  <2> QED BY <2>2, <2>3, <2>4, Zenon
<1>8. ASSUME NEW w \in Worker, Heartbeat(w) PROVE HistoryInv'
  <2>1. setting' = setting /\ now' = now /\ snap' = snap /\ now' >= now /\ fails' = fails
    BY <1>1, <1>8 DEF Heartbeat
  <2>2. /\ job'.at = job.at /\ job'.owner = job.owner /\ job'.atm = job.atm
        /\ job'.history = job.history /\ job'.processedOn = job.processedOn
    BY <1>1, <1>8, HeartbeatIs, Zenon
  <2> QED BY <1>1, <2>1, <2>2, HistoryKept, Zenon
<1>9. ASSUME NEW w \in Worker, Scan(w) PROVE HistoryInv'
  <2>1. /\ setting' = setting /\ now' = now /\ snap' = snap /\ now' >= now /\ fails' = fails
        /\ job' \in {job, Swept}
    BY <1>1, <1>9 DEF Scan
  <2>2. /\ Swept.atm = job.atm /\ Swept.history = job.history
        /\ Swept.processedOn = job.processedOn /\ Swept.owner \in {job.owner, Nobody}
        /\ Swept.at \in Unfinished => job.at \in Unfinished
    BY <1>1, SweptIs, Zenon DEF Unfinished
  <2> QED BY <1>1, <2>1, <2>2, HistoryKept, Zenon
<1>10. ASSUME NEW w \in Worker, Ask(w), KeptWaiting(w) PROVE HistoryInv'
  <2>1. setting' = setting /\ now' = now /\ now' >= now
    BY <1>1, <1>10 DEF Ask
  <2>2. fails' = fails /\ snap' = snap /\ (job' = job \/ Promoted)
    BY <1>1, <1>10, KeptWaitingIs, Zenon
  <2>3. /\ job'.history = job.history /\ job'.processedOn = job.processedOn
        /\ job'.owner = job.owner /\ job'.atm = job.atm
        /\ job'.at \in Unfinished => job.at \in Unfinished
    BY <2>2, Zenon DEF Promoted, Unfinished
  <2> QED BY <1>1, <2>1, <2>2, <2>3, HistoryKept, Zenon
<1>11. \/ UNCHANGED <<setting, now, job, fails, snap>>
       \/ Advance
       \/ \E w \in Worker : \/ Ask(w) /\ (Take(w) \/ KeptWaiting(w))
                            \/ HandlerReturns(w) \/ Heartbeat(w) \/ Scan(w)
  BY Zenon DEF Next, vars, Ask, FindNothing, Wake, Crash
<1> QED BY <1>4, <1>5, <1>6, <1>7, <1>8, <1>9, <1>10, <1>11, Zenon

\* The stacktrace and the start times that buildFailureHistory writes have one entry
\* for every failure, in the order of the attempts, and the failures stay within the
\* attempts, for all settings: what a worker read when it took the job is still what
\* Redis holds when its finalise finds the lock.
THEOREM HistoryIsComplete == Spec => []HistoryComplete
<1>1. Init => HistoryInv
  BY HistoryInit, Zenon
<1>2. HistoryInv /\ [Next]_vars => HistoryInv'
  BY HistoryStep, Zenon
<1>3. HistoryInv => HistoryComplete
  BY Zenon  DEF HistoryInv, Chronicle, HistoryComplete
<1> QED BY <1>1, <1>2, <1>3, PTL DEF Spec

-----------------------------------------------------------------------------
(* The recovery of a stalled job *)

\* the time at which a key is gone that lives through the millisecond end
Over(end) == (end + 1) * Milli

\* the longest time from the start of a scan to the start of the worker's next one
Lag == setting.interval + Max(setting.scanTimes)

\* the time after which no live worker lets the stalled-check key be missing
NextScanBy == Larger(Over(checkEnd), Milli) + Lag

\* Every live worker scans by NextScanBy.  An active job that is not marked was
\* locked after the last scan; the scan that marked one came in time.
RecoveryInv ==
  /\ TimeInv /\ checkEnd \in Int /\ checkEnd >= -1
  /\ setting.interval > 0 =>
       /\ checkEnd <= Ms(now) + StalledCheckTTL
       /\ \A w \in Worker : scan[w] # -1 => scan[w] <= NextScanBy
       /\ now <= NextScanBy
       /\ job.at = "active" /\ ~job.marked => checkEnd <= job.lockEnd + StalledCheckTTL
       /\ job.at = "active" /\ job.marked =>
            Over(checkEnd) <= Over(job.lockEnd) + 2 * (StalledCheckTTL * Milli) + Milli + Lag

\* The bounds on the time between two scans.
LEMMA ScanFacts ==
  ASSUME Types
  PROVE  /\ Lag \in Nat /\ StalledCheckTTL \in Nat /\ StalledCheckTTL >= 1
         /\ Max(setting.scanTimes) \in Nat /\ Lag = setting.interval + Max(setting.scanTimes)
         /\ \A t \in setting.scanTimes : t \in Nat /\ t <= Max(setting.scanTimes)
         /\ setting.interval <= Lag /\ StalledCheckTTL * Milli \in Nat
<1>1. /\ setting.interval \in Nat /\ setting.scanTimes \subseteq Nat
      /\ \E longest \in setting.scanTimes : \A t \in setting.scanTimes : t <= longest
  BY TimingAssumption, Zenon DEF Types
<1>2. \E x \in setting.scanTimes : \A y \in setting.scanTimes : x >= y
  BY <1>1, Zenon
<1>3. Max(setting.scanTimes) \in setting.scanTimes
      /\ \A y \in setting.scanTimes : Max(setting.scanTimes) >= y
  BY <1>2, Zenon DEF Max
<1>4. Max(setting.scanTimes) \in Nat
      /\ \A t \in setting.scanTimes : t \in Nat /\ t <= Max(setting.scanTimes)
  BY <1>1, <1>3, Zenon
<1>5. setting.interval - setting.interval \div 10 \in Int
  BY <1>1
<1>6. StalledCheckTTL \in Nat /\ StalledCheckTTL >= 1
  BY <1>5, MillisecondsOf DEF StalledCheckTTL, Larger
<1>7. StalledCheckTTL * Milli \in Nat
  BY <1>6, Units
<1> QED BY <1>1, <1>4, <1>6, <1>7, SMTT(30) DEF Lag

\* The first tick at which a key with an end has expired.
LEMMA OverIs ==
  ASSUME NEW end \in Int, NEW t \in Nat
  PROVE  Over(end) \in Int /\ (Ms(t) <= end <=> t < Over(end))
<1>1. end + 1 \in Int /\ (end + 1) * Milli \in Int /\ Ms(t) \in Nat
  BY Units, MsBounds
<1>2. end + 1 <= Ms(t) <=> (end + 1) * Milli <= t
  BY <1>1, MsReached, Zenon
<1> QED BY <1>1, <1>2 DEF Over

\* A key with a later end expires later.
LEMMA OverMonotone ==
  ASSUME NEW a \in Int, NEW b \in Int, a <= b
  PROVE  Over(a) <= Over(b)
<1>1. a + 1 \in Int /\ b + 1 \in Int /\ a + 1 <= b + 1
  OBVIOUS
<1>2. (a + 1) * Milli <= (b + 1) * Milli
  BY <1>1, Scaled, Zenon
<1> QED BY <1>2, Zenon DEF Over

\* The expiry of a key, n milliseconds later.
LEMMA OverShifted ==
  ASSUME NEW a \in Int, NEW n \in Int
  PROVE  Over(a + n) = Over(a) + n * Milli
BY Units DEF Over

\* The key that a scan at t sets lives for the lifetime and at most a millisecond.
LEMMA OverSet ==
  ASSUME NEW t \in Nat, NEW ttl \in Nat
  PROVE  t < Over(Ms(t) + ttl) /\ Over(Ms(t) + ttl) <= t + ttl * Milli + Milli
<1>1. Ms(t) \in Int /\ Ms(t) * Milli \in Nat /\ Ms(t) * Milli <= t /\ t < Ms(t) * Milli + Milli
  BY MsBounds
<1>2. ttl * Milli \in Nat
  BY Units
<1>3. Over(Ms(t) + ttl) = Over(Ms(t)) + ttl * Milli
  BY <1>1, OverShifted
<1>4. Over(Ms(t)) = Ms(t) * Milli + Milli
  BY <1>1, Units DEF Over
<1> QED BY <1>1, <1>2, <1>3, <1>4, Units

\* At the start nothing is to be recovered.
LEMMA RecoveryInit == Init => RecoveryInv
<1> SUFFICES ASSUME Init PROVE RecoveryInv
  BY Zenon
<1>1. /\ TimeInv /\ Types /\ now = Milli /\ checkEnd = -1 /\ job.at = "wait"
      /\ Milli \in Nat /\ now \in Nat /\ Ms(now) \in Nat
  BY TimeInit, MsBounds, ZenonT(30) DEF TimeInv, Types, Init
<1>2. /\ Lag \in Nat /\ StalledCheckTTL \in Nat /\ setting.interval <= Lag
      /\ setting.interval \in Nat
  BY <1>1, ScanFacts, SettingFacts, Zenon
<1>3. Over(checkEnd) = 0
  BY <1>1 DEF Over
<1>4. NextScanBy = Milli + Lag
  BY <1>1, <1>3 DEF NextScanBy, Larger
<1>5. ASSUME NEW w \in Worker, scan[w] # -1 PROVE scan[w] <= NextScanBy
  <2>1. scan[w] = Milli + setting.first[w]
    BY <1>5, Zenon DEF Init, FirstScan
  <2>2. setting.first[w] \in 0..setting.interval
    BY <1>1, TimingAssumption, Zenon DEF Types
  <2>3. Milli + setting.first[w] <= Milli + Lag
    BY <1>1, <1>2, <2>2
  <2> QED BY <1>4, <2>1, <2>3, Zenon
<1>6. now <= NextScanBy /\ checkEnd <= Ms(now) + StalledCheckTTL
  BY <1>1, <1>2, <1>4, SMTT(30)
<1> QED BY <1>1, <1>5, <1>6, SMTT(30) DEF RecoveryInv

\* A step without a scan keeps the invariant when the job is left alone, or is
\* locked anew and not marked, or is no longer active.
LEMMA RecoveryKept ==
  ASSUME RecoveryInv, TimeInv', setting' = setting, now' = now, checkEnd' = checkEnd,
         \A w \in Worker : scan'[w] \in {scan[w], -1},
         job'.at = "active" =>
           \/ job.at = "active" /\ job'.marked = job.marked /\ job'.lockEnd = job.lockEnd
           \/ ~job'.marked /\ job'.lockEnd >= Ms(now)
  PROVE  RecoveryInv'
<1>1. /\ StalledCheckTTL' = StalledCheckTTL /\ NextScanBy' = NextScanBy /\ Ms(now)' = Ms(now)
      /\ Over(checkEnd)' = Over(checkEnd) /\ Lag' = Lag /\ Over(job.lockEnd)' = Over(job'.lockEnd)
  BY Zenon  DEF StalledCheckTTL, NextScanBy, Over, Lag, Ms
<1>2. /\ Types /\ now \in Nat /\ Ms(now) \in Nat /\ checkEnd \in Int /\ job'.lockEnd \in Nat
  BY MsBounds, Zenon DEF RecoveryInv, TimeInv, Types, IsJob
<1>3. StalledCheckTTL \in Nat
  BY <1>2, ScanFacts, Zenon
<1>4. ASSUME setting.interval > 0, job'.at = "active", ~job'.marked
      PROVE  checkEnd <= job'.lockEnd + StalledCheckTTL
  <2>1. CASE job.at = "active" /\ job'.marked = job.marked /\ job'.lockEnd = job.lockEnd
    BY <1>4, <2>1, Zenon DEF RecoveryInv
  <2>2. CASE job'.lockEnd >= Ms(now)
    <3>1. checkEnd <= Ms(now) + StalledCheckTTL
      BY <1>4, Zenon DEF RecoveryInv
    <3> QED BY <1>2, <1>3, <2>2, <3>1
  <2> QED BY <1>4, <2>1, <2>2, Zenon
<1>5. ASSUME setting.interval > 0, job'.at = "active", job'.marked
      PROVE  Over(checkEnd) <= Over(job'.lockEnd) + 2 * (StalledCheckTTL * Milli) + Milli + Lag
  BY <1>5, Zenon DEF RecoveryInv
<1> QED BY <1>1, <1>4, <1>5, Zenon DEF RecoveryInv

\* The clock moves only while a worker lives.
LEMMA SomeoneLives ==
  ASSUME TimeInv, Advance
  PROVE  \E w \in Worker : pc[w] # "dead"
<1>1. \A w \in Worker : OnTime(w) /\ beat[w] \in Timer /\ scan[w] \in Timer
  BY Zenon DEF TimeInv, Types
<1>2. PICK t \in Timers : TRUE
  BY Zenon DEF Advance
<1>3. \E w \in Worker : \/ pc[w] \in {"sleeping", "napping", "parked", "running"}
                        \/ beat[w] >= 0 \/ scan[w] >= 0
  BY <1>2, Zenon DEF Timers
<1>4. \A n \in Timer : n >= 0 => n # -1
  BY DEF Timer
<1> QED BY <1>1, <1>3, <1>4, Zenon DEF OnTime

\* The clock does not pass a scan that is due.
LEMMA RecoveryAdvance ==
  ASSUME RecoveryInv, Advance
  PROVE  RecoveryInv'
<1>1. TimeInv /\ TimeInv' /\ Types
  BY TimeAdvance, Zenon DEF RecoveryInv, TimeInv
<1>2. /\ now \in Nat /\ now' \in Nat /\ now' > now
      /\ \A w \in Worker : scan[w] # -1 => scan[w] >= now'
      /\ UNCHANGED <<setting, job, checkEnd, marker, pc, until, beat, scan, idleWait, snap, fails>>
  BY <1>1, AdvanceIs, Zenon
<1>3. /\ StalledCheckTTL' = StalledCheckTTL /\ NextScanBy' = NextScanBy /\ Ms(now)' = Ms(now')
      /\ Over(checkEnd)' = Over(checkEnd) /\ Lag' = Lag /\ Over(job.lockEnd)' = Over(job.lockEnd)
  BY <1>2, Zenon DEF StalledCheckTTL, NextScanBy, Over, Lag, Ms
<1>4. Ms(now) \in Nat /\ Ms(now') \in Nat /\ Ms(now) <= Ms(now') /\ checkEnd \in Int
      /\ StalledCheckTTL \in Nat
  BY <1>1, <1>2, MsBounds, MsMonotone, ScanFacts DEF RecoveryInv
<1>5. ASSUME setting.interval > 0
      PROVE  now' <= NextScanBy /\ checkEnd <= Ms(now') + StalledCheckTTL
  <2>1. PICK w \in Worker : pc[w] # "dead"
    BY <1>1, SomeoneLives, Zenon
  <2>2. scan[w] # -1 /\ scan[w] \in Timer
    BY <1>1, <1>5, <2>1, ZenonT(30) DEF TimeInv, OnTime, Types
  <2>3. scan[w] >= now' /\ scan[w] <= NextScanBy
    BY <1>2, <1>5, <2>2, Zenon DEF RecoveryInv
  <2>4. NextScanBy \in Int
    <3>1. Over(checkEnd) \in Int /\ Lag \in Nat /\ Milli \in Nat
      BY <1>1, <1>2, <1>4, OverIs, ScanFacts, Units, ZenonT(30)
    <3> QED BY <3>1 DEF NextScanBy, Larger
  <2>5. now' <= NextScanBy
    BY <1>2, <2>2, <2>3, <2>4 DEF Timer
  <2>6. checkEnd <= Ms(now) + StalledCheckTTL
    BY <1>5, Zenon DEF RecoveryInv
  <2> QED BY <1>4, <2>5, <2>6
<1>6. checkEnd' \in Int /\ checkEnd' >= -1
  BY <1>2, Zenon DEF RecoveryInv
<1> QED BY <1>1, <1>2, <1>3, <1>5, <1>6, Zenon DEF RecoveryInv

\* An active job that is not marked is seen by a scan in time.
LEMMA MarkedInTime ==
  ASSUME NEW k \in Int, NEW l \in Int, NEW ttl \in Nat, NEW t \in Nat, NEW lag \in Nat,
         NEW m \in Nat, m <= l, k <= l + ttl, t <= Larger(k, m) + lag
  PROVE  t <= l + ttl + lag
BY DEF Larger

\* A job without a mark has had its lock until a scan ago.
LEMMA UnmarkedSeen ==
  ASSUME RecoveryInv, setting.interval > 0, job.at = "active", ~job.marked
  PROVE  now <= Over(job.lockEnd) + StalledCheckTTL * Milli + Lag
<1>1. /\ Types /\ checkEnd \in Int /\ job.lockEnd \in Nat /\ now \in Nat
      /\ checkEnd <= job.lockEnd + StalledCheckTTL /\ now <= Larger(Over(checkEnd), Milli) + Lag
  BY Zenon DEF RecoveryInv, TimeInv, Types, IsJob, NextScanBy
<1>2. /\ Lag \in Nat /\ StalledCheckTTL \in Nat /\ StalledCheckTTL * Milli \in Nat /\ Milli \in Nat
  BY <1>1, ScanFacts, Units, ZenonT(30)
<1>3. job.lockEnd \in Int /\ job.lockEnd + StalledCheckTTL \in Int /\ StalledCheckTTL \in Int
      /\ 0 <= job.lockEnd /\ 0 \in Int
  BY <1>1, <1>2
<1>4. Over(checkEnd) <= Over(job.lockEnd) + StalledCheckTTL * Milli
  <2>1. Over(checkEnd) <= Over(job.lockEnd + StalledCheckTTL)
    BY <1>1, <1>3, OverMonotone, Zenon
  <2>2. Over(job.lockEnd + StalledCheckTTL) = Over(job.lockEnd) + StalledCheckTTL * Milli
    BY <1>3, OverShifted, Zenon
  <2> QED BY <2>1, <2>2, Zenon
<1>5. Milli <= Over(job.lockEnd)
  <2>1. Over(0) <= Over(job.lockEnd)
    BY <1>3, OverMonotone, Zenon
  <2>2. Over(0) = Milli
    BY <1>2 DEF Over
  <2> QED BY <2>1, <2>2, Zenon
<1>6. Over(checkEnd) \in Int /\ Over(job.lockEnd) \in Int
  BY <1>1, <1>3, OverIs, Zenon
<1> QED BY <1>1, <1>2, <1>4, <1>5, <1>6, MarkedInTime, Zenon

\* A scan
LEMMA RecoveryScan ==
  ASSUME RecoveryInv, NEW w \in Worker, Scan(w)
  PROVE  RecoveryInv'
<1>1. /\ TimeInv /\ Types /\ Held /\ TimeInv' /\ IsJob(job) /\ now \in Nat /\ checkEnd \in Int
      /\ job.lockEnd \in Nat /\ checkEnd >= -1 /\ setting' = setting /\ now' = now
  BY TimeScan, ZenonT(30) DEF RecoveryInv, TimeInv, Types, IsJob, Scan
<1>2. PICK took \in setting.scanTimes : scan' = [scan EXCEPT ![w] = now + took + setting.interval]
  BY Zenon DEF Scan
<1>3. /\ Lag \in Nat /\ StalledCheckTTL \in Nat /\ StalledCheckTTL * Milli \in Nat /\ Milli \in Nat
      /\ Ms(now) \in Nat /\ Over(checkEnd) \in Int
      /\ took \in Nat /\ setting.interval \in Nat /\ took + setting.interval <= Lag
  <2>1. /\ Lag \in Nat /\ StalledCheckTTL \in Nat /\ StalledCheckTTL * Milli \in Nat
        /\ Max(setting.scanTimes) \in Nat /\ Lag = setting.interval + Max(setting.scanTimes)
        /\ took \in Nat /\ took <= Max(setting.scanTimes)
    BY <1>1, ScanFacts, Zenon
  <2>2. setting.interval \in Nat /\ Milli \in Nat /\ Ms(now) \in Nat /\ Over(checkEnd) \in Int
    BY <1>1, SettingFacts, Units, MsBounds, OverIs, ZenonT(30)
  <2>3. took + setting.interval <= Lag
    BY <2>1, <2>2
  <2> QED BY <2>1, <2>2, <2>3, ZenonT(30)
<1>4. /\ scan'[w] = now + took + setting.interval /\ scan'[w] \in Nat /\ scan'[w] <= now + Lag
      /\ \A v \in Worker \ {w} : scan'[v] = scan[v] /\ scan[v] \in Timer
  BY <1>1, <1>2, <1>3 DEF Types
<1>5. /\ StalledCheckTTL' = StalledCheckTTL /\ Ms(now)' = Ms(now) /\ Lag' = Lag
      /\ NextScanBy' = Larger(Over(checkEnd'), Milli) + Lag
      /\ Over(checkEnd)' = Over(checkEnd') /\ Over(job.lockEnd)' = Over(job'.lockEnd)
  BY <1>1, Zenon DEF StalledCheckTTL, NextScanBy, Over, Lag, Ms
<1>6. CASE Alive(checkEnd)
  <2>1. job' = job /\ checkEnd' = checkEnd
    BY <1>6, Zenon DEF Scan
  <2>2. now < Over(checkEnd)
    BY <1>1, <1>6, OverIs, Zenon DEF Alive
  <2>3. scan'[w] <= Larger(Over(checkEnd), Milli) + Lag
    BY <1>1, <1>3, <1>4, <2>2, SMTT(30) DEF Larger
  <2>4. NextScanBy' = NextScanBy /\ Over(job.lockEnd)' = Over(job.lockEnd)
        /\ Over(checkEnd)' = Over(checkEnd)
    BY <1>5, <2>1, Zenon DEF NextScanBy
  <2>5. \A v \in Worker : setting.interval > 0 /\ scan'[v] # -1 => scan'[v] <= NextScanBy
    BY <1>4, <2>3, Zenon DEF RecoveryInv, NextScanBy
  <2> QED BY <1>1, <1>5, <2>1, <2>4, <2>5, Zenon DEF RecoveryInv
<1>7. CASE ~Alive(checkEnd)
  <2> DEFINE over == Over(checkEnd')
  <2>1. job' = Swept /\ checkEnd' = Ms(now) + StalledCheckTTL
    BY <1>7, Zenon DEF Scan
  <2>2. now < over /\ over <= now + StalledCheckTTL * Milli + Milli
    BY <1>1, <1>3, <2>1, OverSet, Zenon
  <2>3. checkEnd' \in Int /\ checkEnd' >= -1 /\ over \in Int
    <3>1. checkEnd' \in Int /\ checkEnd' >= -1
      BY <1>3, <2>1
    <3> QED BY <1>1, <3>1, OverIs, Zenon
  <2>4. Over(checkEnd) <= now
    BY <1>1, <1>3, <1>7, OverIs DEF Alive
  <2> HIDE DEF over
  <2>5. ASSUME setting.interval > 0, NEW v \in Worker, scan'[v] # -1
        PROVE  scan'[v] <= Larger(over, Milli) + Lag
    <3>1. CASE v = w
      BY <1>1, <1>3, <1>4, <2>2, <2>3, <3>1, SMTT(30) DEF Larger
    <3>2. CASE v # w
      <4>1. scan[v] \in Nat /\ scan'[v] = scan[v] /\ scan[v] <= Larger(Over(checkEnd), Milli) + Lag
        BY <1>4, <2>5, <3>2, Zenon DEF RecoveryInv, NextScanBy, Timer
      <4> QED BY <1>1, <1>3, <2>2, <2>3, <2>4, <4>1, SMTT(30) DEF Larger
    <3> QED BY <3>1, <3>2, Zenon
  <2>6. now <= Larger(over, Milli) + Lag
    BY <1>1, <1>3, <2>2, <2>3 DEF Larger
  <2>7. ASSUME setting.interval > 0, job'.at = "active"
        PROVE  /\ job'.marked
               /\ over <= Over(job'.lockEnd) + 2 * (StalledCheckTTL * Milli) + Milli + Lag
    <3>1. /\ ~ (job.at = "active" /\ job.marked /\ ~Locked) /\ job.at = "active"
          /\ job'.marked /\ job'.lockEnd = job.lockEnd
      BY <1>1, <2>1, <2>7, SweptIs, Zenon
    <3>2. Over(job.lockEnd) \in Int
      BY <1>1, OverIs
    <3>3. CASE job.marked
      <4>1. now < Over(job.lockEnd)
        BY <1>1, <3>1, <3>3, OverIs DEF Locked, Alive
      <4> QED BY <1>1, <1>3, <2>2, <2>3, <3>1, <3>2, <4>1, SMTT(30)
    <3>4. CASE ~job.marked
      <4>1. now <= Over(job.lockEnd) + StalledCheckTTL * Milli + Lag
        BY <2>7, <3>1, <3>4, UnmarkedSeen, Zenon
      <4> DEFINE l == Over(job.lockEnd)
                 t == StalledCheckTTL * Milli
      <4>2. /\ l \in Int /\ t \in Nat /\ now <= l + t + Lag /\ over <= now + t + Milli
        BY <1>3, <2>2, <3>2, <4>1, Zenon
      <4> HIDE DEF l, t
      <4>3. over <= l + 2 * t + Milli + Lag
        BY <1>1, <1>3, <2>3, <4>2, SMTT(30)
      <4> QED BY <3>1, <4>3, Zenon DEF l, t
    <3> QED BY <3>3, <3>4, Zenon
  <2>8. checkEnd' <= Ms(now) + StalledCheckTTL
    BY <1>3, <2>1
  <2> QED BY <1>1, <1>5, <2>3, <2>5, <2>6, <2>7, <2>8, Zenon DEF RecoveryInv, over
<1> QED BY <1>6, <1>7, ZenonT(30)

\* Every step keeps the recovery on time.
LEMMA RecoveryStep == RecoveryInv /\ [Next]_vars => RecoveryInv'
<1> SUFFICES ASSUME RecoveryInv, [Next]_vars PROVE RecoveryInv'
  BY Zenon
<1>1. TimeInv /\ Types /\ Held /\ TimeInv' /\ now \in Nat /\ Ms(now) \in Nat
      /\ setting.lock \in Nat /\ Ms(setting.lock) \in Nat
  BY TimeStep, MsBounds, SettingFacts, ZenonT(30) DEF RecoveryInv, TimeInv, Types
<1>2. CASE UNCHANGED <<setting, now, checkEnd, job, scan>>
  BY <1>1, <1>2, RecoveryKept, Zenon
<1>3. ASSUME NEW w \in Worker, Ask(w), Take(w) PROVE RecoveryInv'
  <2>1. setting' = setting /\ now' = now /\ checkEnd' = checkEnd /\ scan' = scan
        /\ job.at # "active"
    BY <1>3, Zenon DEF Ask, Take, IsDue
  <2>2. job'.at = "active" => ~job'.marked /\ job'.lockEnd = Ms(now) + Ms(setting.lock)
    BY <1>1, <1>3, <2>1, TakeIs, Zenon DEF Held
  <2>3. Ms(now) + Ms(setting.lock) >= Ms(now)
    BY <1>1
  <2> QED BY <1>1, <2>1, <2>2, <2>3, RecoveryKept, Zenon
<1>4. ASSUME NEW w \in Worker, HandlerReturns(w) PROVE RecoveryInv'
  <2>1. setting' = setting /\ now' = now /\ checkEnd' = checkEnd /\ scan' = scan
    BY <1>4, Zenon DEF HandlerReturns
  <2>2. job' = job \/ job'.at # "active"
    BY <1>1, <1>4, ReturnIs, Zenon
  <2> QED BY <1>1, <2>1, <2>2, RecoveryKept, Zenon
<1>5. ASSUME NEW w \in Worker, Heartbeat(w) PROVE RecoveryInv'
  <2>1. setting' = setting /\ now' = now /\ checkEnd' = checkEnd /\ scan' = scan
    BY <1>5, Zenon DEF Heartbeat
  <2>2. job' = job \/ (~job'.marked /\ job'.lockEnd = Ms(now) + Ms(setting.lock))
    BY <1>1, <1>5, HeartbeatIs, Zenon
  <2>3. Ms(now) + Ms(setting.lock) >= Ms(now)
    BY <1>1
  <2> QED BY <1>1, <2>1, <2>2, <2>3, RecoveryKept, Zenon
<1>6. ASSUME NEW w \in Worker, Crash(w) PROVE RecoveryInv'
  <2>1. setting' = setting /\ now' = now /\ checkEnd' = checkEnd /\ job' = job
        /\ scan' = [scan EXCEPT ![w] = -1]
    BY <1>6, Zenon DEF Crash
  <2>2. \A v \in Worker : scan'[v] \in {scan[v], -1}
    BY <1>1, <2>1, Zenon DEF Types
  <2> QED BY <1>1, <2>1, <2>2, RecoveryKept, Zenon
<1>7. ASSUME NEW w \in Worker, Ask(w), KeptWaiting(w) PROVE RecoveryInv'
  <2>1. setting' = setting /\ now' = now /\ checkEnd' = checkEnd /\ scan' = scan
    BY <1>7, Zenon DEF Ask
  <2>2. job' = job \/ job'.at = "wait"
    BY <1>1, <1>7, KeptWaitingIs, Zenon DEF Promoted
  <2> QED BY <1>1, <2>1, <2>2, RecoveryKept, Zenon
<1>8. \/ UNCHANGED <<setting, now, checkEnd, job, scan>>
      \/ Advance
      \/ \E w \in Worker : \/ Ask(w) /\ (Take(w) \/ KeptWaiting(w))
                           \/ HandlerReturns(w) \/ Heartbeat(w) \/ Scan(w) \/ Crash(w)
  BY ZenonT(30) DEF Next, vars, Ask, FindNothing, Wake
<1> QED BY <1>2, <1>3, <1>4, <1>5, <1>6, <1>7, <1>8, RecoveryScan, RecoveryAdvance, Zenon

\* The stalled-check key lives no longer than the interval (or a millisecond), and
\* from 10 ms on at least a millisecond less.
LEMMA TTLShort ==
  ASSUME Types
  PROVE  /\ StalledCheckTTL * Milli <= Larger(setting.interval, Milli)
         /\ setting.interval >= 10 * Milli =>
              StalledCheckTTL * Milli + Milli <= setting.interval
<1> DEFINE i == setting.interval
           x == i - i \div 10
           m == Ms(x)
<1>1. i \in Nat /\ Milli \in Nat /\ Milli >= 1
  BY SettingFacts, Units, ZenonT(30)
<1>2. x \in Nat /\ x <= i /\ (i >= 10 * Milli => x + Milli <= i /\ x >= Milli)
  <2> HIDE DEF i
  <2>1. i \div 10 \in Nat /\ 10 * (i \div 10) <= i /\ i < 10 * (i \div 10) + 10
    BY <1>1
  <2> DEFINE q == i \div 10
  <2> HIDE DEF q
  <2>2. q \in Nat /\ 10 * q <= i /\ i < 10 * q + 10
    BY <2>1, Zenon DEF q
  <2>3. i - q \in Nat /\ i - q <= i /\ (i >= 10 * Milli => (i - q) + Milli <= i /\ i - q >= Milli)
    BY <1>1, <2>2
  <2> QED BY <2>3, Zenon DEF q
<1> HIDE DEF x, i
<1>3. m \in Nat /\ m * Milli \in Nat /\ m * Milli <= x
  BY <1>2, MsBounds, Zenon
<1>4. StalledCheckTTL = Larger(m, 1)
  <2>1. x \in Int /\ x >= 0
    BY <1>2
  <2>2. Milliseconds(x) = m
    BY <2>1, MillisecondsOf, Zenon
  <2> QED BY <2>2, Zenon DEF StalledCheckTTL, x, i
<1>5. x >= Milli => m >= 1
  <2>1. 1 * Milli = Milli
    BY <1>1
  <2>2. 1 \in Int /\ (Milli <= x <=> x >= Milli) /\ (1 <= m <=> m >= 1)
    BY <1>1, <1>2, <1>3
  <2> QED BY <1>2, <2>1, <2>2, MsReached, Zenon
<1> HIDE DEF m
<1>6. CASE m >= 1
  <2>1. StalledCheckTTL = m
    BY <1>3, <1>4, <1>6 DEF Larger
  <2>2. m * Milli <= Larger(i, Milli) /\ (i >= 10 * Milli => m * Milli + Milli <= i)
    <3> DEFINE p == m * Milli
    <3>1. p \in Nat /\ p <= x
      BY <1>3, Zenon
    <3> HIDE DEF p
    <3>2. p <= Larger(i, Milli) /\ (i >= 10 * Milli => p + Milli <= i)
      BY <1>1, <1>2, <3>1 DEF Larger
    <3> QED BY <3>2, Zenon DEF p
  <2> QED BY <2>1, <2>2, Zenon DEF i
<1>7. CASE ~ (m >= 1)
  <2>1. StalledCheckTTL = 1
    BY <1>3, <1>4, <1>7 DEF Larger
  <2>2. StalledCheckTTL * Milli = Milli
    BY <1>1, <2>1
  <2>3. ~ (i >= 10 * Milli)
    BY <1>2, <1>5, <1>7, Zenon
  <2>4. Milli <= Larger(i, Milli)
    BY <1>1 DEF Larger
  <2> QED BY <2>2, <2>3, <2>4, Zenon DEF i
<1> QED BY <1>6, <1>7, Zenon

\* A job whose lock has run out is back in wait within two rounds of the stalled
\* check, each of two intervals (the life of the key and the wait for a scan), a
\* millisecond and the longest scan, for any number of workers, whoever dies and
\* however their scans fall.
THEOREM AlwaysRecoveredInTime == Spec => []RecoveredInTime
<1>1. Init => RecoveryInv
  BY RecoveryInit, Zenon
<1>2. RecoveryInv /\ [Next]_vars => RecoveryInv'
  BY RecoveryStep, Zenon
<1>3. RecoveryInv => RecoveredInTime
  <2> SUFFICES ASSUME RecoveryInv, job.at = "active", ~Alive(job.lockEnd), setting.interval > 0
               PROVE  now - (job.lockEnd + 1) * Milli
                        <= 2 * (setting.interval + Larger(setting.interval, Milli) + Milli
                                + Max(setting.scanTimes))
    BY Zenon DEF RecoveredInTime
  <2> DEFINE l == Over(job.lockEnd)
             t == StalledCheckTTL * Milli
             x == Max(setting.scanTimes)
  <2>1. Types /\ job.lockEnd \in Nat /\ now \in Nat /\ checkEnd \in Int
    BY Zenon  DEF RecoveryInv, TimeInv, Types, IsJob
  <2>2. /\ Lag \in Nat /\ t \in Nat /\ Milli \in Nat /\ x \in Nat /\ setting.interval \in Nat
        /\ Lag = setting.interval + x /\ l \in Int /\ Over(checkEnd) \in Int
        /\ StalledCheckTTL \in Nat
    BY <2>1, ScanFacts, SettingFacts, Units, OverIs
  <2>3. t <= Larger(setting.interval, Milli)
    BY <2>1, TTLShort, Zenon
  <2>4. now <= l + 2 * t + Milli + 2 * Lag
    <3>1. CASE job.marked
      <4>1. Over(checkEnd) <= l + 2 * t + Milli + Lag /\ now <= Larger(Over(checkEnd), Milli) + Lag
        BY <3>1, Zenon DEF RecoveryInv, NextScanBy
      <4>2. Milli <= l
        <5>1. 0 \in Int /\ job.lockEnd \in Int /\ 0 <= job.lockEnd
          BY <2>1
        <5>2. Over(0) <= Over(job.lockEnd)
          BY <5>1, OverMonotone, Zenon
        <5>3. Over(0) = Milli
          BY <2>2 DEF Over
        <5> QED BY <5>2, <5>3, Zenon
      <4> HIDE DEF l, t
      <4> QED BY <2>1, <2>2, <4>1, <4>2 DEF Larger
    <3>2. CASE ~job.marked
      <4>1. now <= l + t + Lag
        BY <3>2, UnmarkedSeen, Zenon
      <4> HIDE DEF l, t
      <4> QED BY <2>1, <2>2, <4>1
    <3> QED BY <3>1, <3>2, Zenon
  <2>5. (job.lockEnd + 1) * Milli = l
    BY Zenon DEF Over
  <2> HIDE DEF l, t, x
  <2>6. now - l <= 2 * (setting.interval + Larger(setting.interval, Milli) + Milli + x)
    <3> DEFINE i == setting.interval
               g == Larger(i, Milli)
    <3>1. i \in Nat /\ g \in Nat /\ t <= g /\ Lag = i + x
      BY <2>2, <2>3 DEF Larger
    <3> HIDE DEF i, g
    <3>2. now - l <= 2 * (i + g + Milli + x)
      BY <2>1, <2>2, <2>4, <3>1
    <3> QED BY <3>2, Zenon DEF i, g
  <2> QED BY <2>5, <2>6, Zenon DEF x
<1> QED BY <1>1, <1>2, <1>3, PTL DEF Spec

-----------------------------------------------------------------------------
(* The scans of one worker *)

\* A worker that does not run never does, and one that scans alone scans next when
\* the key of its last scan has expired.
LoneInv ==
  /\ TimeInv /\ checkEnd \in Int
  /\ \A w \in Worker : w \notin setting.running => pc[w] = "dead"
  /\ \A w \in Worker :
       setting.running = {w} /\ setting.interval >= 10 * Milli /\ scan[w] # -1 =>
         Over(checkEnd) <= scan[w]

\* At the start there is no key.
LEMMA LoneInit == Init => LoneInv
<1> SUFFICES ASSUME Init PROVE LoneInv
  BY Zenon
<1>1. TimeInv /\ Types /\ checkEnd = -1
  BY TimeInit, Zenon DEF TimeInv, Init
<1>2. checkEnd \in Int /\ Over(checkEnd) = 0
  BY <1>1, Units DEF Over
<1>3. \A w \in Worker : scan[w] # -1 => Over(checkEnd) <= scan[w]
  BY <1>1, <1>2 DEF Types, Timer
<1>4. \A w \in Worker : w \notin setting.running => pc[w] = "dead"
  BY Zenon DEF Init
<1> QED BY <1>1, <1>2, <1>3, <1>4, Zenon DEF LoneInv

\* A dead worker stays dead.
LEMMA DeadStays ==
  ASSUME TimeInv, Next, NEW v \in Worker, pc[v] = "dead"
  PROVE  pc'[v] = "dead"
<1>1. Types
  BY Zenon DEF TimeInv
<1>2. CASE Advance
  BY <1>2, Zenon DEF Advance
<1>3. ASSUME NEW w \in Worker, Ask(w) PROVE pc'[v] = "dead"
  <2>1. pc[w] = "asking"
    BY <1>3, Zenon DEF Ask
  <2>2. pc' = pc \/ \E how \in Pc : pc' = [pc EXCEPT ![w] = how]
    <3>1. CASE Take(w)
      BY <1>1, <3>1, TakeIs, Zenon DEF Pc
    <3>2. CASE FindNothing(w)
      BY <3>2, FindNothingIs, Zenon DEF Pc
    <3>3. CASE KeptWaiting(w)
      BY <3>3, KeptWaitingIs, Zenon DEF Pc
    <3> QED BY <1>3, <3>1, <3>2, <3>3, Zenon DEF Ask
  <2> QED BY <1>1, <2>1, <2>2, Zenon DEF Types
<1>4. ASSUME NEW w \in Worker, Wake(w) \/ HandlerReturns(w) \/ Heartbeat(w) \/ Scan(w) \/ Crash(w)
      PROVE  pc'[v] = "dead"
  BY <1>1, <1>4, Zenon DEF Types, Wake, HandlerReturns, Heartbeat, Scan, Crash
<1> QED BY <1>2, <1>3, <1>4, Zenon DEF Next

\* Every step keeps the key of a lone worker shorter than its interval.
LEMMA LoneStep == LoneInv /\ [Next]_vars => LoneInv'
<1> SUFFICES ASSUME LoneInv, [Next]_vars PROVE LoneInv'
  BY Zenon
<1>1. TimeInv /\ Types /\ TimeInv' /\ checkEnd \in Int /\ now \in Nat
  BY TimeStep, Zenon DEF LoneInv, TimeInv, Types
<1>2. CASE UNCHANGED vars
  BY <1>1, <1>2, Zenon DEF vars, LoneInv, Over
<1>3. ASSUME Next PROVE LoneInv'
  <2>1. setting' = setting /\ \A w \in Worker : w \notin setting.running => pc'[w] = "dead"
    <3>1. setting' = setting
      BY <1>3, Zenon DEF Next, Advance, Ask, Wake, HandlerReturns, Heartbeat, Scan, Crash
    <3> QED BY <1>1, <1>3, <3>1, DeadStays, Zenon DEF LoneInv
  <2>2. ASSUME checkEnd' = checkEnd, \A w \in Worker : scan'[w] \in {scan[w], -1} PROVE LoneInv'
    BY <1>1, <2>1, <2>2, Zenon DEF LoneInv, Over
  <2>3. ASSUME NEW w \in Worker, Scan(w) PROVE LoneInv'
    <3>1. scan[w] = now /\ pc[w] # "dead" /\ now' = now
      BY <2>3, Zenon DEF Scan
    <3>2. PICK took \in setting.scanTimes :
            scan' = [scan EXCEPT ![w] = now + took + setting.interval]
      BY <2>3, Zenon DEF Scan
    <3>3. took \in Nat /\ setting.interval \in Nat /\ StalledCheckTTL \in Nat /\ Ms(now) \in Nat
          /\ StalledCheckTTL * Milli \in Nat /\ Milli \in Nat
      BY <1>1, SettingFacts, ScanFacts, MsBounds, Units, ZenonT(30)
    <3>4. scan'[w] = now + took + setting.interval
      BY <1>1, <3>2, Zenon DEF Types
    <3>5. checkEnd' = checkEnd \/ checkEnd' = Ms(now) + StalledCheckTTL
      BY <2>3, Zenon DEF Scan
    <3>6. checkEnd' \in Int
      BY <1>1, <3>3, <3>5
    <3>7. ASSUME NEW u \in Worker, setting.running = {u}, setting.interval >= 10 * Milli
          PROVE  Over(checkEnd') <= scan'[u]
      <4>1. u = w
        BY <3>1, <3>7, Zenon DEF LoneInv
      <4>2. CASE checkEnd' = checkEnd
        <5>1. Over(checkEnd) <= now /\ Over(checkEnd) \in Int
          <6>1. scan[w] # -1
            BY <1>1, <3>1
          <6> QED BY <1>1, <3>1, <3>7, <4>1, <6>1, OverIs, Zenon DEF LoneInv
        <5>2. Over(checkEnd) <= now + took + setting.interval
          BY <1>1, <3>3, <5>1
        <5> QED BY <3>4, <4>1, <4>2, <5>2, Zenon
      <4>3. CASE checkEnd' = Ms(now) + StalledCheckTTL
        <5> DEFINE o == Over(Ms(now) + StalledCheckTTL)
                   t == StalledCheckTTL * Milli
        <5>1. o <= now + t + Milli /\ t + Milli <= setting.interval
          BY <1>1, <3>3, <3>7, OverSet, TTLShort, Zenon
        <5>2. o \in Int /\ t \in Nat
          BY <1>1, <3>3, <3>6, <4>3, OverIs, Zenon
        <5> HIDE DEF o, t
        <5>3. o <= now + took + setting.interval
          BY <1>1, <3>3, <5>1, <5>2
        <5> QED BY <3>4, <4>1, <4>3, <5>3, Zenon DEF o
      <4> QED BY <3>5, <4>2, <4>3, Zenon
    <3>8. Over(checkEnd)' = Over(checkEnd')
      BY Zenon DEF Over
    <3> QED BY <1>1, <2>1, <3>6, <3>7, <3>8, Zenon DEF LoneInv
  <2>4. \/ \E w \in Worker : Scan(w)
        \/ checkEnd' = checkEnd /\ \A w \in Worker : scan'[w] \in {scan[w], -1}
    <3>1. ASSUME NEW w \in Worker, Crash(w) PROVE \A u \in Worker : scan'[u] \in {scan[u], -1}
      BY <1>1, <3>1, Zenon DEF Crash, Types
    <3> QED BY <1>3, <3>1, ZenonT(30) DEF Next, Advance, Ask, Wake, HandlerReturns, Heartbeat, Crash
  <2> QED BY <2>2, <2>3, <2>4, Zenon
<1> QED BY <1>2, <1>3, Zenon

\* A worker that scans alone, with an interval of at least 10 ms, never finds the
\* stalled-check key of its own last scan, for every length of its scans: every scan
\* of stalledLoop does its work.
THEOREM OwnScansRun == Spec => []OwnScanRuns
<1>1. Init => LoneInv
  BY LoneInit, Zenon
<1>2. LoneInv /\ [Next]_vars => LoneInv'
  BY LoneStep, Zenon
<1>3. LoneInv => OwnScanRuns
  <2> SUFFICES ASSUME LoneInv, NEW w \in Worker, setting.running = {w},
                      setting.interval >= 10 * Milli, scan[w] = now
               PROVE  ~Alive(checkEnd)
    BY Zenon DEF OwnScanRuns
  <2>1. now \in Nat /\ checkEnd \in Int /\ now # -1
    BY DEF LoneInv, TimeInv, Types
  <2>2. Over(checkEnd) <= now /\ Over(checkEnd) \in Int /\ (Ms(now) <= checkEnd <=> now < Over(checkEnd))
    BY <2>1, OverIs, Zenon DEF LoneInv
  <2>3. ~ (now < Over(checkEnd))
    BY <2>1, <2>2
  <2> QED BY <2>2, <2>3, Zenon DEF Alive
<1> QED BY <1>1, <1>2, <1>3, PTL DEF Spec

-----------------------------------------------------------------------------
(* A job that is ready and a worker that is idle *)

\* A precise sleep ends when the delayed job is due.
SleepsExactly(w) ==
  pc[w] = "sleeping" =>
    until[w] = now \/ (job.at = "delayed" /\ until[w] = job.due * Milli)

Dozes(w) == pc[w] \in {"sleeping", "napping", "parked"}

\* A worker naps that may have taken a marker.
Deaf == MayNap /\ \E w \in Worker : pc[w] = "napping"

\* Somebody will ask for the job: by the marker, or by the end of a wait.
Attended ==
  LET asked == marker \/ Deaf \/ \E w \in Worker : pc[w] = "asking"
  IN  /\ job.at = "wait" => asked
      /\ job.at = "delayed" =>
           asked \/ \E w \in Worker : Dozes(w) /\ until[w] <= job.due * Milli

PromptInv ==
  /\ TimeInv
  /\ \A w \in Worker : SleepsExactly(w)
  /\ (\A w \in Worker : pc[w] # "dead") => Attended

\* At the start somebody asks.
LEMMA PromptInit == Init => PromptInv
<1> SUFFICES ASSUME Init PROVE PromptInv
  BY Zenon
<1>1. marker = TRUE /\ job.at = "wait" /\ \A w \in Worker : pc[w] \in {"asking", "dead"}
  BY Zenon DEF Init
<1> QED BY <1>1, TimeInit, Zenon DEF PromptInv, SleepsExactly, Attended

\* Every step leaves somebody who will ask.
LEMMA PromptStep == PromptInv /\ [Next]_vars => PromptInv'
<1> SUFFICES ASSUME PromptInv, [Next]_vars PROVE PromptInv'
  BY Zenon
<1>1. /\ TimeInv /\ Types /\ TimeInv' /\ now \in Nat /\ job.due \in Int
      /\ \A w \in Worker : OnTime(w) /\ SleepsExactly(w) /\ until[w] \in Nat
      /\ (\A w \in Worker : pc[w] # "dead") => Attended
  BY TimeStep, ZenonT(30) DEF PromptInv, TimeInv, Types, IsJob
<1>2. CASE UNCHANGED vars
  BY <1>1, <1>2, ZenonT(30) DEF vars, PromptInv, SleepsExactly, Attended, Dozes, Deaf, MayNap
<1>3. ASSUME Advance PROVE PromptInv'
  <2>1. /\ now' \in Nat /\ now' > now /\ \A w \in Worker : Idle(w) => until[w] >= now'
        /\ UNCHANGED <<setting, job, checkEnd, marker, pc, until, beat, scan, idleWait, snap, fails>>
    BY <1>1, <1>3, AdvanceIs, Zenon DEF Idle
  <2>2. ASSUME NEW w \in Worker PROVE SleepsExactly(w)'
    <3>1. pc[w] = "sleeping" => until[w] # now
      BY <1>1, <2>1 DEF Idle
    <3> QED BY <1>1, <2>1, <3>1, Zenon DEF SleepsExactly
  <2>3. Attended => Attended'
    BY <2>1, Zenon DEF Attended, Dozes, Deaf, MayNap
  <2> QED BY <1>1, <2>1, <2>2, <2>3, Zenon DEF PromptInv
<1>4. ASSUME NEW w \in Worker, Ask(w), Take(w) PROVE PromptInv'
  <2>1. /\ job.at = "wait" \/ (job.at = "delayed" /\ job.due <= Ms(now))
        /\ marker' = TRUE /\ now' = now /\ pc[w] = "asking"
    BY <1>4, Zenon DEF Ask, Take, IsDue
  <2>2. Attended'
    BY <2>1, Zenon DEF Attended
  <2>3. \/ pc' = pc /\ until' = until
        \/ /\ pc' = [pc EXCEPT ![w] = "running"]
           /\ \E d \in setting.durations : until' = [until EXCEPT ![w] = now + d]
    BY <1>1, <1>4, TakeIs, ZenonT(30)
  <2>4. ASSUME NEW v \in Worker, pc'[v] = "sleeping" PROVE until'[v] = now'
    <3>1. v # w /\ pc[v] = "sleeping" /\ until'[v] = until[v]
      BY <1>1, <2>1, <2>3, <2>4, Zenon DEF Types
    <3>2. until[v] = now \/ (job.at = "delayed" /\ until[v] = job.due * Milli)
      BY <1>1, <3>1, Zenon DEF SleepsExactly
    <3>3. job.at = "delayed" => job.due * Milli <= now
      <4>1. job.at = "delayed" => job.due <= Ms(now)
        BY <2>1, Zenon
      <4> QED BY <1>1, <4>1, MsReached, Zenon
    <3>4. until[v] >= now
      BY <1>1, <3>1, Zenon DEF OnTime
    <3>5. until[v] = now
      BY <1>1, <3>2, <3>3, <3>4
    <3> QED BY <2>1, <3>1, <3>5, Zenon
  <2> QED BY <1>1, <2>2, <2>4, Zenon DEF PromptInv, SleepsExactly
<1>5. ASSUME NEW w \in Worker, Ask(w), FindNothing(w) PROVE PromptInv'
  <2>1. /\ job.at # "wait" /\ job' = job /\ marker' = marker /\ now' = now
        /\ \E how \in {"sleeping", "parked"} : pc' = [pc EXCEPT ![w] = how]
        /\ \E t \in Nat : until' = [until EXCEPT ![w] = now + t]
        /\ job.at = "delayed" =>
             /\ until'[w] <= job.due * Milli
             /\ pc'[w] = "sleeping" => until'[w] = job.due * Milli
        /\ job.at # "delayed" => pc'[w] = "parked"
    BY <1>1, <1>5, FindNothingIs, Zenon DEF Ask
  <2>2. /\ pc'[w] \in {"sleeping", "parked"}
        /\ \A v \in Worker \ {w} : pc'[v] = pc[v] /\ until'[v] = until[v]
    BY <1>1, <2>1, Zenon DEF Types
  <2>3. ASSUME NEW v \in Worker PROVE SleepsExactly(v)'
    <3>1. CASE v = w
      BY <2>1, <3>1, Zenon DEF SleepsExactly
    <3>2. CASE v # w
      BY <1>1, <2>1, <2>2, <3>2, Zenon DEF SleepsExactly
    <3> QED BY <3>1, <3>2, Zenon
  <2>4. Attended'
    BY <2>1, <2>2, Zenon DEF Attended, Dozes
  <2> QED BY <1>1, <2>3, <2>4, Zenon DEF PromptInv
<1>6. ASSUME NEW w \in Worker, Wake(w) \/ HandlerReturns(w) PROVE PromptInv'
  <2>1. /\ pc' = [pc EXCEPT ![w] = "asking"] /\ until' = until /\ now' = now
        /\ job' = job \/ job.at = "active"
    <3>1. CASE Wake(w)
      BY <3>1, Zenon DEF Wake
    <3>2. CASE HandlerReturns(w)
      <4>1. job' = job \/ (Locked /\ job.owner = w)
        BY <3>2, Zenon DEF HandlerReturns
      <4>2. job' = job \/ job.at = "active"
        BY <1>1, <4>1, Zenon DEF TimeInv, Held, Locked
      <4> QED BY <3>2, <4>2, Zenon DEF HandlerReturns
    <3> QED BY <1>6, <3>1, <3>2, Zenon
  <2>2. pc'[w] = "asking" /\ \A v \in Worker \ {w} : pc'[v] = pc[v]
    BY <1>1, <2>1, Zenon DEF Types
  <2>3. Attended'
    BY <2>2, Zenon DEF Attended
  <2>4. \A v \in Worker : SleepsExactly(v)'
    BY <1>1, <2>1, <2>2, Zenon DEF SleepsExactly
  <2> QED BY <1>1, <2>3, <2>4, Zenon DEF PromptInv
<1>7. ASSUME NEW w \in Worker, Heartbeat(w) PROVE PromptInv'
  <2>1. pc[w] = "running" /\ pc' = pc /\ now' = now /\ marker' = marker /\ setting' = setting
    BY <1>7, Zenon DEF Heartbeat
  <2>2. /\ job'.at = job.at /\ job'.due = job.due
        /\ until' = until \/ \E t \in {now, until[w]} : until' = [until EXCEPT ![w] = t]
    BY <1>1, <1>7, HeartbeatIs, Zenon
  <2>3. \A v \in Worker \ {w} : until'[v] = until[v]
    BY <1>1, <2>2, Zenon DEF Types
  <2>4. \A v \in Worker : SleepsExactly(v)'
    BY <1>1, <2>1, <2>2, <2>3, Zenon DEF SleepsExactly
  <2>5. Attended => Attended'
    <3>1. Deaf' = Deaf
      BY <2>1, Zenon DEF Deaf, MayNap
    <3> QED BY <2>1, <2>2, <2>3, <3>1, ZenonT(30) DEF Attended, Dozes
  <2> QED BY <1>1, <2>1, <2>4, <2>5, Zenon DEF PromptInv
<1>8. ASSUME NEW w \in Worker, Scan(w) PROVE PromptInv'
  <2>1. pc' = pc /\ until' = until /\ now' = now
        /\ \/ job' = job /\ marker' = marker
           \/ job' = Swept /\ marker' = (marker \/ job'.at # job.at)
    BY <1>8, Zenon DEF Scan
  <2>2. \/ job' = job /\ marker' = marker
        \/ job.at = "active" /\ job'.at = "wait" /\ marker' = TRUE
        \/ job'.at = job.at /\ job'.due = job.due /\ (marker => marker')
    BY <1>1, <2>1, SweptIs, ZenonT(30) DEF Types
  <2>3. \A v \in Worker : SleepsExactly(v)'
    BY <1>1, <2>1, <2>2, Zenon DEF SleepsExactly
  <2>4. Attended => Attended'
    BY <1>8, <2>1, <2>2, Zenon DEF Attended, Dozes, Deaf, MayNap, Scan
  <2> QED BY <1>1, <2>1, <2>3, <2>4, Zenon DEF PromptInv
<1>9. ASSUME NEW w \in Worker, Crash(w) PROVE PromptInv'
  <2>1. /\ pc' = [pc EXCEPT ![w] = "dead"] /\ until' = until /\ now' = now /\ job' = job
    BY <1>9, Zenon DEF Crash
  <2>2. pc'[w] = "dead" /\ \A v \in Worker \ {w} : pc'[v] = pc[v]
    BY <1>1, <2>1, Zenon DEF Types
  <2>3. \A v \in Worker : SleepsExactly(v)'
    BY <1>1, <2>1, <2>2, Zenon DEF SleepsExactly
  <2> QED BY <1>1, <2>2, <2>3, Zenon DEF PromptInv
<1>10. ASSUME NEW w \in Worker, Ask(w), KeptWaiting(w) PROVE PromptInv'
  <2>1. /\ setting' = setting /\ now' = now
        /\ \E how \in {"napping", "parked"} : pc' = [pc EXCEPT ![w] = how]
        /\ \E t \in Nat : until' = [until EXCEPT ![w] = now + t]
        /\ \/ job.at \notin {"wait", "delayed"}
           \/ job.at = "delayed" /\ job' = job /\ until'[w] <= job.due * Milli
           \/ MayNap /\ pc'[w] = "napping"
        /\ job' = job \/ Promoted
    BY <1>1, <1>10, KeptWaitingIs, Zenon DEF Ask
  <2>2. /\ pc'[w] \in {"napping", "parked"}
        /\ \A v \in Worker \ {w} : pc'[v] = pc[v] /\ until'[v] = until[v]
    BY <1>1, <2>1, Zenon DEF Types
  <2>3. ASSUME NEW v \in Worker, pc'[v] = "sleeping"
        PROVE  until'[v] = now' \/ (job'.at = "delayed" /\ until'[v] = job'.due * Milli)
    <3>1. v # w /\ pc[v] = "sleeping" /\ until'[v] = until[v]
      BY <2>2, <2>3, Zenon
    <3>2. until[v] = now \/ (job.at = "delayed" /\ until[v] = job.due * Milli)
      BY <1>1, <3>1, Zenon DEF SleepsExactly
    <3>3. CASE job' = job
      BY <2>1, <3>1, <3>2, <3>3, Zenon
    <3>4. CASE Promoted
      <4>1. job.due * Milli <= now /\ until[v] >= now
        BY <1>1, <3>1, <3>4, MsReached, Zenon DEF Promoted, OnTime
      <4>2. until[v] = now
        BY <1>1, <3>2, <4>1
      <4> QED BY <2>1, <3>1, <4>2, Zenon
    <3> QED BY <2>1, <3>3, <3>4, Zenon
  <2>4. Attended'
    <3>1. CASE job.at \notin {"wait", "delayed"}
      BY <2>1, <3>1, Zenon DEF Attended, Promoted
    <3>2. CASE job.at = "delayed" /\ job' = job /\ until'[w] <= job.due * Milli
      BY <2>2, <3>2, Zenon DEF Attended, Dozes
    <3>3. CASE MayNap /\ pc'[w] = "napping"
      BY <2>1, <3>3, Zenon DEF Attended, Deaf, MayNap
    <3> QED BY <2>1, <3>1, <3>2, <3>3, Zenon
  <2> QED BY <1>1, <2>3, <2>4, Zenon DEF PromptInv, SleepsExactly
<1>11. \/ UNCHANGED vars \/ Advance
       \/ \E w \in Worker :
            \/ Ask(w) /\ (Take(w) \/ FindNothing(w) \/ KeptWaiting(w))
            \/ Wake(w) \/ HandlerReturns(w) \/ Heartbeat(w) \/ Scan(w) \/ Crash(w)
  BY Zenon DEF Next, Ask
<1> QED BY <1>2, <1>3, <1>4, <1>5, <1>6, <1>7, <1>8, <1>9, <1>10, <1>11, Zenon

\* The clock does not go on while a job is ready and a dispatcher waits for it or for
\* the marker, unless another one naps after a failed call or for the rate limit, or
\* a worker has died with the marker; and every wait of dispatchLoop keeps its bound,
\* even then.  So a marker is there for a job that can be taken, or somebody wakes at
\* the time it is due, whatever the other jobs of the queue are.
THEOREM StartsArePrompt == Spec => PromptStart
<1>1. Init => PromptInv
  BY PromptInit, Zenon
<1>2. PromptInv /\ [Next]_vars => PromptInv'
  BY PromptStep, Zenon
<1>3. PromptInv => WaitBounded
  <2> SUFFICES ASSUME PromptInv, NEW w \in Worker
               PROVE  /\ Idle(w) => /\ until[w] - now <= Larger(MaxIdleWait, setting.idle)
                                    /\ idleWait[w] >= setting.idle
                      /\ pc[w] = "napping" => \E t \in NapTimes : until[w] - now <= t
    BY Zenon DEF WaitBounded
  <2>1. OnTime(w) /\ until[w] \in Nat /\ now \in Nat /\ Types /\ idleWait[w] \in Nat
    BY Zenon DEF PromptInv, TimeInv, Types
  <2>2. /\ Larger(MaxIdleWait, setting.idle) \in Nat /\ setting.idle \in Nat
        /\ Idle(w) => until[w] <= now + Larger(MaxIdleWait, setting.idle)
        /\ setting.idle <= idleWait[w] /\ NapTimes \subseteq Nat
        /\ pc[w] = "napping" => \E t \in NapTimes : until[w] <= now + t
    BY <2>1, SettingFacts, Zenon DEF OnTime
  <2>3. Idle(w) => /\ until[w] - now <= Larger(MaxIdleWait, setting.idle)
                   /\ idleWait[w] >= setting.idle
    BY <2>1, <2>2
  <2>4. \A t \in NapTimes : until[w] <= now + t => until[w] - now <= t
    BY <2>1, <2>2
  <2> QED BY <2>2, <2>3, <2>4, Zenon
<1>4. PromptInv /\ [Next]_vars =>
        [ now' > now /\ (\A w \in Worker : pc[w] # "dead") /\ Ready /\ (\E w \in Worker : Idle(w))
            => /\ setting.unreliable \/ setting.cooldowns # {}
               /\ \E v \in Worker : pc[v] = "napping" ]_vars
  <2> SUFFICES ASSUME PromptInv, Next, now' > now, \A w \in Worker : pc[w] # "dead", Ready,
                      NEW w \in Worker, Idle(w), ~Deaf
               PROVE  FALSE
    BY Zenon DEF Deaf, MayNap
  <2>1. TimeInv /\ now \in Nat /\ job.due \in Int /\ Attended /\ SleepsExactly(w)
        /\ \A v \in Worker : until[v] \in Nat
    BY Zenon DEF PromptInv, TimeInv, Types, IsJob
  <2>2. Advance
    <3>1. ~ (now > now)
      BY <2>1
    <3> QED BY <3>1, Zenon DEF Next, Ask, Wake, HandlerReturns, Heartbeat, Scan, Crash
  <2>3. now' \in Nat /\ \A v \in Worker : Dozes(v) => until[v] >= now'
    BY <2>1, <2>2, AdvanceIs, Zenon DEF Dozes
  <2>4. \A v \in Worker : Dozes(v) => ~ (until[v] <= now)
    BY <2>1, <2>3
  <2>5. \A v \in Worker : pc[v] # "asking" /\ ~(pc[v] = "parked" /\ marker)
    BY <2>2, Zenon DEF Advance
  <2>6. job.at = "wait" \/ (job.at = "delayed" /\ job.due <= Ms(now))
    BY Zenon DEF Ready, IsDue
  <2>7. job.at = "delayed" => job.due * Milli <= now
    <3>1. job.at = "delayed" => job.due <= Ms(now)
      BY <2>6, Zenon
    <3> QED BY <2>1, <3>1, MsReached, Zenon
  <2>8. now <= now /\ job.due * Milli \in Int
    BY <2>1, Units
  <2>9. pc[w] = "parked"
    BY <2>1, <2>4, <2>7, <2>8, Zenon DEF SleepsExactly, Idle, Dozes
  <2>10. PICK v \in Worker : Dozes(v) /\ until[v] <= job.due * Milli /\ job.at = "delayed"
    BY <2>1, <2>5, <2>6, <2>9, Zenon DEF Attended
  <2>11. until[v] <= now
    BY <2>1, <2>7, <2>8, <2>10
  <2> QED BY <2>4, <2>10, <2>11, Zenon
<1> QED BY <1>1, <1>2, <1>3, <1>4, PTL DEF Spec, PromptStart

-----------------------------------------------------------------------------
(* The attempts are used up *)

\* The built-in delay is not negative when the base is not.
LEMMA CurveNotNegative ==
  ASSUME NEW b, b.delay \in 0..MaxDur, NEW n \in Nat \ {0}
  PROVE  ComputeBackoffDelay(b, n) \in Nat
<1>1. CASE b.type # "exponential" \/ n - 1 >= Width - 1
  BY <1>1, TopDuration DEF ComputeBackoffDelay
<1>2. CASE b.type = "exponential" /\ ~(n - 1 >= Width - 1)
  <2> DEFINE q == 2^(n - 1)
  <2>1. n - 1 \in 0..Width
    BY <1>2, UnitAssumption
  <2>2. q \in Nat \ {0}
    BY <2>1, UnitAssumption, ZenonT(30)
  <2>3. ComputeBackoffDelay(b, n) = IF b.delay > MaxDur \div q THEN MaxDur ELSE Wrap(b.delay * q)
    BY <1>2, Zenon DEF ComputeBackoffDelay
  <2> HIDE DEF q
  <2>4. ASSUME ~(b.delay > MaxDur \div q) PROVE b.delay * q \in 0..MaxDur
    <3> DEFINE d == b.delay
               m == MaxDur
               e == MaxDur \div q
    <3>1. d \in Nat /\ m \in Nat /\ e \in Nat /\ d <= e /\ e * q <= m
      BY <2>2, <2>4, TopDuration
    <3> HIDE DEF d, m, e
    <3>2. d * q <= e * q /\ d * q \in Nat
      BY <2>2, <3>1
    <3>3. e * q \in Nat
      BY <2>2, <3>1
    <3>4. d * q \in 0..m
      BY <3>1, <3>2, <3>3
    <3> QED BY <3>4, Zenon DEF d, m
  <2>5. ASSUME ~(b.delay > MaxDur \div q) PROVE Wrap(b.delay * q) \in Nat
    <3> DEFINE p == b.delay * q
    <3>1. p \in 0..MaxDur
      BY <2>4, <2>5, Zenon
    <3> HIDE DEF p
    <3>2. p \in Nat /\ Wrap(p) = p
      BY <3>1, WrapIsInt, TopDuration
    <3> QED BY <3>2, Zenon DEF p
  <2> QED BY <2>3, <2>5, TopDuration, Zenon
<1> QED BY <1>1, <1>2, Zenon

\* applyJitter of a delay that is not negative is not negative.
LEMMA JitterNotNegative ==
  ASSUME NEW base \in Nat, NEW jitter \in Int, NEW r \in 0..3
  PROVE  ApplyJitter(base, jitter, r) >= 0
<1> DEFINE j == IF jitter > 4 THEN 4 ELSE jitter
           n == base * r * j + base * (4 - j) * 4
<1>1. CASE jitter <= 0
  BY <1>1 DEF ApplyJitter
<1>2. CASE ~(jitter <= 0)
  <2>1. j \in Nat /\ 4 - j \in Nat
    BY <1>2
  <2> HIDE DEF j
  <2>2. base * r \in Nat /\ base * (4 - j) \in Nat
    BY <2>1
  <2>3. base * r * j \in Nat
    BY <2>1, <2>2
  <2>4. n \in Nat
    BY <2>2, <2>3
  <2>5. ApplyJitter(base, jitter, r) = Trunc(n, 16)
    BY <1>2, Zenon DEF ApplyJitter, j
  <2> HIDE DEF n
  <2> QED BY <2>4, <2>5, TruncIsInt
<1> QED BY <1>1, <1>2, Zenon

\* The delay is negative when a hook says so, and else only by an overflow.
LEMMA NegativeByHook ==
  ASSUME Types, setting.raw.backoff.delay >= 0, NEW n \in Nat \ {0}, NEW r \in setting.rands
  PROVE  LET delay == ComputeRetryDelay(Opts.backoff, setting.hooks, n, r)
         IN  /\ Deciding.kind = "answer" /\ Deciding.delay < 0 => delay < 0
             /\ delay < 0 => \/ Deciding.kind = "answer" /\ Deciding.delay < 0
                             \/ setting.raw.backoff.delay * Milli > MaxDur
<1> DEFINE b == Opts.backoff
           v == setting.raw.backoff.delay
           delay == ComputeRetryDelay(b, setting.hooks, n, r)
<1>1. /\ setting \in Settings /\ v \in Int /\ r \in 0..3 /\ v * Milli \in Int /\ MaxDur \in Nat
      /\ v * Milli >= 0
  <2>1. setting \in Settings /\ v \in Int /\ setting.rands \subseteq 0..3
    BY TimingAssumption, Zenon DEF Types
  <2> HIDE DEF v
  <2>2. Milli \in Nat /\ v \in Nat
    BY <2>1, Units DEF v
  <2> QED BY <2>1, <2>2, NatProduct, TopDuration, Zenon
<1>2. CASE setting.hooks.override.kind = "answer"
  BY <1>2, Zenon DEF ComputeRetryDelay, OverrideDecides, Deciding
<1>3. CASE setting.hooks.override.kind # "answer" /\ b = <<>>
  <2>1. delay = 0 /\ Deciding = NoHook
    BY <1>3, Zenon DEF ComputeRetryDelay, OverrideDecides, Deciding
  <2> QED BY <2>1, SMTT(30) DEF NoHook
<1>4. CASE setting.hooks.override.kind # "answer" /\ b # <<>> /\ Builtin
  <2>1. Deciding.kind # "answer"
    BY <1>4, Zenon DEF Deciding, NoHook
  <2>2. delay = ApplyJitter(ComputeBackoffDelay(b[1], n), b[1].jitter, r)
    BY <1>4, Zenon DEF ComputeRetryDelay, OverrideDecides, Builtin
  <2>3. b[1].delay = Wrap(v * Milli) /\ b[1].jitter \in Int
    BY <1>1, <1>4, BackoffParsed, Zenon DEF Opts
  <2>4. ASSUME ~(v * Milli > MaxDur) PROVE delay >= 0
    <3> DEFINE p == v * Milli
    <3>1. p \in 0..MaxDur
      BY <1>1, <2>4
    <3> HIDE DEF p
    <3>2. Wrap(p) = p
      BY <3>1, WrapIsInt, TopDuration
    <3>3. b[1].delay \in 0..MaxDur
      BY <2>3, <3>1, <3>2, Zenon DEF p
    <3> HIDE DEF b
    <3>4. ComputeBackoffDelay(b[1], n) \in Nat
      BY <3>3, CurveNotNegative, Zenon
    <3> QED BY <1>1, <2>2, <2>3, <3>4, JitterNotNegative, Zenon
  <2>5. delay \in Int
    BY <1>1, RetryDelayIsInt, Zenon DEF Opts
  <2> HIDE DEF delay
  <2>6. delay < 0 => v * Milli > MaxDur
    BY <2>4, <2>5
  <2> QED BY <2>1, <2>6, Zenon DEF delay
<1>5. CASE setting.hooks.override.kind # "answer" /\ b # <<>> /\ ~Builtin
  <2> DEFINE f == IF setting.hooks.func.kind # "none" THEN setting.hooks.func
                  ELSE setting.hooks.plain
  <2>1. Deciding = f
    BY <1>5, Zenon DEF Deciding
  <2>2. delay = IF f.kind = "answer" THEN f.delay ELSE 0
    BY <1>5, Zenon DEF ComputeRetryDelay, OverrideDecides, Builtin, CallBackoffStrategy
  <2> HIDE DEF f, delay
  <2>3. /\ Deciding.kind = "answer" /\ Deciding.delay < 0 => delay < 0
        /\ delay < 0 => Deciding.kind = "answer" /\ Deciding.delay < 0
    BY <2>1, <2>2
  <2> QED BY <2>3, Zenon DEF delay
<1> QED BY <1>2, <1>3, <1>4, <1>5, Zenon

\* A failure with attempts left ends the job exactly when the delay is negative.
LEMMA GivenUp ==
  ASSUME Types, NEW w, NEW r, ShouldRetry(Opts, job.atm, "error")
  PROVE  LET delay == ComputeRetryDelay(Opts.backoff, setting.hooks, job.atm + 1, r)
         IN  Finalised(w, "error", r).at \in {"failed", "gone"} <=> delay < 0
<1> DEFINE delay == ComputeRetryDelay(Opts.backoff, setting.hooks, job.atm + 1, r)
           history == Recorded(snap[w], job.processedOn)
           f == Finalised(w, "error", r)
<1>1. f = IF GivesUp(delay) THEN Finished("failed", KeepJobs(Opts.removeOnFail), history)
          ELSE IF delay > 0 THEN
            [Unlocked("delayed") EXCEPT !.due = Ms(now) + DelayMillis(delay),
                                        !.atm = @ + 1, !.history = history]
          ELSE [Unlocked("wait") EXCEPT !.atm = @ + 1, !.history = history]
  BY Zenon DEF Finalised
<1> HIDE DEF delay, history, f
<1>2. CASE delay < 0
  <2>1. f = Finished("failed", KeepJobs(Opts.removeOnFail), history)
    BY <1>1, <1>2, Zenon DEF GivesUp
  <2>2. f.at \in {"failed", "gone"}
    BY <2>1, Zenon DEF Finished, Types, IsJob
  <2> QED BY <1>2, <2>2, Zenon DEF f, delay
<1>3. CASE ~(delay < 0)
  <2>1. f.at \in {"delayed", "wait"}
    BY <1>1, <1>3, Zenon DEF GivesUp, Unlocked, Types, IsJob
  <2> QED BY <1>3, <2>1, Zenon DEF f, delay
<1> QED BY <1>2, <1>3, Zenon

\* When no stored backoff has a negative delay, a handler that fails has all the
\* attempts of its options: finalise gives up early only when the deciding hook
\* answers with a negative delay, and then always, or when the milliseconds of a
\* foreign backoff overflow a duration.
THEOREM AttemptsAreUsed ==
  ASSUME \A s \in Settings : s.raw.backoff.delay >= 0
  PROVE  Spec => RetriesUsedUp
<1> DEFINE Use ==
      Failed /\ setting.raw.ok /\ job.atm + 1 < setting.raw.attempts
        /\ "unrecoverable" \notin setting.outcomes =>
        LET gaveUp == job'.at \in {"failed", "gone"}
        IN  /\ Deciding.kind = "answer" /\ Deciding.delay < 0 => gaveUp
            /\ gaveUp => \/ Deciding.kind = "answer" /\ Deciding.delay < 0
                         \/ setting.raw.backoff.delay * Milli > MaxDur
<1>1. TimeInv /\ [Next]_vars => [Use]_vars
  <2> SUFFICES ASSUME TimeInv, Next, Failed, setting.raw.ok,
                      job.atm + 1 < setting.raw.attempts, "unrecoverable" \notin setting.outcomes
               PROVE  /\ Deciding.kind = "answer" /\ Deciding.delay < 0 =>
                           job'.at \in {"failed", "gone"}
                      /\ job'.at \in {"failed", "gone"} =>
                           \/ Deciding.kind = "answer" /\ Deciding.delay < 0
                           \/ setting.raw.backoff.delay * Milli > MaxDur
    BY Zenon
  <2>1. /\ Types /\ fails \in Nat /\ job.at = "active" /\ fails' = fails + 1 /\ job.atm \in Nat
        /\ fails' # fails
    BY DEF TimeInv, Types, IsJob, Failed
  <2>2. PICK w \in Worker : HandlerReturns(w)
    BY <2>1, ZenonT(30)
       DEF Next, Advance, Ask, Take, IsDue, FindNothing, KeptWaiting, FetchFails, RateLimited,
           OtherIsNext, Wake, Heartbeat, Scan, Crash
  <2>3. PICK outcome \in setting.outcomes :
          \E r \in setting.rands :
            /\ job' = Finalised(w, outcome, r)
            /\ fails' = IF outcome \in {"error", "unrecoverable"} THEN fails + 1 ELSE fails
    BY <2>1, <2>2, Zenon DEF HandlerReturns
  <2>4. PICK r \in setting.rands : job' = Finalised(w, outcome, r)
    BY <2>3, Zenon
  <2>5. outcome = "error"
    BY <2>1, <2>3, Zenon
  <2>6. ShouldRetry(Opts, job.atm, "error")
    <3>1. Opts.attempts = setting.raw.attempts /\ setting.raw.attempts \in Int
      BY <2>1, TimingAssumption, ZenonT(30) DEF Opts, ParseJobOpts, Types
    <3> QED BY <2>1, <3>1, SMTT(30) DEF ShouldRetry
  <2> DEFINE delay == ComputeRetryDelay(Opts.backoff, setting.hooks, job.atm + 1, r)
  <2>7. job'.at \in {"failed", "gone"} <=> delay < 0
    BY <2>1, <2>4, <2>5, <2>6, GivenUp, Zenon
  <2>8. job.atm + 1 \in Nat \ {0} /\ setting.raw.backoff.delay >= 0
    <3>1. setting.raw.backoff.delay >= 0
      BY <2>1, Zenon DEF Types
    <3> QED BY <2>1, <3>1
  <2>9. /\ Deciding.kind = "answer" /\ Deciding.delay < 0 => delay < 0
        /\ delay < 0 => \/ Deciding.kind = "answer" /\ Deciding.delay < 0
                        \/ setting.raw.backoff.delay * Milli > MaxDur
    BY <2>1, <2>8, NegativeByHook, Zenon
  <2> QED BY <2>7, <2>9, Zenon
<1> QED BY <1>1, TimersAhead, PTL DEF Spec, RetriesUsedUp

=============================================================================

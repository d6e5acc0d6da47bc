------------------------------ MODULE Scheduler ------------------------------
(***************************************************************************)
(* One recurring schedule of a queue: the entry in the repeat ZSET, the    *)
(* template HASH, the job instances it creates, the callers that upsert    *)
(* and remove it, and the workers that run an instance and then queue the  *)
(* next one (rescheduleNext: a read of the HASH, and later a script).      *)
(*                                                                         *)
(* Time is a bounded clock in units of one millisecond.  An instance is    *)
(* named by its millis, as in the code.  A cron pattern is a period: it    *)
(* fires at the multiples of it.  0 stands for an option that is not set.  *)
(* Priorities, payloads and the retry backoff are left out.                *)
(***************************************************************************)
EXTENDS Integers, FiniteSets, FiniteSetsExt

CONSTANTS
  Worker,         \* goroutines that run instances
  NoWorker,       \* nil
  Settings,       \* the surroundings under study, see Setting
  MaxSlotScans    \* maxSlotScans of addJobScheduler (32 in the code)

\* the options of UpsertScheduleEvery (every > 0) and UpsertSchedulePattern
Config == [every : Nat, pattern : Nat, limit : Nat, start : Nat, end : Nat,
           immediately : BOOLEAN]

\* configs: the options of the upserts; ops: what happens beside them; bounds on
\* the clock, the latest instance, the upserts and the removals
Setting == [configs : SUBSET Config,
            ops : SUBSET {"retry", "stall", "crash", "fail", "pause", "discard"},
            maxTime : Nat, maxMillis : Nat, maxUpserts : Nat, maxRemovals : Nat]

None == -1

ASSUME SchedulerAssumption ==
  /\ NoWorker \notin Worker
  /\ Settings \subseteq Setting
  /\ \A s \in Settings : s.maxTime <= s.maxMillis
  /\ \A s \in Settings : \A c \in s.configs :
       /\ (c.every > 0) # (c.pattern > 0)
       /\ c.immediately => c.pattern > 0 /\ c.start = 0
  /\ MaxSlotScans \in Nat \ {0}

VARIABLES
  setting,    \* the surroundings, chosen once
  now,        \* the clock
  score,      \* the schedule's score in the repeat ZSET
  hash,       \* the schedule's HASH
  job,        \* the state of each instance
  owner,      \* the worker whose lock an active instance has
  paused,     \* whether the queue is paused
  removing,   \* whether RemoveSchedule is between its two commands
  pc, cur,    \* where each worker is, and with which instance
  snap,       \* what rescheduleNext has read
  created,    \* with a limit, the instances created since it was set ...
  extra,      \* ... and those that an upsert added to one it could not replace
  orphaned,   \* the last current instance whose worker died or gave up before the next
  upserts, removals   \* counters of the bounds

workVars == <<pc, cur, snap>>
countVars == <<created, extra, orphaned, upserts, removals>>
vars == <<setting, now, score, hash, job, owner, paused, removing, workVars, countVars>>

Millis == 0..setting.maxMillis

NoHash == [every |-> 0, pattern |-> 0, limit |-> 0, end |-> 0, offset |-> None, ic |-> 0]

NoRead == [every |-> 0, next |-> 0, at |-> 0]

Init ==
  /\ setting \in Settings
  /\ now = 1
  /\ score = None
  /\ hash = NoHash
  /\ job = [m \in Millis |-> "none"]
  /\ owner = [m \in Millis |-> NoWorker]
  /\ paused = FALSE /\ removing = FALSE
  /\ pc = [w \in Worker |-> "idle"]
  /\ cur = [w \in Worker |-> None]
  /\ snap = [w \in Worker |-> NoRead]
  /\ orphaned = None /\ created = 0 /\ extra = 0 /\ upserts = 0 /\ removals = 0

-----------------------------------------------------------------------------
(* The arithmetic of the slots *)

\* Slip: a catch-up always goes one interval past the aligned slot.
EveryNextMillisFar(prev, every, t, offset, start) ==
  LET aligned == (t \div every) * every + offset
  IN  CASE prev = None /\ start > 0 -> Max({start, t})
        [] prev = None /\ start = 0 -> t
        [] prev # None /\ prev + every >= t -> prev + every
        [] OTHER -> aligned + every + every

\* getJobSchedulerEveryNextMillis: the first slot, the slot after prev, or,
\* when that one has been missed, the next slot aligned to the offset.
EveryNextMillis(prev, every, t, offset, start) ==
  LET aligned == (t \div every) * every + offset
      following == IF aligned <= t THEN aligned + every ELSE aligned
  IN  CASE prev = None /\ start > 0 -> Max({start, t})
        [] prev = None /\ start = 0 -> IF offset > 0 THEN following ELSE t
        [] prev # None /\ prev + every >= t -> prev + every
        [] OTHER -> following

\* The offset it returns when none was given: the place within the interval.
EveryOffset(next, every) == next - (next \div every) * every

\* nextFire: strictly after t.
NextFire(pattern, t) == (t \div pattern + 1) * pattern

\* The first fire of an upsert, before the script looks at the past.
FirstFire(c) ==
  CASE c.every > 0 -> Max({c.start, now})
    [] c.every = 0 /\ c.immediately -> now
    [] OTHER -> NextFire(c.pattern, IF c.start > 0 THEN c.start ELSE now)

\* A first fire after the end date is refused.
FirstFireAllowed(c) == c.end > 0 => FirstFire(c) <= c.end

\* A new instance goes to wait when its delay is 0.
Placed(m, t) == IF m <= t THEN "wait" ELSE "delayed"

\* What an instance adds to the counters of the model: they serve the limit only.
Counted(limit) == IF limit > 0 THEN 1 ELSE 0

-----------------------------------------------------------------------------
(* Callers *)

\* removeJobFromScheduler finds the instance in delayed, or in wait; while the
\* queue is paused it looks in the paused list, where no job is put any more.
Removable(m) ==
  m # None /\ (job[m] = "delayed" \/ (job[m] \in {"wait", "again"} /\ ~paused))

\* storeJobScheduler: the entry in the repeat ZSET ...
StoredScore(next, removed) == next

\* ... and the HASH, which keeps the counter, and the offset of a replaced job.
StoredHash(c, offset) ==
  [every |-> c.every, pattern |-> c.pattern, limit |-> c.limit, end |-> c.end,
   offset |-> offset, ic |-> IF hash.ic > 0 THEN hash.ic ELSE 1]

\* UpsertScheduleEvery and UpsertSchedulePattern with addJobScheduler.  The
\* pending instance is replaced; an instance that is past that stays, and the next
\* slot is added to it.  For every-mode a slot that is taken is skipped, at most
\* maxSlotScans times; for a pattern it is an error.  What was removed stays
\* removed on an error.
Upsert(c) ==
  LET changed == c.every > 0 /\ score # None /\ hash.every # c.every
      fresh == IF c.every > 0
                 THEN EveryNextMillis(IF changed THEN None ELSE score, c.every, now, 0, c.start)
                 ELSE FirstFire(c)
      removed == Removable(score)
      left == IF removed THEN [job EXCEPT ![score] = "none"] ELSE job
      slot == IF removed /\ c.every > 0 /\ ~changed THEN score ELSE fresh
      scan == IF c.every > 0 THEN { slot + k * c.every : k \in 0..MaxSlotScans } ELSE {slot}
      free == { m \in scan : (c.every = 0 /\ removed) \/ left[m] = "none" }
      offset == CASE removed -> hash.offset
                  [] ~removed /\ c.every > 0 -> EveryOffset(fresh, c.every)
                  [] OTHER -> 0
  IN  /\ upserts < setting.maxUpserts
      /\ FirstFireAllowed(c)
      /\ scan \subseteq Millis
      /\ upserts' = upserts + 1
      /\ \/ /\ free # {}
            /\ score' = StoredScore(Min(free), removed)
            /\ hash' = StoredHash(c, offset)
            /\ job' = [left EXCEPT ![Min(free)] = Placed(Min(free), now)]
            /\ IF score = None \/ hash.limit # c.limit
                 THEN created' = Counted(c.limit) /\ extra' = 0
                 ELSE LET more == IF removed THEN 0 ELSE Counted(c.limit)
                      IN  created' = created + more /\ extra' = extra + more
         \/ /\ free = {}
            /\ job' = left
            /\ UNCHANGED <<score, hash, created, extra>>
      /\ UNCHANGED <<now, owner, paused, removing, workVars, orphaned, removals>>

\* RemoveSchedule is a pipeline of two commands, not a transaction.
RemoveHash ==
  /\ removals < setting.maxRemovals
  /\ ~removing
  /\ upserts > 0
  /\ removing' = TRUE
  /\ removals' = removals + 1
  /\ hash' = NoHash
  /\ UNCHANGED <<now, score, job, owner, paused, workVars, created, extra, orphaned, upserts>>

RemoveEntry ==
  /\ removing
  /\ removing' = FALSE
  /\ score' = None
  /\ UNCHANGED <<now, hash, job, owner, paused, workVars, countVars>>

Pause ==
  /\ "pause" \in setting.ops
  /\ paused' = ~paused
  /\ UNCHANGED <<now, score, hash, job, owner, removing, workVars, countVars>>

Tick ==
  /\ now < setting.maxTime
  /\ now' = now + 1
  /\ UNCHANGED <<score, hash, job, owner, paused, removing, workVars, countVars>>

-----------------------------------------------------------------------------
(* Workers *)

\* promoteDelayedJobs
Promoted == [m \in Millis |-> IF job[m] = "delayed" /\ m <= now THEN "wait" ELSE job[m]]

\* moveToActive promotes what is due, and takes an instance unless paused.
MoveToActive(w) ==
  /\ pc[w] = "idle"
  /\ \/ /\ paused
        /\ Promoted # job
        /\ job' = Promoted
        /\ UNCHANGED <<owner, pc, cur>>
     \/ /\ ~paused
        /\ \E m \in Millis :
             /\ Promoted[m] \in {"wait", "again"}
             /\ job' = [Promoted EXCEPT ![m] = "active"]
             /\ owner' = [owner EXCEPT ![m] = w]
             /\ cur' = [cur EXCEPT ![w] = m]
             /\ pc' = [pc EXCEPT ![w] = "running"]
  /\ UNCHANGED <<now, score, hash, paused, removing, snap, countVars>>

\* The handler has returned and finalise has run: the job is finished (and kept
\* or discarded), or waits for another attempt, or the lock was lost and the
\* script refused.  processJob goes on to rescheduleNext in every case.
Finalise(w) ==
  LET m == cur[w]
  IN  /\ pc[w] = "running"
      /\ pc' = [pc EXCEPT ![w] = "finalised"]
      /\ IF owner[m] = w
           THEN /\ \E s \in {"done"} \cup (IF "retry" \in setting.ops THEN {"again"} ELSE {})
                            \cup (IF "discard" \in setting.ops THEN {"none"} ELSE {}) :
                     job' = [job EXCEPT ![m] = s]
                /\ owner' = [owner EXCEPT ![m] = NoWorker]
           ELSE UNCHANGED <<job, owner>>
      /\ UNCHANGED <<now, score, hash, paused, removing, cur, snap, countVars>>


\* Slip: one less than the limit.
LimitReachedEarly == hash.limit > 0 /\ hash.ic + 1 >= hash.limit

LimitReached == hash.limit > 0 /\ hash.ic >= hash.limit

\* The guard of the end date; for every-mode it takes now + every for the next
\* slot.
PastEnd ==
  hash.end > 0 /\ (IF hash.pattern > 0 THEN NextFire(hash.pattern, now)
                                       ELSE now + hash.every) > hash.end

Idle(w) ==
  /\ pc' = [pc EXCEPT ![w] = "idle"]
  /\ cur' = [cur EXCEPT ![w] = None]
  /\ snap' = [snap EXCEPT ![w] = NoRead]

\* rescheduleNext up to the script: read the HASH and decide.
ReadSchedule(w) ==
  /\ pc[w] = "finalised"
  /\ IF LimitReached \/ (hash.every = 0 /\ hash.pattern = 0) \/ PastEnd
       THEN Idle(w)
       ELSE /\ pc' = [pc EXCEPT ![w] = "read"]
            /\ snap' = [snap EXCEPT ![w] =
                 [every |-> hash.every, at |-> now,
                  next |-> IF hash.pattern > 0 THEN NextFire(hash.pattern, now) ELSE 0]]
            /\ UNCHANGED cur
  /\ UNCHANGED <<now, score, hash, job, owner, paused, removing, countVars>>

\* Slip: the script does not ask which instance calls.
ProducerIsAnyone(w) == TRUE

\* Only the instance that the repeat entry names may produce the next one.
ProducerIsCurrent(w) == cur[w] = score

\* updateJobScheduler.  When RemoveSchedule has deleted the HASH and not yet the
\* entry, storing the job without a name raises an error, and what the script
\* wrote before that stays.
UpdateJobScheduler(w) ==
  LET every == IF hash.every > 0 THEN hash.every ELSE snap[w].every
      next == IF every > 0
                THEN EveryNextMillis(score, every, snap[w].at,
                                     IF hash.offset = None THEN 0 ELSE hash.offset, 0)
                ELSE snap[w].next
      produces == score # None /\ ProducerIsCurrent(w)
  IN  /\ pc[w] = "read"
      /\ produces => next \in Millis
      /\ \/ /\ produces /\ job[next] = "none"
            /\ score' = next
            /\ hash' = [hash EXCEPT !.ic = @ + 1]
            /\ IF hash.ic > 0
                 THEN /\ job' = [job EXCEPT ![next] = Placed(next, snap[w].at)]
                      /\ created' = created + Counted(hash.limit)
                 ELSE UNCHANGED <<job, created>>
         \/ /\ ~produces \/ (produces /\ job[next] # "none")
            /\ UNCHANGED <<score, hash, job, created>>
      /\ Idle(w)
      /\ UNCHANGED <<now, owner, paused, removing, extra, orphaned, upserts, removals>>

\* The HMGET fails, or the call of the script before it ran, and rescheduleNext
\* returns: nobody queues the next instance.
RescheduleFails(w) ==
  /\ "fail" \in setting.ops
  /\ pc[w] \in {"finalised", "read"}
  /\ orphaned' = IF cur[w] = score THEN score ELSE orphaned
  /\ Idle(w)
  /\ UNCHANGED <<now, score, hash, job, owner, paused, removing, created, extra, upserts,
                 removals>>

\* The lock of a running instance is lost and the stalled checker takes it back.
Stall(m) ==
  /\ "stall" \in setting.ops
  /\ job[m] = "active"
  /\ job' = [job EXCEPT ![m] = "again"]
  /\ owner' = [owner EXCEPT ![m] = NoWorker]
  /\ UNCHANGED <<now, score, hash, paused, removing, workVars, countVars>>

\* The worker dies; the stalled checker takes back what it was running.
Crash(w) ==
  /\ "crash" \in setting.ops
  /\ pc[w] # "idle"
  /\ IF pc[w] = "running" /\ owner[cur[w]] = w
       THEN /\ job' = [job EXCEPT ![cur[w]] = "again"]
            /\ owner' = [owner EXCEPT ![cur[w]] = NoWorker]
       ELSE UNCHANGED <<job, owner>>
  /\ orphaned' = IF pc[w] # "running" /\ cur[w] = score THEN score ELSE orphaned
  /\ Idle(w)
  /\ UNCHANGED <<now, score, hash, paused, removing, created, extra, upserts, removals>>

-----------------------------------------------------------------------------

Next ==
  /\ \/ Tick \/ Pause \/ RemoveHash \/ RemoveEntry
     \/ \E c \in setting.configs : Upsert(c)
     \/ \E m \in Millis : Stall(m)
     \/ \E w \in Worker :
          \/ MoveToActive(w) \/ Finalise(w) \/ ReadSchedule(w)
          \/ UpdateJobScheduler(w) \/ RescheduleFails(w) \/ Crash(w)
  /\ UNCHANGED setting

Spec == Init /\ [][Next]_vars

-----------------------------------------------------------------------------
(* Properties *)

\* The instances that have not been started.
Pending == { m \in Millis : job[m] \in {"delayed", "wait"} }

\* The chain does not fork.  Whatever is mixed (upserts that change the schedule,
\* retries, stalls, pauses, crashes), at most one instance is queued for later;
\* each removal may leave one more behind, which never goes on producing.  A
\* schedule that is upserted once has no second one waiting to be started either:
\* the worker queues the next instance only for the one that the repeat entry names.
OneAhead ==
  /\ Cardinality({ m \in Millis : job[m] = "delayed" }) <= 1 + removals
  /\ upserts <= 1 => Cardinality(Pending) <= 1 + removals


\* Every instance that a worker queues is later than the one before it, and no
\* further away than one interval from it, or from now when slots were missed.  The
\* exception is an upsert that changes the interval while it replaces the pending
\* instance: the offset of the interval before stays, and a catch-up can go that far.
NextSlotIsNear ==
  [][ score # None /\ hash.ic > 0 /\ hash'.ic = hash.ic + 1
        => /\ score' > score
           /\ hash.every > 0 => score' <= Max({score, now}) + Max({hash.every, hash.offset}) ]_vars

\* A schedule that has not reached its limit or its end never dries up: the
\* instance that the repeat entry names is pending or running, or a worker has
\* finished it and is about to queue the next.  Nothing but the death of that
\* worker before the script that queues the next has run breaks the chain, or a
\* failing call of rescheduleNext, which is not tried again, or a removal, whose
\* leftover instance can take the slot that a later chain needs.
ChainAlive ==
  \/ score = None \/ hash.ic = 0 \/ removing
  \/ hash.limit > 0 /\ hash.ic >= hash.limit
  \/ hash.end > 0 /\ (IF hash.pattern > 0 THEN NextFire(hash.pattern, now)
                                          ELSE now + hash.every) > hash.end
  \/ job[score] \in {"delayed", "wait", "active", "again"}
  \/ \E w \in Worker : pc[w] \in {"finalised", "read"} /\ cur[w] = score
  \/ score = orphaned \/ removals > 0

\* RemoveSchedule drops the instance that is queued for later.
RemovalDropsDelayed ==
  removals > 0 /\ score = None /\ hash.ic = 0 => \A m \in Millis : job[m] # "delayed"

=============================================================================

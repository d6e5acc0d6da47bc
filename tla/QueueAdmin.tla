------------------------------ MODULE QueueAdmin ------------------------------
(***************************************************************************)
(* The administration of a queue while workers use it: removing, promoting *)
(* and retrying single jobs, draining what is pending, pausing and         *)
(* resuming (with the jobs that BullMQ 5 left in the paused list), writing *)
(* to a job, the retention of finished jobs, and the deduplication key.    *)
(* Every script is one atomic step; Resume is a loop of them.              *)
(*                                                                         *)
(* The worker is reduced to what these calls can meet: a worker holds one  *)
(* job, and its lock is named after the worker instead of a token.         *)
(* Attempts, lost replies and the prefetch are in JobQueue.  A removed id  *)
(* can be added again, so each job has the number of its incarnation.      *)
(***************************************************************************)
EXTENDS JobLists

CONSTANTS
  Worker,         \* workers, each with one job at a time
  NoJob, NoWorker,
  PriorityJobs,   \* jobs with opts.priority > 0
  Unique,         \* jobs that are added with one and the same deduplication id
  Scheduled,      \* jobs that are instances of a job scheduler
  Keep,           \* keepJobs.count of each job
  Parked,         \* the paused LIST that BullMQ 5 left behind
  ResumeBatch,    \* jobs moved by one resume script (7000 in the code)
  MaxRounds,      \* legacyDrainRounds (100 in the code)
  MaxIncarnation  \* bound: how often each id is added

ASSUME AdminAssumption ==
  /\ NoJob \notin Job /\ NoWorker \notin Worker
  /\ PriorityJobs \subseteq Job /\ Unique \subseteq Job /\ Scheduled \subseteq Job
  /\ Unique \cap Scheduled = {}
  /\ Keep \in [Job -> Nat]
  /\ Parked \in Seq(Job) /\ IsInjective(Parked)
  /\ Range(Parked) \cap (PriorityJobs \cup Scheduled) = {}
  /\ ResumeBatch \in Nat \ {0} /\ MaxRounds \in Nat \ {0}
  /\ MaxIncarnation \in [Job -> Nat \ {0}]

VARIABLES
  wait, legacy,            \* the wait and the paused LIST, head first
  prioritized, delayed,    \* ZSETs of the jobs that are pending
  active,                  \* the active LIST
  completed, failed,       \* ZSETs of the finished jobs, oldest first
  stalled,                 \* the stalled SET
  hash, logs,              \* the jobs whose HASH, whose logs LIST exists
  lock,                    \* the worker whose lock the job has
  repeat,                  \* the instances that the repeat ZSET names
  deKey,                   \* the deduplication key and whether it has a TTL
  paused,                  \* meta.paused
  round,                   \* scripts that the running Resume has called
  cur,                     \* the job of each worker and its incarnation
  inc,                     \* how often each id was added
  simple                   \* live jobs that were added with a key without TTL

listVars == <<wait, legacy, prioritized, delayed>>
endVars == <<completed, failed>>
keyVars == <<hash, logs, deKey, simple, inc, repeat>>
workVars == <<active, stalled, lock, cur>>
vars == <<listVars, endVars, keyVars, workVars, paused, round>>

NoKey == [job |-> NoJob, ttl |-> FALSE]

Idle == [job |-> NoJob, inc |-> 0]

\* Every variable keeps its type, a list names no job twice, and the finished
\* jobs stay within what is kept.
TypeOK ==
  /\ \A list \in {wait, legacy, completed, failed} : list \in Seq(Job) /\ IsInjective(list)
  /\ \A list \in {completed, failed} : list = <<>> \/ \E j \in Job : Len(list) <= Keep[j]
  /\ \A set \in {prioritized, delayed, active, stalled, hash, logs} : set \subseteq Job
  /\ lock \in [Job -> Worker \cup {NoWorker}]
  /\ repeat \subseteq Scheduled /\ simple \subseteq Unique
  /\ deKey \in [job : Unique \cup {NoJob}, ttl : BOOLEAN]
  /\ paused \in BOOLEAN /\ round \in 0..MaxRounds - 1
  /\ inc \in [Job -> Nat]
  /\ cur \in [Worker -> [job : Job \cup {NoJob}, inc : Nat]]

\* A queue that BullMQ 5 has paused with jobs in it, the windows of whose
\* deduplication have passed, or an empty one.
Init ==
  /\ wait = <<>> /\ legacy = Parked /\ prioritized = {} /\ delayed = {}
  /\ active = {} /\ completed = <<>> /\ failed = <<>> /\ stalled = {}
  /\ hash = Range(Parked) /\ logs = {}
  /\ lock = [j \in Job |-> NoWorker]
  /\ repeat = {} /\ deKey = NoKey /\ simple = {}
  /\ paused = (Parked # <<>>) /\ round = 0
  /\ inc = [j \in Job |-> IF j \in Range(Parked) THEN 1 ELSE 0]
  /\ cur = [w \in Worker |-> Idle]

-----------------------------------------------------------------------------
(* Helpers: the Lua includes *)

\* addJobInTargetList with LPUSH, or addJobWithPriority.
Enqueue(j) ==
  /\ wait' = IF j \in PriorityJobs THEN wait ELSE <<j>> \o wait
  /\ prioritized' = prioritized \cup ({j} \cap PriorityJobs)

\* removeJobKeys for the jobs in S.
RemoveJobKeys(S) ==
  /\ hash' = hash \ S
  /\ logs' = logs \ S

\* removeDeduplicationKeyIfNeededOnRemoval: the key goes with the job it names.
DeKeyAfterRemoval(S) == IF deKey.job \in S \cap hash THEN NoKey ELSE deKey

\* Slip: the key is deleted whoever holds it.
DeKeyAfterFinishAny(j) == IF j \in Unique /\ ~deKey.ttl THEN NoKey ELSE deKey

\* removeDeduplicationKeyIfNeededOnFinalization: a key without TTL goes with the
\* job it names, a key with TTL stays for the rest of its window.
DeKeyAfterFinish(j) == IF deKey.job = j /\ ~deKey.ttl THEN NoKey ELSE deKey

-----------------------------------------------------------------------------
(* Adding *)

\* deduplicateJob lets j in: no key, or one without TTL whose job has no HASH
\* (recoverStaleDeduplicationKey).  Else Add returns the job that the key names.
DedupOpen(j) ==
  j \in Unique => deKey.job = NoJob \/ (~deKey.ttl /\ deKey.job \notin hash)

\* The part of the add scripts before the job is put into a list.  An id that is
\* taken is left alone.
StoreJob(j, ttl) ==
  /\ inc[j] < MaxIncarnation[j]
  /\ j \notin hash
  /\ DedupOpen(j)
  /\ ttl => j \in Unique
  /\ hash' = hash \cup {j}
  /\ inc' = [inc EXCEPT ![j] = @ + 1]
  /\ deKey' = IF j \in Unique THEN [job |-> j, ttl |-> ttl] ELSE deKey
  /\ simple' = IF j \in Unique /\ ~ttl THEN simple \cup {j} ELSE simple
  /\ repeat' = repeat \cup ({j} \cap Scheduled)
  /\ logs' = logs

AddJob(j, ttl) ==
  /\ StoreJob(j, ttl)
  /\ Enqueue(j)
  /\ UNCHANGED <<legacy, delayed, endVars, workVars, paused, round>>

\* Only a scheduler combines a delay with a priority (ErrPriorityWithDelay).
AddDelayedJob(j, ttl) ==
  /\ j \in PriorityJobs => j \in Scheduled
  /\ StoreJob(j, ttl)
  /\ delayed' = delayed \cup {j}
  /\ UNCHANGED <<wait, legacy, prioritized, endVars, workVars, paused, round>>

DedupKeyExpires ==
  /\ deKey.ttl
  /\ deKey' = NoKey
  /\ UNCHANGED <<listVars, endVars, hash, logs, simple, inc, repeat, workVars, paused, round>>

-----------------------------------------------------------------------------
(* The inspector *)

\* Slip: the lock is not asked for.
RemovableLocked(j) == ~(j \in repeat /\ j \in hash)

\* removeJob refuses the current instance of a scheduler and a locked job.
Removable(j) == ~(j \in repeat /\ j \in hash) /\ lock[j] = NoWorker

\* removeJobFromAnyState
RemoveFromAnyState(j) ==
  /\ wait' = Without(wait, j) /\ legacy' = Without(legacy, j)
  /\ prioritized' = prioritized \ {j} /\ delayed' = delayed \ {j}
  /\ completed' = Without(completed, j) /\ failed' = Without(failed, j)
  /\ active' = active \ {j}

\* removeJobWithChildren.  An active job whose lock has expired is removed under
\* the hands of its worker; its mark in the stalled set stays.
RemoveJobWithChildren(j) ==
  /\ RemoveFromAnyState(j)
  /\ deKey' = DeKeyAfterRemoval({j})
  /\ RemoveJobKeys({j})
  /\ simple' = simple \ {j}
  /\ UNCHANGED <<inc, repeat, stalled, lock, cur, paused, round>>

\* RemoveJob returns ErrJobIsScheduler or ErrJobActive, or the job is gone.
RemoveJob(j) ==
  /\ Removable(j)
  /\ RemoveJobWithChildren(j)

\* promote: writing the delay is a HSET without a look at the HASH.
Promoted(j) ==
  /\ delayed' = delayed \ {j}
  /\ Enqueue(j)
  /\ hash' = hash \cup {j}
  /\ UNCHANGED <<legacy, endVars, logs, deKey, simple, inc, repeat, workVars, paused, round>>

\* PromoteJob returns ErrJobNotInDelayed, or the job is moved.
PromoteJob(j) ==
  /\ j \in delayed
  /\ Promoted(j)

\* reprocessJob: the deduplication key is not taken again.
Reprocessed(j, fromState) ==
  /\ failed' = IF fromState = "failed" THEN Without(failed, j) ELSE failed
  /\ completed' = IF fromState = "completed" THEN Without(completed, j) ELSE completed
  /\ Enqueue(j)
  /\ UNCHANGED <<legacy, delayed, keyVars, workVars, paused, round>>

\* RetryJob returns ErrJobNotFound or ErrJobNotInExpectedState, or the job waits.
RetryJob(j, fromState) ==
  /\ j \in hash
  /\ j \in Range(IF fromState = "failed" THEN failed ELSE completed)
  /\ Reprocessed(j, fromState)

\* removeListJobs: the HASHes of all but the protected jobs go, and then as many
\* entries as were removed are cut off the head of the list.
Trimmed(list) ==
  SubSeq(list, Cardinality({ i \in DOMAIN list : list[i] \notin repeat }) + 1, Len(list))

\* drain removes what is in wait, paused, prioritized and, if asked for, delayed,
\* except the instances that the repeat ZSET names.
Drained(withDelayed) ==
  (Range(wait) \cup Range(legacy) \cup prioritized
     \cup (IF withDelayed THEN delayed ELSE {})) \ repeat

DrainPending(withDelayed) ==
  LET gone == Drained(withDelayed)
  IN  /\ gone # {}
      /\ wait' = Trimmed(wait) /\ legacy' = Trimmed(legacy)
      /\ prioritized' = prioritized \cap repeat
      /\ delayed' = delayed \ gone
      /\ deKey' = DeKeyAfterRemoval(gone)
      /\ RemoveJobKeys(gone)
      /\ simple' = simple \ gone
      /\ UNCHANGED <<endVars, inc, repeat, workVars, paused, round>>

Pause ==
  /\ ~paused
  /\ paused' = TRUE
  /\ UNCHANGED <<listVars, endVars, keyVars, workVars, round>>

\* Slip: a list that exists is overwritten by the RENAME.
ResumedRenamed == <<legacy, <<>>>>

\* The lists after one resume script: the paused list is renamed when there is no
\* wait list, else a batch of it goes to the end that is popped next.
Resumed ==
  LET n == IF Len(legacy) < ResumeBatch THEN Len(legacy) ELSE ResumeBatch
  IN  IF wait = <<>> THEN <<legacy, <<>>>>
      ELSE <<wait \o SubSeq(legacy, 1, n), SubSeq(legacy, n + 1, Len(legacy))>>

\* One round of pauseResume: the next round follows while jobs are left, and the
\* call gives up after MaxRounds.
Resume ==
  /\ paused \/ legacy # <<>> \/ round > 0
  /\ paused' = FALSE
  /\ wait' = IF legacy = <<>> THEN wait ELSE Resumed[1]
  /\ legacy' = IF legacy = <<>> THEN legacy ELSE Resumed[2]
  /\ round' = IF legacy' # <<>> /\ round + 1 < MaxRounds THEN round + 1 ELSE 0
  /\ UNCHANGED <<prioritized, delayed, endVars, keyVars, workVars>>

\* UpdateJobProgress and UpdateJobData write a field of the HASH, AppendJobLog
\* the logs LIST, from the handler or from anywhere else.
MutateJob(j) ==
  /\ j \in hash
  /\ \/ hash' = hash \cup {j} /\ logs' = logs
     \/ logs' = logs \cup {j} /\ hash' = hash
  /\ UNCHANGED <<listVars, endVars, deKey, simple, inc, repeat, workVars, paused, round>>

-----------------------------------------------------------------------------
(* Workers *)

\* moveToActive: some delayed jobs are due and are promoted, then a job is taken
\* unless the queue is paused.  prepareJobForProcessing writes to its HASH.
MoveToActive(w) ==
  /\ cur[w] = Idle
  /\ \E due \in SUBSET delayed : \E order \in Orders(due \ PriorityJobs) :
       LET waiting == order \o wait
           ranked == prioritized \cup (due \cap PriorityJobs)
           Takes(j) ==
             /\ active' = active \cup {j}
             /\ lock' = [lock EXCEPT ![j] = w]
             /\ cur' = [cur EXCEPT ![w] = [job |-> j, inc |-> inc[j]]]
             /\ hash' = hash \cup {j}
       IN  /\ delayed' = delayed \ due
           /\ \/ /\ paused
                 /\ due # {}
                 /\ wait' = waiting /\ prioritized' = ranked
                 /\ UNCHANGED <<active, lock, cur, hash>>
              \/ /\ ~paused
                 /\ waiting # <<>>
                 /\ wait' = SubSeq(waiting, 1, Len(waiting) - 1)
                 /\ prioritized' = ranked
                 /\ Takes(waiting[Len(waiting)])
              \/ /\ ~paused
                 /\ waiting = <<>>
                 /\ wait' = waiting
                 /\ \E j \in ranked : prioritized' = ranked \ {j} /\ Takes(j)
  /\ UNCHANGED <<legacy, endVars, logs, deKey, simple, inc, repeat, stalled, paused, round>>

\* The finalising scripts go ahead: the HASH, the worker's own lock, the list.
Accepted(w) ==
  /\ cur[w].job \in hash \cap active
  /\ lock[cur[w].job] = w

\* removeLock, the LREM, and the worker is free.
Releases(w) ==
  /\ active' = active \ {cur[w].job}
  /\ stalled' = stalled \ {cur[w].job}
  /\ lock' = [lock EXCEPT ![cur[w].job] = NoWorker]
  /\ cur' = [cur EXCEPT ![w] = Idle]

\* Slip: one too many is kept.
NewestAndOne(list, n) == IF Len(list) <= n THEN list ELSE SubSeq(list, Len(list) - n, Len(list))

\* removeJobsByMaxCount: the newest n of a set of finished jobs.
Newest(list, n) == IF Len(list) <= n THEN list ELSE SubSeq(list, Len(list) - n + 1, Len(list))

\* moveToFinished.  The job is added to the set, which is cut to the newest that
\* the job's own option keeps, or is removed when it keeps 0.  For an instance of
\* a scheduler, rescheduleNext makes the repeat ZSET name the next one.
MoveToFinished(w) ==
  LET j == cur[w].job
      After(list) == IF Keep[j] = 0 THEN list ELSE Newest(Append(list, j), Keep[j])
      Removed(list) == (Range(list) \cup {j}) \ Range(After(list))
  IN  /\ cur[w] # Idle
      /\ Accepted(w)
      /\ deKey' = DeKeyAfterFinish(j)
      /\ \/ completed' = After(completed) /\ failed' = failed
            /\ RemoveJobKeys(Removed(completed))
         \/ failed' = After(failed) /\ completed' = completed
            /\ RemoveJobKeys(Removed(failed))
      /\ repeat' = repeat \ {j}
      /\ simple' = simple \ {j}
      /\ Releases(w)
      /\ UNCHANGED <<listVars, inc, paused, round>>

\* retryJob and moveToDelayed.
PutBack(w) ==
  /\ cur[w] # Idle
  /\ Accepted(w)
  /\ \/ Enqueue(cur[w].job) /\ delayed' = delayed
     \/ delayed' = delayed \cup {cur[w].job} /\ UNCHANGED <<wait, prioritized>>
  /\ Releases(w)
  /\ UNCHANGED <<legacy, endVars, keyVars, paused, round>>

\* A finalising script refuses and the worker lets go of the job.  A worker that
\* dies leaves the same state once its lock has run out.
LetsGo(w) ==
  /\ cur[w] # Idle
  /\ ~Accepted(w)
  /\ cur' = [cur EXCEPT ![w] = Idle]
  /\ UNCHANGED <<listVars, endVars, keyVars, active, stalled, lock, paused, round>>

\* The heartbeat extends the lock and takes the mark away.
ExtendLock(w) ==
  /\ cur[w].job \in stalled
  /\ lock[cur[w].job] = w
  /\ stalled' = stalled \ {cur[w].job}
  /\ UNCHANGED <<listVars, endVars, keyVars, active, lock, cur, paused, round>>

LockExpires(j) ==
  /\ lock[j] # NoWorker
  /\ lock' = [lock EXCEPT ![j] = NoWorker]
  /\ UNCHANGED <<listVars, endVars, keyVars, active, stalled, cur, paused, round>>

\* Slip: the count of the LREM is ignored.
StalledJobsAny == { j \in stalled : lock[j] = NoWorker }

\* The marked jobs without a lock that are still in the active list.
StalledJobs == { j \in stalled \cap active : lock[j] = NoWorker }

\* moveStalledJobsToWait; the counter is a HINCRBY without a look at the HASH.
MoveStalledJobsToWait ==
  /\ active # {} \/ stalled # {}
  /\ active' = active \ StalledJobs
  /\ stalled' = active'
  /\ hash' = hash \cup StalledJobs
  /\ \E order \in Orders(StalledJobs) : wait' = wait \o order
  /\ UNCHANGED <<legacy, prioritized, delayed, endVars, logs, deKey, simple, inc, repeat,
                 lock, cur, paused, round>>

-----------------------------------------------------------------------------

Administers(j) ==
  \/ \E ttl \in BOOLEAN : AddJob(j, ttl) \/ AddDelayedJob(j, ttl)
  \/ RemoveJob(j) \/ PromoteJob(j) \/ MutateJob(j)
  \/ \E fromState \in {"failed", "completed"} : RetryJob(j, fromState)

Works(w) == MoveToActive(w) \/ MoveToFinished(w) \/ PutBack(w) \/ LetsGo(w) \/ ExtendLock(w)

Next ==
  \/ \E j \in Job : Administers(j) \/ LockExpires(j)
  \/ \E withDelayed \in BOOLEAN : DrainPending(withDelayed)
  \/ Pause \/ Resume \/ DedupKeyExpires \/ MoveStalledJobsToWait
  \/ \E w \in Worker : Works(w)

Spec == Init /\ [][Next]_vars

-----------------------------------------------------------------------------
(* Properties *)

Pending == Range(wait) \cup Range(legacy) \cup prioritized \cup delayed

Places ==
  <<Range(wait), Range(legacy), prioritized, delayed, active, Range(completed), Range(failed)>>

\* Whatever the administrator does to the jobs that workers hold, finish, lose or
\* get back, a job is in exactly one place while its HASH exists and in none
\* afterwards, the paused list of BullMQ 5 included, and its logs go with it.  The
\* jobs are those of Add; for the instances of a scheduler a drain breaks the
\* corresponding promise (ScheduledInQueue).
JobsAccounted ==
  /\ \A a, b \in DOMAIN Places : a # b => Places[a] \cap Places[b] = {}
  /\ UNION Range(Places) = hash
  /\ logs \subseteq hash

\* Only Add brings a job into being: no late heartbeat, finalise, stalled check,
\* promotion or write to a job that has been removed creates its HASH again.
OnlyAddCreates == [][\A j \in hash' \ hash : inc'[j] = inc[j] + 1]_vars

\* A lock belongs to a worker that holds this very incarnation of the job: a
\* worker that kept running a removed job cannot finish the job that was added
\* later under the same id.
LocksMatchIncarnation ==
  \A j \in Job : \A w \in Worker :
    lock[j] = w => j \in active /\ cur[w] = [job |-> j, inc |-> inc[j]]

\* A live job that was added under a deduplication id without TTL holds the key,
\* whatever happens to the other jobs of that id, so that no second one gets in;
\* and a key without TTL names a job that is still to be finished: no removal,
\* drain or finish leaves a key behind that nobody will delete.
KeyFollowsJob ==
  /\ \A j \in simple : j \in Pending \cup active /\ deKey = [job |-> j, ttl |-> FALSE]
  /\ deKey.job # NoJob /\ ~deKey.ttl => deKey.job \in Pending \cup active

\* DrainPending preserves the iterations that the repeat ZSET names.
ScheduledInQueue ==
  \A j \in repeat : j \in Pending \cup active

=============================================================================

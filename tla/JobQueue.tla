------------------------------- MODULE JobQueue -------------------------------
(***************************************************************************)
(* One mkq queue: the Redis keys of the queue, the Lua scripts that change *)
(* them (each script is one atomic step, as Redis runs it), and the        *)
(* dispatcher goroutines of the workers that call the scripts and run the  *)
(* user's handler.                                                         *)
(*                                                                         *)
(* What makes the queue hard is that a script and the worker's knowledge   *)
(* of it are two different steps.  A reply can be lost after the script    *)
(* ran, a request can be lost before it ran, the client can send the       *)
(* command again, a lock can expire while its owner is still working, and  *)
(* a process can die anywhere.  All of these are actions here.             *)
(*                                                                         *)
(* Abstractions: the payload, the events and the timestamps of a job are   *)
(* left out.  A delayed job is due once BecomesDue has happened to it.     *)
(* The order in the active list is never read by the code, so the list is  *)
(* a count per job; the jobs that one script call promotes, and the member *)
(* popped from the prioritized set, are taken in any order.  "paused"      *)
(* stands for every reason for which moveToActive hands out nothing        *)
(* (paused, at the concurrency cap, rate limited).                         *)
(***************************************************************************)
EXTENDS JobLists

CONSTANTS
  Dispatcher,       \* dispatcher goroutines, of all workers of the queue
  Token,            \* lock tokens (the code draws a fresh UUID)
  NoJob, NoToken,   \* nil
  PriorityJobs,     \* jobs with opts.priority > 0
  LifoJobs,         \* jobs with opts.lifo
  Repeatable,       \* jobs of a live job scheduler
  Discard,          \* jobs with removeOnComplete and removeOnFail keeping 0
  Attempts,         \* opts.attempts of each job
  MaxStalledCount,  \* WithMaxStalledCount
  Outcomes,         \* how the handlers under study may return
  MaxDisturb        \* bound: disturbances (losses, crashes, pauses) explored

ASSUME ConstantsAssumption ==
  /\ NoJob \notin Job
  /\ NoToken \notin Token
  /\ PriorityJobs \subseteq Job
  /\ LifoJobs \subseteq Job
  /\ Repeatable \subseteq Job
  /\ Discard \subseteq Job
  /\ Attempts \in [Job -> Nat]
  /\ MaxStalledCount \in Nat
  /\ Outcomes \subseteq {"ok", "error", "fatal", "postpone"}
  /\ MaxDisturb \in Nat

VARIABLES
  \* Redis: the queue's keys
  wait,          \* the wait LIST, head (LPUSH side) first
  prioritized,   \* the prioritized ZSET
  delayed,       \* the delayed ZSET
  due,           \* the delayed jobs whose time has come
  active,        \* the active LIST, as the number of occurrences of each id
  completed,     \* the completed ZSET
  failed,        \* the failed ZSET
  stalled,       \* the stalled SET
  stalledCheck,  \* whether the stalled-check key exists
  paused,        \* whether fetching is closed
  \* Redis: the keys of each job
  hash,          \* the jobs whose HASH exists
  lock,          \* the token in the job's lock key
  atm, stc,      \* attempts made, stalled counter
  defa,          \* whether the deferred failure is set
  \* the dispatchers
  pc,            \* where dispatchLoop is
  token,         \* the token of the current moveToActive
  cur,           \* the job in processJob
  plan,          \* what finalise decided
  reply,         \* the job in the reply that has not been read yet
  beat,          \* whether the heartbeat goroutine runs
  \* bookkeeping of the model
  disturb,       \* disturbances so far
  runs           \* handler runs granted to a job since it was added

queueVars == <<wait, prioritized, delayed, due>>
fieldVars == <<hash, atm, stc, defa>>
endVars   == <<completed, failed>>
scanVars  == <<stalled, stalledCheck>>
storeVars == <<queueVars, fieldVars, endVars, scanVars, active, lock, paused>>
dispVars  == <<pc, token, cur, plan, reply, beat>>
vars      == <<storeVars, dispVars, disturb, runs>>

-----------------------------------------------------------------------------
(* Types *)

\* what a worker learns of a job from the reply that hands it over
Snapshot == [job : Job \cup {NoJob}, defa : BOOLEAN, atm : Nat]

NoSnap == [job |-> NoJob, defa |-> FALSE, atm |-> 0]

Where == {"idle", "asking", "running", "finalising", "replied", "rejected"}

Plan == {"none", "complete", "fail", "retry", "delay", "postpone"}

\* Every variable keeps its type.
TypeOK ==
  /\ wait \in Seq(Job)
  /\ prioritized \subseteq Job /\ delayed \subseteq Job /\ due \subseteq delayed
  /\ active \in [Job -> Nat]
  /\ completed \subseteq Job /\ failed \subseteq Job
  /\ stalled \subseteq Job /\ stalledCheck \in BOOLEAN /\ paused \in BOOLEAN
  /\ hash \subseteq Job
  /\ lock \in [Job -> Token \cup {NoToken}]
  /\ atm \in [Job -> Nat] /\ stc \in [Job -> Nat] /\ defa \in [Job -> BOOLEAN]
  /\ pc \in [Dispatcher -> Where]
  /\ token \in [Dispatcher -> Token \cup {NoToken}]
  /\ cur \in [Dispatcher -> Snapshot]
  /\ plan \in [Dispatcher -> Plan]
  /\ reply \in [Dispatcher -> Snapshot]
  /\ beat \in [Dispatcher -> BOOLEAN]
  /\ disturb \in 0..MaxDisturb
  /\ runs \in [Job -> Int]

Init ==
  /\ wait = <<>> /\ prioritized = {} /\ delayed = {} /\ due = {}
  /\ active = [j \in Job |-> 0] /\ completed = {} /\ failed = {}
  /\ stalled = {} /\ stalledCheck = FALSE /\ paused = FALSE
  /\ hash = {}
  /\ lock = [j \in Job |-> NoToken]
  /\ atm = [j \in Job |-> 0] /\ stc = [j \in Job |-> 0]
  /\ defa = [j \in Job |-> FALSE]
  /\ pc = [d \in Dispatcher |-> "idle"]
  /\ token = [d \in Dispatcher |-> NoToken]
  /\ cur = [d \in Dispatcher |-> NoSnap]
  /\ plan = [d \in Dispatcher |-> "none"]
  /\ reply = [d \in Dispatcher |-> NoSnap]
  /\ beat = [d \in Dispatcher |-> FALSE]
  /\ disturb = 0
  /\ runs = [j \in Job |-> 0]

-----------------------------------------------------------------------------
(* Helpers: the Lua includes *)

\* addJobInTargetList with the pushCmd of the job: LIFO jobs are pushed at the
\* end that RPOPLPUSH pops next.
Push(w, j) == IF j \in LifoJobs THEN Append(w, j) ELSE <<j>> \o w

\* promoteDelayedJobs: the due jobs without priority are LPUSHed to wait ...
PromotedWait == { order \o wait : order \in Orders(due \ PriorityJobs) }

\* ... and the ones with a priority go to the prioritized set.
PromotedPrioritized == prioritized \cup (due \cap PriorityJobs)

\* The codes of the finalising scripts for job j and token t: -1 no HASH, -2 no
\* lock, -6 the lock is another worker's, -3 not in active (found out only
\* after removeLock has deleted the lock).
FinishCode(j, t) ==
  CASE j \notin hash -> -1
    [] j \in hash /\ lock[j] = NoToken -> -2
    [] j \in hash /\ lock[j] # NoToken /\ lock[j] # t -> -6
    [] j \in hash /\ lock[j] = t /\ t # NoToken /\ active[j] = 0 -> -3
    [] OTHER -> 0

\* Slip: the reply does not carry the deferred failure.
PrepareJobForProcessingBlind(d, k, act, lck) ==
  /\ active' = [act EXCEPT ![k] = @ + 1]
  /\ lock' = [lck EXCEPT ![k] = token[d]]
  /\ reply' = [reply EXCEPT ![d] = [job |-> k, defa |-> FALSE, atm |-> atm'[k]]]
  /\ runs' = IF defa'[k] THEN runs ELSE [runs EXCEPT ![k] = @ + 1]

\* prepareJobForProcessing: job k, just moved to active, is locked with the
\* caller's token and handed over in the reply.  act and lck are the active
\* list and the locks as the script has left them so far.
PrepareJobForProcessing(d, k, act, lck) ==
  /\ active' = [act EXCEPT ![k] = @ + 1]
  /\ lock' = [lck EXCEPT ![k] = token[d]]
  /\ reply' = [reply EXCEPT ![d] = [job |-> k, defa |-> defa'[k], atm |-> atm'[k]]]
  /\ runs' = IF defa'[k] THEN runs ELSE [runs EXCEPT ![k] = @ + 1]

\* The script hands over no job.
NothingToFetch(d, act, lck) ==
  /\ active' = act
  /\ lock' = lck
  /\ reply' = [reply EXCEPT ![d] = NoSnap]
  /\ runs' = runs

\* fetchNextJob, which is also the body of moveToActive: promote what is due,
\* stop there when the queue is paused, else pop the right end of wait, else a
\* member of the prioritized set.
FetchNextJob(d, act, lck) ==
  /\ delayed' = delayed \ due
  /\ due' = {}
  /\ \E w \in PromotedWait :
       \/ /\ paused \/ (w = <<>> /\ PromotedPrioritized = {})
          /\ wait' = w
          /\ prioritized' = PromotedPrioritized
          /\ NothingToFetch(d, act, lck)
       \/ /\ ~paused
          /\ w # <<>>
          /\ wait' = SubSeq(w, 1, Len(w) - 1)
          /\ prioritized' = PromotedPrioritized
          /\ PrepareJobForProcessing(d, w[Len(w)], act, lck)
       \/ /\ ~paused
          /\ w = <<>>
          /\ \E k \in PromotedPrioritized :
               /\ wait' = w
               /\ prioritized' = PromotedPrioritized \ {k}
               /\ PrepareJobForProcessing(d, k, act, lck)

Disturb == disturb < MaxDisturb /\ disturb' = disturb + 1

\* The dispatcher is back at the top of dispatchLoop with nothing in hand.
ToIdle(d) ==
  /\ pc' = [pc EXCEPT ![d] = "idle"]
  /\ token' = [token EXCEPT ![d] = NoToken]
  /\ cur' = [cur EXCEPT ![d] = NoSnap]
  /\ plan' = [plan EXCEPT ![d] = "none"]
  /\ reply' = [reply EXCEPT ![d] = NoSnap]
  /\ beat' = [beat EXCEPT ![d] = FALSE]

-----------------------------------------------------------------------------
(* Adding jobs, pausing, the passing of time *)

\* Slip: an id that is already taken is stored again.
StoreJobAgain(j) ==
  /\ hash' = hash \cup {j}
  /\ runs' = [runs EXCEPT ![j] = 0]

\* The HASH of a new job; an id that is taken is left alone (handleDuplicatedJob).
StoreJob(j) ==
  /\ j \notin hash
  /\ hash' = hash \cup {j}
  /\ runs' = [runs EXCEPT ![j] = 0]

AddStandardJob(j) ==
  /\ j \notin PriorityJobs
  /\ StoreJob(j)
  /\ wait' = Push(wait, j)
  /\ UNCHANGED <<prioritized, delayed, due, active, completed, failed, scanVars,
                 paused, lock, atm, stc, defa, dispVars, disturb>>

AddDelayedJob(j) ==
  /\ j \notin PriorityJobs
  /\ StoreJob(j)
  /\ delayed' = delayed \cup {j}
  /\ UNCHANGED <<wait, prioritized, due, active, completed, failed, scanVars,
                 paused, lock, atm, stc, defa, dispVars, disturb>>

AddPrioritizedJob(j) ==
  /\ j \in PriorityJobs
  /\ StoreJob(j)
  /\ prioritized' = prioritized \cup {j}
  /\ UNCHANGED <<wait, delayed, due, active, completed, failed, scanVars,
                 paused, lock, atm, stc, defa, dispVars, disturb>>

\* The clock passes the timestamp of a delayed job.
BecomesDue(j) ==
  /\ j \in delayed \ due
  /\ due' = due \cup {j}
  /\ UNCHANGED <<wait, prioritized, delayed, active, endVars, scanVars, paused,
                 lock, fieldVars, dispVars, disturb, runs>>

Pause ==
  /\ ~paused
  /\ Disturb
  /\ paused' = TRUE
  /\ UNCHANGED <<queueVars, active, endVars, scanVars, lock, fieldVars, dispVars, runs>>

Resume ==
  /\ paused
  /\ paused' = FALSE
  /\ UNCHANGED <<queueVars, active, endVars, scanVars, lock, fieldVars, dispVars,
                 disturb, runs>>

\* Somebody is about to use, or is extending, the lock of j.
InUse(j) ==
  \E d \in Dispatcher :
    /\ token[d] = lock[j]
    /\ \/ cur[d].job = j /\ (pc[d] = "running" => beat[d])
       \/ pc[d] = "replied" /\ reply[d].job = j

\* The TTL of the lock runs out.  It does so sooner or later when nobody uses
\* the lock; while somebody does (a long pause of the process, a reply or a
\* heartbeat that is late) it counts as a disturbance.
LockExpires(j) ==
  /\ lock[j] # NoToken
  /\ IF InUse(j) THEN Disturb ELSE UNCHANGED disturb
  /\ lock' = [lock EXCEPT ![j] = NoToken]
  /\ UNCHANGED <<queueVars, active, endVars, scanVars, paused, fieldVars, dispVars, runs>>

\* Slip: stalled-check is set without a TTL.
StalledCheckNeverExpires == FALSE /\ UNCHANGED vars

\* The TTL of the stalled-check key (stalledCheckTTL) runs out.
StalledCheckExpires ==
  /\ stalledCheck
  /\ stalledCheck' = FALSE
  /\ UNCHANGED <<queueVars, active, endVars, stalled, paused, lock, fieldVars,
                 dispVars, disturb, runs>>

-----------------------------------------------------------------------------
(* The stalled checker *)

\* The jobs that the previous scan marked, that no heartbeat unmarked, and that
\* have no lock: their worker is gone.
StalledJobs == { j \in stalled : lock[j] = NoToken /\ active[j] > 0 }

\* Slip: the limit is compared with the count before this stall.
PassesStalledLimitLate(j) == j \notin Repeatable /\ stc[j] > MaxStalledCount

\* The failure of a job that stalls too often is deferred, unless a job
\* scheduler owns it.
PassesStalledLimit(j) == j \notin Repeatable /\ stc[j] + 1 > MaxStalledCount

\* moveStalledJobsToWait, run by the stalledLoop of any worker.
MoveStalledJobsToWait ==
  /\ ~stalledCheck
  /\ stalledCheck' = TRUE
  /\ active' = [j \in Job |-> IF j \in StalledJobs THEN active[j] - 1 ELSE active[j]]
  /\ stc' = [j \in Job |-> IF j \in StalledJobs THEN stc[j] + 1 ELSE stc[j]]
  /\ defa' = [j \in Job |->
                defa[j] \/ (j \in StalledJobs /\ PassesStalledLimit(j))]
  /\ hash' = hash \cup StalledJobs
  /\ \E order \in Orders(StalledJobs) : wait' = wait \o order
  /\ stalled' = { j \in Job : active'[j] > 0 }
  /\ UNCHANGED <<prioritized, delayed, due, endVars, paused, lock, atm, dispVars,
                 disturb, runs>>

-----------------------------------------------------------------------------
(* The dispatcher: fetching *)

\* Slip: a token is drawn again while its former user still runs.
FreshTokenReused(t) == \A j \in Job : lock[j] # t

\* tryOnce draws a token that nobody has.
FreshToken(t) == (\A d \in Dispatcher : token[d] # t) /\ (\A j \in Job : lock[j] # t)

TryOnce(d, t) ==
  /\ pc[d] = "idle"
  /\ FreshToken(t)
  /\ token' = [token EXCEPT ![d] = t]
  /\ pc' = [pc EXCEPT ![d] = "asking"]
  /\ UNCHANGED <<storeVars, cur, plan, reply, beat, disturb, runs>>

MoveToActive(d) ==
  /\ pc[d] = "asking"
  /\ pc' = [pc EXCEPT ![d] = "replied"]
  /\ UNCHANGED <<hash, atm, stc, defa>>
  /\ FetchNextJob(d, active, lock)
  /\ UNCHANGED <<endVars, scanVars, paused, token, cur, plan, beat, disturb>>

\* The reply is read.  With a job in it, processJob starts: a job that carries
\* a deferred failure goes straight to finishFailed, any other one gets a
\* heartbeat and its handler.  A reply to moveToFinished hands over the
\* prefetched job under the token of the job just finished.
ReadReply(d) ==
  /\ pc[d] = "replied"
  /\ \/ /\ reply[d].job = NoJob
        /\ ToIdle(d)
     \/ /\ reply[d].job # NoJob
        /\ cur' = [cur EXCEPT ![d] = reply[d]]
        /\ reply' = [reply EXCEPT ![d] = NoSnap]
        /\ IF reply[d].defa
             THEN /\ pc' = [pc EXCEPT ![d] = "finalising"]
                  /\ plan' = [plan EXCEPT ![d] = "fail"]
                  /\ beat' = beat
             ELSE /\ pc' = [pc EXCEPT ![d] = "running"]
                  /\ plan' = [plan EXCEPT ![d] = "none"]
                  /\ beat' = [beat EXCEPT ![d] = TRUE]
        /\ token' = token
  /\ UNCHANGED <<storeVars, disturb, runs>>

-----------------------------------------------------------------------------
(* The dispatcher: running the handler *)

\* extendLock from the heartbeat goroutine; a lost lock ends the heartbeat (and
\* cancels the context of the handler, which may go on all the same).
Heartbeat(d) ==
  /\ pc[d] = "running"
  /\ beat[d]
  /\ LET mine == lock[cur[d].job] = token[d]
     IN  /\ stalled' = IF mine THEN stalled \ {cur[d].job} ELSE stalled
         /\ beat' = [beat EXCEPT ![d] = mine]
  /\ UNCHANGED <<queueVars, active, endVars, stalledCheck, paused, lock, fieldVars,
                 pc, token, cur, plan, reply, disturb, runs>>

HeartbeatFails(d) ==
  /\ pc[d] = "running"
  /\ beat[d]
  /\ Disturb
  /\ beat' = [beat EXCEPT ![d] = FALSE]
  /\ UNCHANGED <<storeVars, pc, token, cur, plan, reply, runs>>

\* Slip: the attempt that has just failed is not counted.
ShouldRetryOnceMore(j, made) == Attempts[j] > 0 /\ made < Attempts[j]

\* shouldRetry with the attempts made so far.
ShouldRetry(j, made) == Attempts[j] > 0 /\ made + 1 < Attempts[j]

\* What finalise does with an outcome: the backoff gives a delay, none, or a
\* negative one that gives up.
Plans(j, outcome, made) ==
  CASE outcome = "ok" -> {"complete"}
    [] outcome = "postpone" -> {"postpone"}
    [] outcome = "fatal" -> {"fail"}
    [] OTHER -> IF ShouldRetry(j, made) THEN {"retry", "delay", "fail"} ELSE {"fail"}

\* fetchAtm reads the attempts from the HASH, and falls back on the snapshot
\* when the read fails.
FetchAtm(d) ==
  IF cur[d].job \in hash THEN {atm[cur[d].job], cur[d].atm} ELSE {cur[d].atm}

\* The handler returns; the heartbeat has ended before finalise decides.
HandlerReturns(d, outcome) ==
  /\ pc[d] = "running"
  /\ pc' = [pc EXCEPT ![d] = "finalising"]
  /\ beat' = [beat EXCEPT ![d] = FALSE]
  /\ \E made \in FetchAtm(d) : \E p \in Plans(cur[d].job, outcome, made) :
       plan' = [plan EXCEPT ![d] = p]
  /\ UNCHANGED <<storeVars, token, cur, reply, disturb, runs>>

-----------------------------------------------------------------------------
(* The dispatcher: finalising *)

Code(d) == FinishCode(cur[d].job, token[d])

\* The effect of removeLock and of the LREM that follows it.
Unlocked(j) == [lock EXCEPT ![j] = NoToken]

LeftActive(j) == [active EXCEPT ![j] = @ - 1]

\* Slip: the mark of the stalled checker stays behind.
FinalisesMarked(d, plans) ==
  /\ pc[d] = "finalising"
  /\ plan[d] \in plans
  /\ Code(d) = 0
  /\ stalled' = stalled
  /\ pc' = [pc EXCEPT ![d] = "replied"]

\* What the finalising scripts have in common when they succeed.
Finalises(d, plans) ==
  /\ pc[d] = "finalising"
  /\ plan[d] \in plans
  /\ Code(d) = 0
  /\ stalled' = stalled \ {cur[d].job}
  /\ pc' = [pc EXCEPT ![d] = "replied"]

\* moveToFinished.  The job is kept in the completed or failed set, or removed
\* with its HASH.  fetchNext is the "1" or "" of fetchNextFlag.
MoveToFinished(d, fetchNext) ==
  LET j == cur[d].job
      kept == j \notin Discard
  IN  /\ Finalises(d, {"complete", "fail"})
      /\ completed' = IF kept /\ plan[d] = "complete" THEN completed \cup {j} ELSE completed
      /\ failed' = IF kept /\ plan[d] = "fail" THEN failed \cup {j} ELSE failed
      /\ hash' = IF kept THEN hash ELSE hash \ {j}
      /\ atm' = [atm EXCEPT ![j] = IF kept THEN @ + 1 ELSE 0]
      /\ stc' = [stc EXCEPT ![j] = IF kept THEN @ ELSE 0]
      /\ defa' = [defa EXCEPT ![j] = kept /\ plan[d] = "complete" /\ @]
      /\ \/ /\ fetchNext
            /\ FetchNextJob(d, LeftActive(j), Unlocked(j))
         \/ /\ ~fetchNext
            /\ NothingToFetch(d, LeftActive(j), Unlocked(j))
            /\ UNCHANGED queueVars
      /\ UNCHANGED <<stalledCheck, paused, token, cur, plan, beat, disturb>>

\* retryJob: promote what is due, then back to wait or to the prioritized set.
RetryJob(d) ==
  LET j == cur[d].job
  IN  /\ Finalises(d, {"retry"})
      /\ delayed' = delayed \ due
      /\ due' = {}
      /\ \E w \in PromotedWait :
           wait' = IF j \in PriorityJobs THEN w ELSE Push(w, j)
      /\ prioritized' = PromotedPrioritized \cup ({j} \cap PriorityJobs)
      /\ atm' = [atm EXCEPT ![j] = @ + 1]
      /\ UNCHANGED <<hash, stc, defa>>
      /\ NothingToFetch(d, LeftActive(j), Unlocked(j))
      /\ UNCHANGED <<endVars, stalledCheck, paused, token, cur, plan, beat, disturb>>

\* moveToDelayed; a handler that asked to be delayed keeps its attempt.
MoveToDelayed(d) ==
  LET j == cur[d].job
      keeps == plan[d] = "postpone"
  IN  /\ Finalises(d, {"delay", "postpone"})
      /\ delayed' = delayed \cup {j}
      /\ atm' = IF keeps THEN atm ELSE [atm EXCEPT ![j] = @ + 1]
      /\ active' = LeftActive(j)
      /\ lock' = Unlocked(j)
      /\ reply' = [reply EXCEPT ![d] = NoSnap]
      /\ runs' = IF keeps THEN [runs EXCEPT ![j] = @ - 1] ELSE runs
      /\ UNCHANGED <<wait, prioritized, due, endVars, stalledCheck, paused, hash,
                     stc, defa, token, cur, plan, beat, disturb>>

\* A finalising script returns an error.  retryJob has promoted by then, and
\* code -3 comes after the lock is gone.
FinaliseRejected(d) ==
  LET j == cur[d].job
  IN  /\ pc[d] = "finalising"
      /\ Code(d) # 0
      /\ pc' = [pc EXCEPT ![d] = "rejected"]
      /\ IF Code(d) = -3
           THEN lock' = Unlocked(j) /\ stalled' = stalled \ {j}
           ELSE UNCHANGED <<lock, stalled>>
      /\ IF plan[d] = "retry"
           THEN /\ delayed' = delayed \ due
                /\ due' = {}
                /\ wait' \in PromotedWait
                /\ prioritized' = PromotedPrioritized
           ELSE UNCHANGED queueVars
      /\ reply' = [reply EXCEPT ![d] = NoSnap]
      /\ UNCHANGED <<active, endVars, stalledCheck, paused, fieldVars, token, cur,
                     plan, beat, disturb, runs>>

\* After an error processJob gives the lock back if it is still its own.
ReleaseLock(d) ==
  /\ pc[d] = "rejected"
  /\ LET j == cur[d].job
     IN  lock' = IF lock[j] = token[d] THEN Unlocked(j) ELSE lock
  /\ ToIdle(d)
  /\ UNCHANGED <<queueVars, active, endVars, scanVars, paused, fieldVars, disturb, runs>>

-----------------------------------------------------------------------------
(* Disturbances of the connection and of the process *)

\* The call fails before the script has run.
RequestLost(d) ==
  /\ pc[d] \in {"finalising", "rejected"}
  /\ Disturb
  /\ IF pc[d] = "finalising"
       THEN /\ pc' = [pc EXCEPT ![d] = "rejected"]
            /\ UNCHANGED <<token, cur, plan, reply, beat>>
       ELSE ToIdle(d)
  /\ UNCHANGED <<storeVars, runs>>

\* The script has run and its reply never arrives: tryOnce goes back to sleep,
\* processJob takes it for an error of the finalising script.
ReplyLost(d) ==
  /\ pc[d] = "replied"
  /\ Disturb
  /\ IF cur[d].job = NoJob
       THEN ToIdle(d)
       ELSE /\ pc' = [pc EXCEPT ![d] = "rejected"]
            /\ reply' = [reply EXCEPT ![d] = NoSnap]
            /\ UNCHANGED <<token, cur, plan, beat>>
  /\ UNCHANGED <<storeVars, runs>>

\* The client library sends the command again after a lost reply.
Resent(d) ==
  /\ pc[d] = "replied"
  /\ Disturb
  /\ pc' = [pc EXCEPT ![d] = IF cur[d].job = NoJob THEN "asking" ELSE "finalising"]
  /\ reply' = [reply EXCEPT ![d] = NoSnap]
  /\ UNCHANGED <<storeVars, token, cur, plan, beat, runs>>

\* The process dies and starts again.
Crash(d) ==
  /\ pc[d] # "idle"
  /\ Disturb
  /\ ToIdle(d)
  /\ UNCHANGED <<storeVars, runs>>

-----------------------------------------------------------------------------

Adds(j) == AddStandardJob(j) \/ AddDelayedJob(j) \/ AddPrioritizedJob(j)

Disturbances(d) ==
  HeartbeatFails(d) \/ RequestLost(d) \/ ReplyLost(d) \/ Resent(d) \/ Crash(d)

Works(d) ==
  \/ \E t \in Token : TryOnce(d, t)
  \/ MoveToActive(d)
  \/ ReadReply(d)
  \/ \E outcome \in Outcomes : HandlerReturns(d, outcome)
  \/ \E fetchNext \in BOOLEAN : MoveToFinished(d, fetchNext)
  \/ RetryJob(d)
  \/ MoveToDelayed(d)
  \/ FinaliseRejected(d)
  \/ ReleaseLock(d)

Next ==
  \/ \E j \in Job : Adds(j) \/ BecomesDue(j) \/ LockExpires(j)
  \/ Pause \/ Resume \/ StalledCheckExpires \/ MoveStalledJobsToWait
  \/ \E d \in Dispatcher : Works(d) \/ Heartbeat(d) \/ Disturbances(d)

Spec == Init /\ [][Next]_vars

\* A lock that nobody uses runs out, delayed jobs come due, a pause ends, the
\* stalled checker runs for ever, and no dispatcher stops for ever.
FairSpec ==
  /\ Spec
  /\ \A j \in Job : WF_vars(BecomesDue(j)) /\ WF_vars(~InUse(j) /\ LockExpires(j))
  /\ WF_vars(Resume) /\ WF_vars(StalledCheckExpires) /\ WF_vars(MoveStalledJobsToWait)
  /\ \A d \in Dispatcher : WF_vars(Works(d))

-----------------------------------------------------------------------------
(* Properties *)

ActiveJobs == { j \in Job : active[j] > 0 }

\* The places where a job id can be.
Buckets == <<Range(wait), prioritized, delayed, ActiveJobs, completed, failed>>

\* No job is lost and none is in two places: through every script, retry, stall
\* recovery, lost reply and crash, a job that exists is in exactly one bucket
\* and exactly once, and the buckets name no job without a HASH.
OneBucket ==
  /\ IsInjective(wait)
  /\ \A j \in Job : active[j] <= 1
  /\ \A a, b \in DOMAIN Buckets : a # b => Buckets[a] \cap Buckets[b] = {}
  /\ UNION Range(Buckets) = hash

\* A lock never outlives the stay of its job in the active list: every script
\* that takes a job out of active has deleted the lock or found none, so a job
\* that waits can be taken, and code -3 of the finalising scripts cannot occur.
LockedIsActive == \A j \in Job : lock[j] # NoToken => active[j] > 0

\* Only active jobs are marked as stalled: what leaves the active list leaves
\* the mark behind on no path, so a job that is taken again gets the full grace
\* of one scan (prepareJobForProcessing does not clear the mark).
StalledIsActive == stalled \subseteq ActiveJobs

\* What is held belongs to the active list, locks and marks alike.
OnlyActiveHeld == LockedIsActive /\ StalledIsActive

\* Dispatcher d can finalise job j now.
Owns(d, j) == cur[d].job = j /\ token[d] # NoToken /\ token[d] = lock[j]

\* At most one dispatcher owns a job, although several can be running its
\* handler once a lock has expired: tokens are never shared, not even by the
\* prefetch, which carries one over to the next job.
OwnersExclude ==
  \A j \in Job : \A d, e \in Dispatcher : Owns(d, j) /\ Owns(e, j) => d = e

\* The snapshot that came with the job stays right for as long as the job is
\* owned, so that the fallback of fetchAtm decides like the value in Redis and
\* a job whose failure has been deferred is never run by its owner.
SnapshotIsCurrent ==
  \A d \in Dispatcher : \A j \in Job :
    Owns(d, j) /\ pc[d] \in {"running", "finalising"}
      => cur[d].atm = atm[j] /\ cur[d].defa = defa[j]

MaxAttempts(j) == IF Attempts[j] = 0 THEN 1 ELSE Attempts[j]

\* The attempts made never pass the job's attempts, and a job that can still
\* be run has one left, whoever finalised the earlier attempts and however
\* often they were interrupted.
AttemptsBounded ==
  \A j \in Job :
    /\ atm[j] <= MaxAttempts(j)
    /\ j \in hash \ (completed \cup failed) => atm[j] < MaxAttempts(j)

\* The handler of a job is granted at most attempts + maxStalledCount runs: each
\* run is paid for by an attempt or by a stall, and the stall that passes the
\* limit defers a failure instead of granting one more.  A run that ends with a
\* DelayedError is refunded, so runs that postpone the job do not count.
RunsBounded ==
  \A j \in Job \ Repeatable : runs[j] <= MaxAttempts(j) + MaxStalledCount

Finished(j) == j \in completed \cup failed \/ j \notin hash

\* Every job that was added is finished in the end, whatever was lost or died
\* on the way.
EveryJobFinishes == \A j \in Job : j \in hash ~> Finished(j)

-----------------------------------------------------------------------------
(* The queue as a job service *)

status ==
  [j \in Job |->
     CASE j \in completed -> "completed"
       [] j \in failed /\ j \notin completed -> "failed"
       [] j \notin completed \cup failed /\ active[j] > 0 -> "active"
       [] j \notin completed \cup failed /\ active[j] = 0 /\ j \in hash -> "pending"
       [] OTHER -> "absent"]

Service == INSTANCE JobService WITH made <- atm

\* Every step of the scripts and of the dispatchers is a step of the job
\* service or changes nothing a user can see: jobs are settled once and only
\* by an attempt that is under way, and interruptions are never charged.
ImplementsService == Service!Spec

=============================================================================

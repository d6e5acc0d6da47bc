--------------------------- MODULE WorkerLifecycle ---------------------------
(***************************************************************************)
(* The workers of one queue as pools of goroutines: how idle dispatchers   *)
(* park on the shared marker key and are woken, and how Stop and Drain     *)
(* bring a worker down.  The hard part is the shutdown: runCtx, jobsCtx,   *)
(* the private wake key and the prefetch race with the dispatchers, which  *)
(* can be anywhere in dispatchLoop when the contexts are cancelled.        *)
(*                                                                         *)
(* Abstractions: jobs are counted, not named (JobQueue has their locks and *)
(* attempts).  Timers may fire at any time.  A job in the active list that *)
(* no dispatcher holds is stranded until a stalled scan takes it back; its *)
(* lock, the mark of the scan before and stalled-check decide when, which  *)
(* JobQueue and JobTiming model: here any scan may find any of them ripe.  *)
(* Redis serves the clients blocked in BZPOPMIN before the next command:   *)
(* no command runs while Servable.                                         *)
(***************************************************************************)
EXTENDS Integers, FiniteSets

CONSTANTS
  Worker,       \* Worker values
  Dispatcher,   \* dispatcher goroutines
  WorkerOf,     \* the worker of each dispatcher
  Settings      \* the surroundings under study, see Setting

\* stoppable: the workers somebody may stop or drain; pausable: somebody may
\* pause the queue; limiter: a rate limiter is configured; failures: calls to
\* Redis may fail; delays: jobs may have a delay or a backoff; maxJobs bounds
\* the jobs in the queue at a time.
Setting == [stoppable : SUBSET Worker, pausable : BOOLEAN, limiter : BOOLEAN,
            failures : BOOLEAN, delays : BOOLEAN, maxJobs : Nat]

ASSUME PoolAssumption ==
  /\ WorkerOf \in [Dispatcher -> Worker]
  /\ IsFiniteSet(Dispatcher)
  /\ Settings \subseteq Setting

VARIABLES
  \* Redis
  waiting,      \* jobs in wait or prioritized
  delayed,      \* jobs in delayed ...
  due,          \* ... and how many of them are due
  stranded,     \* jobs in active that no dispatcher holds
  marker,       \* members of the marker ZSET: "0" base, "1" delay
  paused,       \* whether the queue is paused
  limited,      \* whether the rate limit is used up
  wake,         \* members left in each worker's private wake key
  \* the dispatchers
  pc,           \* where dispatchLoop is
  until,        \* what the current sleep or wait ends with
  prefetched,   \* whether the next job is already in hand
  fetchNext,    \* the flag read for the moveToFinished under way
  \* the workers
  call,         \* the Stop or Drain call that was made
  stage,        \* how far beginShutdown has come
  jobsCancelled,\* whether jobsCtx is cancelled
  stalledLoop,  \* whether the stalledLoop goroutine runs
  \* bookkeeping of the model
  setting,      \* the surroundings, chosen once
  nudged,       \* whether wakeDispatchers reached Redis
  abandoned,    \* whether a dispatcher of the worker dropped a prefetched job
  late          \* jobs a dispatcher took after runCtx was cancelled

jobVars  == <<waiting, delayed, due, stranded>>
gateVars == <<paused, limited>>
redisVars == <<jobVars, marker, gateVars, wake>>
slotVars == <<pc, until, prefetched, fetchNext>>
downVars == <<call, stage, jobsCancelled, stalledLoop>>
seenVars == <<nudged, abandoned, late>>
moving == <<redisVars, slotVars, downVars, seenVars>>
vars == <<moving, setting>>

Slots(w) == { d \in Dispatcher : WorkerOf[d] = w }

\* a dispatcher holds a job while it runs, finalises or has prefetched one
Held ==
  Cardinality({ d \in Dispatcher : pc[d] \in {"running", "finishing"} \/ prefetched[d] })

\* Every variable keeps its type.
TypeOK ==
  /\ setting \in Settings
  /\ waiting \in 0..setting.maxJobs /\ delayed \in 0..setting.maxJobs
  /\ due \in 0..delayed /\ stranded \in 0..setting.maxJobs
  /\ marker \subseteq {"0", "1"}
  /\ paused \in BOOLEAN /\ limited \in BOOLEAN
  /\ wake \in [Worker -> 0..Cardinality(Dispatcher)]
  /\ pc \in [Dispatcher -> {"top", "asking", "empty", "sending", "parked", "woken",
                            "sleeping", "running", "finishing", "gone"}]
  /\ until \in [Dispatcher -> {"idle", "due", "limit"}]
  /\ prefetched \in [Dispatcher -> BOOLEAN]
  /\ fetchNext \in [Dispatcher -> BOOLEAN]
  /\ call \in [Worker -> {"none", "stop", "drain", "expired"}]
  /\ stage \in [Worker -> {"open", "cancelled", "waiting", "done"}]
  /\ jobsCancelled \in [Worker -> BOOLEAN]
  /\ stalledLoop \in [Worker -> BOOLEAN]
  /\ nudged \in [Worker -> BOOLEAN]
  /\ abandoned \in [Worker -> BOOLEAN]
  /\ late \in [Dispatcher -> Nat]

\* Process: the dispatchers and the stalled checker have been started.
Init ==
  /\ setting \in Settings
  /\ waiting = 0 /\ delayed = 0 /\ due = 0 /\ stranded = 0
  /\ marker = {} /\ paused = FALSE /\ limited = FALSE
  /\ wake = [w \in Worker |-> 0]
  /\ pc = [d \in Dispatcher |-> "top"]
  /\ until = [d \in Dispatcher |-> "idle"]
  /\ prefetched = [d \in Dispatcher |-> FALSE]
  /\ fetchNext = [d \in Dispatcher |-> FALSE]
  /\ call = [w \in Worker |-> "none"]
  /\ stage = [w \in Worker |-> "open"]
  /\ jobsCancelled = [w \in Worker |-> FALSE]
  /\ stalledLoop = [w \in Worker |-> TRUE]
  /\ nudged = [w \in Worker |-> FALSE]
  /\ abandoned = [w \in Worker |-> FALSE]
  /\ late = [d \in Dispatcher |-> 0]

-----------------------------------------------------------------------------
(* Helpers *)

RunCancelled(d) == stage[WorkerOf[d]] # "open"

\* A client is blocked on a key that has a member: Redis serves it first.
Servable ==
  \E d \in Dispatcher : pc[d] = "parked" /\ (marker # {} \/ wake[WorkerOf[d]] > 0)

\* addBaseMarkerIfNeeded
WithBaseMarker(m) == IF paused THEN m ELSE m \cup {"0"}

Go(d, where) == pc' = [pc EXCEPT ![d] = where]

\* promoteDelayedJobs: the waiting jobs and the marker after it.
Promoted == waiting + due
PromotedMarker == IF due > 0 THEN WithBaseMarker(marker) ELSE marker

\* The script takes no job.
TakesNone ==
  /\ waiting' = Promoted
  /\ marker' = PromotedMarker
  /\ UNCHANGED <<limited, late>>

\* Slip: taking a job does not put the marker back.
TakesJobQuietly(d) ==
  /\ ~limited /\ ~paused /\ Promoted > 0
  /\ waiting' = Promoted - 1
  /\ marker' = PromotedMarker
  /\ limited' \in {FALSE, setting.limiter}
  /\ late' = [late EXCEPT ![d] = @ + (IF RunCancelled(d) THEN 1 ELSE 0)]

\* prepareJobForProcessing: one job is taken and the marker is put back for the
\* next dispatcher; the job may be the last one the rate limit allows.
TakesJob(d) ==
  /\ ~limited /\ ~paused /\ Promoted > 0
  /\ waiting' = Promoted - 1
  /\ marker' = PromotedMarker \cup {"0"}
  /\ limited' \in {FALSE, setting.limiter}
  /\ late' = [late EXCEPT ![d] = @ + (IF RunCancelled(d) THEN 1 ELSE 0)]

\* Slip: a dispatcher that stops drops what it has prefetched, Drain or not.
MayExitAtOnce(d) == RunCancelled(d)

\* The exit guard of dispatchLoop.
MayExit(d) == RunCancelled(d) /\ (~prefetched[d] \/ jobsCancelled[WorkerOf[d]])

\* Slip: the flag does not look at runCtx.
FetchNextFlagAlways(d) == TRUE

FetchNextFlag(d) == ~RunCancelled(d)

-----------------------------------------------------------------------------
(* The queue's users and the passing of time *)

HasRoom == waiting + delayed + stranded + Held < setting.maxJobs

AddJob ==
  /\ HasRoom
  /\ ~Servable
  /\ waiting' = waiting + 1
  /\ marker' = WithBaseMarker(marker)
  /\ UNCHANGED <<delayed, due, stranded, gateVars, wake, slotVars, downVars, seenVars>>

\* The delay marker is set whether or not the queue is paused.
AddDelayedJob ==
  /\ setting.delays
  /\ HasRoom
  /\ ~Servable
  /\ delayed' = delayed + 1
  /\ marker' = marker \cup {"1"}
  /\ UNCHANGED <<waiting, due, stranded, gateVars, wake, slotVars, downVars, seenVars>>

BecomesDue ==
  /\ due < delayed
  /\ due' = due + 1
  /\ UNCHANGED <<waiting, delayed, stranded, marker, gateVars, wake, slotVars, downVars,
                 seenVars>>

Pause ==
  /\ setting.pausable
  /\ ~paused
  /\ ~Servable
  /\ paused' = TRUE
  /\ marker' = {}
  /\ UNCHANGED <<jobVars, limited, wake, slotVars, downVars, seenVars>>

\* Resuming announces the waiting jobs, or else the delayed ones.
Resume ==
  /\ paused
  /\ ~Servable
  /\ paused' = FALSE
  /\ marker' = marker \cup (IF waiting > 0 THEN {"0"} ELSE IF delayed > 0 THEN {"1"} ELSE {})
  /\ UNCHANGED <<jobVars, limited, wake, slotVars, downVars, seenVars>>

LimitExpires ==
  /\ limited
  /\ limited' = FALSE
  /\ UNCHANGED <<jobVars, marker, paused, wake, slotVars, downVars, seenVars>>

-----------------------------------------------------------------------------
(* dispatchLoop *)

\* The top of the loop: leave, run the prefetched job, or ask for one.
LoopTop(d) ==
  /\ pc[d] = "top"
  /\ \/ /\ MayExit(d)
        /\ Go(d, "gone")
        /\ prefetched' = [prefetched EXCEPT ![d] = FALSE]
        /\ stranded' = stranded + (IF prefetched[d] THEN 1 ELSE 0)
        /\ abandoned' = [abandoned EXCEPT ![WorkerOf[d]] = @ \/ prefetched[d]]
     \/ /\ ~MayExit(d)
        /\ Go(d, IF prefetched[d] THEN "running" ELSE "asking")
        /\ prefetched' = [prefetched EXCEPT ![d] = FALSE]
        /\ UNCHANGED <<stranded, abandoned>>
  /\ UNCHANGED <<waiting, delayed, due, marker, gateVars, wake, until, fetchNext,
                 downVars, nudged, late>>

\* moveToActive and what tryOnce's caller does with the reply: run the job,
\* sleep out the rate limit, wait for the next delayed job (a precise sleep for
\* less than a second, else on the marker), or wait on the marker.
MoveToActive(d) ==
  /\ pc[d] = "asking"
  /\ ~Servable
  /\ delayed' = delayed - due
  /\ due' = 0
  /\ \/ TakesJob(d) /\ Go(d, "running") /\ UNCHANGED until
     \/ /\ limited
        /\ TakesNone
        /\ Go(d, "sleeping")
        /\ until' = [until EXCEPT ![d] = "limit"]
     \/ /\ ~limited
        /\ ~paused /\ Promoted = 0 /\ delayed' > 0
        /\ TakesNone
        /\ Go(d, "sleeping") \/ Go(d, "empty")
        /\ until' = [until EXCEPT ![d] = "due"]
     \/ /\ ~limited
        /\ paused \/ (Promoted = 0 /\ delayed' = 0)
        /\ TakesNone
        /\ Go(d, "empty")
        /\ until' = [until EXCEPT ![d] = "idle"]
  /\ UNCHANGED <<stranded, paused, wake, prefetched, fetchNext, downVars, nudged, abandoned>>

\* The call fails: before the script ran, or after it promoted delayed jobs, or
\* after it took a job that nobody hears of.  The dispatcher sleeps before it tries
\* again.
MoveToActiveFails(d) ==
  /\ setting.failures
  /\ pc[d] = "asking"
  /\ ~Servable
  /\ Go(d, "sleeping")
  /\ until' = [until EXCEPT ![d] = "idle"]
  /\ \/ UNCHANGED <<jobVars, marker, limited, late>>
     \/ /\ delayed' = delayed - due
        /\ due' = 0
        /\ \/ TakesJob(d) /\ stranded' = stranded + 1
           \/ (limited \/ paused \/ Promoted = 0) /\ TakesNone /\ UNCHANGED stranded
  /\ UNCHANGED <<paused, wake, prefetched, fetchNext, downVars, nudged, abandoned>>

\* runCtx is cancelled before the command is sent: no job, no error.
MoveToActiveCancelled(d) ==
  /\ pc[d] = "asking"
  /\ RunCancelled(d)
  /\ Go(d, "empty")
  /\ until' = [until EXCEPT ![d] = "idle"]
  /\ UNCHANGED <<redisVars, prefetched, fetchNext, downVars, seenVars>>

\* sleep ends by its timer, or by runCtx (then the dispatcher returns).
SleepEnds(d) ==
  /\ pc[d] = "sleeping"
  /\ Go(d, "top") \/ (RunCancelled(d) /\ Go(d, "gone"))
  /\ until' = [until EXCEPT ![d] = "idle"]
  /\ UNCHANGED <<redisVars, prefetched, fetchNext, downVars, seenVars>>

\* awaitMarker: with runCtx cancelled BZPopMin fails at once, else the command
\* is on its way; cancelling later does not call it back.
AwaitMarker(d) ==
  /\ pc[d] = "empty"
  /\ Go(d, IF RunCancelled(d) THEN "woken" ELSE "sending")
  /\ UNCHANGED <<redisVars, until, prefetched, fetchNext, downVars, seenVars>>

BZPopMinArrives(d) ==
  /\ pc[d] = "sending"
  /\ ~Servable
  /\ Go(d, "parked")
  /\ UNCHANGED <<redisVars, until, prefetched, fetchNext, downVars, seenVars>>

\* BZPopMin names the marker first, and the base marker has the lowest score.
PopMarker(d) ==
  /\ pc[d] = "parked"
  /\ marker # {}
  /\ marker' = IF "0" \in marker THEN marker \ {"0"} ELSE {}
  /\ Go(d, "woken")
  /\ UNCHANGED <<jobVars, gateVars, wake, until, prefetched, fetchNext, downVars, seenVars>>

PopWakeKey(d) ==
  /\ pc[d] = "parked"
  /\ marker = {}
  /\ wake[WorkerOf[d]] > 0
  /\ wake' = [wake EXCEPT ![WorkerOf[d]] = @ - 1]
  /\ Go(d, "woken")
  /\ UNCHANGED <<jobVars, marker, gateVars, until, prefetched, fetchNext, downVars, seenVars>>

MarkerTimesOut(d) ==
  /\ pc[d] = "parked"
  /\ Go(d, "woken")
  /\ UNCHANGED <<redisVars, until, prefetched, fetchNext, downVars, seenVars>>

\* awaitMarker returns runCtx.Err() == nil.
Awakens(d) ==
  /\ pc[d] = "woken"
  /\ Go(d, IF RunCancelled(d) THEN "gone" ELSE "top")
  /\ until' = [until EXCEPT ![d] = "idle"]
  /\ UNCHANGED <<redisVars, prefetched, fetchNext, downVars, seenVars>>

-----------------------------------------------------------------------------
(* Running and finalising a job *)

\* The handler returns; finishCompleted and finishFailed read fetchNextFlag
\* before the script runs.
HandlerReturns(d) ==
  /\ pc[d] = "running"
  /\ Go(d, "finishing")
  /\ fetchNext' = [fetchNext EXCEPT ![d] = FetchNextFlag(d)]
  /\ UNCHANGED <<redisVars, until, prefetched, downVars, seenVars>>

MoveToFinished(d) ==
  /\ pc[d] = "finishing"
  /\ ~Servable
  /\ Go(d, "top")
  /\ fetchNext' = [fetchNext EXCEPT ![d] = FALSE]
  /\ \/ /\ fetchNext[d]
        /\ delayed' = delayed - due
        /\ due' = 0
        /\ \/ TakesJob(d) /\ prefetched' = [prefetched EXCEPT ![d] = TRUE]
           \/ (limited \/ paused \/ Promoted = 0) /\ TakesNone /\ UNCHANGED prefetched
     \/ /\ ~fetchNext[d]
        /\ UNCHANGED <<waiting, delayed, due, marker, limited, prefetched, late>>
  /\ UNCHANGED <<stranded, paused, wake, until, downVars, nudged, abandoned>>

\* retryJob promotes, and pushes the job back to wait.
RetryJob(d) ==
  /\ pc[d] = "finishing"
  /\ ~Servable
  /\ Go(d, "top")
  /\ fetchNext' = [fetchNext EXCEPT ![d] = FALSE]
  /\ delayed' = delayed - due
  /\ due' = 0
  /\ waiting' = Promoted + 1
  /\ marker' = WithBaseMarker(marker)
  /\ UNCHANGED <<stranded, gateVars, wake, until, prefetched, downVars, seenVars>>

MoveToDelayed(d) ==
  /\ setting.delays
  /\ pc[d] = "finishing"
  /\ ~Servable
  /\ Go(d, "top")
  /\ fetchNext' = [fetchNext EXCEPT ![d] = FALSE]
  /\ delayed' = delayed + 1
  /\ marker' = marker \cup {"1"}
  /\ UNCHANGED <<waiting, due, stranded, gateVars, wake, until, prefetched,
                 downVars, seenVars>>

\* The finalising call fails: the script did not run and the job stays behind,
\* or it ran and the job it prefetched stays behind.  When it ran and prefetched
\* nothing, losing the reply makes no difference.
FinaliseFails(d) ==
  /\ setting.failures
  /\ pc[d] = "finishing"
  /\ ~Servable
  /\ Go(d, "top")
  /\ fetchNext' = [fetchNext EXCEPT ![d] = FALSE]
  /\ stranded' = stranded + 1
  /\ \/ UNCHANGED <<waiting, delayed, due, marker, limited, late>>
     \/ /\ fetchNext[d]
        /\ delayed' = delayed - due
        /\ due' = 0
        /\ TakesJob(d)
  /\ UNCHANGED <<paused, wake, until, prefetched, downVars, nudged, abandoned>>

-----------------------------------------------------------------------------
(* The stalled checker *)

\* moveStalledJobsToWait takes back jobs that nobody holds: those whose lock has
\* expired and that the scan before has marked.
StalledScan(w) ==
  /\ stalledLoop[w] /\ stage[w] = "open"
  /\ ~Servable
  /\ \E n \in 1..stranded : waiting' = waiting + n /\ stranded' = stranded - n
  /\ marker' = WithBaseMarker(marker)
  /\ UNCHANGED <<delayed, due, gateVars, wake, slotVars, downVars, seenVars>>

\* Slip: the loop listens to jobsCtx, which the waiter cancels only after it.
StalledLoopExitsWithJobs(w) ==
  /\ stalledLoop[w] /\ jobsCancelled[w]
  /\ stalledLoop' = [stalledLoop EXCEPT ![w] = FALSE]
  /\ UNCHANGED <<redisVars, slotVars, call, stage, jobsCancelled, seenVars>>

StalledLoopExits(w) ==
  /\ stalledLoop[w] /\ stage[w] # "open"
  /\ stalledLoop' = [stalledLoop EXCEPT ![w] = FALSE]
  /\ UNCHANGED <<redisVars, slotVars, call, stage, jobsCancelled, seenVars>>

-----------------------------------------------------------------------------
(* Stop and Drain *)

\* Stop cancels the jobs first, then goes on like Drain.
Stop(w) ==
  /\ w \in setting.stoppable
  /\ call[w] # "stop"
  /\ call' = [call EXCEPT ![w] = "stop"]
  /\ jobsCancelled' = [jobsCancelled EXCEPT ![w] = TRUE]
  /\ UNCHANGED <<redisVars, slotVars, stage, stalledLoop, seenVars>>

Drain(w) ==
  /\ w \in setting.stoppable
  /\ call[w] = "none"
  /\ call' = [call EXCEPT ![w] = "drain"]
  /\ UNCHANGED <<redisVars, slotVars, stage, jobsCancelled, stalledLoop, seenVars>>

\* The caller's context expires before the dispatchers are back.
DrainExpires(w) ==
  /\ call[w] = "drain"
  /\ stage[w] = "waiting"
  /\ call' = [call EXCEPT ![w] = "expired"]
  /\ jobsCancelled' = [jobsCancelled EXCEPT ![w] = TRUE]
  /\ UNCHANGED <<redisVars, slotVars, stage, stalledLoop, seenVars>>

\* beginShutdown, once: runCancel ...
BeginShutdown(w) ==
  /\ call[w] # "none"
  /\ stage[w] = "open"
  /\ stage' = [stage EXCEPT ![w] = "cancelled"]
  /\ UNCHANGED <<redisVars, slotVars, call, jobsCancelled, stalledLoop, seenVars>>

\* Slip: the members have one name, so there is one.
WakeMembersSame(w) == 1

\* One member for each dispatcher.
WakeMembers(w) == Cardinality(Slots(w))

\* ... then wakeDispatchers, which may fail, and the waiter is started ...
WakeDispatchers(w) ==
  /\ stage[w] = "cancelled"
  /\ ~Servable
  /\ stage' = [stage EXCEPT ![w] = "waiting"]
  /\ \/ /\ wake' = [wake EXCEPT ![w] = WakeMembers(w)]
        /\ nudged' = [nudged EXCEPT ![w] = TRUE]
     \/ /\ setting.failures
        /\ UNCHANGED <<wake, nudged>>
  /\ UNCHANGED <<jobVars, marker, gateVars, slotVars, call, jobsCancelled, stalledLoop,
                 abandoned, late>>

AllReturned(w) == (\A d \in Slots(w) : pc[d] = "gone") /\ ~stalledLoop[w]

\* ... which waits for every goroutine, folds up the job contexts, drops the
\* wake key, whether or not that succeeds, and lets every caller return.
ShutdownCompletes(w) ==
  /\ stage[w] = "waiting"
  /\ AllReturned(w)
  /\ ~Servable
  /\ stage' = [stage EXCEPT ![w] = "done"]
  /\ jobsCancelled' = [jobsCancelled EXCEPT ![w] = TRUE]
  /\ wake' = [wake EXCEPT ![w] = 0] \/ (setting.failures /\ UNCHANGED wake)
  /\ UNCHANGED <<jobVars, marker, gateVars, slotVars, call, stalledLoop, seenVars>>

-----------------------------------------------------------------------------

Environment ==
  AddJob \/ AddDelayedJob \/ BecomesDue \/ Pause \/ Resume \/ LimitExpires

\* What a dispatcher does by itself, whatever the scheduling of the others.
Step(d) ==
  \/ LoopTop(d) \/ MoveToActive(d) \/ MoveToActiveFails(d) \/ MoveToActiveCancelled(d)
  \/ SleepEnds(d) \/ AwaitMarker(d) \/ BZPopMinArrives(d) \/ Awakens(d)
  \/ HandlerReturns(d) \/ MoveToFinished(d) \/ RetryJob(d) \/ MoveToDelayed(d)
  \/ FinaliseFails(d)

Served(d) == PopMarker(d) \/ PopWakeKey(d)

Shutdown(w) == BeginShutdown(w) \/ WakeDispatchers(w) \/ ShutdownCompletes(w)

Next ==
  /\ \/ Environment
     \/ \E d \in Dispatcher : Step(d) \/ Served(d) \/ MarkerTimesOut(d)
     \/ \E w \in Worker :
          \/ StalledScan(w) \/ StalledLoopExits(w)
          \/ Stop(w) \/ Drain(w) \/ DrainExpires(w) \/ Shutdown(w)
  /\ UNCHANGED setting

Spec == Init /\ [][Next]_vars

\* Redis answers, the timers fire, and the goroutines are scheduled.
FairSpec ==
  /\ Spec
  /\ \A d \in Dispatcher :
       SF_moving(Step(d)) /\ WF_moving(Served(d)) /\ WF_moving(MarkerTimesOut(d))
  /\ \A w \in Worker :
       SF_moving(Shutdown(w)) /\ WF_moving(StalledLoopExits(w))

-----------------------------------------------------------------------------
(* Properties *)

\* A drained worker drops no job: whatever the race between runCancel and the
\* fetchNext flag, a prefetched job is left behind only once Stop, or a Drain
\* whose budget ran out, has cancelled the jobs.
DrainAbandonsNothing ==
  \A w \in Worker : abandoned[w] => call[w] \in {"stop", "expired"}

\* The prefetch chain ends: once runCtx is cancelled, a dispatcher takes at most
\* one more job, by the moveToActive or the moveToFinished that was under way.
OneJobAfterShutdown == \A d \in Dispatcher : late[d] <= 1

\* When wakeDispatchers has reached Redis, no dispatcher of the worker stays
\* blocked in BZPopMin, not even one whose command arrives afterwards or while
\* other workers push and pop the shared marker: Stop waits out no timeout.
ShutdownWakesAll ==
  \A w \in Worker : nudged[w] /\ ~Servable => \A d \in Slots(w) : pc[d] # "parked"

\* The dispatchers that will ask again by themselves, and soon.
Alert == { d \in Dispatcher : pc[d] \in {"top", "asking", "woken", "sleeping"} }

\* The dispatchers whose wait ends when the next delayed job is due.
Watching ==
  { d \in Dispatcher : pc[d] \in {"empty", "sending", "parked"} /\ until[d] = "due" }

\* While a dispatcher is parked, open work never goes unnoticed: the marker is
\* set, or somebody is about to ask, or (for delayed jobs) somebody waits for
\* exactly that time.  dispatchLoop relies on this when it lets the wait grow.
\* It does not hold beside a worker that is being shut down: its dispatcher can
\* pop the marker and leave.
NoMissedWork ==
  /\ ~paused /\ \A w \in Worker : call[w] = "none"
  /\ \E d \in Dispatcher : pc[d] = "parked"
  =>
    /\ waiting > 0 => marker # {} \/ Alert # {}
    /\ delayed > 0 => marker # {} \/ Alert \cup Watching # {}

\* A shutdown that was begun ends: dispatchers, waiter and stalled checker never
\* wait for each other, with or without the wake key.
ShutdownEnds == \A w \in Worker : call[w] # "none" ~> stage[w] = "done"

=============================================================================

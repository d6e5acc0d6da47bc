------------------------ MODULE WorkerLifecycleProofs ------------------------
(***************************************************************************)
(* The safety of the dispatcher pools, for any number of workers, slots    *)
(* and jobs and all the surroundings of Settings at once.  The argument    *)
(* goes in layers, each preserved with the help of the ones before it:     *)
(*                                                                         *)
(*   Shape      the variables are functions of the right kind;             *)
(*   Orderly    how far a shutdown has come says what the contexts and the *)
(*              slots may still look like;                                 *)
(*   Nudges     the wake key has a member for every slot that may block;   *)
(*   Accounted  the jobs in Redis and in the slots fit the bound;          *)
(*   Attended   open work is announced, or somebody is about to ask.       *)
(***************************************************************************)
EXTENDS WorkerLifecycle, FiniteSetTheorems, TLAPS

USE DEF jobVars, gateVars, redisVars, slotVars, downVars, seenVars, moving

RedisShape ==
  /\ setting \in Settings
  /\ marker \subseteq {"0", "1"}
  /\ paused \in BOOLEAN /\ limited \in BOOLEAN
  /\ wake \in [Worker -> 0..Cardinality(Dispatcher)]

SlotShape ==
  /\ pc \in [Dispatcher -> {"top", "asking", "empty", "sending", "parked", "woken",
                            "sleeping", "running", "finishing", "gone"}]
  /\ until \in [Dispatcher -> {"idle", "due", "limit"}]
  /\ prefetched \in [Dispatcher -> BOOLEAN]
  /\ fetchNext \in [Dispatcher -> BOOLEAN]
  /\ late \in [Dispatcher -> Nat]

DownShape ==
  /\ call \in [Worker -> {"none", "stop", "drain", "expired"}]
  /\ stage \in [Worker -> {"open", "cancelled", "waiting", "done"}]
  /\ jobsCancelled \in [Worker -> BOOLEAN]
  /\ stalledLoop \in [Worker -> BOOLEAN]
  /\ nudged \in [Worker -> BOOLEAN]
  /\ abandoned \in [Worker -> BOOLEAN]

Shape == RedisShape /\ SlotShape /\ DownShape

\* A worker on its way down: only a call opens the shutdown, and only Stop, an
\* expired Drain or the end of it cancels the jobs; at the end nobody is left.
DownInOrder(w) ==
  /\ stage[w] # "open" => call[w] # "none"
  /\ jobsCancelled[w] => call[w] \in {"stop", "expired"} \/ stage[w] = "done"
  /\ abandoned[w] => call[w] \in {"stop", "expired"}
  /\ nudged[w] => stage[w] \in {"waiting", "done"}
  /\ stage[w] = "done" =>
       (\A d \in Slots(w) : pc[d] = "gone") /\ ~stalledLoop[w]

\* A slot that took a job after runCtx was cancelled has no call under way that
\* could take another.
SlotInOrder(d) ==
  /\ prefetched[d] => pc[d] = "top"
  /\ late[d] <= 1
  /\ late[d] = 1 => /\ RunCancelled(d)
                    /\ pc[d] # "asking"
                    /\ pc[d] = "finishing" => ~fetchNext[d]

Orderly == (\A w \in Worker : DownInOrder(w)) /\ (\A d \in Dispatcher : SlotInOrder(d))

\* The slots of a worker that are blocked in BZPopMin or about to be.
Blocking(w) == { d \in Slots(w) : pc[d] \in {"sending", "parked"} }

Nudges == \A w \in Worker : nudged[w] => Cardinality(Blocking(w)) <= wake[w]

Holds(d) == pc[d] \in {"running", "finishing"} \/ prefetched[d]

Accounted ==
  /\ waiting \in Nat /\ delayed \in Nat /\ due \in Nat /\ stranded \in Nat
  /\ due <= delayed
  /\ waiting + delayed + stranded + Held <= setting.maxJobs

\* The slots that ask for a job before they do anything else.
Asking ==
  { d \in Dispatcher : \/ pc[d] \in {"asking", "woken", "sleeping"}
                       \/ pc[d] = "top" /\ ~prefetched[d] }

Attended ==
  ~paused /\ (\A w \in Worker : call[w] = "none") =>
    /\ waiting > 0 => marker # {} \/ Asking # {}
    /\ delayed > 0 => marker # {} \/ Asking \cup Watching # {}

-----------------------------------------------------------------------------
(* Facts about the constants *)

LEMMA SlotsCount ==
  ASSUME NEW w
  PROVE  /\ IsFiniteSet(Slots(w))
         /\ Cardinality(Slots(w)) \in 0..Cardinality(Dispatcher)
<1>1. Slots(w) \in SUBSET Dispatcher
  BY Zenon DEF Slots
<1>2. IsFiniteSet(Slots(w)) /\ Cardinality(Slots(w)) <= Cardinality(Dispatcher)
  BY <1>1, FS_Subset, PoolAssumption, Zenon
<1>3. Cardinality(Slots(w)) \in Nat /\ Cardinality(Dispatcher) \in Nat
  BY <1>2, FS_CardinalityType, PoolAssumption, Zenon
<1> QED
  BY <1>2, <1>3

-----------------------------------------------------------------------------
(* The shape *)

LEMMA ShapeInit == Init => Shape
<1> SUFFICES ASSUME Init PROVE Shape
  BY Zenon
<1>1. Cardinality(Dispatcher) \in Nat
  BY FS_CardinalityType, PoolAssumption, Zenon
<1>2. RedisShape
  <2>1. wake \in [Worker -> 0..Cardinality(Dispatcher)]
    BY <1>1 DEF Init
  <2> QED
    BY <2>1, ZenonT(30) DEF Init, RedisShape
<1>3. SlotShape
  BY Zenon DEF Init, SlotShape
<1>4. DownShape
  BY Zenon DEF Init, DownShape
<1> QED
  BY <1>2, <1>3, <1>4, Zenon DEF Shape

LEMMA ShapeEnvironment ==
  ASSUME Shape, Environment, UNCHANGED setting
  PROVE  Shape'
<1> USE DEF Environment, AddJob, AddDelayedJob, BecomesDue, Pause, Resume, LimitExpires
<1>1. RedisShape'
  BY ZenonT(30) DEF Shape, RedisShape, WithBaseMarker
<1>2. SlotShape'
  BY Zenon DEF Shape, SlotShape
<1>3. DownShape'
  BY Zenon DEF Shape, DownShape
<1> QED
  BY <1>1, <1>2, <1>3, Zenon DEF Shape

LEMMA LateCounts ==
  ASSUME Shape, NEW d \in Dispatcher, TakesJob(d)
  PROVE  /\ late' \in [Dispatcher -> Nat]
         /\ limited' \in BOOLEAN
         /\ marker' \subseteq {"0", "1"}
<1>1. setting.limiter \in BOOLEAN
  BY PoolAssumption, Zenon DEF Shape, RedisShape, Setting
<1>2. late' \in [Dispatcher -> Nat]
  BY DEF Shape, SlotShape, TakesJob
<1>3. limited' \in BOOLEAN
  BY <1>1, ZenonT(30) DEF TakesJob
<1>4. marker' \subseteq {"0", "1"}
  BY Zenon DEF Shape, RedisShape, TakesJob, PromotedMarker, WithBaseMarker
<1> QED
  BY <1>2, <1>3, <1>4, Zenon

LEMMA ShapeDispatcher ==
  ASSUME Shape, NEW d \in Dispatcher, Step(d) \/ Served(d) \/ MarkerTimesOut(d),
         UNCHANGED setting
  PROVE  Shape'
<1>w. WorkerOf[d] \in Worker
  BY PoolAssumption, Zenon
<1>n. TakesNone => /\ late' \in [Dispatcher -> Nat]
                   /\ limited' \in BOOLEAN
                   /\ marker' \subseteq {"0", "1"}
  BY Zenon DEF Shape, RedisShape, SlotShape, TakesNone, PromotedMarker, WithBaseMarker
<1>1. CASE LoopTop(d)
  <2>1. RedisShape'
    BY <1>1, <1>w, Zenon DEF LoopTop, Go, Shape, RedisShape
  <2>2. SlotShape'
    BY <1>1, <1>w, ZenonT(30) DEF LoopTop, Go, Shape, SlotShape
  <2>3. DownShape'
    BY <1>1, <1>w, ZenonT(30) DEF LoopTop, Go, Shape, DownShape
  <2> QED
    BY <2>1, <2>2, <2>3, Zenon DEF Shape
<1>2. CASE MoveToActive(d)
  <2>1. RedisShape'
    BY <1>2, <1>n, LateCounts, Zenon DEF MoveToActive, Go, Shape, RedisShape
  <2>2. SlotShape'
    BY <1>2, <1>n, LateCounts, Zenon DEF MoveToActive, Go, Shape, SlotShape
  <2>3. DownShape'
    BY <1>2, <1>n, LateCounts, Zenon DEF MoveToActive, Go, Shape, DownShape
  <2> QED
    BY <2>1, <2>2, <2>3, Zenon DEF Shape
<1>3. CASE MoveToActiveFails(d)
  <2>1. RedisShape'
    BY <1>3, <1>n, LateCounts, ZenonT(30) DEF MoveToActiveFails, Go, Shape, RedisShape
  <2>2. SlotShape'
    BY <1>3, <1>n, LateCounts, ZenonT(30) DEF MoveToActiveFails, Go, Shape, SlotShape
  <2>3. DownShape'
    BY <1>3, LateCounts, Zenon DEF MoveToActiveFails, Go, Shape, DownShape
  <2> QED
    BY <2>1, <2>2, <2>3, Zenon DEF Shape
<1>4. CASE MoveToActiveCancelled(d) \/ SleepEnds(d) \/ AwaitMarker(d) \/ BZPopMinArrives(d)
           \/ Awakens(d) \/ MarkerTimesOut(d) \/ PopMarker(d)
  <2>1. RedisShape'
    BY <1>4, ZenonT(30)
       DEF MoveToActiveCancelled, SleepEnds, AwaitMarker, BZPopMinArrives, Awakens,
              MarkerTimesOut, PopMarker, Go, Shape, RedisShape
  <2>2. SlotShape'
    BY <1>4, Zenon DEF MoveToActiveCancelled, SleepEnds, AwaitMarker, BZPopMinArrives, Awakens,
              MarkerTimesOut, PopMarker, Go, Shape, SlotShape
  <2>3. DownShape'
    BY <1>4, Zenon DEF MoveToActiveCancelled, SleepEnds, AwaitMarker, BZPopMinArrives, Awakens,
              MarkerTimesOut, PopMarker, Go, Shape, DownShape
  <2> QED
    BY <2>1, <2>2, <2>3, Zenon DEF Shape
<1>5. CASE HandlerReturns(d)
  <2>1. RedisShape'
    BY <1>5, Zenon DEF HandlerReturns, Go, FetchNextFlag, Shape, RedisShape
  <2>2. SlotShape'
    BY <1>5, Zenon DEF HandlerReturns, Go, FetchNextFlag, Shape, SlotShape
  <2>3. DownShape'
    BY <1>5, Zenon DEF HandlerReturns, Go, FetchNextFlag, Shape, DownShape
  <2> QED
    BY <2>1, <2>2, <2>3, Zenon DEF Shape
<1>6. CASE MoveToFinished(d)
  <2>1. RedisShape'
    BY <1>6, <1>n, LateCounts, ZenonT(30) DEF MoveToFinished, Go, Shape, RedisShape
  <2>2. SlotShape'
    BY <1>6, <1>n, LateCounts, ZenonT(30) DEF MoveToFinished, Go, Shape, SlotShape
  <2>3. DownShape'
    BY <1>6, <1>n, LateCounts, Zenon DEF MoveToFinished, Go, Shape, DownShape
  <2> QED
    BY <2>1, <2>2, <2>3, Zenon DEF Shape
<1>7. CASE RetryJob(d) \/ MoveToDelayed(d)
  <2>1. RedisShape'
    BY <1>7, ZenonT(30) DEF RetryJob, MoveToDelayed, Go, WithBaseMarker, Shape, RedisShape
  <2>2. SlotShape'
    BY <1>7, ZenonT(30) DEF RetryJob, MoveToDelayed, Go, WithBaseMarker, Shape, SlotShape
  <2>3. DownShape'
    BY <1>7, Zenon DEF RetryJob, MoveToDelayed, Go, WithBaseMarker, Shape, DownShape
  <2> QED
    BY <2>1, <2>2, <2>3, Zenon DEF Shape
<1>8. CASE FinaliseFails(d)
  <2>1. RedisShape'
    BY <1>8, LateCounts, ZenonT(30) DEF FinaliseFails, Go, Shape, RedisShape
  <2>2. SlotShape'
    BY <1>8, LateCounts, Zenon DEF FinaliseFails, Go, Shape, SlotShape
  <2>3. DownShape'
    BY <1>8, LateCounts, Zenon DEF FinaliseFails, Go, Shape, DownShape
  <2> QED
    BY <2>1, <2>2, <2>3, Zenon DEF Shape
<1>9. CASE PopWakeKey(d)
  <2>1. Cardinality(Dispatcher) \in Nat
    BY FS_CardinalityType, PoolAssumption, Zenon
  <2>2. wake' \in [Worker -> 0..Cardinality(Dispatcher)]
    BY <1>9, <1>w, <2>1 DEF PopWakeKey, Shape, RedisShape
  <2>3. RedisShape'
    BY <1>9, <2>2, Zenon DEF PopWakeKey, Shape, RedisShape
  <2>4. SlotShape'
    BY <1>9, Zenon DEF PopWakeKey, Go, Shape, SlotShape
  <2>5. DownShape'
    BY <1>9, Zenon DEF PopWakeKey, Shape, DownShape
  <2> QED
    BY <2>3, <2>4, <2>5, Zenon DEF Shape
<1> QED
  BY <1>1, <1>2, <1>3, <1>4, <1>5, <1>6, <1>7, <1>8, <1>9, Zenon DEF Step, Served

\* What a worker does besides its dispatchers.
Managing(w) ==
  StalledScan(w) \/ StalledLoopExits(w) \/ Stop(w) \/ Drain(w) \/ DrainExpires(w) \/ Shutdown(w)

LEMMA ShapeWorker ==
  ASSUME Shape, NEW w \in Worker, Managing(w), UNCHANGED setting
  PROVE  Shape'
<1>1. CASE StalledScan(w) \/ StalledLoopExits(w)
  <2>1. RedisShape'
    BY <1>1, ZenonT(30) DEF StalledScan, StalledLoopExits, WithBaseMarker, Shape, RedisShape
  <2>2. SlotShape'
    BY <1>1, Zenon DEF StalledScan, StalledLoopExits, WithBaseMarker, Shape, SlotShape
  <2>3. DownShape'
    BY <1>1, ZenonT(30) DEF StalledScan, StalledLoopExits, WithBaseMarker, Shape, DownShape
  <2> QED
    BY <2>1, <2>2, <2>3, Zenon DEF Shape
<1>2. CASE Stop(w) \/ Drain(w) \/ DrainExpires(w) \/ BeginShutdown(w)
  <2>1. RedisShape'
    BY <1>2, ZenonT(30) DEF Stop, Drain, DrainExpires, BeginShutdown, Shape, RedisShape
  <2>2. SlotShape'
    BY <1>2, Zenon DEF Stop, Drain, DrainExpires, BeginShutdown, Shape, SlotShape
  <2>3. DownShape'
    BY <1>2, ZenonT(30) DEF Stop, Drain, DrainExpires, BeginShutdown, Shape, DownShape
  <2> QED
    BY <2>1, <2>2, <2>3, Zenon DEF Shape
<1>3. CASE WakeDispatchers(w)
  <2>1. RedisShape'
    BY <1>3, SlotsCount DEF WakeDispatchers, WakeMembers, Shape, RedisShape
  <2>2. SlotShape'
    BY <1>3, SlotsCount, Zenon DEF WakeDispatchers, WakeMembers, Shape, SlotShape
  <2>3. DownShape'
    BY <1>3, SlotsCount, ZenonT(30) DEF WakeDispatchers, WakeMembers, Shape, DownShape
  <2> QED
    BY <2>1, <2>2, <2>3, Zenon DEF Shape
<1>4. CASE ShutdownCompletes(w)
  <2>1. Cardinality(Dispatcher) \in Nat
    BY FS_CardinalityType, PoolAssumption, Zenon
  <2>2. wake' \in [Worker -> 0..Cardinality(Dispatcher)]
    BY <1>4, <2>1 DEF ShutdownCompletes, Shape, RedisShape
  <2>3. RedisShape'
    BY <1>4, <2>2, Zenon DEF ShutdownCompletes, Shape, RedisShape
  <2>4. SlotShape'
    BY <1>4, Zenon DEF ShutdownCompletes, Shape, SlotShape
  <2>5. DownShape'
    BY <1>4, Zenon DEF ShutdownCompletes, Shape, DownShape
  <2> QED
    BY <2>3, <2>4, <2>5, Zenon DEF Shape
<1> QED
  BY <1>1, <1>2, <1>3, <1>4, Zenon DEF Managing, Shutdown

LEMMA NextCases ==
  ASSUME Next
  PROVE  \/ Environment
         \/ \E d \in Dispatcher : Step(d) \/ Served(d) \/ MarkerTimesOut(d)
         \/ \E w \in Worker : Managing(w)
BY Zenon DEF Next, Managing

LEMMA ShapeStep ==
  ASSUME Shape, [Next]_vars
  PROVE  Shape'
<1>1. CASE UNCHANGED vars
  <2>1. RedisShape'
    BY <1>1, Zenon DEF vars, Shape, RedisShape
  <2>2. SlotShape'
    BY <1>1, Zenon DEF vars, Shape, SlotShape
  <2>3. DownShape'
    BY <1>1, Zenon DEF vars, Shape, DownShape
  <2> QED
    BY <2>1, <2>2, <2>3, Zenon DEF Shape
<1>2. CASE Next
  <2>1. UNCHANGED setting
    BY <1>2, Zenon DEF Next
  <2> QED
    BY <1>2, <2>1, NextCases, ShapeEnvironment, ShapeDispatcher, ShapeWorker, Zenon
<1> QED
  BY <1>1, <1>2, Zenon

-----------------------------------------------------------------------------
(* What the steps leave alone *)

LEMMA TakingFrame ==
  ASSUME Shape, NEW d \in Dispatcher, TakesJob(d) \/ TakesNone
  PROVE  \A e \in Dispatcher \ {d} : late'[e] = late[e]
BY ZenonT(30) DEF Shape, SlotShape, TakesJob, TakesNone

\* A dispatcher moves only itself, and a wake member only by popping it.
LEMMA DispatcherFrame ==
  ASSUME Shape, NEW d \in Dispatcher, Step(d) \/ Served(d) \/ MarkerTimesOut(d)
  PROVE  /\ UNCHANGED <<call, stage, jobsCancelled, stalledLoop, nudged>>
         /\ pc[d] # "gone"
         /\ \A e \in Dispatcher \ {d} :
              /\ pc'[e] = pc[e] /\ until'[e] = until[e]
              /\ prefetched'[e] = prefetched[e] /\ fetchNext'[e] = fetchNext[e]
              /\ late'[e] = late[e]
         /\ UNCHANGED wake \/ PopWakeKey(d)
         /\ UNCHANGED abandoned \/ LoopTop(d)
<1> DEFINE Frame ==
      /\ UNCHANGED <<call, stage, jobsCancelled, stalledLoop, nudged>>
      /\ pc[d] # "gone"
      /\ \A e \in Dispatcher \ {d} :
           /\ pc'[e] = pc[e] /\ until'[e] = until[e]
           /\ prefetched'[e] = prefetched[e] /\ fetchNext'[e] = fetchNext[e]
           /\ late'[e] = late[e]
      /\ UNCHANGED wake \/ PopWakeKey(d)
      /\ UNCHANGED abandoned \/ LoopTop(d)
<1>1. LoopTop(d) => Frame
  BY Zenon DEF LoopTop, Go, Shape, SlotShape
<1>2. MoveToActive(d) => Frame
  BY TakingFrame, Zenon DEF MoveToActive, Go, Shape, SlotShape
<1>3. MoveToActiveFails(d) => Frame
  BY TakingFrame, Zenon DEF MoveToActiveFails, Go, Shape, SlotShape
<1>4. MoveToActiveCancelled(d) \/ SleepEnds(d) \/ AwaitMarker(d) \/ BZPopMinArrives(d) => Frame
  BY Zenon
     DEF MoveToActiveCancelled, SleepEnds, AwaitMarker, BZPopMinArrives, Go, Shape, SlotShape
<1>5. Awakens(d) \/ MarkerTimesOut(d) \/ PopMarker(d) \/ HandlerReturns(d) => Frame
  BY Zenon DEF Awakens, MarkerTimesOut, PopMarker, HandlerReturns, Go, Shape, SlotShape
<1>6. PopWakeKey(d) => Frame
  BY Zenon DEF PopWakeKey, Go, Shape, SlotShape
<1>7. MoveToFinished(d) => Frame
  BY TakingFrame, Zenon DEF MoveToFinished, Go, Shape, SlotShape
<1>8. RetryJob(d) \/ MoveToDelayed(d) => Frame
  BY Zenon DEF RetryJob, MoveToDelayed, Go, Shape, SlotShape
<1>9. FinaliseFails(d) => Frame
  BY TakingFrame, Zenon DEF FinaliseFails, Go, Shape, SlotShape
<1> QED
  BY <1>1, <1>2, <1>3, <1>4, <1>5, <1>6, <1>7, <1>8, <1>9, Zenon DEF Step, Served

\* The queue's users and time move no slot and no worker, and a worker moves no
\* slot.
LEMMA OthersFrame ==
  /\ Environment => UNCHANGED <<wake, slotVars, downVars, seenVars>>
  /\ \A w : Managing(w) => UNCHANGED <<slotVars, abandoned, late>>
<1>1. Environment => UNCHANGED <<wake, slotVars, downVars, seenVars>>
  BY Zenon DEF Environment, AddJob, AddDelayedJob, BecomesDue, Pause, Resume, LimitExpires
<1>2. ASSUME NEW w, Managing(w)
      PROVE  UNCHANGED <<slotVars, abandoned, late>>
  BY <1>2, Zenon
     DEF Managing, StalledScan, StalledLoopExits, Stop, Drain, DrainExpires, Shutdown,
              BeginShutdown, WakeDispatchers, ShutdownCompletes
<1> QED
  BY <1>1, <1>2, Zenon

-----------------------------------------------------------------------------
(* The order of a shutdown *)

LEMMA OrderlyInit == Init => Orderly
<1> SUFFICES ASSUME Init PROVE Orderly
  BY Zenon
<1>1. ASSUME NEW w \in Worker PROVE DownInOrder(w)
  BY <1>1, Zenon DEF Init, DownInOrder
<1>2. ASSUME NEW d \in Dispatcher PROVE SlotInOrder(d)
  BY <1>2 DEF Init, SlotInOrder
<1> QED
  BY <1>1, <1>2, Zenon DEF Orderly

LEMMA DownDispatcher ==
  ASSUME Shape, Orderly, NEW d \in Dispatcher, Step(d) \/ Served(d) \/ MarkerTimesOut(d),
         NEW v \in Worker
  PROVE  DownInOrder(v)'
<1> USE DispatcherFrame
<1>w. WorkerOf[d] \in Worker
  BY PoolAssumption, ZenonT(30)
<1>1. DownInOrder(v) /\ DownInOrder(WorkerOf[d])
  BY <1>w, ZenonT(30) DEF Orderly
<1>2. stage[WorkerOf[d]] # "done"
  BY <1>1, Zenon DEF DownInOrder, Slots
<1>3. abandoned'[v] => call[v] \in {"stop", "expired"}
  <2>1. CASE UNCHANGED abandoned
    BY <2>1, <1>1, Zenon DEF DownInOrder
  <2>2. CASE LoopTop(d)
    BY <2>2, <1>1, <1>2, <1>w, SMTT(30) DEF LoopTop, MayExit, DownInOrder, Shape, DownShape
  <2> QED
    BY <2>1, <2>2, Zenon
<1>4. ASSUME stage[v] = "done"
      PROVE  \A e \in Slots(v) : pc'[e] = "gone"
  <2>1. WorkerOf[d] # v
    BY <1>2, <1>4, Zenon
  <2> QED
    BY <1>1, <1>4, <2>1, Zenon DEF DownInOrder, Slots
<1> QED
  BY <1>1, <1>3, <1>4, ZenonT(30) DEF DownInOrder, Slots

LEMMA DownWorker ==
  ASSUME Shape, Orderly, NEW w \in Worker, Managing(w), NEW v \in Worker
  PROVE  DownInOrder(v)'
<1>1. DownInOrder(v) /\ DownInOrder(w)
  BY Zenon DEF Orderly
<1>2. UNCHANGED <<slotVars, abandoned, late>>
  BY OthersFrame, Zenon
<1>3. CASE StalledScan(w)
  BY <1>1, <1>2, <1>3, Zenon DEF StalledScan, DownInOrder, Slots
<1>4. CASE StalledLoopExits(w)
  BY <1>1, <1>2, <1>4, Zenon DEF StalledLoopExits, DownInOrder, Slots, Shape, DownShape
<1>5. CASE Stop(w)
  BY <1>1, <1>2, <1>5, Zenon DEF Stop, DownInOrder, Slots, Shape, DownShape
<1>6. CASE Drain(w)
  BY <1>1, <1>2, <1>6, Zenon DEF Drain, DownInOrder, Slots, Shape, DownShape
<1>7. CASE DrainExpires(w)
  BY <1>1, <1>2, <1>7, Zenon DEF DrainExpires, DownInOrder, Slots, Shape, DownShape
<1>8. CASE BeginShutdown(w)
  BY <1>1, <1>2, <1>8, Zenon DEF BeginShutdown, DownInOrder, Slots, Shape, DownShape
<1>9. CASE WakeDispatchers(w)
  BY <1>1, <1>2, <1>9, Zenon
     DEF WakeDispatchers, DownInOrder, Slots, Shape, DownShape, RedisShape
<1>10. CASE ShutdownCompletes(w)
  BY <1>1, <1>2, <1>10, Zenon
  DEF ShutdownCompletes, AllReturned, DownInOrder, Slots, Shape, DownShape, RedisShape
<1> QED
  BY <1>3, <1>4, <1>5, <1>6, <1>7, <1>8, <1>9, <1>10, Zenon DEF Managing, Shutdown

\* A dispatcher that takes a job after runCtx is cancelled had not done so before.
LEMMA SlotDispatcher ==
  ASSUME Shape, Orderly, NEW d \in Dispatcher, Step(d) \/ Served(d) \/ MarkerTimesOut(d),
         NEW e \in Dispatcher
  PROVE  SlotInOrder(e)'
<1>1. SlotInOrder(e)
  BY Zenon  DEF Orderly
<1>2. UNCHANGED stage
  BY DispatcherFrame, Zenon
<1>3. CASE e # d
  BY <1>1, <1>2, <1>3, DispatcherFrame, ZenonT(30) DEF SlotInOrder, RunCancelled
<1>4. CASE e = d
  <2>s. /\ DOMAIN pc = Dispatcher /\ DOMAIN prefetched = Dispatcher
        /\ DOMAIN fetchNext = Dispatcher /\ DOMAIN late = Dispatcher /\ late[d] \in Nat
    BY Zenon DEF Shape, SlotShape
  <2> USE <2>s DEF SlotInOrder, RunCancelled, Go
  <2>t. TakesJob(d) => late'[d] = late[d] + (IF RunCancelled(d) THEN 1 ELSE 0)
    BY Zenon DEF TakesJob
  <2>n. TakesNone => late'[d] = late[d]
    BY Zenon DEF TakesNone
  <2>1. CASE LoopTop(d)
    BY <1>1, <1>2, <1>4, <2>1, Zenon DEF LoopTop, MayExit
  <2>2. CASE MoveToActive(d)
    BY <1>1, <1>2, <1>4, <2>2, <2>t, <2>n, SMTT(30) DEF MoveToActive
  <2>3. CASE MoveToActiveFails(d)
    <3>1. /\ pc[d] = "asking" /\ pc'[d] = "sleeping"
          /\ prefetched'[d] = prefetched[d] /\ fetchNext'[d] = fetchNext[d]
      BY <2>3, Zenon DEF MoveToActiveFails
    <3>2. \/ late'[d] = late[d]
          \/ late'[d] = late[d] + (IF RunCancelled(d) THEN 1 ELSE 0)
      BY <2>3, <2>t, <2>n, Zenon DEF MoveToActiveFails
    <3> QED
      BY <1>1, <1>2, <1>4, <3>1, <3>2
  <2>4. CASE MoveToActiveCancelled(d) \/ SleepEnds(d) \/ AwaitMarker(d) \/ BZPopMinArrives(d)
             \/ Awakens(d)
    BY <1>1, <1>2, <1>4, <2>4, Zenon
    DEF MoveToActiveCancelled, SleepEnds, AwaitMarker, BZPopMinArrives, Awakens
  <2>5. CASE Served(d) \/ MarkerTimesOut(d)
    BY <1>1, <1>2, <1>4, <2>5, Zenon DEF Served, PopMarker, PopWakeKey, MarkerTimesOut
  <2>6. CASE HandlerReturns(d)
    BY <1>1, <1>2, <1>4, <2>6, ZenonT(30) DEF HandlerReturns, FetchNextFlag
  <2>7. CASE MoveToFinished(d)
    BY <1>1, <1>2, <1>4, <2>7, <2>t, <2>n, SMTT(30) DEF MoveToFinished
  <2>8. CASE RetryJob(d) \/ MoveToDelayed(d)
    BY <1>1, <1>2, <1>4, <2>8, Zenon DEF RetryJob, MoveToDelayed
  <2>9. CASE FinaliseFails(d)
    BY <1>1, <1>2, <1>4, <2>9, <2>t DEF FinaliseFails
  <2> QED
    BY <2>1, <2>2, <2>3, <2>4, <2>5, <2>6, <2>7, <2>8, <2>9, ZenonT(30) DEF Step
<1> QED
  BY <1>3, <1>4, Zenon

\* Once runCtx is cancelled it stays cancelled.
LEMMA SlotWorker ==
  ASSUME Shape, Orderly, NEW w \in Worker, Managing(w), NEW e \in Dispatcher
  PROVE  SlotInOrder(e)'
<1>1. RunCancelled(e) => RunCancelled(e)'
  BY PoolAssumption, Zenon
  DEF Managing, StalledScan, StalledLoopExits, Stop, Drain, DrainExpires, Shutdown,
      BeginShutdown, WakeDispatchers, ShutdownCompletes, RunCancelled, Shape, DownShape
<1> QED
  BY <1>1, OthersFrame, ZenonT(30) DEF Orderly, SlotInOrder

LEMMA OrderlyStep ==
  ASSUME Shape, Orderly, [Next]_vars
  PROVE  Orderly'
<1>1. CASE UNCHANGED <<wake, slotVars, downVars, seenVars>>
  BY <1>1, Zenon DEF Orderly, DownInOrder, SlotInOrder, RunCancelled, Slots
<1>2. CASE \E d \in Dispatcher : Step(d) \/ Served(d) \/ MarkerTimesOut(d)
  BY <1>2, DownDispatcher, SlotDispatcher, Zenon DEF Orderly
<1>3. CASE \E w \in Worker : Managing(w)
  BY <1>3, DownWorker, SlotWorker, Zenon DEF Orderly
<1>4. UNCHANGED vars => UNCHANGED <<wake, slotVars, downVars, seenVars>>
  BY Zenon DEF vars
<1> QED
  BY <1>1, <1>2, <1>3, <1>4, NextCases, OthersFrame, Zenon

-----------------------------------------------------------------------------
(* The wake key *)

LEMMA BlockingFinite ==
  ASSUME NEW w
  PROVE  /\ IsFiniteSet(Blocking(w)) /\ Cardinality(Blocking(w)) \in Nat
         /\ Cardinality(Blocking(w)) <= Cardinality(Slots(w))
<1>1. Blocking(w) \in SUBSET Slots(w)
  BY Zenon DEF Blocking
<1> QED
  BY <1>1, SlotsCount, FS_Subset, FS_CardinalityType, Zenon

LEMMA AtMost == \A a, b, c \in Nat : a <= b /\ b <= c => a <= c
OBVIOUS

LEMMA OneLess ==
  ASSUME NEW f \in [Worker -> Nat], NEW v \in Worker, f[v] > 0
  PROVE  [f EXCEPT ![v] = @ - 1] \in [Worker -> Nat]
OBVIOUS

LEMMA NudgesInit == Init => Nudges
BY Zenon DEF Init, Nudges

\* Once a worker's runCtx is cancelled its slots only stop blocking, and the one
\* that pops a member of the wake key is one of them.
LEMMA NudgesDispatcher ==
  ASSUME Shape, Orderly, Nudges, NEW d \in Dispatcher,
         Step(d) \/ Served(d) \/ MarkerTimesOut(d)
  PROVE  Nudges'
<1> SUFFICES ASSUME NEW w \in Worker, nudged'[w]
             PROVE  Cardinality(Blocking(w)') <= wake'[w]
  BY Zenon DEF Nudges
<1>1. nudged[w] /\ Cardinality(Blocking(w)) <= wake[w]
  BY DispatcherFrame, Zenon DEF Nudges
<1>2. stage[w] # "open"
  BY <1>1, Zenon DEF Orderly, DownInOrder
<1>3. wake[w] \in Nat /\ wake'[w] \in Nat
  <2>1. UNCHANGED wake \/ PopWakeKey(d)
    BY DispatcherFrame, Zenon
  <2>2. wake \in [Worker -> Nat]
    BY DEF Shape, RedisShape
  <2>3. WorkerOf[d] \in Worker
    BY PoolAssumption, Zenon
  <2>4. PopWakeKey(d) => wake[WorkerOf[d]] > 0 /\ wake' = [wake EXCEPT ![WorkerOf[d]] = @ - 1]
    BY Zenon DEF PopWakeKey
  <2>5. wake' \in [Worker -> Nat]
    BY <2>1, <2>2, <2>3, <2>4, OneLess, SMTT(30)
  <2> QED
    BY <2>2, <2>5, Zenon
<1>4. CASE d \notin Slots(w)
  <2>1. Blocking(w)' = Blocking(w)
    BY <1>4, DispatcherFrame, Zenon DEF Blocking, Slots
  <2>2. wake'[w] = wake[w]
    BY <1>4, DispatcherFrame, PoolAssumption, Zenon DEF PopWakeKey, Slots, Shape, RedisShape
  <2> QED
    BY <1>1, <2>1, <2>2, Zenon
<1>5. CASE d \in Slots(w) /\ PopWakeKey(d)
  <2>1. Blocking(w)' = Blocking(w) \ {d} /\ d \in Blocking(w)
    BY <1>5, DispatcherFrame, ZenonT(30) DEF Blocking, Slots, PopWakeKey, Go, Shape, SlotShape
  <2>2. Cardinality(Blocking(w)') = Cardinality(Blocking(w)) - 1
    BY <2>1, BlockingFinite, FS_RemoveElement, Zenon
  <2>3. wake'[w] = wake[w] - 1
    BY <1>5, Zenon DEF PopWakeKey, Slots, Shape, RedisShape
  <2> QED
    BY <1>1, <1>3, <2>2, <2>3, BlockingFinite, SMTT(30)
<1>6. CASE d \in Slots(w) /\ ~PopWakeKey(d)
  <2>1. RunCancelled(d)
    BY <1>2, <1>6, Zenon DEF Slots, RunCancelled
  <2>2. d \in Blocking(w)' => d \in Blocking(w)
    BY <1>6, <2>1, ZenonT(30)
    DEF Step, Served, MarkerTimesOut, LoopTop, MoveToActive, MoveToActiveFails,
        MoveToActiveCancelled, SleepEnds, AwaitMarker, BZPopMinArrives, Awakens,
        HandlerReturns, MoveToFinished, RetryJob, MoveToDelayed, FinaliseFails, PopMarker,
        Go, MayExit, Blocking, Shape, SlotShape
  <2>3. Blocking(w)' \in SUBSET Blocking(w)
    BY <2>2, DispatcherFrame, ZenonT(30) DEF Blocking, Slots
  <2>4. Cardinality(Blocking(w)') <= Cardinality(Blocking(w))
    BY <2>3, BlockingFinite, FS_Subset, Zenon
  <2>5. Cardinality(Blocking(w)') \in Nat
    BY <2>3, BlockingFinite, FS_Subset, FS_CardinalityType, Zenon
  <2>6. wake'[w] = wake[w]
    BY <1>6, DispatcherFrame, Zenon
  <2>7. Cardinality(Blocking(w)) \in Nat
    BY BlockingFinite, Zenon
  <2> QED
    BY <1>1, <1>3, <2>4, <2>5, <2>6, <2>7, AtMost, Zenon
<1> QED
  BY <1>4, <1>5, <1>6, Zenon

LEMMA NudgesWorker ==
  ASSUME Shape, Orderly, Nudges, NEW w \in Worker, Managing(w)
  PROVE  Nudges'
<1> SUFFICES ASSUME NEW v \in Worker, nudged'[v]
             PROVE  Cardinality(Blocking(v)') <= wake'[v]
  BY Zenon DEF Nudges
<1>1. Blocking(v)' = Blocking(v)
  BY OthersFrame, Zenon DEF Blocking, Slots
<1>2. CASE StalledScan(w) \/ StalledLoopExits(w) \/ Stop(w) \/ Drain(w) \/ DrainExpires(w)
           \/ BeginShutdown(w)
  <2>1. nudged[v] /\ wake'[v] = wake[v]
    BY <1>2, Zenon DEF StalledScan, StalledLoopExits, Stop, Drain, DrainExpires, BeginShutdown
  <2> QED
    BY <1>1, <2>1, Zenon DEF Nudges
<1>3. CASE WakeDispatchers(w)
  <2>1. CASE v = w /\ wake' = [wake EXCEPT ![w] = WakeMembers(w)]
    <3>1. wake'[v] = Cardinality(Slots(v))
      BY <2>1, Zenon DEF WakeMembers, Shape, RedisShape
    <3> QED
      BY <1>1, <3>1, BlockingFinite, Zenon
  <2>2. CASE ~(v = w /\ wake' = [wake EXCEPT ![w] = WakeMembers(w)])
    <3>1. nudged[v] /\ wake'[v] = wake[v]
      BY <1>3, <2>2, Zenon DEF WakeDispatchers, Shape, RedisShape, DownShape
    <3> QED
      BY <1>1, <3>1, Zenon DEF Nudges
  <2> QED
    BY <2>1, <2>2, Zenon
<1>4. CASE ShutdownCompletes(w)
  <2>1. CASE v = w
    <3>1. Blocking(v) = {}
      BY <1>4, <2>1, Zenon DEF ShutdownCompletes, AllReturned, Blocking
    <3>2. wake'[v] = 0 \/ wake'[v] = wake[v]
      BY <1>4, <2>1, Zenon DEF ShutdownCompletes, Shape, RedisShape
    <3>3. wake[v] >= 0
      BY DEF Shape, RedisShape
    <3> QED
      BY <1>1, <3>1, <3>2, <3>3, FS_EmptySet
  <2>2. CASE v # w
    <3>1. nudged[v] /\ wake'[v] = wake[v]
      BY <1>4, <2>2, Zenon DEF ShutdownCompletes, Shape, RedisShape
    <3> QED
      BY <1>1, <3>1, Zenon DEF Nudges
  <2> QED
    BY <2>1, <2>2, Zenon
<1> QED
  BY <1>2, <1>3, <1>4, Zenon DEF Managing, Shutdown

LEMMA NudgesStep ==
  ASSUME Shape, Orderly, Nudges, [Next]_vars
  PROVE  Nudges'
<1>1. CASE UNCHANGED <<wake, slotVars, downVars, seenVars>>
  BY <1>1, Zenon DEF Nudges, Blocking, Slots
<1>2. UNCHANGED vars => UNCHANGED <<wake, slotVars, downVars, seenVars>>
  BY Zenon DEF vars
<1> QED
  BY <1>1, <1>2, NextCases, OthersFrame, NudgesDispatcher, NudgesWorker, Zenon

-----------------------------------------------------------------------------
(* The jobs *)

\* When one slot moves, the number of jobs in the slots changes by what it does.
LEMMA HeldFollows ==
  ASSUME Shape, NEW d \in Dispatcher,
         \A e \in Dispatcher \ {d} : pc'[e] = pc[e] /\ prefetched'[e] = prefetched[e]
  PROVE  /\ Held \in Nat /\ Held' \in Nat
         /\ Held' = Held - (IF Holds(d) THEN 1 ELSE 0) + (IF Holds(d)' THEN 1 ELSE 0)
<1> DEFINE H == { e \in Dispatcher : Holds(e) }
           R == H \ {d}
<1>1. Held = Cardinality(H) /\ Held' = Cardinality(H')
  BY Zenon DEF Held, Holds
<1>2. H' = IF Holds(d)' THEN R \cup {d} ELSE R
  BY Zenon DEF Holds
<1>3. IsFiniteSet(H)
  <2>1. H \in SUBSET Dispatcher
    BY Zenon
  <2> QED
    BY <2>1, FS_Subset, PoolAssumption, Zenon
<1>6. d \notin R /\ (d \in H <=> Holds(d))
  BY Zenon
<1> HIDE DEF H
<1>4. /\ IsFiniteSet(R)
      /\ Cardinality(R) = IF d \in H THEN Cardinality(H) - 1 ELSE Cardinality(H)
  BY <1>3, FS_RemoveElement, Zenon
<1> HIDE DEF R
<1>5. Cardinality(H) \in Nat /\ Cardinality(R) \in Nat
  BY <1>3, <1>4, FS_CardinalityType, Zenon
<1>7. Cardinality(R \cup {d}) = Cardinality(R) + 1
  BY <1>4, <1>6, FS_AddElement, ZenonT(30)
<1> QED
  BY <1>1, <1>2, <1>4, <1>5, <1>6, <1>7, SMTT(30)

LEMMA HeldKept ==
  ASSUME Shape, UNCHANGED <<pc, prefetched>>
  PROVE  Held \in Nat /\ Held' = Held
<1>1. Held' = Held
  BY Zenon DEF Held
<1>2. { e \in Dispatcher : pc[e] \in {"running", "finishing"} \/ prefetched[e] }
        \in SUBSET Dispatcher
  BY Zenon
<1> QED
  BY <1>1, <1>2, FS_Subset, FS_CardinalityType, PoolAssumption, Zenon DEF Held

LEMMA MaxJobsNat ==
  ASSUME Shape
  PROVE  setting.maxJobs \in Nat
BY PoolAssumption, Zenon DEF Shape, RedisShape, Setting

LEMMA AccountedInit ==
  ASSUME Init
  PROVE  Accounted
<1>1. Shape
  BY ShapeInit, Zenon
<1>2. { e \in Dispatcher : pc[e] \in {"running", "finishing"} \/ prefetched[e] } = {}
  BY Zenon DEF Init
<1>3. Held = 0
  BY <1>2, FS_EmptySet, Zenon DEF Held
<1> QED
  BY <1>1, <1>3, MaxJobsNat DEF Accounted, Init

LEMMA AccountedEnvironment ==
  ASSUME Shape, Accounted, Environment, UNCHANGED setting
  PROVE  Accounted'
<1>1. Held \in Nat /\ Held' = Held
  BY OthersFrame, HeldKept, Zenon
<1> QED
  BY <1>1, MaxJobsNat, SMTT(30)
  DEF Accounted, HasRoom, Environment, AddJob, AddDelayedJob, BecomesDue, Pause, Resume,
      LimitExpires

LEMMA SumOfThree == \A i, j, k \in Nat : i + j + k \in Nat
OBVIOUS

LEMMA Ledger ==
  ASSUME NEW m \in Nat, NEW j \in Nat, NEW k \in Nat, NEW H \in Nat, NEW G \in Nat,
         NEW h \in Nat, NEW g \in Nat,
         j + H <= m, k + g <= j + h, G = H - h + g
  PROVE  k + G <= m
OBVIOUS

LEMMA AccountedDispatcher ==
  ASSUME Shape, Orderly, Accounted, NEW d \in Dispatcher,
         Step(d) \/ Served(d) \/ MarkerTimesOut(d), UNCHANGED setting
  PROVE  Accounted'
<1> DEFINE h == IF Holds(d) THEN 1 ELSE 0
           g == IF Holds(d)' THEN 1 ELSE 0
           Kept == /\ waiting' \in Nat /\ delayed' \in Nat /\ due' \in Nat /\ stranded' \in Nat
                   /\ due' <= delayed'
                   /\ waiting' + delayed' + stranded' + g <= waiting + delayed + stranded + h
<1>p. prefetched[d] => pc[d] = "top"
  BY Zenon DEF Orderly, SlotInOrder
<1>s. DOMAIN pc = Dispatcher /\ DOMAIN prefetched = Dispatcher
  BY Zenon DEF Shape, SlotShape
<1> USE <1>p, <1>s DEF Accounted, Holds, Go, Promoted
<1>t. TakesJob(d) => waiting' = waiting + due - 1 /\ waiting + due > 0
  BY DEF TakesJob
<1>n. TakesNone => waiting' = waiting + due
  BY Zenon DEF TakesNone
<1>1. LoopTop(d) => Kept
  BY DEF LoopTop
<1>2. MoveToActive(d) => Kept
  BY <1>t, <1>n DEF MoveToActive
<1>3. MoveToActiveFails(d) => Kept
  BY <1>t, <1>n, SMTT(30) DEF MoveToActiveFails
<1>4. MoveToActiveCancelled(d) \/ SleepEnds(d) \/ AwaitMarker(d) \/ BZPopMinArrives(d) => Kept
  BY DEF MoveToActiveCancelled, SleepEnds, AwaitMarker, BZPopMinArrives
<1>5. Awakens(d) \/ MarkerTimesOut(d) \/ Served(d) \/ HandlerReturns(d) => Kept
  <2>1. Awakens(d) => Kept
    BY DEF Awakens
  <2>2. MarkerTimesOut(d) => Kept
    BY DEF MarkerTimesOut
  <2>3. PopMarker(d) => Kept
    BY DEF PopMarker
  <2>4. PopWakeKey(d) => Kept
    BY DEF PopWakeKey
  <2>5. HandlerReturns(d) => Kept
    BY DEF HandlerReturns
  <2> QED
    BY <2>1, <2>2, <2>3, <2>4, <2>5, ZenonT(30) DEF Served
<1>6. MoveToFinished(d) => Kept
  BY <1>t, <1>n DEF MoveToFinished
<1>7. RetryJob(d) \/ MoveToDelayed(d) => Kept
  BY DEF RetryJob, MoveToDelayed
<1>8. FinaliseFails(d) => Kept
  BY <1>t DEF FinaliseFails
<1>9. Kept
  BY <1>1, <1>2, <1>3, <1>4, <1>5, <1>6, <1>7, <1>8, ZenonT(30) DEF Step
<1>10. /\ Held \in Nat /\ Held' \in Nat
       /\ Held' = Held - h + g
  BY DispatcherFrame, HeldFollows, ZenonT(30)
<1>11. h \in Nat /\ g \in Nat
  BY Zenon
<1>12. setting' = setting /\ setting.maxJobs \in Nat
  BY MaxJobsNat, Zenon
<1> HIDE <1>p, <1>s DEF h, g, Promoted, Go
<1>13. waiting \in Nat /\ delayed \in Nat /\ stranded \in Nat
  BY Zenon
<1>14. waiting' \in Nat /\ delayed' \in Nat /\ stranded' \in Nat
  BY <1>9, Zenon
<1>15. /\ waiting + delayed + stranded + Held <= setting.maxJobs
       /\ waiting' + delayed' + stranded' + g <= waiting + delayed + stranded + h
  BY <1>9, Zenon
<1> HIDE DEF Accounted, Kept
<1>16. waiting + delayed + stranded \in Nat
  BY <1>13, SumOfThree, Zenon
<1>17. waiting' + delayed' + stranded' \in Nat
  BY <1>14, SumOfThree, ZenonT(30)
<1>18. waiting' + delayed' + stranded' + Held' <= setting.maxJobs
  BY <1>10, <1>11, <1>12, <1>15, <1>16, <1>17, Ledger, ZenonT(30)
<1> QED
  BY <1>9, <1>12, <1>18, Zenon DEF Accounted, Kept

LEMMA AccountedWorker ==
  ASSUME Shape, Accounted, NEW w \in Worker, Managing(w), UNCHANGED setting
  PROVE  Accounted'
<1>1. Held \in Nat /\ Held' = Held
  BY OthersFrame, HeldKept, Zenon
<1>2. CASE StalledScan(w)
  BY <1>1, <1>2, MaxJobsNat DEF Accounted, StalledScan
<1>3. CASE ~StalledScan(w)
  <2>1. UNCHANGED <<waiting, delayed, due, stranded>>
    BY <1>3, ZenonT(30)
    DEF Managing, StalledLoopExits, Stop, Drain, DrainExpires, Shutdown, BeginShutdown,
        WakeDispatchers, ShutdownCompletes
  <2> QED
    BY <1>1, <2>1, Zenon DEF Accounted
<1> QED
  BY <1>2, <1>3, Zenon

LEMMA AccountedStep ==
  ASSUME Shape, Orderly, Accounted, [Next]_vars
  PROVE  Accounted'
<1>1. CASE UNCHANGED vars
  BY <1>1, HeldKept, Zenon DEF Accounted, vars
<1>2. CASE Next
  <2>1. UNCHANGED setting
    BY <1>2, Zenon DEF Next
  <2> QED
    BY <1>2, <2>1, NextCases, AccountedEnvironment, AccountedDispatcher, AccountedWorker, Zenon
<1> QED
  BY <1>1, <1>2, Zenon

-----------------------------------------------------------------------------
(* Open work is attended to *)

LEMMA AttendedInit == Init => Attended
BY SMTT(30) DEF Init, Attended

LEMMA AttendedEnvironment ==
  ASSUME Shape, Accounted, Attended, Environment
  PROVE  Attended'
<1>1. UNCHANGED <<slotVars, call>>
  BY OthersFrame, Zenon
<1>2. Asking' = Asking /\ Watching' = Watching
  BY <1>1, Zenon DEF Asking, Watching
<1> QED
  BY <1>1, <1>2, Zenon
  DEF Accounted, Attended, Environment, AddJob, AddDelayedJob, BecomesDue, Pause, Resume,
      LimitExpires, WithBaseMarker

\* While no worker is going down, a dispatcher that stops asking has found
\* nothing, has put the marker back, or watches the next delayed job.
LEMMA DispatcherAttends ==
  ASSUME Shape, Orderly, Accounted, NEW d \in Dispatcher,
         Step(d) \/ Served(d) \/ MarkerTimesOut(d), ~paused, ~RunCancelled(d)
  PROVE  \/ d \in Asking' \/ marker' # {}
         \/ waiting' = 0 /\ (delayed' = 0 \/ d \in Watching')
         \/ UNCHANGED <<waiting, delayed, marker, Asking, Watching>>
<1> DEFINE Attends ==
      \/ d \in Asking' \/ marker' # {}
      \/ waiting' = 0 /\ (delayed' = 0 \/ d \in Watching')
      \/ UNCHANGED <<waiting, delayed, marker, Asking, Watching>>
<1>p. prefetched[d] => pc[d] = "top"
  BY ZenonT(30) DEF Orderly, SlotInOrder
<1>t. TakesJob(d) => marker' # {}
  BY Zenon DEF TakesJob
<1> USE <1>p DEF Go, Shape, SlotShape
<1>1. LoopTop(d) => Attends
  <2> SUFFICES ASSUME LoopTop(d), prefetched[d]
               PROVE  UNCHANGED <<waiting, delayed, marker, Asking, Watching>>
    BY ZenonT(30) DEF LoopTop, MayExit, Asking
  <2>1. /\ pc[d] = "top" /\ pc'[d] \in {"gone", "running"}
        /\ UNCHANGED <<waiting, delayed, marker>>
    BY Zenon DEF LoopTop
  <2>2. Asking' = Asking
    BY <2>1, DispatcherFrame, ZenonT(30) DEF Asking
  <2>3. Watching' = Watching
    BY <2>1, DispatcherFrame, ZenonT(30) DEF Watching
  <2> QED
    BY <2>1, <2>2, <2>3, Zenon
<1>2. MoveToActive(d) => Attends
  BY <1>t, Zenon DEF MoveToActive, TakesNone, Accounted, Asking, Watching
<1>3. AwaitMarker(d) \/ BZPopMinArrives(d) \/ HandlerReturns(d) => Attends
  BY DispatcherFrame, SMTT(30)
     DEF AwaitMarker, BZPopMinArrives, HandlerReturns, Asking, Watching
<1>4. MoveToActiveFails(d) \/ SleepEnds(d) \/ Awakens(d) => d \in Asking'
  BY Zenon  DEF MoveToActiveFails, SleepEnds, Awakens, Asking
<1>5. Served(d) \/ MarkerTimesOut(d) => d \in Asking'
  BY Zenon DEF Served, PopMarker, PopWakeKey, MarkerTimesOut, Asking
<1>6. MoveToFinished(d) => Attends
  BY <1>t, Zenon DEF MoveToFinished, Asking
<1>7. RetryJob(d) \/ MoveToDelayed(d) \/ FinaliseFails(d) => d \in Asking'
  BY Zenon DEF RetryJob, MoveToDelayed, FinaliseFails, Asking
<1>8. ~MoveToActiveCancelled(d)
  BY Zenon DEF MoveToActiveCancelled
<1> QED
  BY <1>1, <1>2, <1>3, <1>4, <1>5, <1>6, <1>7, <1>8, Zenon DEF Step

LEMMA AttendedDispatcher ==
  ASSUME Shape, Orderly, Accounted, Attended, NEW d \in Dispatcher,
         Step(d) \/ Served(d) \/ MarkerTimesOut(d)
  PROVE  Attended'
<1> SUFFICES ASSUME ~paused', \A w \in Worker : call'[w] = "none"
             PROVE  /\ waiting' > 0 => marker' # {} \/ Asking' # {}
                    /\ delayed' > 0 => marker' # {} \/ Asking' \cup Watching' # {}
  BY Zenon DEF Attended
<1>1. UNCHANGED paused
  BY ZenonT(30) DEF Step, Served, MarkerTimesOut, LoopTop, MoveToActive, MoveToActiveFails,
         MoveToActiveCancelled, SleepEnds, AwaitMarker, BZPopMinArrives, Awakens,
         HandlerReturns, MoveToFinished, RetryJob, MoveToDelayed, FinaliseFails,
         PopMarker, PopWakeKey
<1>2. \A w \in Worker : call[w] = "none"
  BY DispatcherFrame, ZenonT(30)
<1>3. ~RunCancelled(d)
  BY <1>2, PoolAssumption, ZenonT(30) DEF Orderly, DownInOrder, RunCancelled
<1>4. \/ d \in Asking' \/ marker' # {}
      \/ waiting' = 0 /\ (delayed' = 0 \/ d \in Watching')
      \/ UNCHANGED <<waiting, delayed, marker, Asking, Watching>>
  BY <1>1, <1>3, DispatcherAttends, Zenon
<1> QED
  BY <1>1, <1>2, <1>4 DEF Attended

LEMMA AttendedWorker ==
  ASSUME Shape, Accounted, Attended, NEW w \in Worker, Managing(w)
  PROVE  Attended'
<1>1. Asking' = Asking /\ Watching' = Watching
  BY OthersFrame, Zenon DEF Asking, Watching
<1>2. CASE StalledScan(w)
  BY <1>2, Zenon DEF StalledScan, WithBaseMarker, Attended
<1>3. CASE Stop(w) \/ Drain(w) \/ DrainExpires(w)
  <2>1. call'[w] # "none"
    BY <1>3, ZenonT(30) DEF Stop, Drain, DrainExpires, Shape, DownShape
  <2> QED
    BY <2>1, Zenon DEF Attended
<1>4. CASE StalledLoopExits(w) \/ Shutdown(w)
  <2>1. UNCHANGED <<waiting, delayed, marker, paused, call>>
    BY <1>4, Zenon
       DEF StalledLoopExits, Shutdown, BeginShutdown, WakeDispatchers, ShutdownCompletes
  <2> QED
    BY <1>1, <2>1, Zenon DEF Attended
<1> QED
  BY <1>2, <1>3, <1>4, Zenon DEF Managing

LEMMA AttendedStep ==
  ASSUME Shape, Orderly, Accounted, Attended, [Next]_vars
  PROVE  Attended'
<1>1. CASE UNCHANGED vars
  BY <1>1, ZenonT(30) DEF vars, Attended, Asking, Watching
<1> QED
  BY <1>1, NextCases, AttendedEnvironment, AttendedDispatcher, AttendedWorker, Zenon

-----------------------------------------------------------------------------
(* The theorems *)

\* The inductive invariant behind the theorems below.
PoolInv == Shape /\ Orderly /\ Nudges /\ Accounted /\ Attended

\* The layers together are an inductive invariant of the workers' goroutines.
THEOREM PoolInvariant == Spec => []PoolInv
<1>1. Init => PoolInv
  BY ShapeInit, OrderlyInit, NudgesInit, AccountedInit, AttendedInit, Zenon DEF PoolInv
<1>2. PoolInv /\ [Next]_vars => PoolInv'
  BY ShapeStep, OrderlyStep, NudgesStep, AccountedStep, AttendedStep, Zenon DEF PoolInv
<1> QED
  BY <1>1, <1>2, PTL DEF Spec

\* Every variable keeps its type; in particular the jobs in Redis and in the
\* slots never outgrow the bound, whatever calls fail on the way.
THEOREM PoolTypeCorrect == Spec => []TypeOK
<1>1. PoolInv => TypeOK
  <2> SUFFICES ASSUME PoolInv PROVE TypeOK
    BY Zenon
  <2>1. /\ waiting \in 0..setting.maxJobs /\ delayed \in 0..setting.maxJobs
        /\ due \in 0..delayed /\ stranded \in 0..setting.maxJobs
    <3>1. Held \in Nat
      <4>1. { e \in Dispatcher : pc[e] \in {"running", "finishing"} \/ prefetched[e] }
              \in SUBSET Dispatcher
        BY Zenon
      <4> QED
        BY <4>1, FS_Subset, FS_CardinalityType, PoolAssumption, Zenon DEF Held
    <3> QED
      BY <3>1, MaxJobsNat, SMTT(30) DEF PoolInv, Accounted
  <2> QED
    BY <2>1, Zenon DEF PoolInv, Shape, RedisShape, SlotShape, DownShape, TypeOK
<1> QED
  BY <1>1, PoolInvariant, PTL

\* Drain drops no prefetched job unless Stop or an expired budget cancelled the
\* jobs (dispatchLoop's exit guard and fetchNextFlag).
THEOREM DrainAbandonsNoJob == Spec => []DrainAbandonsNothing
<1>1. PoolInv => DrainAbandonsNothing
  BY Zenon DEF PoolInv, Orderly, DownInOrder, DrainAbandonsNothing
<1> QED
  BY <1>1, PoolInvariant, PTL

\* After runCancel a dispatcher takes at most one more job.
THEOREM PrefetchChainEnds == Spec => []OneJobAfterShutdown
<1>1. PoolInv => OneJobAfterShutdown
  BY Zenon DEF PoolInv, Orderly, SlotInOrder, OneJobAfterShutdown
<1> QED
  BY <1>1, PoolInvariant, PTL

\* wakeDispatchers reaches every dispatcher that is or will be blocked.
THEOREM WakeKeyReachesAll == Spec => []ShutdownWakesAll
<1>1. PoolInv => ShutdownWakesAll
  <2> SUFFICES ASSUME PoolInv, NEW w \in Worker, nudged[w], NEW d \in Slots(w),
                      pc[d] = "parked"
               PROVE  Servable
    BY Zenon DEF ShutdownWakesAll
  <2>1. Blocking(w) # {}
    BY Zenon DEF Blocking
  <2>2. Cardinality(Blocking(w)) # 0
    BY <2>1, BlockingFinite, FS_EmptySet, Zenon
  <2>3. Cardinality(Blocking(w)) <= wake[w]
    BY Zenon DEF PoolInv, Nudges
  <2>4. wake[w] \in Int
    BY DEF PoolInv, Shape, RedisShape
  <2>5. wake[w] > 0
    BY <2>2, <2>3, <2>4, BlockingFinite, SMTT(30)
  <2> QED
    BY <2>5, Zenon DEF Servable, Slots
<1> QED
  BY <1>1, PoolInvariant, PTL

\* Open work is announced by the marker or awaited by a dispatcher as long as no
\* worker is going down.
THEOREM WorkIsNoticed == Spec => []NoMissedWork
<1>1. Asking \subseteq Alert
  BY Zenon DEF Asking, Alert
<1>2. PoolInv => NoMissedWork
  BY <1>1, Zenon DEF PoolInv, Attended, NoMissedWork
<1> QED
  BY <1>2, PoolInvariant, PTL

=============================================================================

-------------------------- MODULE MCWorkerLifecycle --------------------------
(* Instances of WorkerLifecycle: a worker with two slots, alone or beside a  *)
(* worker with one, in the surroundings that each run is about.              *)
EXTENDS WorkerLifecycle, TLC

CONSTANTS w1, w2, d1, d2, d3

TwoWorkers == (d1 :> w1) @@ (d2 :> w1) @@ (d3 :> w2)

OneSlotEach == (d1 :> w1) @@ (d3 :> w2)

\* one worker is stopped or drained while calls fail
ShuttingDown(jobs) ==
  [stoppable |-> {w1}, pausable |-> FALSE, limiter |-> FALSE, failures |-> TRUE,
   delays |-> FALSE, maxJobs |-> jobs]

\* everything that can put dispatchers to sleep, and nobody stops
SleepingAndWaking ==
  [stoppable |-> {}, pausable |-> TRUE, limiter |-> TRUE, failures |-> TRUE,
   delays |-> TRUE, maxJobs |-> 3]

PoolSettings == { ShuttingDown(3), SleepingAndWaking }

DownSettings == { ShuttingDown(2) }

SlotSymmetry == Permutations({d1, d2})

=============================================================================

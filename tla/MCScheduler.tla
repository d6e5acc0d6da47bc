------------------------------ MODULE MCScheduler ------------------------------
(* Instances of Scheduler: the options that the upserts of a run use.          *)
EXTENDS Scheduler, TLC

CONSTANTS w1, w2

Opts(every, pattern, limit, start, end, immediately) ==
  [every |-> every, pattern |-> pattern, limit |-> limit, start |-> start, end |-> end,
   immediately |-> immediately]

\* one schedule of each kind, with and without limits
Chains ==
  [configs |-> { Opts(2, 0, 0, 0, 0, FALSE), Opts(3, 0, 2, 2, 0, FALSE),
                 Opts(2, 0, 0, 0, 6, FALSE), Opts(0, 3, 3, 0, 0, FALSE),
                 Opts(0, 2, 0, 0, 6, TRUE), Opts(0, 2, 0, 3, 0, FALSE) },
   ops |-> {"retry", "stall", "pause"},
   maxTime |-> 7, maxMillis |-> 13, maxUpserts |-> 1, maxRemovals |-> 0]

\* an interval against a pattern that starts at once, and a removal
Mixed ==
  [configs |-> { Opts(2, 0, 0, 0, 0, FALSE), Opts(0, 3, 0, 0, 0, TRUE) },
   ops |-> {"retry", "stall", "crash", "pause", "discard"},
   maxTime |-> 3, maxMillis |-> 10, maxUpserts |-> 2, maxRemovals |-> 1]

\* a limited interval that is set again with another interval or another limit, and
\* slots that are missed
Changed ==
  [configs |-> { Opts(5, 0, 2, 0, 0, FALSE), Opts(2, 0, 2, 0, 0, FALSE),
                 Opts(2, 0, 1, 0, 0, FALSE) },
   ops |-> {"fail"},
   maxTime |-> 7, maxMillis |-> 19, maxUpserts |-> 2, maxRemovals |-> 0]

\* a plain interval that is removed
Removed ==
  [configs |-> { Opts(2, 0, 0, 0, 0, FALSE) }, ops |-> {},
   maxTime |-> 4, maxMillis |-> 12, maxUpserts |-> 1, maxRemovals |-> 1]

AllSettings == { Chains, Mixed, Changed }
RemovedOnly == { Removed }

WorkerSymmetry == Permutations({w1, w2})

=============================================================================

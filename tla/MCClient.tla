------------------------------- MODULE MCClient -------------------------------
(***************************************************************************)
(* Instances of Client for TLC.                                            *)
(***************************************************************************)
EXTENDS Client

CONSTANTS c1, c2, c3, q1, q2, k1

Plain == [delay |-> 0, priority |-> 0, unique |-> FALSE]
Unique == [Plain EXCEPT !.unique = TRUE]

Calm ==
  [callers |-> {}, opts |-> {Plain}, faults |-> FALSE, cancels |-> FALSE, maxFlushes |-> 0,
   maxChanges |-> 0, defines |-> {}, discovers |-> FALSE, maxDrops |-> 0,
   keys |-> [k \in Key |-> "none"], nodes |-> {Key}]

\* Three callers of one script and a flush, or two callers and two flushes, and
\* contexts that may end.
Reloading ==
  {[Calm EXCEPT !.callers = {c1, c2, c3}, !.maxFlushes = 1, !.cancels = TRUE],
   [Calm EXCEPT !.callers = {c1, c2}, !.maxFlushes = 2, !.cancels = TRUE]}

\* Two callers, or one with any options, whose connections break.
Breaking ==
  {[Calm EXCEPT !.callers = {c1, c2}, !.maxFlushes = 1, !.maxChanges = 1, !.faults = TRUE,
                !.opts = {Plain, Unique}],
   [Calm EXCEPT !.callers = {c1}, !.maxFlushes = 1, !.maxChanges = 2, !.faults = TRUE,
                !.opts = {Plain, Unique, [Plain EXCEPT !.delay = 1], [Plain EXCEPT !.priority = 1],
                          [Plain EXCEPT !.delay = 1, !.priority = 1]}]}

\* Three callers with one deduplication id, which is released meanwhile.
Deduplicating ==
  [Calm EXCEPT !.callers = {c1, c2, c3}, !.opts = {Plain, Unique}, !.maxChanges = 4]

\* Queues come and go on one node or on two while they are discovered.
Discovering ==
  {[Calm EXCEPT !.defines = {q2}, !.discovers = TRUE, !.maxDrops = 2, !.nodes = nodes,
                !.keys = [k \in Key |-> IF k = q1 THEN first ELSE IF k = k1 THEN other ELSE "none"],
                !.faults = TRUE] :
     nodes \in {{Key}, {{q1}, {q2, k1}}}, first \in {"none", "meta"},
     other \in {"none", "hash", "string"}}

ClientSettings == {Deduplicating} \cup Reloading \cup Breaking \cup Discovering

=============================================================================

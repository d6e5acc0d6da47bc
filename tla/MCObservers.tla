----------------------------- MODULE MCObservers -----------------------------
(***************************************************************************)
(* Instances of Observers for TLC.                                         *)
(***************************************************************************)
EXTENDS Observers

CONSTANTS j1, j2, j3

Quiet ==
  [wait |-> <<>>, legacy |-> <<>>, paused |-> FALSE, scripts |-> {}, reads |-> {},
   subscribes |-> FALSE, ends |-> FALSE, faults |-> FALSE, keepsAll |-> TRUE, requests |-> {}, maxOps |-> 0,
   minutes |-> 0, maxDataPoints |-> 0]

\* A subscriber while jobs run, while they are removed and the queue is paused,
\* and one that is closed or cancelled.
Watched ==
  {[Quiet EXCEPT !.wait = w, !.scripts = {"work", "finish"}, !.subscribes = TRUE,
                 !.keepsAll = FALSE, !.maxOps = 5 - Len(w)] : w \in {<<j1>>, <<j2, j1>>}}
Removing ==
  [Quiet EXCEPT !.wait = <<j1>>, !.scripts = {"add", "remove", "drain", "pause", "resume"},
                !.subscribes = TRUE, !.maxOps = 3]
Ending ==
  [Quiet EXCEPT !.scripts = {"add", "pause"}, !.subscribes = TRUE, !.ends = TRUE,
                !.faults = TRUE, !.maxOps = 2]

\* The layouts that BullMQ 5 and 6 leave, read while scripts move jobs about.
Layouts ==
  {[Quiet EXCEPT !.wait = w, !.legacy = l, !.paused = p, !.reads = {"counts"},
                 !.requests = {{"paused"}, {"wait", "active", "completed", "failed", "paused"}},
                 !.scripts = {"finish", "pause", "resume", "remove", "drain"}, !.maxOps = 3] :
     w \in {<<>>, <<j1>>}, l \in {<<>>, <<j3, j2>>}, p \in BOOLEAN}

\* Pages while jobs come and go.
Paged ==
  {[Quiet EXCEPT !.wait = w, !.reads = {"pages"}, !.scripts = {"add", "finish", "remove", "drain"},
                 !.maxOps = 3] : w \in {<<j1>>, <<j2, j1>>, <<j3, j2, j1>>}}

\* Finishing jobs over several minutes, up to and beyond the list of data points, with
\* timestamps that come late.
Metered ==
  [Quiet EXCEPT !.wait = <<j3, j2, j1>>, !.scripts = {"finish"}, !.maxOps = 4,
                !.minutes = 4, !.maxDataPoints = 3]

ObserverSettings == {Removing, Ending, Metered} \cup Watched \cup Layouts \cup Paged

=============================================================================

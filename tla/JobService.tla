------------------------------ MODULE JobService ------------------------------
(***************************************************************************)
(* What mkq promises of a job, without queues, locks, workers or failures: *)
(* a job that was submitted is pending or active until one attempt settles *)
(* it; only an active job can be settled, a settled job stays settled, and *)
(* an attempt is charged exactly when an attempt ends (not when it is      *)
(* interrupted), never beyond the attempts of the job.                     *)
(***************************************************************************)
EXTENDS Naturals

CONSTANTS Job, Discard, Attempts

VARIABLES
  status,   \* the life cycle of each job
  made      \* the attempts charged to it

vars == <<status, made>>

Init ==
  /\ status = [j \in Job |-> "absent"]
  /\ made = [j \in Job |-> 0]

Pending == { j \in Job : status[j] = "pending" }

Active == { j \in Job : status[j] = "active" }

\* The jobs of a set all get the same status.
Become(st, S, value) == [j \in Job |-> IF j \in S THEN value ELSE st[j]]

Submit(j) ==
  /\ status[j] = "absent"
  /\ status' = [status EXCEPT ![j] = "pending"]
  /\ made' = made

Start(j) ==
  /\ status[j] = "pending"
  /\ status' = [status EXCEPT ![j] = "active"]
  /\ made' = made

\* An attempt settles job j; at most one pending job starts in the same step.
Settle(j, result, started) ==
  /\ status[j] = "active"
  /\ IF j \in Discard THEN result = "absent" ELSE result \in {"completed", "failed"}
  /\ started \subseteq Pending
  /\ \A k, l \in started : k = l
  /\ status' = [Become(status, started, "active") EXCEPT ![j] = result]
  /\ made' = [made EXCEPT ![j] = IF j \in Discard THEN 0 ELSE @ + 1]

\* An attempt ends without settling the job: it is charged, and only while one
\* more is left.
Retry(j) ==
  /\ status[j] = "active"
  /\ made[j] + 1 < Attempts[j]
  /\ status' = [status EXCEPT ![j] = "pending"]
  /\ made' = [made EXCEPT ![j] = @ + 1]

\* Attempts are interrupted (the handler asks for it, or the worker is gone).
Interrupt(S) ==
  /\ S \subseteq Active
  /\ status' = Become(status, S, "pending")
  /\ made' = made

Next ==
  \/ \E j \in Job : Submit(j) \/ Start(j) \/ Retry(j)
  \/ \E j \in Job, result \in {"completed", "failed", "absent"} :
       \E started \in SUBSET Pending : Settle(j, result, started)
  \/ \E S \in SUBSET Active : Interrupt(S)

Spec == Init /\ [][Next]_vars

=============================================================================

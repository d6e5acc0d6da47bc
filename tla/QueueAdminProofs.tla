--------------------------- MODULE QueueAdminProofs ---------------------------
(***************************************************************************)
(* The administration of a queue keeps its books: the jobs are accounted   *)
(* for, locks and deduplication keys follow the jobs, and only Add creates *)
(* one.  A drain that meets a protected instance of a schedule in a list   *)
(* breaks the books (removeListJobs trims by number), so the theorems are  *)
(* about behaviours in which the drains find none there.                   *)
(***************************************************************************)
EXTENDS QueueAdmin, JobListProofs, FiniteSetTheorems

-----------------------------------------------------------------------------
(* The inductive invariant *)

\* A drain finds no protected instance in the lists that it trims.
DrainIsClean ==
  \A withDelayed \in BOOLEAN :
    DrainPending(withDelayed) => (Range(wait) \cup Range(legacy)) \cap repeat = {}

CleanDrains == [][DrainIsClean]_vars

\* Job j is in at most one place, and in one exactly when its HASH exists.
Alone(j) ==
  /\ j \in Range(wait) =>
       /\ j \notin Range(legacy) /\ j \notin prioritized /\ j \notin delayed
       /\ j \notin active /\ j \notin Range(completed) /\ j \notin Range(failed)
  /\ j \in Range(legacy) =>
       /\ j \notin prioritized /\ j \notin delayed
       /\ j \notin active /\ j \notin Range(completed) /\ j \notin Range(failed)
  /\ j \in prioritized =>
       /\ j \notin delayed
       /\ j \notin active /\ j \notin Range(completed) /\ j \notin Range(failed)
  /\ j \in delayed => j \notin active /\ j \notin Range(completed) /\ j \notin Range(failed)
  /\ j \in active => j \notin Range(completed) /\ j \notin Range(failed)
  /\ j \in Range(completed) => j \notin Range(failed)
  /\ j \in hash <=> \/ j \in Range(wait) \/ j \in Range(legacy) \/ j \in prioritized
                    \/ j \in delayed \/ j \in active
                    \/ j \in Range(completed) \/ j \in Range(failed)

\* The lists have no duplicates.
Lists == NoDup(wait) /\ NoDup(legacy) /\ NoDup(completed) /\ NoDup(failed)

\* A list of finished jobs is no longer than some job allows.
Short(list) == list = <<>> \/ \E j \in Job : Len(list) <= Keep[j]

Sets ==
  /\ prioritized \subseteq Job /\ delayed \subseteq Job /\ active \subseteq Job
  /\ stalled \subseteq Job /\ hash \subseteq Job /\ logs \subseteq Job

Keys ==
  /\ repeat \subseteq Scheduled /\ simple \subseteq Unique
  /\ deKey \in [job : Unique \cup {NoJob}, ttl : BOOLEAN]
  /\ inc \in [Job -> Nat]

Holders ==
  /\ lock \in [Job -> Worker \cup {NoWorker}]
  /\ cur \in [Worker -> [job : Job \cup {NoJob}, inc : Nat]]

Rounds == paused \in BOOLEAN /\ round \in 0..MaxRounds - 1

\* The jobs that are not finished.
Live == Pending \cup active

AdminInv ==
  /\ Lists /\ Short(completed) /\ Short(failed) /\ Sets /\ Keys /\ Holders /\ Rounds
  /\ \A j \in Job : Alone(j)
  /\ logs \subseteq hash
  /\ LocksMatchIncarnation
  /\ KeyFollowsJob

\* The sets of jobs that a script pushes are finite.
LEMMA JobsCounted ==
  ASSUME NEW S \in SUBSET Job
  PROVE  Cardinality(S) \in Nat
<1>1. IsFiniteSet(S)
  BY JobsFinite, FS_Subset, Zenon
<1> QED BY <1>1, FS_CardinalityType, Zenon

\* The type invariant in parts.
LEMMA TypeOKParts ==
  TypeOK <=> /\ Lists /\ Short(completed) /\ Short(failed)
             /\ Sets /\ Keys /\ Holders /\ Rounds
BY Zenon DEF TypeOK, Lists, NoDup, Short, Sets, Keys, Holders, Rounds

\* Every job accounted for, read as a fact about each job.
LEMMA AloneAccounted ==
  ASSUME Lists, Sets, \A j \in Job : Alone(j), logs \subseteq hash
  PROVE  JobsAccounted
<1> DEFINE P == Places
<1>1. /\ Range(wait) \subseteq Job /\ Range(legacy) \subseteq Job
      /\ Range(completed) \subseteq Job /\ Range(failed) \subseteq Job
  BY RangeOfJobs, Zenon DEF Lists, NoDup
<1>2. DOMAIN Places = 1..7
  BY DEF Places
<1>3. /\ Places[1] = Range(wait) /\ Places[2] = Range(legacy) /\ Places[3] = prioritized
      /\ Places[4] = delayed /\ Places[5] = active
      /\ Places[6] = Range(completed) /\ Places[7] = Range(failed)
  BY Zenon DEF Places
<1>4. Range(Places) = { Places[1], Places[2], Places[3], Places[4], Places[5],
                        Places[6], Places[7] }
  <2>1. 1..7 = {1, 2, 3, 4, 5, 6, 7}
    OBVIOUS
  <2> QED BY <1>2, <2>1, Zenon DEF Range
<1>5. UNION Range(Places) = Range(wait) \cup Range(legacy) \cup prioritized \cup delayed
                            \cup active \cup Range(completed) \cup Range(failed)
  BY <1>3, <1>4, Zenon
<1>6. UNION Range(Places) = hash
  BY <1>1, <1>5, Zenon DEF Sets, Alone
<1>7. ASSUME NEW a \in 1..7, NEW b \in 1..7, a # b, NEW x \in Places[a] \cap Places[b]
      PROVE  FALSE
  <2>1. x \in Job
    BY <1>1, <1>3, <1>7 DEF Sets
  <2>2. Alone(x)
    BY <2>1, Zenon
  <2>3. a \in {1, 2, 3, 4, 5, 6, 7} /\ b \in {1, 2, 3, 4, 5, 6, 7}
    OBVIOUS
  <2> QED BY <2>2, <2>3, <1>3, <1>7 DEF Alone
<1> QED BY <1>2, <1>6, <1>7, Zenon DEF JobsAccounted

\* What the runs check follows from the inductive invariant.
LEMMA AdminInvImplies == AdminInv => TypeOK /\ JobsAccounted
BY TypeOKParts, AloneAccounted, Zenon DEF AdminInv

\* A queue that BullMQ 5 has paused, or an empty one, is in order.
LEMMA AdminInit == Init => AdminInv
<1> SUFFICES ASSUME Init PROVE AdminInv
  BY Zenon
<1> USE DEF Init
<1>1. NoDup(Parked) /\ Range(Parked) \subseteq Job
  BY AdminAssumption, RangeOfJobs, Zenon DEF NoDup
<1>2. Lists
  BY <1>1, NoDupEmpty, Zenon DEF Lists
<1>3. Short(completed) /\ Short(failed)
  BY Zenon DEF Short
<1>4. Sets
  BY <1>1, Zenon DEF Sets
<1>5. Keys
  BY Zenon DEF Keys, NoKey
<1>6. Holders
  BY Zenon DEF Holders, Idle
<1>7. Rounds
  BY AdminAssumption DEF Rounds
<1>8. ASSUME NEW j \in Job PROVE Alone(j)
  BY NoDupEmpty, Zenon DEF Alone
<1>9. LocksMatchIncarnation
  BY AdminAssumption, Zenon DEF LocksMatchIncarnation
<1>10. KeyFollowsJob
  BY Zenon DEF KeyFollowsJob, NoKey
<1> QED BY <1>2, <1>3, <1>4, <1>5, <1>6, <1>7, <1>8, <1>9, <1>10, Zenon DEF AdminInv

-----------------------------------------------------------------------------
(* Lists and keys *)

\* The members of the lists and sets are jobs.
LEMMA MembersAreJobs ==
  ASSUME AdminInv
  PROVE  /\ Range(wait) \subseteq Job /\ Range(legacy) \subseteq Job
         /\ Range(completed) \subseteq Job /\ Range(failed) \subseteq Job
         /\ Live \subseteq hash /\ hash \subseteq Job
<1>1. /\ Range(wait) \subseteq Job /\ Range(legacy) \subseteq Job
      /\ Range(completed) \subseteq Job /\ Range(failed) \subseteq Job
  BY RangeOfJobs, Zenon DEF AdminInv, Lists, NoDup
<1>2. prioritized \subseteq Job /\ delayed \subseteq Job /\ active \subseteq Job /\ hash \subseteq Job
  BY Zenon DEF AdminInv, Sets
<1>3. \A j \in Job : Alone(j)
  BY Zenon DEF AdminInv
<1>4. Live \subseteq hash
  BY <1>1, <1>2, <1>3, Zenon DEF Live, Pending, Alone
<1> QED BY <1>1, <1>2, <1>4, Zenon

\* A job is pushed to wait or added to the prioritized set.
LEMMA Enqueued ==
  ASSUME NoDup(wait), NEW j \in Job, j \notin Range(wait), Enqueue(j)
  PROVE  /\ NoDup(wait')
         /\ \/ Range(wait') = Range(wait) \cup {j} /\ prioritized' = prioritized
            \/ Range(wait') = Range(wait) /\ prioritized' = prioritized \cup {j}
<1>1. NoDup(<<j>> \o wait) /\ Range(<<j>> \o wait) = Range(wait) \cup {j}
  BY NoDupAdd, Zenon
<1> QED BY <1>1, Zenon DEF Enqueue

\* The deduplication key under a change of the live jobs: jobs that go take the
\* key with them, jobs that come are not in simple.
LEMMA KeyKept ==
  ASSUME KeyFollowsJob, NEW gone,
         Live \ gone \subseteq Live',
         simple' = simple \ gone,
         deKey' = deKey \/ (deKey.job \in gone /\ deKey' = NoKey),
         deKey.job \in gone /\ ~deKey.ttl => deKey' = NoKey
  PROVE  KeyFollowsJob'
<1>1. NoKey.job = NoJob /\ NoKey.ttl = FALSE
  BY Zenon DEF NoKey
<1>2. ASSUME NEW j \in simple' PROVE j \in Live' /\ deKey' = [job |-> j, ttl |-> FALSE]
  <2>1. j \in simple /\ j \notin gone
    BY Zenon
  <2>2. j \in Live /\ deKey = [job |-> j, ttl |-> FALSE]
    BY <2>1, Zenon DEF KeyFollowsJob, Live
  <2> QED BY <2>1, <2>2, Zenon
<1>3. ASSUME deKey'.job # NoJob, ~deKey'.ttl PROVE deKey'.job \in Live'
  <2>1. deKey' = deKey
    BY <1>1, <1>3, Zenon
  <2>2. deKey.job \in Live /\ deKey.job \notin gone
    BY <1>1, <1>3, <2>1, Zenon DEF KeyFollowsJob, Live
  <2> QED BY <2>1, <2>2, Zenon
<1> QED BY <1>2, <1>3, Zenon DEF KeyFollowsJob, Live

\* The key that is not there.
LEMMA NoKeyType == NoKey \in [job : Unique \cup {NoJob}, ttl : BOOLEAN]
BY Zenon DEF NoKey

\* The key when a job is added: it is free, or the job has nothing to do with it.
LEMMA KeyStored ==
  ASSUME AdminInv, NEW j \in Job, NEW ttl \in BOOLEAN, StoreJob(j, ttl), Live' = Live \cup {j}
  PROVE  KeyFollowsJob'
<1>1. KeyFollowsJob /\ Live \subseteq hash
  BY MembersAreJobs, Zenon DEF AdminInv
<1>2. CASE j \notin Unique
  <2>1. deKey' = deKey /\ simple' = simple
    BY <1>2, Zenon DEF StoreJob
  <2> QED BY <1>1, <2>1, Zenon DEF KeyFollowsJob, Live
<1>3. CASE j \in Unique
  <2>1. deKey.job = NoJob
    <3>1. deKey.job = NoJob \/ (~deKey.ttl /\ deKey.job \notin hash)
      BY <1>3, Zenon DEF StoreJob, DedupOpen
    <3> QED BY <1>1, <3>1, Zenon DEF KeyFollowsJob, Live
  <2>2. NoJob \notin Job /\ Unique \subseteq Job
    BY AdminAssumption, Zenon
  <2>3. simple = {}
    <3>1. simple \subseteq Job
      BY <2>2, Zenon DEF AdminInv, Keys
    <3>2. \A k \in simple : deKey.job = k
      BY <1>1 DEF KeyFollowsJob
    <3> QED BY <2>1, <2>2, <3>1, <3>2, Zenon
  <2>4. deKey' = [job |-> j, ttl |-> ttl] /\ simple' = IF ~ttl THEN {j} ELSE {}
    BY <1>3, <2>3, Zenon DEF StoreJob
  <2> QED BY <2>4, Zenon DEF KeyFollowsJob, Live
<1> QED BY <1>2, <1>3, Zenon

-----------------------------------------------------------------------------
(* Adding *)

\* Where a job is stored that is not there yet, nothing else changes.
LEMMA StoreJobTypes ==
  ASSUME AdminInv, NEW j \in Job, NEW ttl \in BOOLEAN, StoreJob(j, ttl)
  PROVE  /\ Keys'
         /\ hash' = hash \cup {j} /\ logs' = logs
         /\ j \notin hash /\ j \notin active /\ lock[j] = NoWorker
         /\ \A k \in Job \ {j} : inc'[k] = inc[k]
<1>1. /\ hash' = hash \cup {j} /\ logs' = logs /\ j \notin hash
      /\ inc' = [inc EXCEPT ![j] = @ + 1]
  BY Zenon DEF StoreJob
<1>2. Keys /\ Holders /\ Alone(j) /\ LocksMatchIncarnation
  BY Zenon DEF AdminInv
<1>3. inc' \in [Job -> Nat]
  BY <1>1, <1>2 DEF Keys
<1>4. repeat' \subseteq Scheduled /\ simple' \subseteq Unique
  BY <1>2, Zenon DEF Keys, StoreJob
<1>5. deKey' \in [job : Unique \cup {NoJob}, ttl : BOOLEAN]
  BY <1>2, Zenon DEF Keys, StoreJob
<1>6. j \notin active
  BY <1>1, <1>2, Zenon DEF Alone
<1>7. lock[j] = NoWorker
  BY <1>2, <1>6, Zenon DEF Holders, LocksMatchIncarnation
<1>8. \A k \in Job \ {j} : inc'[k] = inc[k]
  BY <1>1, <1>2, Zenon DEF Keys
<1> QED BY <1>1, <1>3, <1>4, <1>5, <1>6, <1>7, <1>8, Zenon DEF Keys

\* Add of a job that is to be done at once.
LEMMA AddJobStep ==
  ASSUME AdminInv, NEW j \in Job, NEW ttl \in BOOLEAN, AddJob(j, ttl)
  PROVE  AdminInv'
<1>1. StoreJob(j, ttl) /\ Enqueue(j)
  BY Zenon DEF AddJob
<1>2. UNCHANGED <<legacy, delayed, completed, failed, active, stalled, lock, cur, paused, round>>
  BY Zenon DEF AddJob, endVars, workVars
<1>3. /\ Keys' /\ hash' = hash \cup {j} /\ logs' = logs
      /\ j \notin hash /\ j \notin active /\ lock[j] = NoWorker
      /\ \A k \in Job \ {j} : inc'[k] = inc[k]
  BY <1>1, StoreJobTypes, Zenon
<1>4. /\ Lists /\ Short(completed) /\ Short(failed) /\ Sets /\ Holders /\ Rounds
      /\ (\A k \in Job : Alone(k)) /\ logs \subseteq hash /\ LocksMatchIncarnation
  BY Zenon DEF AdminInv
<1>5. /\ NoDup(wait')
      /\ \/ Range(wait') = Range(wait) \cup {j} /\ prioritized' = prioritized
         \/ Range(wait') = Range(wait) /\ prioritized' = prioritized \cup {j}
  BY <1>1, <1>3, <1>4, Enqueued, Zenon DEF Lists, Alone
<1>6. Lists' /\ Short(completed)' /\ Short(failed)' /\ Rounds'
  BY <1>2, <1>4, <1>5, Zenon DEF Lists, Short, Rounds
<1>7. Sets' /\ Holders' /\ (logs \subseteq hash)'
  BY <1>2, <1>3, <1>4, <1>5, Zenon DEF Sets, Holders
<1>8. ASSUME NEW k \in Job PROVE Alone(k)'
  BY <1>2, <1>3, <1>4, <1>5, Zenon DEF Alone
<1>9. LocksMatchIncarnation'
  BY <1>2, <1>3, <1>4, AdminAssumption, Zenon DEF LocksMatchIncarnation
<1>10. Live' = Live \cup {j}
  BY <1>2, <1>5, Zenon DEF Live, Pending
<1>11. KeyFollowsJob'
  BY <1>1, <1>10, KeyStored, Zenon
<1> QED BY <1>3, <1>6, <1>7, <1>8, <1>9, <1>11, Zenon DEF AdminInv

\* Add of a job with a delay.
LEMMA AddDelayedJobStep ==
  ASSUME AdminInv, NEW j \in Job, NEW ttl \in BOOLEAN, AddDelayedJob(j, ttl)
  PROVE  AdminInv'
<1>1. StoreJob(j, ttl)
  BY Zenon DEF AddDelayedJob
<1>2. /\ UNCHANGED <<wait, prioritized, legacy, completed, failed, active, stalled, lock, cur>>
      /\ UNCHANGED <<paused, round>>
      /\ delayed' = delayed \cup {j}
  BY Zenon DEF AddDelayedJob, endVars, workVars
<1>3. /\ Keys' /\ hash' = hash \cup {j} /\ logs' = logs
      /\ j \notin hash /\ j \notin active /\ lock[j] = NoWorker
      /\ \A k \in Job \ {j} : inc'[k] = inc[k]
  BY <1>1, StoreJobTypes, Zenon
<1>4. /\ Lists /\ Short(completed) /\ Short(failed) /\ Sets /\ Holders /\ Rounds
      /\ (\A k \in Job : Alone(k)) /\ logs \subseteq hash /\ LocksMatchIncarnation
  BY Zenon DEF AdminInv
<1>5. Lists' /\ Short(completed)' /\ Short(failed)' /\ Rounds'
  BY <1>2, <1>4, Zenon DEF Lists, Short, Rounds
<1>6. Sets' /\ Holders' /\ (logs \subseteq hash)'
  BY <1>2, <1>3, <1>4, Zenon DEF Sets, Holders
<1>7. ASSUME NEW k \in Job PROVE Alone(k)'
  BY <1>2, <1>3, <1>4, Zenon DEF Alone
<1>8. LocksMatchIncarnation'
  BY <1>2, <1>3, <1>4, AdminAssumption, Zenon DEF LocksMatchIncarnation
<1>9. Live' = Live \cup {j}
  BY <1>2, Zenon DEF Live, Pending
<1>10. KeyFollowsJob'
  BY <1>1, <1>9, KeyStored, Zenon
<1> QED BY <1>3, <1>5, <1>6, <1>7, <1>8, <1>10, Zenon DEF AdminInv

\* The window of a deduplication key with TTL ends.
LEMMA DedupKeyExpiresStep ==
  ASSUME AdminInv, DedupKeyExpires
  PROVE  AdminInv'
<1>1. /\ deKey.ttl /\ deKey' = NoKey
      /\ UNCHANGED <<wait, legacy, prioritized, delayed, completed, failed, active, stalled>>
      /\ UNCHANGED <<hash, logs, simple, inc, repeat, lock, cur, paused, round>>
  BY Zenon DEF DedupKeyExpires, listVars, endVars, workVars
<1>2. simple = {}
  BY <1>1 DEF AdminInv, KeyFollowsJob
<1>3. KeyFollowsJob'
  BY <1>1, <1>2, Zenon DEF KeyFollowsJob, NoKey
<1>4. Keys'
  BY <1>1, Zenon DEF AdminInv, Keys, NoKey
<1>5. Lists' /\ Short(completed)' /\ Short(failed)' /\ Sets' /\ Holders' /\ Rounds'
  BY <1>1, Zenon DEF AdminInv, Lists, Short, Sets, Holders, Rounds
<1>6. (\A j \in Job : Alone(j))' /\ (logs \subseteq hash)' /\ LocksMatchIncarnation'
  BY <1>1, Zenon DEF AdminInv, Alone, LocksMatchIncarnation
<1> QED BY <1>3, <1>4, <1>5, <1>6, Zenon DEF AdminInv

-----------------------------------------------------------------------------
(* The inspector *)

\* A list of finished jobs stays within the limits when jobs are taken out.
LEMMA ShorterIsShort ==
  ASSUME NEW list, NoDup(list), NEW shorter, NoDup(shorter), Len(shorter) <= Len(list),
         Short(list)
  PROVE  Short(shorter)
<1>1. Len(list) \in Nat /\ Len(shorter) \in Nat
  BY DEF NoDup
<1>2. CASE list = <<>>
  <2>1. Len(shorter) = 0
    BY <1>1, <1>2
  <2>2. shorter = <<>>
    BY <2>1 DEF NoDup
  <2> QED BY <2>2, Zenon DEF Short
<1>3. CASE \E j \in Job : Len(list) <= Keep[j]
  <2>1. PICK j \in Job : Len(list) <= Keep[j]
    BY <1>3, Zenon
  <2>2. Keep[j] \in Nat
    BY AdminAssumption, Zenon
  <2>3. Len(shorter) <= Keep[j]
    BY <1>1, <2>1, <2>2
  <2> QED BY <2>3, Zenon DEF Short
<1> QED BY <1>2, <1>3, Zenon DEF Short

\* RemoveJob of a job that is not locked.
LEMMA RemoveJobStep ==
  ASSUME AdminInv, NEW j \in Job, RemoveJob(j)
  PROVE  AdminInv'
<1>1. /\ wait' = Without(wait, j) /\ legacy' = Without(legacy, j)
      /\ prioritized' = prioritized \ {j} /\ delayed' = delayed \ {j}
      /\ completed' = Without(completed, j) /\ failed' = Without(failed, j)
      /\ active' = active \ {j}
  BY Zenon DEF RemoveJob, RemoveJobWithChildren, RemoveFromAnyState
<1>2. /\ hash' = hash \ {j} /\ logs' = logs \ {j}
      /\ simple' = simple \ {j} /\ deKey' = DeKeyAfterRemoval({j})
      /\ UNCHANGED <<inc, repeat, stalled, lock, cur, paused, round>>
      /\ lock[j] = NoWorker
  BY Zenon DEF RemoveJob, RemoveJobWithChildren, RemoveJobKeys, Removable
<1>3. /\ Lists /\ Short(completed) /\ Short(failed) /\ Sets /\ Keys /\ Holders /\ Rounds
      /\ (\A k \in Job : Alone(k)) /\ logs \subseteq hash /\ LocksMatchIncarnation
      /\ KeyFollowsJob
  BY Zenon DEF AdminInv
<1>4. NoDup(wait') /\ Range(wait') = Range(wait) \ {j}
  BY <1>1, <1>3, NoDupWithout, Zenon DEF Lists
<1>5. NoDup(legacy') /\ Range(legacy') = Range(legacy) \ {j}
  BY <1>1, <1>3, NoDupWithout, Zenon DEF Lists
<1>6. NoDup(completed') /\ Range(completed') = Range(completed) \ {j} /\ Len(completed') <= Len(completed)
  BY <1>1, <1>3, NoDupWithout, Zenon DEF Lists
<1>7. NoDup(failed') /\ Range(failed') = Range(failed) \ {j} /\ Len(failed') <= Len(failed)
  BY <1>1, <1>3, NoDupWithout, Zenon DEF Lists
<1>8. Lists'
  BY <1>4, <1>5, <1>6, <1>7, Zenon DEF Lists
<1>9. Short(completed')
  BY <1>3, <1>6, ShorterIsShort, Zenon DEF Lists
<1>10. Short(failed')
  BY <1>3, <1>7, ShorterIsShort, Zenon DEF Lists
<1>11. Short(completed)' /\ Short(failed)'
  BY <1>9, <1>10, Zenon DEF Short
<1>12. Sets' /\ Holders' /\ Rounds' /\ (logs \subseteq hash)'
  BY <1>1, <1>2, <1>3, Zenon DEF Sets, Holders, Rounds
<1>13. ASSUME NEW k \in Job PROVE Alone(k)'
  <2>1. Alone(k)
    BY <1>3, Zenon
  <2>2. CASE k = j
    BY <1>1, <1>2, <1>4, <1>5, <1>6, <1>7, <2>2, Zenon DEF Alone
  <2>3. CASE k # j
    BY <1>1, <1>2, <1>4, <1>5, <1>6, <1>7, <2>1, <2>3, Zenon DEF Alone
  <2> QED BY <2>2, <2>3, Zenon
<1>14. LocksMatchIncarnation'
  BY <1>1, <1>2, <1>3, AdminAssumption, ZenonT(30) DEF LocksMatchIncarnation
<1>15. Live' = Live \ {j}
  BY <1>1, <1>4, <1>5, Zenon DEF Live, Pending
<1>16. deKey' = IF deKey.job = j /\ j \in hash THEN NoKey ELSE deKey
  BY <1>2, Zenon DEF DeKeyAfterRemoval
<1>17. Keys'
  BY <1>2, <1>3, <1>16, NoKeyType, Zenon DEF Keys
<1>18. KeyFollowsJob'
  <2>1. deKey.job = j /\ ~deKey.ttl => j \in hash
    BY <1>3, MembersAreJobs, AdminAssumption, Zenon DEF KeyFollowsJob, Live
  <2> QED BY <1>2, <1>3, <1>15, <1>16, <2>1, KeyKept, Zenon
<1> QED BY <1>8, <1>11, <1>12, <1>13, <1>14, <1>17, <1>18, Zenon DEF AdminInv

\* PromoteJob moves a delayed job.
LEMMA PromoteJobStep ==
  ASSUME AdminInv, NEW j \in Job, PromoteJob(j)
  PROVE  AdminInv' /\ hash' = hash
<1>1. /\ j \in delayed /\ delayed' = delayed \ {j} /\ Enqueue(j) /\ hash' = hash \cup {j}
      /\ UNCHANGED <<legacy, completed, failed, logs, deKey, simple, inc, repeat>>
      /\ UNCHANGED <<active, stalled, lock, cur, paused, round>>
  BY Zenon DEF PromoteJob, Promoted, endVars, workVars
<1>2. /\ Lists /\ Short(completed) /\ Short(failed) /\ Sets /\ Keys /\ Holders /\ Rounds
      /\ (\A k \in Job : Alone(k)) /\ logs \subseteq hash /\ LocksMatchIncarnation
      /\ KeyFollowsJob
  BY Zenon DEF AdminInv
<1>3. j \notin Range(wait) /\ j \in hash
  BY <1>1, <1>2, Zenon DEF Alone
<1>4. hash' = hash
  BY <1>1, <1>3, Zenon
<1>5. /\ NoDup(wait')
      /\ \/ Range(wait') = Range(wait) \cup {j} /\ prioritized' = prioritized
         \/ Range(wait') = Range(wait) /\ prioritized' = prioritized \cup {j}
  BY <1>1, <1>2, <1>3, Enqueued, Zenon DEF Lists
<1>6. Lists' /\ Short(completed)' /\ Short(failed)' /\ Keys' /\ Holders' /\ Rounds'
  BY <1>1, <1>2, <1>5, Zenon DEF Lists, Short, Keys, Holders, Rounds
<1>7. Sets' /\ (logs \subseteq hash)'
  BY <1>1, <1>2, <1>4, <1>5, Zenon DEF Sets
<1>8. ASSUME NEW k \in Job PROVE Alone(k)'
  <2>1. Alone(k)
    BY <1>2, Zenon
  <2> QED BY <1>1, <1>4, <1>5, <2>1, Zenon DEF Alone
<1>9. LocksMatchIncarnation'
  BY <1>1, <1>2, Zenon DEF LocksMatchIncarnation
<1>10. Live' = Live
  BY <1>1, <1>5, Zenon DEF Live, Pending
<1>11. KeyFollowsJob'
  BY <1>1, <1>2, <1>10, Zenon DEF KeyFollowsJob, Live
<1> QED BY <1>4, <1>6, <1>7, <1>8, <1>9, <1>11, Zenon DEF AdminInv

\* RetryJob moves a finished job back.
LEMMA RetryJobStep ==
  ASSUME AdminInv, NEW j \in Job, NEW fromState \in {"failed", "completed"},
         RetryJob(j, fromState)
  PROVE  AdminInv' /\ hash' = hash
<1>1. /\ j \in Range(IF fromState = "failed" THEN failed ELSE completed)
      /\ failed' = IF fromState = "failed" THEN Without(failed, j) ELSE failed
      /\ completed' = IF fromState = "completed" THEN Without(completed, j) ELSE completed
      /\ Enqueue(j)
      /\ UNCHANGED <<legacy, delayed, hash, logs, deKey, simple, inc, repeat>>
      /\ UNCHANGED <<active, stalled, lock, cur, paused, round>>
  BY Zenon DEF RetryJob, Reprocessed, keyVars, workVars
<1>2. /\ Lists /\ Short(completed) /\ Short(failed) /\ Sets /\ Keys /\ Holders /\ Rounds
      /\ (\A k \in Job : Alone(k)) /\ logs \subseteq hash /\ LocksMatchIncarnation
      /\ KeyFollowsJob
  BY Zenon DEF AdminInv
<1>3. /\ NoDup(Without(failed, j)) /\ Range(Without(failed, j)) = Range(failed) \ {j}
      /\ Len(Without(failed, j)) <= Len(failed)
  BY <1>2, NoDupWithout, Zenon DEF Lists
<1>4. /\ NoDup(Without(completed, j)) /\ Range(Without(completed, j)) = Range(completed) \ {j}
      /\ Len(Without(completed, j)) <= Len(completed)
  BY <1>2, NoDupWithout, Zenon DEF Lists
<1>5. Short(Without(failed, j)) /\ Short(Without(completed, j))
  BY <1>2, <1>3, <1>4, ShorterIsShort, Zenon DEF Lists
<1>6. NoDup(failed') /\ NoDup(completed') /\ Short(failed') /\ Short(completed')
  BY <1>1, <1>2, <1>3, <1>4, <1>5, Zenon DEF Lists
<1>7. /\ Range(failed') \cup Range(completed') = (Range(failed) \cup Range(completed)) \ {j}
      /\ Range(failed') \subseteq Range(failed) /\ Range(completed') \subseteq Range(completed)
      /\ j \in Range(failed) \cup Range(completed)
  <2>1. Alone(j)
    BY <1>2, Zenon
  <2>2. CASE fromState = "failed"
    BY <1>1, <1>3, <2>1, <2>2, Zenon DEF Alone
  <2>3. CASE fromState = "completed"
    BY <1>1, <1>4, <2>1, <2>3, Zenon DEF Alone
  <2> QED BY <2>2, <2>3, Zenon
<1>8. j \notin Range(wait)
  BY <1>2, <1>7, Zenon DEF Alone
<1>9. /\ NoDup(wait')
      /\ \/ Range(wait') = Range(wait) \cup {j} /\ prioritized' = prioritized
         \/ Range(wait') = Range(wait) /\ prioritized' = prioritized \cup {j}
  BY <1>1, <1>2, <1>8, Enqueued, Zenon DEF Lists
<1>10. Lists' /\ Short(completed)' /\ Short(failed)'
  BY <1>1, <1>2, <1>6, <1>9, Zenon DEF Lists, Short
<1>11. Sets' /\ Keys' /\ Holders' /\ Rounds' /\ (logs \subseteq hash)'
  BY <1>1, <1>2, <1>9, Zenon DEF Sets, Keys, Holders, Rounds
<1>12. ASSUME NEW k \in Job PROVE Alone(k)'
  <2>1. Alone(k)
    BY <1>2, Zenon
  <2>2. /\ k \in Range(failed') \/ k \in Range(completed')
           <=> k # j /\ (k \in Range(failed) \/ k \in Range(completed))
        /\ k \in Range(failed') => k \in Range(failed)
        /\ k \in Range(completed') => k \in Range(completed)
    BY <1>7, Zenon
  <2>3. CASE k = j
    BY <1>1, <1>7, <1>9, <2>1, <2>2, <2>3, Zenon DEF Alone
  <2>4. CASE k # j
    BY <1>1, <1>9, <2>1, <2>2, <2>4, Zenon DEF Alone
  <2> QED BY <2>3, <2>4, Zenon
<1>13. LocksMatchIncarnation'
  BY <1>1, <1>2, Zenon DEF LocksMatchIncarnation
<1>14. Live' = Live \cup {j}
  BY <1>1, <1>9, Zenon DEF Live, Pending
<1>15. KeyFollowsJob'
  BY <1>1, <1>2, <1>14, Zenon DEF KeyFollowsJob, Live
<1> QED BY <1>1, <1>10, <1>11, <1>12, <1>13, <1>15, Zenon DEF AdminInv

\* A list without protected instances is trimmed to nothing.
LEMMA TrimmedClean ==
  ASSUME NEW list, NoDup(list), Range(list) \cap repeat = {}
  PROVE  Trimmed(list) = <<>>
<1>1. list \in Seq(Job) /\ Len(list) \in Nat /\ DOMAIN list = 1..Len(list)
  BY DEF NoDup
<1>2. \A i \in DOMAIN list : list[i] \in Range(list)
  BY Zenon DEF Range
<1>3. { i \in DOMAIN list : list[i] \notin repeat } = 1..Len(list)
  BY <1>1, <1>2, Zenon
<1>4. Cardinality(1..Len(list)) = Len(list)
  <2>1. Len(list) - 1 + 1 = Len(list) /\ 1 \in Int /\ Len(list) \in Int
    BY <1>1
  <2>2. Cardinality(1..Len(list)) = IF 1 > Len(list) THEN 0 ELSE Len(list) - 1 + 1
    BY <2>1, FS_Interval, Zenon
  <2> QED BY <2>1, <2>2, <1>1
<1>5. Trimmed(list) = SubSeq(list, Len(list) + 1, Len(list))
  BY <1>3, <1>4, Zenon DEF Trimmed
<1> QED BY <1>1, <1>5

\* DrainPending of a queue without protected instances in the lists.
LEMMA DrainPendingStep ==
  ASSUME AdminInv, NEW withDelayed \in BOOLEAN, DrainPending(withDelayed), DrainIsClean
  PROVE  AdminInv' /\ hash' \subseteq hash
<1> DEFINE gone == Drained(withDelayed)
<1>1. /\ wait' = Trimmed(wait) /\ legacy' = Trimmed(legacy)
      /\ prioritized' = prioritized \cap repeat
      /\ delayed' = delayed \ gone
      /\ deKey' = DeKeyAfterRemoval(gone)
      /\ hash' = hash \ gone /\ logs' = logs \ gone
      /\ simple' = simple \ gone
      /\ UNCHANGED <<completed, failed, inc, repeat, active, stalled, lock, cur, paused, round>>
  BY Zenon DEF DrainPending, RemoveJobKeys, endVars, workVars
<1>2. /\ Lists /\ Short(completed) /\ Short(failed) /\ Sets /\ Keys /\ Holders /\ Rounds
      /\ (\A k \in Job : Alone(k)) /\ logs \subseteq hash /\ LocksMatchIncarnation
      /\ KeyFollowsJob
  BY Zenon DEF AdminInv
<1>3. Range(wait) \cap repeat = {} /\ Range(legacy) \cap repeat = {}
  BY Zenon DEF DrainIsClean
<1>4. wait' = <<>> /\ legacy' = <<>>
  BY <1>1, <1>2, <1>3, TrimmedClean, Zenon DEF Lists
<1>5. NoDup(wait') /\ NoDup(legacy') /\ Range(wait') = {} /\ Range(legacy') = {}
  BY <1>4, NoDupEmpty, Zenon
<1>6. /\ Range(wait) \subseteq gone /\ Range(legacy) \subseteq gone
      /\ prioritized \ repeat \subseteq gone
      /\ gone \subseteq Range(wait) \cup Range(legacy) \cup prioritized \cup delayed
      /\ gone \cap repeat = {}
  BY <1>3, Zenon DEF Drained
<1> HIDE DEF gone
<1>7. Lists' /\ Short(completed)' /\ Short(failed)' /\ Holders' /\ Rounds'
  BY <1>1, <1>2, <1>5, Zenon DEF Lists, Short, Holders, Rounds
<1>8. Sets' /\ (logs \subseteq hash)'
  BY <1>1, <1>2, Zenon DEF Sets
<1>9. ASSUME NEW k \in Job PROVE Alone(k)'
  <2>1. Alone(k)
    BY <1>2, Zenon
  <2>2. CASE k \in gone
    <3>1. k \notin hash' /\ k \notin delayed' /\ k \notin Range(wait') /\ k \notin Range(legacy')
      BY <1>1, <1>5, <2>2, Zenon
    <3>2. k \notin prioritized'
      BY <1>1, <1>6, <2>2, Zenon
    <3>3. k \in Range(wait) \/ k \in Range(legacy) \/ k \in prioritized \/ k \in delayed
      BY <1>6, <2>2, Zenon
    <3>4. k \notin active' /\ k \notin Range(completed') /\ k \notin Range(failed')
      BY <1>1, <2>1, <3>3, Zenon DEF Alone
    <3> QED BY <3>1, <3>2, <3>4, Zenon DEF Alone
  <2>3. CASE k \notin gone
    <3>1. k \notin Range(wait) /\ k \notin Range(legacy) /\ (k \in prioritized <=> k \in prioritized')
      BY <1>1, <1>6, <2>3, Zenon
    <3>2. /\ k \notin Range(wait') /\ k \notin Range(legacy')
          /\ (k \in delayed' <=> k \in delayed) /\ (k \in hash' <=> k \in hash)
      BY <1>1, <1>5, <2>3, Zenon
    <3> QED BY <1>1, <2>1, <3>1, <3>2, Zenon DEF Alone
  <2> QED BY <2>2, <2>3, Zenon
<1>10. LocksMatchIncarnation'
  BY <1>1, <1>2, Zenon DEF LocksMatchIncarnation
<1>11. Live \ gone \subseteq Live'
  BY <1>1, <1>6, Zenon DEF Live, Pending
<1>12. deKey' = IF deKey.job \in gone /\ deKey.job \in hash THEN NoKey ELSE deKey
  BY <1>1, Zenon DEF DeKeyAfterRemoval
<1>13. Keys'
  BY <1>1, <1>2, <1>12, NoKeyType, Zenon DEF Keys
<1>14. KeyFollowsJob'
  <2>1. gone \subseteq hash
    BY <1>6, MembersAreJobs, Zenon DEF Live, Pending
  <2> QED BY <1>1, <1>2, <1>11, <1>12, <2>1, KeyKept, Zenon
<1> QED BY <1>1, <1>7, <1>8, <1>9, <1>10, <1>13, <1>14, Zenon DEF AdminInv

\* One round of Resume moves jobs of the paused list.
LEMMA ResumeStep ==
  ASSUME AdminInv, Resume
  PROVE  AdminInv' /\ hash' = hash
<1>1. /\ paused' = FALSE
      /\ wait' = IF legacy = <<>> THEN wait ELSE Resumed[1]
      /\ legacy' = IF legacy = <<>> THEN legacy ELSE Resumed[2]
      /\ round' = IF legacy' # <<>> /\ round + 1 < MaxRounds THEN round + 1 ELSE 0
      /\ UNCHANGED <<prioritized, delayed, completed, failed, hash, logs, deKey, simple>>
      /\ UNCHANGED <<inc, repeat, active, stalled, lock, cur>>
  BY Zenon DEF Resume, endVars, keyVars, workVars
<1>2. /\ Lists /\ Short(completed) /\ Short(failed) /\ Sets /\ Keys /\ Holders /\ Rounds
      /\ (\A k \in Job : Alone(k)) /\ logs \subseteq hash /\ LocksMatchIncarnation
      /\ KeyFollowsJob
  BY Zenon DEF AdminInv
<1>3. /\ NoDup(wait') /\ NoDup(legacy')
      /\ Range(wait') \cap Range(legacy') = {}
      /\ Range(wait') \cup Range(legacy') = Range(wait) \cup Range(legacy)
  <2>0. NoDup(wait) /\ NoDup(legacy) /\ Range(wait) \cap Range(legacy) = {}
    <3>1. Range(wait) \subseteq Job
      BY MembersAreJobs, Zenon
    <3> QED BY <1>2, <3>1, Zenon DEF Lists, Alone
  <2>1. CASE legacy = <<>>
    BY <1>1, <2>0, <2>1, Zenon
  <2>2. CASE legacy # <<>> /\ wait = <<>>
    <3>1. wait' = legacy /\ legacy' = <<>>
      BY <1>1, <2>2, Zenon DEF Resumed
    <3> QED BY <2>0, <2>2, <3>1, NoDupEmpty, Zenon
  <2>3. CASE legacy # <<>> /\ wait # <<>>
    <3> DEFINE n == IF Len(legacy) < ResumeBatch THEN Len(legacy) ELSE ResumeBatch
               t == SubSeq(legacy, 1, n)
               u == SubSeq(legacy, n + 1, Len(legacy))
    <3>1. wait' = wait \o t /\ legacy' = u
      BY <1>1, <2>3, ZenonT(30) DEF Resumed
    <3>2. n \in 0..Len(legacy)
      BY <2>0, AdminAssumption DEF NoDup
    <3> HIDE DEF n
    <3>3. /\ NoDup(t) /\ NoDup(u) /\ Range(t) \cap Range(u) = {}
          /\ Range(t) \cup Range(u) = Range(legacy)
      BY <2>0, <3>2, NoDupSplit, Zenon
    <3> HIDE DEF t, u
    <3>4. NoDup(wait \o t) /\ Range(wait \o t) = Range(wait) \cup Range(t)
      BY <2>0, <3>3, NoDupConcat, ZenonT(30)
    <3> QED BY <2>0, <3>1, <3>3, <3>4, Zenon
  <2> QED BY <2>1, <2>2, <2>3, Zenon
<1>4. Lists' /\ Short(completed)' /\ Short(failed)' /\ Sets' /\ Keys' /\ Holders'
  BY <1>1, <1>2, <1>3, Zenon DEF Lists, Short, Sets, Keys, Holders
<1>5. Rounds'
  <2>1. round \in Nat /\ MaxRounds \in Nat \ {0}
    BY <1>2, AdminAssumption DEF Rounds
  <2>2. round' = 0 \/ (round' = round + 1 /\ round + 1 < MaxRounds)
    BY <1>1, Zenon
  <2>3. round' \in 0..MaxRounds - 1
    BY <2>1, <2>2
  <2> QED BY <1>1, <2>3, Zenon DEF Rounds
<1>6. ASSUME NEW k \in Job PROVE Alone(k)'
  <2>1. Alone(k)
    BY <1>2, Zenon
  <2>2. /\ k \in Range(wait') \/ k \in Range(legacy') <=> k \in Range(wait) \/ k \in Range(legacy)
        /\ k \in Range(wait') => k \notin Range(legacy')
    BY <1>3, Zenon
  <2> QED BY <1>1, <2>1, <2>2, Zenon DEF Alone
<1>7. (logs \subseteq hash)' /\ LocksMatchIncarnation'
  BY <1>1, <1>2, Zenon DEF LocksMatchIncarnation
<1>8. Live' = Live
  BY <1>1, <1>3, Zenon DEF Live, Pending
<1>9. KeyFollowsJob'
  BY <1>1, <1>2, <1>8, Zenon DEF KeyFollowsJob, Live
<1> QED BY <1>1, <1>4, <1>5, <1>6, <1>7, <1>9, Zenon DEF AdminInv

\* Pausing, and writing to a job that exists.
LEMMA PauseMutateStep ==
  ASSUME AdminInv, Pause \/ \E j \in Job : MutateJob(j)
  PROVE  AdminInv' /\ hash' = hash
<1>1. /\ UNCHANGED <<wait, legacy, prioritized, delayed, completed, failed, hash, deKey, simple>>
      /\ UNCHANGED <<inc, repeat, active, stalled, lock, cur, round>>
      /\ paused' \in {TRUE, paused}
      /\ logs \subseteq logs' /\ logs' \subseteq logs \cup hash
  <2>1. CASE Pause
    BY <2>1, Zenon DEF Pause, listVars, endVars, keyVars, workVars
  <2>2. CASE \E j \in Job : MutateJob(j)
    <3>1. PICK j \in Job : MutateJob(j)
      BY <2>2, Zenon
    <3>2. j \in hash /\ hash' \in {hash, hash \cup {j}} /\ logs' \in {logs, logs \cup {j}}
      BY <3>1, Zenon DEF MutateJob
    <3>3. hash' = hash /\ logs \subseteq logs' /\ logs' \subseteq logs \cup hash
      BY <3>2, Zenon
    <3>4. UNCHANGED <<listVars, endVars, deKey, simple, inc, repeat, workVars, paused, round>>
      BY <3>1, Zenon DEF MutateJob
    <3> QED BY <3>3, <3>4, Zenon DEF listVars, endVars, workVars
  <2> QED BY <2>1, <2>2, Zenon
<1>2. Lists' /\ Short(completed)' /\ Short(failed)' /\ Keys' /\ Holders' /\ Rounds'
  BY <1>1, Zenon DEF AdminInv, Lists, Short, Keys, Holders, Rounds
<1>3. Sets' /\ (logs \subseteq hash)'
  BY <1>1, Zenon DEF AdminInv, Sets
<1>4. (\A j \in Job : Alone(j))' /\ LocksMatchIncarnation' /\ KeyFollowsJob'
  BY <1>1, ZenonT(30) DEF AdminInv, Alone, LocksMatchIncarnation, KeyFollowsJob, Pending
<1> QED BY <1>1, <1>2, <1>3, <1>4, Zenon DEF AdminInv

-----------------------------------------------------------------------------
(* Workers *)

\* moveToActive with the due jobs, pushed in the given order: it takes none, the
\* next one of wait, or one with a priority.
Fetches(w, due, order) ==
  /\ delayed' = delayed \ due
  /\ \/ /\ wait' = order \o wait
        /\ prioritized' = prioritized \cup (due \cap PriorityJobs)
        /\ UNCHANGED <<active, lock, cur, hash>>
     \/ /\ order \o wait # <<>>
        /\ wait' = SubSeq(order \o wait, 1, Len(order \o wait) - 1)
        /\ prioritized' = prioritized \cup (due \cap PriorityJobs)
        /\ LET j == (order \o wait)[Len(order \o wait)]
           IN  /\ active' = active \cup {j}
               /\ lock' = [lock EXCEPT ![j] = w]
               /\ cur' = [cur EXCEPT ![w] = [job |-> j, inc |-> inc[j]]]
               /\ hash' = hash \cup {j}
     \/ /\ wait' = order \o wait
        /\ \E j \in prioritized \cup (due \cap PriorityJobs) :
               /\ prioritized' = (prioritized \cup (due \cap PriorityJobs)) \ {j}
               /\ active' = active \cup {j}
               /\ lock' = [lock EXCEPT ![j] = w]
               /\ cur' = [cur EXCEPT ![w] = [job |-> j, inc |-> inc[j]]]
               /\ hash' = hash \cup {j}

\* moveToActive: promoting keeps the job live, and one that is taken was pending.
LEMMA MoveToActiveEffect ==
  ASSUME AdminInv, NEW w \in Worker, MoveToActive(w)
  PROVE  /\ NoDup(wait')
         /\ Range(wait') \cap prioritized' = {}
         /\ delayed' \subseteq delayed
         /\ prioritized' \subseteq Job
         /\ UNCHANGED <<legacy, completed, failed, logs, deKey, simple, inc, repeat>>
         /\ UNCHANGED <<stalled, paused, round>>
         /\ cur[w] = Idle
         /\ \/ /\ Range(wait') \cup prioritized' \cup delayed'
                    = Range(wait) \cup prioritized \cup delayed
               /\ (Range(wait') \cup prioritized') \cap delayed' = {}
               /\ UNCHANGED <<active, lock, cur, hash>>
            \/ \E j \in Range(wait) \cup prioritized \cup delayed :
                 /\ Range(wait') \cup prioritized' \cup delayed'
                      = (Range(wait) \cup prioritized \cup delayed) \ {j}
                 /\ (Range(wait') \cup prioritized') \cap delayed' = {}
                 /\ active' = active \cup {j}
                 /\ lock' = [lock EXCEPT ![j] = w]
                 /\ cur' = [cur EXCEPT ![w] = [job |-> j, inc |-> inc[j]]]
                 /\ hash' = hash \cup {j}
<1>0. PICK due \in SUBSET delayed : \E order \in Orders(due \ PriorityJobs) : Fetches(w, due, order)
  BY ZenonT(30) DEF MoveToActive, Fetches
<1>1. PICK order \in Orders(due \ PriorityJobs) : Fetches(w, due, order)
  BY <1>0, Zenon
<1>2. /\ UNCHANGED <<legacy, completed, failed, logs, deKey, simple, inc, repeat>>
      /\ UNCHANGED <<stalled, paused, round>>
      /\ cur[w] = Idle
  BY Zenon DEF MoveToActive, endVars
<1> DEFINE waiting == order \o wait
           ranked == prioritized \cup (due \cap PriorityJobs)
<1>3. /\ NoDup(wait) /\ delayed \subseteq Job /\ prioritized \subseteq Job /\ Range(wait) \subseteq Job
      /\ Range(wait) \cap prioritized = {} /\ Range(wait) \cap delayed = {}
      /\ prioritized \cap delayed = {}
  <2>1. NoDup(wait) /\ delayed \subseteq Job /\ prioritized \subseteq Job /\ Range(wait) \subseteq Job
    BY MembersAreJobs, Zenon DEF AdminInv, Lists, Sets
  <2>2. \A j \in Job : Alone(j)
    BY Zenon DEF AdminInv
  <2> QED BY <2>1, <2>2, Zenon DEF Alone
<1>4. NoDup(order) /\ Range(order) = due \ PriorityJobs
  <2>1. due \ PriorityJobs \in SUBSET Job
    BY <1>3, Zenon
  <2> QED BY <2>1, OrdersNoDup, JobsCounted, Zenon
<1>5. NoDup(waiting) /\ Range(waiting) = Range(wait) \cup (due \ PriorityJobs)
  BY <1>3, <1>4, NoDupConcat, SMTT(30)
<1>6. /\ Range(waiting) \cap ranked = {}
      /\ Range(waiting) \cup ranked \cup delayed' = Range(wait) \cup prioritized \cup delayed
      /\ (Range(waiting) \cup ranked) \cap delayed' = {}
      /\ delayed' \subseteq delayed /\ ranked \subseteq Job
  BY <1>1, <1>3, <1>5, Zenon DEF Fetches
<1> HIDE DEF ranked
<1>7. CASE /\ wait' = waiting /\ prioritized' = ranked
           /\ UNCHANGED <<active, lock, cur, hash>>
  BY <1>2, <1>5, <1>6, <1>7, Zenon
<1>8. CASE /\ waiting # <<>>
           /\ wait' = SubSeq(waiting, 1, Len(waiting) - 1)
           /\ prioritized' = ranked
           /\ LET j == waiting[Len(waiting)]
              IN  /\ active' = active \cup {j}
                  /\ lock' = [lock EXCEPT ![j] = w]
                  /\ cur' = [cur EXCEPT ![w] = [job |-> j, inc |-> inc[j]]]
                  /\ hash' = hash \cup {j}
  <2> DEFINE j == waiting[Len(waiting)]
  <2>1. /\ j \in Range(waiting) /\ NoDup(wait') /\ Range(wait') = Range(waiting) \ {j}
    BY <1>5, <1>8, NoDupPop, ZenonT(30)
  <2>2. /\ active' = active \cup {j}
        /\ lock' = [lock EXCEPT ![j] = w]
        /\ cur' = [cur EXCEPT ![w] = [job |-> j, inc |-> inc[j]]]
        /\ hash' = hash \cup {j}
    BY <1>8, ZenonT(30)
  <2> HIDE DEF j, waiting
  <2>3. /\ j \in Range(wait) \cup prioritized \cup delayed
        /\ Range(wait') \cup prioritized' \cup delayed'
             = (Range(wait) \cup prioritized \cup delayed) \ {j}
        /\ (Range(wait') \cup prioritized') \cap delayed' = {}
        /\ Range(wait') \cap prioritized' = {}
    BY <2>1, <1>6, <1>8, Zenon
  <2> QED BY <1>2, <1>6, <1>8, <2>1, <2>2, <2>3, ZenonT(30)
<1>9. CASE /\ wait' = waiting
           /\ \E j \in ranked :
                /\ prioritized' = ranked \ {j}
                /\ active' = active \cup {j}
                /\ lock' = [lock EXCEPT ![j] = w]
                /\ cur' = [cur EXCEPT ![w] = [job |-> j, inc |-> inc[j]]]
                /\ hash' = hash \cup {j}
  <2>1. PICK j \in ranked :
          /\ prioritized' = ranked \ {j}
          /\ active' = active \cup {j}
          /\ lock' = [lock EXCEPT ![j] = w]
          /\ cur' = [cur EXCEPT ![w] = [job |-> j, inc |-> inc[j]]]
          /\ hash' = hash \cup {j}
    BY <1>9, Zenon
  <2> HIDE DEF waiting
  <2>2. /\ j \in Range(wait) \cup prioritized \cup delayed
        /\ Range(wait') \cup prioritized' \cup delayed'
             = (Range(wait) \cup prioritized \cup delayed) \ {j}
        /\ (Range(wait') \cup prioritized') \cap delayed' = {}
        /\ Range(wait') \cap prioritized' = {}
    BY <2>1, <1>6, <1>9, SMTT(30)
  <2> QED BY <1>2, <1>5, <1>6, <1>9, <2>1, <2>2, ZenonT(30)
<1> QED BY <1>1, <1>7, <1>8, <1>9, ZenonT(30) DEF ranked, Fetches

\* moveToActive keeps the books.
LEMMA MoveToActiveStep ==
  ASSUME AdminInv, NEW w \in Worker, MoveToActive(w)
  PROVE  AdminInv' /\ hash' = hash
<1> DEFINE pool == Range(wait) \cup prioritized \cup delayed
           left == Range(wait') \cup prioritized' \cup delayed'
<1>1. /\ NoDup(wait') /\ Range(wait') \cap prioritized' = {}
      /\ delayed' \subseteq delayed /\ prioritized' \subseteq Job
      /\ UNCHANGED <<legacy, completed, failed, logs, deKey, simple, inc, repeat>>
      /\ UNCHANGED <<stalled, paused, round>>
      /\ cur[w] = Idle
      /\ (Range(wait') \cup prioritized') \cap delayed' = {}
  BY MoveToActiveEffect, Zenon
<1>2. \/ left = pool /\ UNCHANGED <<active, lock, cur, hash>>
      \/ \E j \in pool :
           /\ left = pool \ {j}
           /\ active' = active \cup {j}
           /\ lock' = [lock EXCEPT ![j] = w]
           /\ cur' = [cur EXCEPT ![w] = [job |-> j, inc |-> inc[j]]]
           /\ hash' = hash \cup {j}
  BY MoveToActiveEffect, Zenon
<1>3. /\ Lists /\ Short(completed) /\ Short(failed) /\ Sets /\ Keys /\ Holders /\ Rounds
      /\ (\A k \in Job : Alone(k)) /\ logs \subseteq hash /\ LocksMatchIncarnation
      /\ KeyFollowsJob
  BY Zenon DEF AdminInv
<1>4. Lists' /\ Short(completed)' /\ Short(failed)' /\ Keys' /\ Rounds'
  BY <1>1, <1>3, Zenon DEF Lists, Short, Keys, Rounds
<1>5. pool \subseteq hash /\ pool \subseteq Job
  BY MembersAreJobs, Zenon DEF Live, Pending
<1>6. \A k \in Job : /\ k \in left <=> k \in Range(wait') \/ k \in prioritized' \/ k \in delayed'
                     /\ k \in pool <=> k \in Range(wait) \/ k \in prioritized \/ k \in delayed
                     /\ k \in Range(wait') => k \notin prioritized' /\ k \notin delayed'
                     /\ k \in prioritized' => k \notin delayed'
  BY <1>1, Zenon
<1>7. /\ Live = pool \cup Range(legacy) \cup active
      /\ Live' = left \cup Range(legacy) \cup active'
  BY <1>1, Zenon DEF Live, Pending
<1> HIDE DEF pool, left
<1>8. CASE left = pool /\ UNCHANGED <<active, lock, cur, hash>>
  <2>1. Sets' /\ Holders' /\ (logs \subseteq hash)' /\ LocksMatchIncarnation'
    BY <1>1, <1>3, <1>8, ZenonT(30) DEF Sets, Holders, LocksMatchIncarnation
  <2>2. ASSUME NEW k \in Job PROVE Alone(k)'
    <3>1. Alone(k)
      BY <1>3, Zenon
    <3> QED BY <1>1, <1>6, <1>8, <3>1, Zenon DEF Alone
  <2>3. KeyFollowsJob'
    BY <1>1, <1>3, <1>7, <1>8, Zenon DEF KeyFollowsJob, Live
  <2> QED BY <1>4, <1>8, <2>1, <2>2, <2>3, Zenon DEF AdminInv
<1>9. CASE \E j \in pool :
             /\ left = pool \ {j}
             /\ active' = active \cup {j}
             /\ lock' = [lock EXCEPT ![j] = w]
             /\ cur' = [cur EXCEPT ![w] = [job |-> j, inc |-> inc[j]]]
             /\ hash' = hash \cup {j}
  <2>1. PICK j \in pool :
             /\ left = pool \ {j}
             /\ active' = active \cup {j}
             /\ lock' = [lock EXCEPT ![j] = w]
             /\ cur' = [cur EXCEPT ![w] = [job |-> j, inc |-> inc[j]]]
             /\ hash' = hash \cup {j}
    BY <1>9, ZenonT(30)
  <2>2. j \in Job /\ j \in hash /\ hash' = hash
    BY <1>5, <2>1, Zenon
  <2>3. inc[j] \in Nat
    BY <1>3, <2>2, Zenon DEF Keys
  <2>4. Sets' /\ (logs \subseteq hash)'
    BY <1>1, <1>3, <2>1, <2>2, Zenon DEF Sets
  <2>5. Holders'
    BY <1>3, <2>1, <2>2, <2>3, Zenon DEF Holders
  <2>6. ASSUME NEW k \in Job PROVE Alone(k)'
    <3>1. Alone(k)
      BY <1>3, Zenon
    <3>2. CASE k = j
      BY <1>1, <1>6, <2>1, <2>2, <3>1, <3>2, ZenonT(30) DEF Alone
    <3>3. CASE k # j
      BY <1>1, <1>6, <2>1, <2>2, <3>1, <3>3, ZenonT(30) DEF Alone
    <3> QED BY <3>2, <3>3, Zenon
  <2>7. LocksMatchIncarnation'
    <3> SUFFICES ASSUME NEW k \in Job, NEW v \in Worker, lock'[k] = v
                 PROVE  k \in active' /\ cur'[v] = [job |-> k, inc |-> inc'[k]]
      BY Zenon  DEF LocksMatchIncarnation
    <3>1. CASE k = j
      <4>1. v = w
        BY <1>3, <2>1, <2>2, <3>1, Zenon DEF Holders
      <4> QED BY <1>1, <1>3, <2>1, <3>1, <4>1, ZenonT(30) DEF Holders
    <3>2. CASE k # j
      <4>1. lock[k] = v
        BY <1>3, <2>1, <2>2, <3>2, Zenon DEF Holders
      <4>2. k \in active /\ cur[v] = [job |-> k, inc |-> inc[k]]
        BY <1>3, <4>1, Zenon DEF LocksMatchIncarnation
      <4>3. v # w
        <5>1. cur[v].job = k /\ k # NoJob
          BY <4>2, AdminAssumption
        <5>2. cur[w].job = NoJob
          BY <1>1 DEF Idle
        <5> QED BY <5>1, <5>2, Zenon
      <4> QED BY <1>1, <1>3, <2>1, <4>2, <4>3, ZenonT(30) DEF Holders
    <3> QED BY <3>1, <3>2, ZenonT(30)
  <2>8. KeyFollowsJob'
    <3>1. Live' = Live
      BY <1>7, <2>1, Zenon
    <3> QED BY <1>1, <1>3, <3>1, Zenon DEF KeyFollowsJob, Live
  <2> QED BY <1>4, <2>2, <2>4, <2>5, <2>6, <2>7, <2>8, Zenon DEF AdminInv
<1> QED BY <1>2, <1>8, <1>9, Zenon

\* A worker whose finalising script is accepted holds a live job, and no other
\* lock is its own.
LEMMA AcceptedHolds ==
  ASSUME AdminInv, NEW w \in Worker, Accepted(w)
  PROVE  LET j == cur[w].job
         IN  /\ j \in Job /\ j \in active /\ j \in hash /\ lock[j] = w
             /\ \A k \in Job : lock[k] = w => k = j
<1>1. cur[w].job \in hash /\ cur[w].job \in active /\ lock[cur[w].job] = w
  BY Zenon DEF Accepted
<1>2. hash \subseteq Job
  BY Zenon DEF AdminInv, Sets
<1>3. LocksMatchIncarnation
  BY Zenon DEF AdminInv
<1>4. ASSUME NEW k \in Job, lock[k] = w PROVE k = cur[w].job
  <2>1. cur[w] = [job |-> k, inc |-> inc[k]]
    BY <1>3, <1>4, Zenon DEF LocksMatchIncarnation
  <2> QED BY <2>1
<1> QED BY <1>1, <1>2, <1>4, ZenonT(30)

\* A worker that lets go of the job that it has locked.
LEMMA ReleasedLocks ==
  ASSUME AdminInv, NEW w \in Worker, Accepted(w), Releases(w), inc' = inc
  PROVE  /\ Holders' /\ LocksMatchIncarnation'
         /\ active' = active \ {cur[w].job} /\ stalled' \subseteq stalled
<1> DEFINE j == cur[w].job
<1>1. /\ j \in Job /\ j \in active /\ lock[j] = w
      /\ \A k \in Job : lock[k] = w => k = j
  BY AcceptedHolds, Zenon
<1>2. /\ active' = active \ {j} /\ stalled' = stalled \ {j}
      /\ lock' = [lock EXCEPT ![j] = NoWorker]
      /\ cur' = [cur EXCEPT ![w] = Idle]
  BY Zenon DEF Releases
<1>3. Holders /\ LocksMatchIncarnation /\ NoWorker \notin Worker
  BY AdminAssumption, Zenon DEF AdminInv
<1> HIDE DEF j
<1>4. Holders'
  BY <1>1, <1>2, <1>3, Zenon DEF Holders, Idle
<1>5. LocksMatchIncarnation'
  <2> SUFFICES ASSUME NEW k \in Job, NEW v \in Worker, lock'[k] = v
               PROVE  k \in active' /\ cur'[v] = [job |-> k, inc |-> inc'[k]]
    BY Zenon DEF LocksMatchIncarnation
  <2>1. k # j /\ lock[k] = v
    BY <1>1, <1>2, <1>3, Zenon DEF Holders
  <2>2. v # w
    BY <1>1, <2>1, Zenon
  <2> QED BY <1>2, <1>3, <2>1, <2>2, Zenon DEF Holders, LocksMatchIncarnation
<1> QED BY <1>2, <1>4, <1>5, Zenon DEF j

\* What removeJobsByMaxCount leaves of a list.
LEMMA NewestNoDup ==
  ASSUME NEW list, NoDup(list), NEW n \in Nat
  PROVE  /\ NoDup(Newest(list, n)) /\ Range(Newest(list, n)) \subseteq Range(list)
         /\ Len(Newest(list, n)) <= n
<1>1. Len(list) \in Nat
  BY DEF NoDup
<1>2. CASE Len(list) <= n
  BY <1>2, Zenon DEF Newest
<1>3. CASE ~(Len(list) <= n)
  <2> DEFINE m == Len(list) - n
  <2>1. m \in 0..Len(list) /\ Len(list) - m = n
    BY <1>1, <1>3
  <2>2. Newest(list, n) = SubSeq(list, m + 1, Len(list))
    BY <1>3, Zenon DEF Newest
  <2> HIDE DEF m
  <2>3. /\ NoDup(SubSeq(list, m + 1, Len(list)))
        /\ Len(SubSeq(list, m + 1, Len(list))) = Len(list) - m
        /\ Range(SubSeq(list, 1, m)) \cup Range(SubSeq(list, m + 1, Len(list))) = Range(list)
    BY <2>1, NoDupSplit, Zenon
  <2> QED BY <2>1, <2>2, <2>3
<1> QED BY <1>2, <1>3, Zenon

\* A set of finished jobs after moveToFinished has added job j to it.
Finished(list, j) == IF Keep[j] = 0 THEN list ELSE Newest(Append(list, j), Keep[j])

\* The jobs that moveToFinished deletes.
Dropped(list, j) == (Range(list) \cup {j}) \ Range(Finished(list, j))

\* What moveToFinished makes of a set of finished jobs.
LEMMA FinishedList ==
  ASSUME NEW list, NoDup(list), Short(list), NEW j \in Job, j \notin Range(list)
  PROVE  /\ NoDup(Finished(list, j)) /\ Short(Finished(list, j))
         /\ Range(Finished(list, j)) \subseteq Range(list) \cup {j}
<1>1. Keep[j] \in Nat
  BY AdminAssumption, Zenon
<1>2. CASE Keep[j] = 0
  BY <1>2, Zenon DEF Finished
<1>3. CASE Keep[j] # 0
  <2>1. NoDup(Append(list, j)) /\ Range(Append(list, j)) = Range(list) \cup {j}
    BY NoDupAdd, ZenonT(30)
  <2>2. Finished(list, j) = Newest(Append(list, j), Keep[j])
    BY <1>3, Zenon DEF Finished
  <2>3. /\ NoDup(Newest(Append(list, j), Keep[j]))
        /\ Range(Newest(Append(list, j), Keep[j])) \subseteq Range(Append(list, j))
        /\ Len(Newest(Append(list, j), Keep[j])) <= Keep[j]
    BY <1>1, <2>1, NewestNoDup, Zenon
  <2> QED BY <2>1, <2>2, <2>3, Zenon DEF Short
<1> QED BY <1>2, <1>3, Zenon

\* moveToFinished: the job goes to a set of finished jobs or away.
LEMMA MoveToFinishedStep ==
  ASSUME AdminInv, NEW w \in Worker, MoveToFinished(w)
  PROVE  AdminInv' /\ hash' \subseteq hash
<1> DEFINE j == cur[w].job
<1>1. Accepted(w) /\ Releases(w)
  BY ZenonT(30) DEF MoveToFinished
<1>2. /\ deKey' = DeKeyAfterFinish(j)
      /\ repeat' = repeat \ {j} /\ simple' = simple \ {j}
      /\ UNCHANGED <<wait, legacy, prioritized, delayed, inc, paused, round>>
  BY ZenonT(30) DEF MoveToFinished, listVars
<1>3. \/ /\ completed' = Finished(completed, j) /\ failed' = failed
         /\ hash' = hash \ Dropped(completed, j) /\ logs' = logs \ Dropped(completed, j)
      \/ /\ failed' = Finished(failed, j) /\ completed' = completed
         /\ hash' = hash \ Dropped(failed, j) /\ logs' = logs \ Dropped(failed, j)
  BY ZenonT(30) DEF MoveToFinished, Finished, Dropped, RemoveJobKeys
<1>4. j \in Job /\ j \in active /\ j \in hash
  BY <1>1, AcceptedHolds, ZenonT(30)
<1>5. Holders' /\ LocksMatchIncarnation' /\ active' = active \ {j} /\ stalled' \subseteq stalled
  BY <1>1, <1>2, ReleasedLocks, Zenon
<1>6. /\ Lists /\ Short(completed) /\ Short(failed) /\ Sets /\ Keys /\ Rounds
      /\ (\A k \in Job : Alone(k)) /\ logs \subseteq hash /\ KeyFollowsJob
  BY Zenon  DEF AdminInv
<1> HIDE DEF j
<1>7. j \notin Range(completed) /\ j \notin Range(failed)
  BY <1>4, <1>6, Zenon DEF Alone
<1>8. /\ NoDup(Finished(completed, j)) /\ Short(Finished(completed, j))
      /\ Range(Finished(completed, j)) \subseteq Range(completed) \cup {j}
  BY <1>4, <1>6, <1>7, FinishedList, Zenon DEF Lists
<1>9. /\ NoDup(Finished(failed, j)) /\ Short(Finished(failed, j))
      /\ Range(Finished(failed, j)) \subseteq Range(failed) \cup {j}
  BY <1>4, <1>6, <1>7, FinishedList, Zenon DEF Lists
<1>10. Lists' /\ Short(completed') /\ Short(failed')
  BY <1>2, <1>3, <1>6, <1>8, <1>9, Zenon DEF Lists
<1>11. Short(completed)' /\ Short(failed)'
  BY <1>10, Zenon DEF Short
<1>12. hash' \subseteq hash /\ (logs \subseteq hash)' /\ logs' \subseteq logs
  BY <1>3, <1>6, Zenon
<1>13. Sets' /\ Rounds'
  BY <1>2, <1>5, <1>6, <1>12, Zenon DEF Sets, Rounds
<1>14. ASSUME NEW k \in Job PROVE Alone(k)'
  <2>1. Alone(k)
    BY <1>6, Zenon
  <2>2. /\ k = j => k \in active
        /\ k \in active' <=> k \in active /\ k # j
    BY <1>4, <1>5, Zenon
  <2>3. CASE /\ completed' = Finished(completed, j) /\ failed' = failed
             /\ hash' = hash \ Dropped(completed, j)
    <3>1. /\ k \in Range(completed') => k \in Range(completed) \/ k = j
          /\ k \in hash' <=> k \in hash /\ ~((k \in Range(completed) \/ k = j) /\ k \notin Range(completed'))
      BY <1>8, <2>3, Zenon DEF Dropped
    <3> QED BY <1>2, <2>1, <2>2, <2>3, <3>1, Zenon DEF Alone
  <2>4. CASE /\ failed' = Finished(failed, j) /\ completed' = completed
             /\ hash' = hash \ Dropped(failed, j)
    <3>1. /\ k \in Range(failed') => k \in Range(failed) \/ k = j
          /\ k \in hash' <=> k \in hash /\ ~((k \in Range(failed) \/ k = j) /\ k \notin Range(failed'))
      BY <1>9, <2>4, Zenon DEF Dropped
    <3> QED BY <1>2, <2>1, <2>2, <2>4, <3>1, Zenon DEF Alone
  <2> QED BY <1>3, <2>3, <2>4, Zenon
<1>15. deKey' = IF deKey.job = j /\ ~deKey.ttl THEN NoKey ELSE deKey
  BY <1>2, Zenon DEF DeKeyAfterFinish
<1>16. Keys'
  BY <1>2, <1>6, <1>15, NoKeyType, Zenon DEF Keys
<1>17. Live' = Live \ {j}
  <2>1. Alone(j)
    BY <1>4, <1>6, Zenon
  <2>2. j \notin Pending
    BY <1>4, <2>1, Zenon DEF Pending, Alone
  <2> QED BY <1>2, <1>5, <2>2, Zenon DEF Live, Pending
<1>18. KeyFollowsJob'
  BY <1>2, <1>6, <1>15, <1>17, KeyKept, ZenonT(30)
<1> QED BY <1>5, <1>10, <1>11, <1>12, <1>13, <1>14, <1>16, <1>18, Zenon DEF AdminInv

\* retryJob and moveToDelayed: the job of the worker is pending again.
LEMMA PutBackStep ==
  ASSUME AdminInv, NEW w \in Worker, PutBack(w)
  PROVE  AdminInv' /\ hash' = hash
<1> DEFINE j == cur[w].job
<1>1. Accepted(w) /\ Releases(w)
  BY Zenon DEF PutBack
<1>2. /\ UNCHANGED <<legacy, completed, failed, hash, logs, deKey, simple, inc, repeat>>
      /\ UNCHANGED <<paused, round>>
      /\ \/ Enqueue(j) /\ delayed' = delayed
         \/ delayed' = delayed \cup {j} /\ UNCHANGED <<wait, prioritized>>
  BY Zenon  DEF PutBack, endVars, keyVars
<1>3. j \in Job /\ j \in active /\ j \in hash
  BY <1>1, AcceptedHolds, Zenon
<1>4. Holders' /\ LocksMatchIncarnation' /\ active' = active \ {j} /\ stalled' \subseteq stalled
  BY <1>1, <1>2, ReleasedLocks, Zenon
<1>5. /\ Lists /\ Short(completed) /\ Short(failed) /\ Sets /\ Keys /\ Rounds
      /\ (\A k \in Job : Alone(k)) /\ logs \subseteq hash /\ KeyFollowsJob
  BY Zenon DEF AdminInv
<1> HIDE DEF j
<1>6. j \notin Range(wait)
  BY <1>3, <1>5, Zenon DEF Alone
<1>7. /\ NoDup(wait')
      /\ \/ Range(wait') = Range(wait) \cup {j} /\ prioritized' = prioritized /\ delayed' = delayed
         \/ Range(wait') = Range(wait) /\ prioritized' = prioritized \cup {j} /\ delayed' = delayed
         \/ Range(wait') = Range(wait) /\ prioritized' = prioritized /\ delayed' = delayed \cup {j}
  <2>1. CASE Enqueue(j) /\ delayed' = delayed
    BY <1>3, <1>5, <1>6, <2>1, Enqueued, Zenon DEF Lists
  <2>2. CASE delayed' = delayed \cup {j} /\ UNCHANGED <<wait, prioritized>>
    BY <1>5, <2>2, Zenon DEF Lists
  <2> QED BY <1>2, <2>1, <2>2, Zenon
<1>8. Lists' /\ Short(completed)' /\ Short(failed)' /\ Keys' /\ Rounds' /\ (logs \subseteq hash)'
  BY <1>2, <1>5, <1>7, Zenon DEF Lists, Short, Keys, Rounds
<1>9. Sets'
  BY <1>2, <1>3, <1>4, <1>5, <1>7, Zenon DEF Sets
<1>10. ASSUME NEW k \in Job PROVE Alone(k)'
  <2>1. Alone(k)
    BY <1>5, Zenon
  <2>2. CASE k = j
    BY <1>2, <1>3, <1>4, <1>7, <2>1, <2>2, ZenonT(30) DEF Alone
  <2>3. CASE k # j
    BY <1>2, <1>4, <1>7, <2>1, <2>3, ZenonT(30) DEF Alone
  <2> QED BY <2>2, <2>3, Zenon
<1>11. Live' = Live
  BY <1>2, <1>3, <1>4, <1>7, Zenon DEF Live, Pending
<1>12. KeyFollowsJob'
  BY <1>2, <1>5, <1>11, Zenon DEF KeyFollowsJob, Live
<1> QED BY <1>2, <1>4, <1>8, <1>9, <1>10, <1>12, Zenon DEF AdminInv

\* A refused script, the heartbeat and the end of a lock touch no list.
LEMMA HolderStep ==
  ASSUME AdminInv,
         \/ \E w \in Worker : LetsGo(w) \/ ExtendLock(w)
         \/ \E j \in Job : LockExpires(j)
  PROVE  AdminInv' /\ hash' = hash
<1>1. /\ UNCHANGED <<wait, legacy, prioritized, delayed, completed, failed, hash, logs, deKey>>
      /\ UNCHANGED <<simple, inc, repeat, active, paused, round>>
  BY Zenon  DEF LetsGo, ExtendLock, LockExpires, listVars, endVars, keyVars
<1>2. /\ Lists' /\ Short(completed)' /\ Short(failed)' /\ Keys' /\ Rounds'
      /\ (logs \subseteq hash)'
  BY <1>1, Zenon DEF AdminInv, Lists, Short, Keys, Rounds
<1>3. (\A j \in Job : Alone(j))' /\ KeyFollowsJob'
  BY <1>1, ZenonT(30) DEF AdminInv, Alone, KeyFollowsJob, Pending
<1>4. Holders /\ LocksMatchIncarnation /\ Sets /\ NoWorker \notin Worker /\ NoJob \notin Job
  BY AdminAssumption, Zenon DEF AdminInv
<1>5. stalled' \subseteq stalled /\ Holders' /\ LocksMatchIncarnation'
  <2>1. ASSUME NEW w \in Worker, LetsGo(w)
        PROVE  stalled' \subseteq stalled /\ Holders' /\ LocksMatchIncarnation'
    <3>1. /\ ~Accepted(w) /\ cur' = [cur EXCEPT ![w] = Idle]
          /\ UNCHANGED <<stalled, lock>>
      BY <2>1, Zenon DEF LetsGo
    <3>2. Holders'
      BY <1>4, <3>1, Zenon DEF Holders, Idle
    <3>3. \A k \in Job : lock[k] # w
      <4> SUFFICES ASSUME NEW k \in Job, lock[k] = w PROVE FALSE
        BY Zenon
      <4>1. k \in active /\ cur[w].job = k
        <5>1. k \in active /\ cur[w] = [job |-> k, inc |-> inc[k]]
          BY <1>4, Zenon DEF LocksMatchIncarnation
        <5> QED BY <5>1, SMTT(30)
      <4>2. k \in hash
        BY <4>1, ZenonT(30) DEF AdminInv, Alone
      <4> QED BY <3>1, <4>1, <4>2, Zenon DEF Accepted
    <3>4. LocksMatchIncarnation'
      BY <1>1, <1>4, <3>1, <3>3, ZenonT(30) DEF LocksMatchIncarnation, Holders
    <3> QED BY <3>1, <3>2, <3>4, Zenon
  <2>2. ASSUME NEW w \in Worker, ExtendLock(w)
        PROVE  stalled' \subseteq stalled /\ Holders' /\ LocksMatchIncarnation'
    BY <1>1, <1>4, <2>2, ZenonT(30) DEF ExtendLock, Holders, LocksMatchIncarnation
  <2>3. ASSUME NEW j \in Job, LockExpires(j)
        PROVE  stalled' \subseteq stalled /\ Holders' /\ LocksMatchIncarnation'
    <3>1. lock' = [lock EXCEPT ![j] = NoWorker] /\ UNCHANGED <<stalled, cur>>
      BY <2>3, Zenon DEF LockExpires
    <3>2. Holders'
      BY <1>4, <3>1, Zenon DEF Holders
    <3>3. LocksMatchIncarnation'
      BY <1>1, <1>4, <3>1, ZenonT(30) DEF LocksMatchIncarnation, Holders
    <3> QED BY <3>1, <3>2, <3>3, Zenon
  <2> QED BY <2>1, <2>2, <2>3, Zenon
<1>6. Sets'
  BY <1>1, <1>4, <1>5, Zenon DEF Sets
<1> QED BY <1>1, <1>2, <1>3, <1>5, <1>6, Zenon DEF AdminInv

\* moveStalledJobsToWait: only jobs without a lock go back to wait.
LEMMA MoveStalledJobsToWaitStep ==
  ASSUME AdminInv, MoveStalledJobsToWait
  PROVE  AdminInv' /\ hash' = hash
<1>1. /\ active' = active \ StalledJobs /\ stalled' = active' /\ hash' = hash \cup StalledJobs
      /\ \E order \in Orders(StalledJobs) : wait' = wait \o order
      /\ UNCHANGED <<legacy, prioritized, delayed, completed, failed, logs, deKey, simple>>
      /\ UNCHANGED <<inc, repeat, lock, cur, paused, round>>
  BY Zenon  DEF MoveStalledJobsToWait, endVars
<1>2. /\ Lists /\ Short(completed) /\ Short(failed) /\ Sets /\ Keys /\ Holders /\ Rounds
      /\ (\A k \in Job : Alone(k)) /\ logs \subseteq hash /\ LocksMatchIncarnation
      /\ KeyFollowsJob
  BY Zenon DEF AdminInv
<1>3. StalledJobs \subseteq active /\ \A j \in StalledJobs : lock[j] = NoWorker
  BY Zenon DEF StalledJobs
<1> DEFINE S == StalledJobs
<1>4. S \in SUBSET Job /\ S \subseteq hash
  BY <1>2, <1>3, Zenon DEF Sets, Alone
<1>5. hash' = hash
  BY <1>1, <1>4, Zenon
<1>6. Range(wait) \cap S = {}
  BY <1>2, <1>3, <1>4, Zenon DEF Alone
<1>7. NoDup(wait') /\ Range(wait') = Range(wait) \cup S
  <2>1. PICK order \in Orders(S) : wait' = wait \o order
    BY <1>1, Zenon
  <2>2. NoDup(order) /\ Range(order) = S
    BY <1>4, OrdersNoDup, JobsCounted, Zenon
  <2> QED BY <1>2, <1>6, <2>1, <2>2, NoDupConcat, Zenon DEF Lists
<1>8. Lists' /\ Short(completed)' /\ Short(failed)' /\ Keys' /\ Holders' /\ Rounds'
  BY <1>1, <1>2, <1>7, Zenon DEF Lists, Short, Keys, Holders, Rounds
<1>9. Sets' /\ (logs \subseteq hash)'
  BY <1>1, <1>2, <1>5, Zenon DEF Sets
<1>10. ASSUME NEW k \in Job PROVE Alone(k)'
  <2>1. Alone(k) /\ (k \in S => k \in active)
    BY <1>2, <1>3, Zenon
  <2>2. /\ k \in Range(wait') <=> k \in Range(wait) \/ k \in S
        /\ k \in active' <=> k \in active /\ k \notin S
    BY <1>1, <1>7, Zenon
  <2> HIDE DEF S
  <2> QED BY <1>1, <1>5, <2>1, <2>2, Zenon DEF Alone
<1>11. LocksMatchIncarnation'
  BY <1>1, <1>2, <1>3, AdminAssumption, ZenonT(30) DEF LocksMatchIncarnation
<1>12. Live' = Live
  BY <1>1, <1>3, <1>7, Zenon DEF Live, Pending
<1>13. KeyFollowsJob'
  BY <1>1, <1>2, <1>12, Zenon DEF KeyFollowsJob, Live
<1> QED BY <1>5, <1>8, <1>9, <1>10, <1>11, <1>13, Zenon DEF AdminInv

-----------------------------------------------------------------------------
(* Theorems *)

\* Every step keeps the books, and a HASH that is new is one that Add has written.
LEMMA AdminStep ==
  ASSUME AdminInv, [Next]_vars, [DrainIsClean]_vars
  PROVE  AdminInv' /\ \A j \in hash' \ hash : inc'[j] = inc[j] + 1
<1>1. CASE UNCHANGED vars
  <2>1. /\ UNCHANGED <<wait, legacy, prioritized, delayed, completed, failed, hash, logs, deKey>>
        /\ UNCHANGED <<simple, inc, repeat, active, stalled, lock, cur, paused, round>>
    BY <1>1, Zenon DEF vars, listVars, endVars, keyVars, workVars
  <2>2. /\ Lists' /\ Short(completed)' /\ Short(failed)' /\ Sets' /\ Keys' /\ Holders' /\ Rounds'
        /\ (logs \subseteq hash)'
    BY <2>1, Zenon DEF AdminInv, Lists, Short, Sets, Keys, Holders, Rounds
  <2>3. (\A j \in Job : Alone(j))' /\ KeyFollowsJob' /\ LocksMatchIncarnation'
    BY <2>1, ZenonT(30) DEF AdminInv, Alone, KeyFollowsJob, Pending, LocksMatchIncarnation
  <2> QED BY <2>1, <2>2, <2>3, Zenon DEF AdminInv
<1>2. CASE Next /\ ~(UNCHANGED vars)
  <2>1. ASSUME NEW j \in Job, NEW ttl \in BOOLEAN, AddJob(j, ttl) \/ AddDelayedJob(j, ttl)
        PROVE  AdminInv' /\ \A k \in hash' \ hash : inc'[k] = inc[k] + 1
    <3>1. AdminInv'
      BY <2>1, AddJobStep, AddDelayedJobStep, Zenon
    <3>2. hash' = hash \cup {j} /\ inc' = [inc EXCEPT ![j] = @ + 1]
      BY <2>1, ZenonT(30) DEF AddJob, AddDelayedJob, StoreJob
    <3>3. inc \in [Job -> Nat]
      BY Zenon DEF AdminInv, Keys
    <3> QED BY <3>1, <3>2, <3>3, Zenon
  <2>2. ASSUME NEW j \in Job, RemoveJob(j)
        PROVE  AdminInv' /\ hash' \subseteq hash
    BY <2>2, RemoveJobStep, Zenon DEF RemoveJob, RemoveJobWithChildren, RemoveJobKeys
  <2>3. ASSUME NEW j \in Job, PromoteJob(j)
        PROVE  AdminInv' /\ hash' \subseteq hash
    BY <2>3, PromoteJobStep, Zenon
  <2>4. ASSUME NEW j \in Job, NEW from \in {"failed", "completed"}, RetryJob(j, from)
        PROVE  AdminInv' /\ hash' \subseteq hash
    BY <2>4, RetryJobStep, Zenon
  <2>5. ASSUME Pause \/ \E j \in Job : MutateJob(j)
        PROVE  AdminInv' /\ hash' \subseteq hash
    BY <2>5, PauseMutateStep, Zenon
  <2>6. ASSUME NEW withDelayed \in BOOLEAN, DrainPending(withDelayed)
        PROVE  AdminInv' /\ hash' \subseteq hash
    BY <1>2, <2>6, DrainPendingStep, Zenon
  <2>7. ASSUME Resume PROVE AdminInv' /\ hash' \subseteq hash
    BY <2>7, ResumeStep, Zenon
  <2>8. ASSUME DedupKeyExpires PROVE AdminInv' /\ hash' \subseteq hash
    BY <2>8, DedupKeyExpiresStep, Zenon DEF DedupKeyExpires
  <2>9. ASSUME MoveStalledJobsToWait PROVE AdminInv' /\ hash' \subseteq hash
    BY <2>9, MoveStalledJobsToWaitStep, Zenon
  <2>10. ASSUME NEW w \in Worker, MoveToActive(w) \/ MoveToFinished(w) \/ PutBack(w)
         PROVE  AdminInv' /\ hash' \subseteq hash
    BY <2>10, MoveToActiveStep, MoveToFinishedStep, PutBackStep, Zenon
  <2>11. ASSUME \/ \E w \in Worker : LetsGo(w) \/ ExtendLock(w)
                \/ \E j \in Job : LockExpires(j)
         PROVE  AdminInv' /\ hash' \subseteq hash
    BY <2>11, HolderStep, Zenon
  <2> HIDE DEF AdminInv
  <2> QED BY <1>2, <2>1, <2>2, <2>3, <2>4, <2>5, <2>6, <2>7, <2>8, <2>9, <2>10, <2>11, ZenonT(30)
          DEF Next, Administers, Works
<1> QED BY <1>1, <1>2, Zenon

\* The inductive invariant of the administration holds for as long as the drains
\* meet no protected instance in a list.
THEOREM AdminInvariant == Spec /\ CleanDrains => []AdminInv
<1>1. Init => AdminInv
  BY AdminInit, Zenon
<1>2. AdminInv /\ [Next]_vars /\ [DrainIsClean]_vars => AdminInv'
  BY AdminStep, Zenon
<1> QED BY <1>1, <1>2, PTL DEF Spec, CleanDrains

\* Whatever is removed, retried, drained, resumed, stalled or pushed out by
\* retention, every job is in one place while it exists and in none afterwards.
THEOREM JobsStayAccounted == Spec /\ CleanDrains => []JobsAccounted
<1>1. AdminInv => JobsAccounted
  BY AdminInvImplies, Zenon
<1> QED BY <1>1, AdminInvariant, PTL

\* The lists name no job twice and retention keeps its limits (removeJobsByMaxCount).
THEOREM AdminTypeCorrect == Spec /\ CleanDrains => []TypeOK
<1>1. AdminInv => TypeOK
  BY AdminInvImplies, Zenon
<1> QED BY <1>1, AdminInvariant, PTL

\* A worker that goes on with a removed job can never finish the job that was added
\* later under the same id: no lock is one of an earlier incarnation.
THEOREM LocksAreCurrent == Spec /\ CleanDrains => []LocksMatchIncarnation
<1>1. AdminInv => LocksMatchIncarnation
  BY Zenon DEF AdminInv
<1> QED BY <1>1, AdminInvariant, PTL

\* A deduplication key without TTL names a job that is still to be done, and every
\* such job holds the key: no second one gets in and no key is left behind.
THEOREM KeysFollowJobs == Spec /\ CleanDrains => []KeyFollowsJob
<1>1. AdminInv => KeyFollowsJob
  BY Zenon DEF AdminInv
<1> QED BY <1>1, AdminInvariant, PTL

\* No late heartbeat, finalise, stalled check, promotion or write creates the HASH
\* of a removed job again.
THEOREM NothingRevives == Spec /\ CleanDrains => OnlyAddCreates
<1>1. AdminInv /\ [Next]_vars /\ [DrainIsClean]_vars
        => [\A j \in hash' \ hash : inc'[j] = inc[j] + 1]_vars
  BY AdminStep, Zenon
<1> QED BY <1>1, AdminInvariant, PTL DEF Spec, CleanDrains, OnlyAddCreates

\* The repeat ZSET names instances of schedules only, whatever the drains do.
LEMMA RepeatIsScheduled == Spec => [](repeat \subseteq Scheduled)
<1>1. Init => repeat \subseteq Scheduled
  BY Zenon DEF Init
<1>2. repeat \subseteq Scheduled /\ [Next]_vars => (repeat \subseteq Scheduled)'
  <2> SUFFICES ASSUME repeat \subseteq Scheduled, [Next]_vars PROVE repeat' \subseteq Scheduled
    BY Zenon
  <2>1. CASE UNCHANGED vars
    BY <2>1, Zenon DEF vars, keyVars
  <2>2. ASSUME NEW j \in Job, Administers(j) \/ LockExpires(j) PROVE repeat' \subseteq Scheduled
    <3>1. ASSUME NEW ttl \in BOOLEAN, AddJob(j, ttl) \/ AddDelayedJob(j, ttl)
          PROVE  repeat' \subseteq Scheduled
      BY <3>1, ZenonT(30) DEF AddJob, AddDelayedJob, StoreJob
    <3>2. ASSUME RemoveJob(j) \/ PromoteJob(j) \/ MutateJob(j) \/ LockExpires(j)
          PROVE  repeat' = repeat
      BY <3>2, Zenon DEF RemoveJob, RemoveJobWithChildren, PromoteJob, Promoted, MutateJob,
                  LockExpires, keyVars
    <3>3. ASSUME NEW from \in {"failed", "completed"}, RetryJob(j, from) PROVE repeat' = repeat
      BY <3>3, Zenon DEF RetryJob, Reprocessed, keyVars
    <3> QED BY <2>2, <3>1, <3>2, <3>3, Zenon DEF Administers
  <2>3. ASSUME NEW withDelayed \in BOOLEAN, DrainPending(withDelayed) PROVE repeat' = repeat
    BY <2>3, Zenon DEF DrainPending
  <2>4. ASSUME Pause \/ Resume \/ DedupKeyExpires \/ MoveStalledJobsToWait PROVE repeat' = repeat
    BY <2>4, Zenon DEF Pause, Resume, DedupKeyExpires, MoveStalledJobsToWait, keyVars
  <2>5. ASSUME NEW w \in Worker, Works(w) PROVE repeat' \subseteq repeat
    <3>1. CASE MoveToActive(w)
      BY <3>1, ZenonT(30) DEF MoveToActive
    <3>2. CASE MoveToFinished(w)
      BY <3>2, ZenonT(30) DEF MoveToFinished
    <3>3. CASE PutBack(w) \/ LetsGo(w) \/ ExtendLock(w)
      BY <3>3, Zenon DEF PutBack, LetsGo, ExtendLock, keyVars
    <3> QED BY <2>5, <3>1, <3>2, <3>3, Zenon DEF Works
  <2> QED BY <2>1, <2>2, <2>3, <2>4, <2>5, Zenon DEF Next
<1> QED BY <1>1, <1>2, PTL DEF Spec

\* In a queue without schedules every drain is clean, so that the theorems above
\* hold there without a condition.
THEOREM DrainsAreClean ==
  ASSUME Scheduled = {}
  PROVE  Spec => CleanDrains
<1>1. repeat \subseteq Scheduled => [DrainIsClean]_vars
  BY Zenon DEF DrainIsClean
<1> QED BY <1>1, RepeatIsScheduled, PTL DEF CleanDrains

=============================================================================

------------------------- MODULE JobQueueStoreProofs -------------------------
(***************************************************************************)
(* The invariant of the Redis keys of JobQueue: a job is in one bucket, and *)
(* locks and stalled marks are on active jobs only.  Callers, time, the    *)
(* stalled checker and the dispatchers keep it.                            *)
(***************************************************************************)
EXTENDS JobQueue, JobListProofs, FiniteSetTheorems

-----------------------------------------------------------------------------
(* The inductive invariant *)

\* Job j is in at most one bucket, and in one exactly when its HASH exists.
Apart(j) ==
  /\ active[j] <= 1
  /\ j \in Range(wait) => /\ j \notin prioritized /\ j \notin delayed /\ active[j] = 0
                          /\ j \notin completed /\ j \notin failed
  /\ j \in prioritized => /\ j \notin delayed /\ active[j] = 0
                          /\ j \notin completed /\ j \notin failed
  /\ j \in delayed => active[j] = 0 /\ j \notin completed /\ j \notin failed
  /\ active[j] > 0 => j \notin completed /\ j \notin failed
  /\ j \in completed => j \notin failed
  /\ j \in hash <=> \/ j \in Range(wait) \/ j \in prioritized \/ j \in delayed
                    \/ active[j] > 0 \/ j \in completed \/ j \in failed

\* The store: every job in one place, locks and stalled marks on active jobs.
StoreInv ==
  /\ TypeOK
  /\ IsInjective(wait)
  /\ \A j \in Job : Apart(j)
  /\ LockedIsActive
  /\ StalledIsActive

\* The sets of jobs that a script pushes are finite.
LEMMA JobsCounted ==
  ASSUME NEW S \in SUBSET Job
  PROVE  Cardinality(S) \in Nat
<1>1. IsFiniteSet(S)
  BY JobsFinite, FS_Subset, Zenon
<1> QED BY <1>1, FS_CardinalityType, Zenon

\* A push adds the job to the list.
LEMMA NoDupPush ==
  ASSUME NEW s, NEW j \in Job, NoDup(s), j \notin Range(s)
  PROVE  NoDup(Push(s, j)) /\ Range(Push(s, j)) = Range(s) \cup {j}
<1>1. NoDup(<<j>>) /\ Range(<<j>>) = {j}
  BY NoDupSingle, Zenon
<1>2. NoDup(<<j>> \o s) /\ Range(<<j>> \o s) = {j} \cup Range(s)
  BY <1>1, NoDupConcat
<1>3. NoDup(s \o <<j>>) /\ Range(s \o <<j>>) = Range(s) \cup {j}
  BY <1>1, NoDupConcat
<1>4. Append(s, j) = s \o <<j>>
  BY DEF NoDup
<1> QED BY <1>2, <1>3, <1>4, Zenon DEF Push

\* A finalising script that returns no error has found the job active and
\* locked with the caller's token.
LEMMA CodeZero ==
  ASSUME TypeOK, NEW d \in Dispatcher, Code(d) = 0
  PROVE  /\ cur[d].job \in Job /\ cur[d].job \in hash
         /\ token[d] # NoToken /\ lock[cur[d].job] = token[d]
         /\ active[cur[d].job] > 0
<1> DEFINE j == cur[d].job
           t == token[d]
<1>1. ~(j \notin hash)
  BY DEF Code, FinishCode
<1>2. ~(j \in hash /\ lock[j] = NoToken)
  BY DEF Code, FinishCode
<1>3. ~(j \in hash /\ lock[j] # NoToken /\ lock[j] # t)
  BY DEF Code, FinishCode
<1>4. ~(j \in hash /\ lock[j] = t /\ t # NoToken /\ active[j] = 0)
  BY DEF Code, FinishCode
<1>5. j \in hash /\ j \in Job
  BY <1>1, Zenon DEF TypeOK
<1>6. active[j] \in Nat
  BY <1>5, Zenon DEF TypeOK
<1> HIDE DEF j, t
<1> QED BY <1>1, <1>2, <1>3, <1>4, <1>5, <1>6 DEF j, t

\* What promoteDelayedJobs leaves in wait.
LEMMA PromotedWaitNoDup ==
  ASSUME StoreInv, NEW w \in PromotedWait
  PROVE  NoDup(w) /\ Range(w) = Range(wait) \cup (due \ PriorityJobs)
<1>1. PICK order \in Orders(due \ PriorityJobs) : w = order \o wait
  BY Zenon DEF PromotedWait
<1>2. due \ PriorityJobs \in SUBSET Job
  BY Zenon DEF StoreInv, TypeOK
<1>3. NoDup(order) /\ Range(order) = due \ PriorityJobs
  BY <1>2, OrdersNoDup, JobsCounted, Zenon
<1>4. NoDup(wait)
  BY Zenon DEF StoreInv, TypeOK, NoDup
<1>5. Range(order) \cap Range(wait) = {}
  BY <1>2, <1>3, Zenon DEF StoreInv, TypeOK, Apart
<1> QED BY <1>1, <1>3, <1>4, <1>5, NoDupConcat

\* The jobs that can be fetched once the due ones are promoted.
Ready == Range(wait) \cup prioritized \cup due

\* What fetchNextJob does to wait and to the prioritized set, whether it hands
\* over no job or one.
LEMMA FetchNextJobEffect ==
  ASSUME StoreInv, NEW d \in Dispatcher, NEW act, NEW lck, FetchNextJob(d, act, lck)
  PROVE  /\ delayed' = delayed \ due
         /\ due' = {}
         /\ NoDup(wait')
         /\ prioritized' \subseteq Job
         /\ Range(wait') \cap prioritized' = {}
         /\ \/ /\ Range(wait') \cup prioritized' = Ready
               /\ NothingToFetch(d, act, lck)
            \/ \E k \in Ready :
                 /\ Range(wait') \cup prioritized' = Ready \ {k}
                 /\ PrepareJobForProcessing(d, k, act, lck)
<1>1. PICK w \in PromotedWait :
       \/ /\ wait' = w
          /\ prioritized' = PromotedPrioritized
          /\ NothingToFetch(d, act, lck)
       \/ /\ w # <<>>
          /\ wait' = SubSeq(w, 1, Len(w) - 1)
          /\ prioritized' = PromotedPrioritized
          /\ PrepareJobForProcessing(d, w[Len(w)], act, lck)
       \/ \E k \in PromotedPrioritized :
               /\ wait' = w
               /\ prioritized' = PromotedPrioritized \ {k}
               /\ PrepareJobForProcessing(d, k, act, lck)
  BY Zenon DEF FetchNextJob
<1>2. NoDup(w) /\ Range(w) = Range(wait) \cup (due \ PriorityJobs)
  BY PromotedWaitNoDup, Zenon
<1>3. /\ delayed' = delayed \ due
      /\ due' = {}
  BY Zenon DEF FetchNextJob
<1>4. PromotedPrioritized \subseteq Job
  BY Zenon DEF PromotedPrioritized, StoreInv, TypeOK
<1>5. Range(w) \cap PromotedPrioritized = {}
  BY <1>2, <1>4, Zenon DEF PromotedPrioritized, StoreInv, TypeOK, Apart
<1>6. Range(w) \cup PromotedPrioritized = Ready
  BY <1>2, Zenon DEF PromotedPrioritized, Ready
<1>7. CASE /\ wait' = w
           /\ prioritized' = PromotedPrioritized
           /\ NothingToFetch(d, act, lck)
  BY <1>2, <1>3, <1>4, <1>5, <1>6, <1>7, Zenon
<1>8. CASE /\ w # <<>>
           /\ wait' = SubSeq(w, 1, Len(w) - 1)
           /\ prioritized' = PromotedPrioritized
           /\ PrepareJobForProcessing(d, w[Len(w)], act, lck)
  <2> DEFINE k == w[Len(w)]
  <2>1. /\ k \in Range(w)
        /\ NoDup(wait')
        /\ Range(wait') = Range(w) \ {k}
    BY <1>2, <1>8, NoDupPop, Zenon
  <2>2. PrepareJobForProcessing(d, k, act, lck)
    BY <1>8, Zenon
  <2> HIDE DEF k
  <2>3. k \in Ready /\ Range(wait') \cup prioritized' = Ready \ {k}
    BY <2>1, <1>5, <1>6, <1>8, Zenon
  <2> QED BY <2>1, <2>2, <2>3, <1>3, <1>4, <1>5, <1>8, Zenon
<1>9. CASE \E k \in PromotedPrioritized :
               /\ wait' = w
               /\ prioritized' = PromotedPrioritized \ {k}
               /\ PrepareJobForProcessing(d, k, act, lck)
  <2>1. PICK k \in PromotedPrioritized :
               /\ wait' = w
               /\ prioritized' = PromotedPrioritized \ {k}
               /\ PrepareJobForProcessing(d, k, act, lck)
    BY <1>9, Zenon
  <2>2. k \in Ready /\ Range(wait') \cup prioritized' = Ready \ {k}
    BY <2>1, <1>5, <1>6, Zenon
  <2> QED BY <2>1, <2>2, <1>2, <1>3, <1>4, <1>5, Zenon
<1> QED BY <1>1, <1>7, <1>8, <1>9, Zenon

-----------------------------------------------------------------------------
(* The store invariant is inductive: jobs, locks and marks *)

\* The initial store is empty.
LEMMA StoreInvInit == Init => StoreInv
<1> SUFFICES ASSUME Init PROVE StoreInv
  BY Zenon
<1>1. IsInjective(wait) /\ Range(wait) = {} /\ wait \in Seq(Job)
  BY NoDupEmpty, Zenon DEF Init, NoDup
<1>2. NoSnap \in Snapshot
  BY Zenon DEF NoSnap, Snapshot
<1>3. TypeOK
  <2>1. /\ pc \in [Dispatcher -> Where] /\ plan \in [Dispatcher -> Plan]
        /\ cur \in [Dispatcher -> Snapshot] /\ reply \in [Dispatcher -> Snapshot]
    BY <1>2, Zenon DEF Init, Where, Plan
  <2>2. disturb \in 0..MaxDisturb /\ runs \in [Job -> Int]
    BY ConstantsAssumption DEF Init
  <2> QED BY <1>1, <2>1, <2>2, Zenon DEF Init, TypeOK
<1>4. \A j \in Job : Apart(j)
  BY <1>1 DEF Init, Apart
<1>5. LockedIsActive /\ StalledIsActive
  BY Zenon DEF Init, LockedIsActive, StalledIsActive, ActiveJobs
<1> QED BY <1>1, <1>3, <1>4, <1>5, Zenon DEF StoreInv

\* A step that leaves the store alone.
LEMMA StoreInvUnchanged ==
  ASSUME StoreInv, TypeOK', UNCHANGED storeVars
  PROVE  StoreInv'
BY Zenon DEF StoreInv, storeVars, queueVars, fieldVars, endVars, scanVars, Apart,
       LockedIsActive, StalledIsActive, ActiveJobs

\* A job that is in the active list is there once.
LEMMA ActiveOnce ==
  ASSUME StoreInv, NEW j \in Job, active[j] > 0
  PROVE  active[j] = 1 /\ Apart(j)
<1>1. Apart(j) /\ active[j] \in Nat
  BY Zenon DEF StoreInv, TypeOK
<1> QED BY <1>1 DEF Apart

\* removeLock and the LREM on a job that is in the active list once.
LEMMA LeftAndUnlocked ==
  ASSUME StoreInv, NEW j \in Job, active[j] = 1
  PROVE  /\ LeftActive(j) = [active EXCEPT ![j] = 0]
         /\ Unlocked(j) = [lock EXCEPT ![j] = NoToken]
         /\ LeftActive(j) \in [Job -> Nat]
         /\ Unlocked(j) \in [Job -> Token \cup {NoToken}]
<1>1. active \in [Job -> Nat] /\ lock \in [Job -> Token \cup {NoToken}]
  BY Zenon DEF StoreInv, TypeOK
<1> QED BY <1>1 DEF LeftActive, Unlocked

\* Adding a job whose HASH did not exist.
LEMMA StoreInvAdds ==
  ASSUME StoreInv, NEW j \in Job, Adds(j)
  PROVE  StoreInv'
<1> USE DEF StoreInv
<1>1. j \notin hash /\ Apart(j)
  BY Zenon DEF Adds, AddStandardJob, AddDelayedJob, AddPrioritizedJob, StoreJob
<1>0. /\ hash' \subseteq Job /\ runs' \in [Job -> Int]
      /\ hash' = hash \cup {j}
  BY DEF Adds, AddStandardJob, AddDelayedJob, AddPrioritizedJob, StoreJob, TypeOK
<1>2. CASE AddStandardJob(j)
  <2>1. j \notin Range(wait)
    BY <1>1, Zenon DEF Apart
  <2>2. NoDup(wait') /\ Range(wait') = Range(wait) \cup {j}
    BY <2>1, <1>2, NoDupPush, Zenon DEF AddStandardJob, NoDup, TypeOK
  <2>3. TypeOK'
    BY <1>0, <1>2, <2>2, Zenon DEF TypeOK, AddStandardJob, NoDup, scanVars, dispVars
  <2>4. ASSUME NEW k \in Job PROVE Apart(k)'
    <3>1. Apart(k) /\ active[k] \in Nat
      BY Zenon DEF TypeOK
    <3> QED BY <3>1, <1>1, <1>2, <2>2 DEF AddStandardJob, StoreJob, Apart
  <2>5. LockedIsActive' /\ StalledIsActive'
    BY <1>2, Zenon DEF AddStandardJob, LockedIsActive, StalledIsActive, ActiveJobs, scanVars
  <2> QED BY <2>2, <2>3, <2>4, <2>5, Zenon DEF NoDup
<1>3. CASE AddDelayedJob(j)
  <2>1. TypeOK'
    BY <1>0, <1>3, Zenon DEF TypeOK, AddDelayedJob, scanVars, dispVars
  <2>2. ASSUME NEW k \in Job PROVE Apart(k)'
    <3>1. Apart(k) /\ active[k] \in Nat
      BY Zenon DEF TypeOK
    <3> QED BY <3>1, <1>1, <1>3 DEF AddDelayedJob, StoreJob, Apart
  <2>3. LockedIsActive' /\ StalledIsActive'
    BY <1>3, Zenon DEF AddDelayedJob, LockedIsActive, StalledIsActive, ActiveJobs, scanVars
  <2> QED BY <1>3, <2>1, <2>2, <2>3, Zenon DEF AddDelayedJob
<1>4. CASE AddPrioritizedJob(j)
  <2>1. TypeOK'
    BY <1>0, <1>4, Zenon DEF TypeOK, AddPrioritizedJob, scanVars, dispVars
  <2>2. ASSUME NEW k \in Job PROVE Apart(k)'
    <3>1. Apart(k) /\ active[k] \in Nat
      BY Zenon DEF TypeOK
    <3> QED BY <3>1, <1>1, <1>4 DEF AddPrioritizedJob, StoreJob, Apart
  <2>3. LockedIsActive' /\ StalledIsActive'
    BY <1>4, Zenon DEF AddPrioritizedJob, LockedIsActive, StalledIsActive, ActiveJobs, scanVars
  <2> QED BY <1>4, <2>1, <2>2, <2>3, Zenon DEF AddPrioritizedJob
<1> QED BY <1>2, <1>3, <1>4, Zenon DEF Adds

\* Time passes: a delayed job comes due, a lock or the scan key expires; the
\* queue is paused or resumed.
LEMMA StoreInvTime ==
  ASSUME StoreInv,
         \/ \E j \in Job : BecomesDue(j) \/ LockExpires(j)
         \/ Pause \/ Resume \/ StalledCheckExpires
  PROVE  StoreInv'
<1> USE DEF StoreInv, queueVars, fieldVars, endVars, scanVars
<1>1. CASE \E j \in Job : BecomesDue(j)
  <2>1. TypeOK'
    BY <1>1, Zenon DEF TypeOK, BecomesDue, dispVars
  <2> QED BY <1>1, <2>1, Zenon
          DEF BecomesDue, Apart, LockedIsActive, StalledIsActive, ActiveJobs
<1>2. CASE \E j \in Job : LockExpires(j)
  <2>1. PICK j \in Job : LockExpires(j)
    BY <1>2, Zenon
  <2>2. disturb' \in 0..MaxDisturb
    BY <2>1, ConstantsAssumption DEF LockExpires, Disturb, TypeOK
  <2>3. TypeOK'
    BY <2>1, <2>2, Zenon DEF TypeOK, LockExpires, dispVars
  <2> QED BY <2>1, <2>3, Zenon
          DEF LockExpires, Apart, LockedIsActive, StalledIsActive, ActiveJobs, TypeOK
<1>3. CASE Pause \/ Resume \/ StalledCheckExpires
  <2>1. disturb' \in 0..MaxDisturb
    BY <1>3, ConstantsAssumption, SMTT(30)
       DEF Pause, Resume, StalledCheckExpires, Disturb, TypeOK
  <2>2. TypeOK'
    BY <1>3, <2>1, Zenon DEF TypeOK, Pause, Resume, StalledCheckExpires, dispVars
  <2> QED BY <1>3, <2>2, Zenon
          DEF Pause, Resume, StalledCheckExpires, Apart, LockedIsActive,
              StalledIsActive, ActiveJobs
<1> QED BY <1>1, <1>2, <1>3, Zenon

\* The stalled scan moves jobs from active to wait and marks what is left.
LEMMA StoreInvScan ==
  ASSUME StoreInv, MoveStalledJobsToWait
  PROVE  StoreInv'
<1> USE DEF StoreInv
<1>1. StalledJobs \subseteq Job
  BY Zenon DEF StalledJobs, TypeOK
<1>2. PICK order \in Orders(StalledJobs) : wait' = wait \o order
  BY Zenon DEF MoveStalledJobsToWait
<1>3. NoDup(order) /\ Range(order) = StalledJobs
  BY <1>1, OrdersNoDup, JobsCounted, Zenon
<1>4. NoDup(wait)
  BY Zenon DEF NoDup, TypeOK
<1>5. \A j \in StalledJobs : j \in Job /\ active[j] = 1 /\ lock[j] = NoToken
  BY <1>1 DEF StalledJobs, TypeOK, Apart
<1>6. Range(wait) \cap Range(order) = {}
  <2>1. ASSUME NEW k \in StalledJobs PROVE k \notin Range(wait)
    <3>1. Apart(k) /\ active[k] = 1
      BY <1>5, Zenon
    <3> QED BY <3>1 DEF Apart
  <2> QED BY <1>3, <2>1, Zenon
<1>7. NoDup(wait') /\ Range(wait') = Range(wait) \cup StalledJobs
  BY <1>2, <1>3, <1>4, <1>6, NoDupConcat, Zenon
<1>8. active' \in [Job -> Nat]
  BY <1>5 DEF MoveStalledJobsToWait, PassesStalledLimit, TypeOK
<1>9. TypeOK'
  BY <1>1, <1>7, <1>8
     DEF TypeOK, MoveStalledJobsToWait, PassesStalledLimit, NoDup, endVars, dispVars
<1>10. ASSUME NEW j \in Job PROVE Apart(j)'
  <2>1. Apart(j) /\ active[j] \in Nat
    BY Zenon DEF TypeOK
  <2>2. CASE j \in StalledJobs
    <3>1. active[j] = 1
      BY <2>2, <1>5, Zenon
    <3>2. active'[j] = active[j] - 1
      BY <2>2, Zenon DEF MoveStalledJobsToWait
    <3>3. /\ UNCHANGED <<prioritized, delayed, completed, failed>>
          /\ j \in hash' /\ j \in Range(wait')
      BY <2>2, <1>7, Zenon DEF MoveStalledJobsToWait, endVars
    <3> HIDE DEF StoreInv
    <3>4. /\ j \notin prioritized /\ j \notin delayed
          /\ j \notin completed /\ j \notin failed
      BY <2>1, <3>1, SMTT(30) DEF Apart
    <3> QED BY <3>1, <3>2, <3>3, <3>4 DEF Apart
  <2>3. CASE j \notin StalledJobs
    <3>1. active'[j] = active[j]
      BY <2>3, Zenon DEF MoveStalledJobsToWait
    <3> QED BY <2>1, <2>3, <3>1, <1>7, Zenon DEF Apart, MoveStalledJobsToWait, endVars
  <2> QED BY <2>2, <2>3, Zenon
<1>11. LockedIsActive'
  BY <1>5, Zenon DEF LockedIsActive, MoveStalledJobsToWait
<1>12. StalledIsActive'
  BY Zenon DEF StalledIsActive, ActiveJobs, MoveStalledJobsToWait
<1> QED BY <1>7, <1>9, <1>10, <1>11, <1>12, Zenon DEF NoDup

-----------------------------------------------------------------------------
(* The store invariant is inductive: the dispatchers *)

\* Job k inside a script that has left the active list act and has written the
\* finished sets, but has not fetched the next job yet.
MidApart(k, act) ==
  /\ act[k] <= 1
  /\ k \in Ready \/ k \in delayed => act[k] = 0 /\ k \notin completed' /\ k \notin failed'
  /\ act[k] > 0 => k \notin completed' /\ k \notin failed'
  /\ k \in completed' => k \notin failed'
  /\ k \in hash' <=> \/ k \in Ready \/ k \in delayed \/ act[k] > 0
                     \/ k \in completed' \/ k \in failed'

\* Fetching the next job at the end of a script keeps every job in one place
\* and locks the job that it makes active.
LEMMA FetchKeepsStore ==
  ASSUME StoreInv, NEW d \in Dispatcher,
         NEW act \in [Job -> Nat], NEW lck \in [Job -> Token \cup {NoToken}],
         FetchNextJob(d, act, lck),
         atm' \in [Job -> Nat], defa' \in [Job -> BOOLEAN],
         \A k \in Job : MidApart(k, act),
         \A k \in Job : lck[k] # NoToken => act[k] > 0
  PROVE  /\ wait' \in Seq(Job) /\ IsInjective(wait')
         /\ prioritized' \subseteq Job /\ delayed' \subseteq Job /\ due' \subseteq delayed'
         /\ active' \in [Job -> Nat] /\ lock' \in [Job -> Token \cup {NoToken}]
         /\ reply' \in [Dispatcher -> Snapshot] /\ runs' \in [Job -> Int]
         /\ \A k \in Job : Apart(k)'
         /\ LockedIsActive'
         /\ \A k \in Job : act[k] > 0 => active'[k] > 0
<1> USE DEF StoreInv
<1>1. /\ delayed' = delayed \ due
      /\ due' = {}
      /\ NoDup(wait')
      /\ prioritized' \subseteq Job
      /\ Range(wait') \cap prioritized' = {}
      /\ \/ /\ Range(wait') \cup prioritized' = Ready
            /\ NothingToFetch(d, act, lck)
         \/ \E k \in Ready :
              /\ Range(wait') \cup prioritized' = Ready \ {k}
              /\ PrepareJobForProcessing(d, k, act, lck)
  BY FetchNextJobEffect, Zenon
<1>2. /\ wait' \in Seq(Job) /\ IsInjective(wait')
      /\ prioritized' \subseteq Job /\ delayed' \subseteq Job /\ due' \subseteq delayed'
  BY <1>1, Zenon DEF NoDup, TypeOK
<1>3. Ready \subseteq Job
  BY DEF Ready, TypeOK, Range
<1>4. \A k \in Ready : k \notin delayed'
  BY <1>1, <1>3, Zenon DEF Ready, Apart, TypeOK
<1>5. \A k \in Job : k \in delayed' \/ k \in Ready <=> k \in delayed \/ k \in Ready
  BY <1>1, Zenon DEF Ready
<1>6. CASE /\ Range(wait') \cup prioritized' = Ready
           /\ NothingToFetch(d, act, lck)
  <2>1. /\ active' = act /\ lock' = lck /\ runs' = runs
        /\ reply' = [reply EXCEPT ![d] = NoSnap]
    BY <1>6, Zenon DEF NothingToFetch
  <2>2. /\ active' \in [Job -> Nat] /\ lock' \in [Job -> Token \cup {NoToken}]
        /\ reply' \in [Dispatcher -> Snapshot] /\ runs' \in [Job -> Int]
    BY <2>1, Zenon DEF TypeOK, NoSnap, Snapshot
  <2>3. ASSUME NEW k \in Job PROVE Apart(k)'
    <3>1. MidApart(k, act) /\ active'[k] = act[k]
      BY <2>1, Zenon
    <3> QED BY <3>1, <1>1, <1>4, <1>5, <1>6, ZenonT(30) DEF MidApart, Apart
  <2> QED BY <1>2, <2>1, <2>2, <2>3, Zenon DEF LockedIsActive
<1>7. CASE \E k \in Ready :
             /\ Range(wait') \cup prioritized' = Ready \ {k}
             /\ PrepareJobForProcessing(d, k, act, lck)
  <2>1. PICK k \in Ready :
             /\ Range(wait') \cup prioritized' = Ready \ {k}
             /\ PrepareJobForProcessing(d, k, act, lck)
    BY <1>7, Zenon
  <2>2. k \in Job /\ act[k] = 0
    BY <1>3, Zenon DEF MidApart
  <2>3. /\ active' = [act EXCEPT ![k] = 1]
        /\ lock' = [lck EXCEPT ![k] = token[d]]
        /\ reply' = [reply EXCEPT ![d] = [job |-> k, defa |-> defa'[k], atm |-> atm'[k]]]
        /\ runs' = IF defa'[k] THEN runs ELSE [runs EXCEPT ![k] = @ + 1]
    BY <2>1, <2>2 DEF PrepareJobForProcessing
  <2>4. active' \in [Job -> Nat] /\ lock' \in [Job -> Token \cup {NoToken}]
    BY <2>2, <2>3, Zenon DEF TypeOK
  <2>5. reply' \in [Dispatcher -> Snapshot]
    BY <2>2, <2>3, Zenon DEF TypeOK, Snapshot
  <2>6. runs' \in [Job -> Int]
    BY <2>2, <2>3 DEF TypeOK
  <2>7. ASSUME NEW l \in Job PROVE Apart(l)'
    <3>1. MidApart(l, act) /\ MidApart(k, act)
      BY <2>2, Zenon
    <3>2. CASE l = k
      <4>1. active'[l] = 1
        BY <2>2, <2>3, <3>2, Zenon
      <4>2. l \notin Range(wait') /\ l \notin prioritized'
        BY <2>1, <3>2, Zenon
      <4>3. l \notin delayed'
        BY <1>4, <3>2, Zenon
      <4>4. l \in hash' /\ l \notin completed' /\ l \notin failed'
        BY <3>1, <3>2, Zenon DEF MidApart
      <4> QED BY <4>1, <4>2, <4>3, <4>4 DEF Apart
    <3>3. CASE l # k
      <4>1. active'[l] = act[l]
        BY <2>2, <2>3, <3>3, Zenon
      <4>2. l \in Range(wait') \/ l \in prioritized' <=> l \in Ready
        BY <2>1, <3>3, Zenon
      <4> QED BY <4>1, <4>2, <3>1, <1>1, <1>4, <1>5, ZenonT(30) DEF MidApart, Apart
    <3> QED BY <3>2, <3>3, Zenon
  <2>8. LockedIsActive'
    BY <2>2, <2>3, SMTT(30) DEF LockedIsActive
  <2>9. \A l \in Job : act[l] > 0 => active'[l] > 0
    BY <2>2, <2>3
  <2> QED BY <1>2, <2>4, <2>5, <2>6, <2>7, <2>8, <2>9, Zenon
<1> QED BY <1>1, <1>6, <1>7, Zenon

\* moveToActive.
LEMMA StoreInvMoveToActive ==
  ASSUME StoreInv, NEW d \in Dispatcher, MoveToActive(d)
  PROVE  StoreInv'
<1> USE DEF StoreInv
<1>1. FetchNextJob(d, active, lock)
  BY Zenon DEF MoveToActive
<1>2. /\ UNCHANGED <<hash, atm, stc, defa, completed, failed, stalled, stalledCheck, paused>>
      /\ UNCHANGED <<token, cur, plan, beat, disturb>>
      /\ pc' = [pc EXCEPT ![d] = "replied"]
  BY Zenon DEF MoveToActive, endVars, scanVars
<1>3. ASSUME NEW k \in Job PROVE MidApart(k, active)
  <2>1. Apart(k) /\ due \subseteq delayed
    BY Zenon DEF TypeOK
  <2> QED BY <1>2, <2>1, Zenon DEF MidApart, Apart, Ready
<1>4. /\ active \in [Job -> Nat] /\ lock \in [Job -> Token \cup {NoToken}]
      /\ atm' \in [Job -> Nat] /\ defa' \in [Job -> BOOLEAN]
      /\ \A k \in Job : lock[k] # NoToken => active[k] > 0
  BY <1>2, Zenon DEF TypeOK, LockedIsActive
<1>5. /\ wait' \in Seq(Job) /\ IsInjective(wait')
      /\ prioritized' \subseteq Job /\ delayed' \subseteq Job /\ due' \subseteq delayed'
      /\ active' \in [Job -> Nat] /\ lock' \in [Job -> Token \cup {NoToken}]
      /\ reply' \in [Dispatcher -> Snapshot] /\ runs' \in [Job -> Int]
      /\ \A k \in Job : Apart(k)'
      /\ LockedIsActive'
      /\ \A k \in Job : active[k] > 0 => active'[k] > 0
  BY <1>1, <1>3, <1>4, FetchKeepsStore, ZenonT(30)
<1>6. pc' \in [Dispatcher -> Where]
  BY <1>2, Zenon DEF TypeOK, Where
<1>7. TypeOK'
  BY <1>2, <1>5, <1>6, Zenon DEF TypeOK
<1>8. StalledIsActive'
  BY <1>2, <1>5, Zenon DEF StalledIsActive, ActiveJobs
<1> QED BY <1>5, <1>7, <1>8, Zenon

\* moveToFinished, with and without fetching the next job.
LEMMA StoreInvMoveToFinished ==
  ASSUME StoreInv, NEW d \in Dispatcher, NEW fetchNext \in BOOLEAN,
         MoveToFinished(d, fetchNext)
  PROVE  StoreInv'
<1> DEFINE j == cur[d].job
           act == LeftActive(j)
           lck == Unlocked(j)
<1> USE DEF StoreInv
<1>1. Finalises(d, {"complete", "fail"}) /\ Code(d) = 0
  BY Zenon DEF MoveToFinished, Finalises
<1>2. j \in Job /\ j \in hash /\ active[j] > 0
  BY <1>1, CodeZero, Zenon
<1>3. active[j] = 1
  BY <1>2, ActiveOnce, Zenon
<1>4. /\ UNCHANGED <<stalledCheck, paused, token, cur, plan, beat, disturb>>
      /\ pc' = [pc EXCEPT ![d] = "replied"]
      /\ stalled' = stalled \ {j}
  BY <1>1, Zenon DEF MoveToFinished, Finalises
<1>5. /\ completed' = IF j \notin Discard /\ plan[d] = "complete" THEN completed \cup {j} ELSE completed
      /\ failed' = IF j \notin Discard /\ plan[d] = "fail" THEN failed \cup {j} ELSE failed
      /\ hash' = IF j \notin Discard THEN hash ELSE hash \ {j}
      /\ plan[d] = "complete" \/ plan[d] = "fail"
  BY <1>1, Zenon DEF MoveToFinished, Finalises
<1>6. /\ atm' = [atm EXCEPT ![j] = IF j \notin Discard THEN @ + 1 ELSE 0]
      /\ stc' = [stc EXCEPT ![j] = IF j \notin Discard THEN @ ELSE 0]
      /\ defa' = [defa EXCEPT ![j] = j \notin Discard /\ plan[d] = "complete" /\ @]
  BY Zenon DEF MoveToFinished
<1>7. \/ FetchNextJob(d, act, lck)
      \/ NothingToFetch(d, act, lck) /\ UNCHANGED queueVars
  BY Zenon DEF MoveToFinished
<1>8. /\ act = [active EXCEPT ![j] = 0] /\ act \in [Job -> Nat]
      /\ lck = [lock EXCEPT ![j] = NoToken] /\ lck \in [Job -> Token \cup {NoToken}]
  BY <1>2, <1>3, LeftAndUnlocked, Zenon
<1>9. atm' \in [Job -> Nat] /\ stc' \in [Job -> Nat]
  BY <1>2, <1>6, SMTT(30) DEF TypeOK
<1>10. defa' \in [Job -> BOOLEAN]
  BY <1>2, <1>6, Zenon DEF TypeOK
<1>11. completed' \subseteq Job /\ failed' \subseteq Job /\ hash' \subseteq Job
  BY <1>2, <1>5, Zenon DEF TypeOK
<1>12. stalled' \subseteq Job /\ pc' \in [Dispatcher -> Where]
  BY <1>4, Zenon DEF TypeOK, Where
<1> HIDE DEF j, act, lck
<1>13. ASSUME NEW k \in Job PROVE MidApart(k, act)
  <2>1. Apart(k) /\ Apart(j) /\ due \subseteq delayed
    BY <1>2, Zenon DEF TypeOK
  <2>2. CASE k = j
    BY <2>1, <2>2, <1>2, <1>3, <1>5, <1>8, SMTT(30) DEF MidApart, Apart, Ready, TypeOK
  <2>3. CASE k # j
    <3>1. act[k] = active[k]
      BY <2>3, <1>2, <1>8, Zenon DEF TypeOK
    <3>2. /\ k \in completed' <=> k \in completed
          /\ k \in failed' <=> k \in failed
          /\ k \in hash' <=> k \in hash
      BY <2>3, <1>5, Zenon
    <3> QED BY <2>1, <3>1, <3>2, ZenonT(30) DEF MidApart, Apart, Ready
  <2> QED BY <2>2, <2>3, Zenon
<1>14. \A k \in Job : lck[k] # NoToken => act[k] > 0
  BY <1>2, <1>8, Zenon DEF LockedIsActive, TypeOK
<1>15. /\ wait' \in Seq(Job) /\ IsInjective(wait')
       /\ prioritized' \subseteq Job /\ delayed' \subseteq Job /\ due' \subseteq delayed'
       /\ active' \in [Job -> Nat] /\ lock' \in [Job -> Token \cup {NoToken}]
       /\ reply' \in [Dispatcher -> Snapshot] /\ runs' \in [Job -> Int]
       /\ \A k \in Job : Apart(k)'
       /\ LockedIsActive'
       /\ \A k \in Job : act[k] > 0 => active'[k] > 0
  <2>1. CASE FetchNextJob(d, act, lck)
    BY <2>1, <1>8, <1>9, <1>10, <1>13, <1>14, FetchKeepsStore, Zenon
  <2>2. CASE NothingToFetch(d, act, lck) /\ UNCHANGED queueVars
    <3>1. /\ active' = act /\ lock' = lck /\ runs' = runs
          /\ reply' = [reply EXCEPT ![d] = NoSnap]
          /\ wait' = wait /\ prioritized' = prioritized /\ delayed' = delayed /\ due' = due
      BY <2>2, Zenon DEF NothingToFetch, queueVars
    <3>2. /\ active' \in [Job -> Nat] /\ lock' \in [Job -> Token \cup {NoToken}]
          /\ reply' \in [Dispatcher -> Snapshot] /\ runs' \in [Job -> Int]
      BY <3>1, <1>8, Zenon DEF TypeOK, NoSnap, Snapshot
    <3>3. ASSUME NEW k \in Job PROVE Apart(k)'
      <4>1. MidApart(k, act) /\ Apart(k) /\ due \subseteq delayed
        BY <1>13, Zenon DEF TypeOK
      <4> QED BY <4>1, <3>1, Zenon DEF MidApart, Apart, Ready
    <3> QED BY <3>1, <3>2, <3>3, <1>14, Zenon DEF TypeOK, LockedIsActive
  <2> QED BY <1>7, <2>1, <2>2, Zenon
<1>16. TypeOK'
  BY <1>4, <1>9, <1>10, <1>11, <1>12, <1>15, ZenonT(30) DEF TypeOK
<1>17. StalledIsActive'
  BY <1>2, <1>4, <1>8, <1>15, Zenon DEF StalledIsActive, ActiveJobs, TypeOK
<1> QED BY <1>15, <1>16, <1>17, Zenon

\* retryJob.
LEMMA StoreInvRetryJob ==
  ASSUME StoreInv, NEW d \in Dispatcher, RetryJob(d)
  PROVE  StoreInv'
<1> DEFINE j == cur[d].job
<1> USE DEF StoreInv
<1>1. Finalises(d, {"retry"}) /\ Code(d) = 0
  BY Zenon  DEF RetryJob, Finalises
<1>2. j \in Job /\ j \in hash /\ active[j] > 0
  BY <1>1, CodeZero, Zenon
<1>3. active[j] = 1 /\ Apart(j)
  BY <1>2, ActiveOnce, Zenon
<1>4. /\ UNCHANGED <<completed, failed, stalledCheck, paused, hash, stc, defa>>
      /\ UNCHANGED <<token, cur, plan, beat, disturb, runs>>
      /\ pc' = [pc EXCEPT ![d] = "replied"]
      /\ stalled' = stalled \ {j}
      /\ delayed' = delayed \ due /\ due' = {}
      /\ prioritized' = PromotedPrioritized \cup ({j} \cap PriorityJobs)
      /\ atm' = [atm EXCEPT ![j] = @ + 1]
      /\ active' = LeftActive(j) /\ lock' = Unlocked(j)
      /\ reply' = [reply EXCEPT ![d] = NoSnap]
  BY <1>1, Zenon DEF RetryJob, Finalises, NothingToFetch, endVars
<1>5. PICK w \in PromotedWait : wait' = IF j \in PriorityJobs THEN w ELSE Push(w, j)
  BY Zenon DEF RetryJob
<1>6. NoDup(w) /\ Range(w) = Range(wait) \cup (due \ PriorityJobs)
  BY PromotedWaitNoDup, Zenon
<1>7. j \notin Range(w)
  BY <1>3, <1>6, SMTT(30) DEF Apart, TypeOK
<1>8. NoDup(Push(w, j)) /\ Range(Push(w, j)) = Range(w) \cup {j}
  BY <1>2, <1>6, <1>7, NoDupPush, ZenonT(30)
<1>9. /\ active' = [active EXCEPT ![j] = 0]
      /\ lock' = [lock EXCEPT ![j] = NoToken]
  BY <1>2, <1>3, <1>4, LeftAndUnlocked, Zenon
<1> HIDE DEF j
<1>10. NoDup(wait') /\ Range(wait') = Range(wait) \cup (due \ PriorityJobs) \cup ({j} \ PriorityJobs)
  BY <1>5, <1>6, <1>8, Zenon
<1>11. TypeOK'
  <2>1. /\ active' \in [Job -> Nat] /\ lock' \in [Job -> Token \cup {NoToken}]
    BY <1>2, <1>9, Zenon DEF TypeOK
  <2>4. atm' = [atm EXCEPT ![j] = atm[j] + 1]
    BY <1>4, Zenon
  <2>5. atm' \in [Job -> Nat]
    BY <1>2, <2>4, SMTT(30) DEF TypeOK
  <2>2. pc' \in [Dispatcher -> Where] /\ reply' \in [Dispatcher -> Snapshot]
    BY <1>4, Zenon DEF TypeOK, Where, NoSnap, Snapshot
  <2>3. prioritized' \subseteq Job
    BY <1>2, <1>4, Zenon DEF TypeOK, PromotedPrioritized
  <2> QED BY <1>4, <1>10, <2>1, <2>2, <2>3, <2>5, ZenonT(30) DEF TypeOK, NoDup
<1>12. ASSUME NEW k \in Job PROVE Apart(k)'
  <2>1. Apart(k) /\ due \subseteq delayed
    BY Zenon DEF TypeOK
  <2>2. CASE k = j
    <3>1. active'[k] = 0
      BY <2>2, <1>2, <1>9, Zenon DEF TypeOK
    <3>2. /\ k \in hash /\ k \notin completed /\ k \notin failed
          /\ k \notin Range(wait) /\ k \notin prioritized /\ k \notin delayed
      BY <2>1, <2>2, <1>2, <1>3, SMTT(30) DEF Apart
    <3>3. k \notin due /\ k \notin delayed'
      BY <2>1, <3>2, <1>4, Zenon
    <3>4. k \in Range(wait') <=> k \notin PriorityJobs
      BY <2>2, <3>2, <3>3, <1>10, Zenon
    <3>5. k \in prioritized' <=> k \in PriorityJobs
      BY <2>2, <3>2, <3>3, <1>4, Zenon DEF PromotedPrioritized
    <3>6. k \in hash' /\ k \notin completed' /\ k \notin failed'
      BY <3>2, <1>4, Zenon
    <3> HIDE DEF StoreInv
    <3> QED BY <3>1, <3>3, <3>4, <3>5, <3>6, SMTT(30) DEF Apart
  <2>3. CASE k # j
    <3>1. active'[k] = active[k]
      BY <2>3, <1>2, <1>9, Zenon DEF TypeOK
    <3> QED BY <2>1, <2>3, <3>1, <1>4, <1>10, ZenonT(30) DEF Apart, PromotedPrioritized
  <2> QED BY <2>2, <2>3, Zenon
<1>13. LockedIsActive' /\ StalledIsActive'
  BY <1>2, <1>4, <1>9, Zenon DEF LockedIsActive, StalledIsActive, ActiveJobs, TypeOK
<1> QED BY <1>10, <1>11, <1>12, <1>13, Zenon DEF NoDup

\* moveToDelayed.
LEMMA StoreInvMoveToDelayed ==
  ASSUME StoreInv, NEW d \in Dispatcher, MoveToDelayed(d)
  PROVE  StoreInv'
<1> DEFINE j == cur[d].job
<1> USE DEF StoreInv
<1>1. Finalises(d, {"delay", "postpone"}) /\ Code(d) = 0
  BY ZenonT(30) DEF MoveToDelayed, Finalises
<1>2. j \in Job /\ j \in hash /\ active[j] > 0
  BY <1>1, CodeZero, ZenonT(30)
<1>3. active[j] = 1 /\ Apart(j)
  BY <1>2, ActiveOnce, Zenon
<1>4. /\ UNCHANGED <<wait, prioritized, due, completed, failed, stalledCheck, paused, hash>>
      /\ UNCHANGED <<stc, defa, token, cur, plan, beat, disturb>>
      /\ pc' = [pc EXCEPT ![d] = "replied"]
      /\ stalled' = stalled \ {j}
      /\ delayed' = delayed \cup {j}
      /\ reply' = [reply EXCEPT ![d] = NoSnap]
  BY <1>1, Zenon DEF MoveToDelayed, Finalises, endVars
<1>5. /\ active' = [active EXCEPT ![j] = 0]
      /\ lock' = [lock EXCEPT ![j] = NoToken]
  BY <1>2, <1>3, LeftAndUnlocked, ZenonT(30) DEF MoveToDelayed
<1>6. atm' \in [Job -> Nat] /\ runs' \in [Job -> Int]
  <2>1. atm \in [Job -> Nat] /\ runs \in [Job -> Int]
    BY Zenon  DEF TypeOK
  <2>2. /\ atm' = atm \/ atm' = [atm EXCEPT ![j] = atm[j] + 1]
        /\ runs' = runs \/ runs' = [runs EXCEPT ![j] = runs[j] - 1]
    BY ZenonT(30) DEF MoveToDelayed
  <2> HIDE DEF StoreInv, j
  <2> QED BY <1>2, <2>1, <2>2
<1> HIDE DEF j
<1>7. TypeOK'
  <2>1. active' \in [Job -> Nat] /\ lock' \in [Job -> Token \cup {NoToken}]
    BY <1>2, <1>5, Zenon DEF TypeOK
  <2>2. pc' \in [Dispatcher -> Where] /\ reply' \in [Dispatcher -> Snapshot]
    BY <1>4, Zenon DEF TypeOK, Where, NoSnap, Snapshot
  <2> QED BY <1>2, <1>4, <1>6, <2>1, <2>2, ZenonT(30) DEF TypeOK
<1>8. ASSUME NEW k \in Job PROVE Apart(k)'
  <2>1. Apart(k)
    BY Zenon
  <2>2. CASE k = j
    <3>1. active'[k] = 0
      BY <2>2, <1>2, <1>5, Zenon DEF TypeOK
    <3>2. /\ k \in hash /\ k \notin completed /\ k \notin failed
          /\ k \notin Range(wait) /\ k \notin prioritized
      BY <2>1, <2>2, <1>2, <1>3, SMTT(30) DEF Apart
    <3>3. /\ k \in hash' /\ k \notin completed' /\ k \notin failed'
          /\ k \notin Range(wait') /\ k \notin prioritized' /\ k \in delayed'
      BY <2>2, <3>2, <1>4, Zenon
    <3> HIDE DEF StoreInv
    <3> QED BY <3>1, <3>3 DEF Apart
  <2>3. CASE k # j
    <3>1. active'[k] = active[k]
      BY <2>3, <1>2, <1>5, Zenon DEF TypeOK
    <3> QED BY <2>1, <2>3, <3>1, <1>4, ZenonT(30) DEF Apart
  <2> QED BY <2>2, <2>3, Zenon
<1>9. LockedIsActive' /\ StalledIsActive'
  BY <1>2, <1>4, <1>5, Zenon DEF LockedIsActive, StalledIsActive, ActiveJobs, TypeOK
<1> QED BY <1>4, <1>7, <1>8, <1>9, Zenon

\* A finalising script that fails: retryJob may have promoted delayed jobs.
LEMMA StoreInvFinaliseRejected ==
  ASSUME StoreInv, NEW d \in Dispatcher, FinaliseRejected(d)
  PROVE  StoreInv'
<1> USE DEF StoreInv
<1>1. /\ UNCHANGED <<active, completed, failed, stalledCheck, paused, hash, atm, stc, defa>>
      /\ UNCHANGED <<token, cur, plan, beat, disturb, runs>>
      /\ pc' = [pc EXCEPT ![d] = "rejected"]
      /\ reply' = [reply EXCEPT ![d] = NoSnap]
  BY Zenon  DEF FinaliseRejected, endVars, fieldVars
<1>2. \/ lock' = Unlocked(cur[d].job) /\ stalled' = stalled \ {cur[d].job}
      \/ lock' = lock /\ stalled' = stalled
  BY Zenon  DEF FinaliseRejected
<1>3. /\ NoDup(wait') /\ prioritized' \subseteq Job /\ delayed' \subseteq Job
      /\ due' \subseteq delayed'
      /\ \A k \in Job : /\ k \in delayed' => k \in delayed
                        /\ Apart(k) => Apart(k)'
  <2>1. CASE /\ delayed' = delayed \ due
             /\ due' = {}
             /\ wait' \in PromotedWait
             /\ prioritized' = PromotedPrioritized
    <3>1. NoDup(wait') /\ Range(wait') = Range(wait) \cup (due \ PriorityJobs)
      BY <2>1, PromotedWaitNoDup, Zenon
    <3>2. due \subseteq delayed /\ delayed \subseteq Job /\ prioritized \subseteq Job
      BY Zenon  DEF TypeOK
    <3>3. ASSUME NEW k \in Job, Apart(k) PROVE Apart(k)'
      BY <3>1, <3>2, <3>3, <2>1, <1>1, Zenon DEF Apart, PromotedPrioritized
    <3> QED BY <2>1, <3>1, <3>2, <3>3, Zenon DEF PromotedPrioritized
  <2>2. CASE UNCHANGED queueVars
    <3>1. NoDup(wait) /\ UNCHANGED <<wait, prioritized, delayed, due>>
      BY <2>2, Zenon DEF NoDup, TypeOK, queueVars
    <3>2. ASSUME NEW k \in Job, Apart(k) PROVE Apart(k)'
      BY <3>1, <3>2, <1>1, Zenon DEF Apart
    <3> QED BY <3>1, <3>2, Zenon DEF TypeOK
  <2> QED BY <2>1, <2>2, Zenon DEF FinaliseRejected
<1>4. lock' \in [Job -> Token \cup {NoToken}] /\ stalled' \subseteq Job
  BY <1>2, ZenonT(30) DEF TypeOK, Unlocked
<1>5. pc' \in [Dispatcher -> Where] /\ reply' \in [Dispatcher -> Snapshot]
  BY <1>1, Zenon DEF TypeOK, Where, NoSnap, Snapshot
<1>6. TypeOK'
  BY <1>1, <1>3, <1>4, <1>5, Zenon DEF TypeOK, NoDup
<1>7. \A k \in Job : lock'[k] = lock[k] \/ lock'[k] = NoToken
  BY <1>2, Zenon DEF Unlocked, TypeOK
<1>8. LockedIsActive' /\ StalledIsActive'
  BY <1>1, <1>2, <1>7, Zenon DEF LockedIsActive, StalledIsActive, ActiveJobs
<1>9. \A k \in Job : Apart(k)'
  BY <1>3, Zenon
<1> QED BY <1>3, <1>6, <1>8, <1>9, Zenon DEF NoDup

\* A dispatcher that goes back to the top of its loop.
LEMMA ToIdleType ==
  ASSUME TypeOK, NEW d \in Dispatcher, ToIdle(d)
  PROVE  /\ pc' \in [Dispatcher -> Where] /\ token' \in [Dispatcher -> Token \cup {NoToken}]
         /\ cur' \in [Dispatcher -> Snapshot] /\ plan' \in [Dispatcher -> Plan]
         /\ reply' \in [Dispatcher -> Snapshot] /\ beat' \in [Dispatcher -> BOOLEAN]
BY Zenon DEF ToIdle, TypeOK, Where, Plan, NoSnap, Snapshot

\* The steps of a dispatcher that write no job key: drawing a token, reading a
\* reply, the end of the handler, and the losses.
LEMMA StoreInvLocal ==
  ASSUME StoreInv, NEW d \in Dispatcher,
         \/ \E t \in Token : TryOnce(d, t)
         \/ ReadReply(d)
         \/ \E outcome \in Outcomes : HandlerReturns(d, outcome)
         \/ Disturbances(d)
  PROVE  StoreInv'
<1>1. TypeOK
  BY Zenon DEF StoreInv
<1>2. UNCHANGED storeVars
  <2>1. CASE \E t \in Token : TryOnce(d, t)
    BY <2>1, Zenon DEF TryOnce
  <2>2. CASE ReadReply(d)
    BY <2>2, Zenon DEF ReadReply
  <2>3. CASE \E outcome \in Outcomes : HandlerReturns(d, outcome)
    BY <2>3, Zenon DEF HandlerReturns
  <2>4. CASE Disturbances(d)
    BY <2>4, Zenon DEF Disturbances, HeartbeatFails, RequestLost, ReplyLost, Resent, Crash
  <2> QED BY <2>1, <2>2, <2>3, <2>4, Zenon
<1>3. disturb' \in 0..MaxDisturb /\ runs' = runs
  <2>1. CASE \E t \in Token : TryOnce(d, t)
    BY <1>1, <2>1, Zenon DEF TryOnce, TypeOK
  <2>2. CASE ReadReply(d)
    BY <1>1, <2>2, Zenon DEF ReadReply, TypeOK
  <2>3. CASE \E outcome \in Outcomes : HandlerReturns(d, outcome)
    BY <1>1, <2>3, Zenon DEF HandlerReturns, TypeOK
  <2>4. CASE Disturbances(d)
    <3>1. Disturb /\ runs' = runs
      BY <2>4, Zenon DEF Disturbances, HeartbeatFails, RequestLost, ReplyLost, Resent, Crash
    <3>2. disturb \in 0..MaxDisturb /\ MaxDisturb \in Nat
      BY <1>1, ConstantsAssumption, Zenon DEF TypeOK
    <3> QED BY <3>1, <3>2, SMTT(30) DEF Disturb
  <2> QED BY <2>1, <2>2, <2>3, <2>4, Zenon
<1>4. NoSnap \in Snapshot
  BY Zenon  DEF NoSnap, Snapshot
<1>5. /\ pc' \in [Dispatcher -> Where] /\ token' \in [Dispatcher -> Token \cup {NoToken}]
      /\ cur' \in [Dispatcher -> Snapshot] /\ plan' \in [Dispatcher -> Plan]
      /\ reply' \in [Dispatcher -> Snapshot] /\ beat' \in [Dispatcher -> BOOLEAN]
  <2>1. CASE \E t \in Token : TryOnce(d, t)
    BY <1>1, <2>1, ZenonT(30) DEF TryOnce, TypeOK, Where
  <2>2. CASE ReadReply(d)
    <3>1. CASE ToIdle(d)
      BY <1>1, <3>1, ToIdleType, Zenon
    <3>2. CASE ~ToIdle(d)
      <4>1. /\ cur' = [cur EXCEPT ![d] = reply[d]]
            /\ reply' = [reply EXCEPT ![d] = NoSnap]
            /\ token' = token
        BY <2>2, <3>2, Zenon DEF ReadReply
      <4>2. /\ pc' \in [Dispatcher -> Where] /\ plan' \in [Dispatcher -> Plan]
            /\ beat' \in [Dispatcher -> BOOLEAN]
        <5>1. \E q \in Where, p \in Plan, b \in BOOLEAN :
                /\ pc' = [pc EXCEPT ![d] = q]
                /\ plan' = [plan EXCEPT ![d] = p]
                /\ beat' = beat \/ beat' = [beat EXCEPT ![d] = b]
          BY <2>2, <3>2, Zenon DEF ReadReply, Where, Plan
        <5>2. /\ pc \in [Dispatcher -> Where] /\ plan \in [Dispatcher -> Plan]
              /\ beat \in [Dispatcher -> BOOLEAN]
          BY <1>1, Zenon DEF TypeOK
        <5> QED BY <5>1, <5>2, Zenon
      <4> QED BY <1>1, <1>4, <4>1, <4>2, ZenonT(30) DEF TypeOK
    <3> QED BY <3>1, <3>2, Zenon
  <2>3. CASE \E outcome \in Outcomes : HandlerReturns(d, outcome)
    <3>1. PICK p : p \in Plan /\ plan' = [plan EXCEPT ![d] = p]
      BY <2>3, ZenonT(30) DEF HandlerReturns, Plans, Plan
    <3> QED BY <1>1, <2>3, <3>1, Zenon DEF HandlerReturns, TypeOK, Where
  <2>4. CASE Disturbances(d)
    <3>1. CASE ToIdle(d)
      BY <1>1, <3>1, ToIdleType, Zenon
    <3>2. CASE HeartbeatFails(d)
      BY <1>1, <3>2, Zenon DEF HeartbeatFails, TypeOK
    <3>3. CASE RequestLost(d) /\ ~ToIdle(d)
      BY <1>1, <3>3, Zenon DEF RequestLost, TypeOK, Where
    <3>4. CASE ReplyLost(d) /\ ~ToIdle(d)
      BY <1>1, <1>4, <3>4, ZenonT(30) DEF ReplyLost, TypeOK, Where
    <3>5. CASE Resent(d)
      BY <1>1, <1>4, <3>5, Zenon DEF Resent, TypeOK, Where
    <3> QED BY <2>4, <3>1, <3>2, <3>3, <3>4, <3>5, ZenonT(30) DEF Disturbances, Crash
  <2> QED BY <2>1, <2>2, <2>3, <2>4, Zenon
<1>6. TypeOK'
  BY <1>1, <1>2, <1>3, <1>5, Zenon
     DEF TypeOK, storeVars, queueVars, fieldVars, endVars, scanVars
<1> QED BY <1>2, <1>6, StoreInvUnchanged, Zenon

\* extendLock and releaseLock.
LEMMA StoreInvLock ==
  ASSUME StoreInv, NEW d \in Dispatcher, Heartbeat(d) \/ ReleaseLock(d)
  PROVE  StoreInv'
<1> USE DEF StoreInv, queueVars, fieldVars, endVars, scanVars
<1>1. CASE Heartbeat(d)
  <2>1. stalled' \subseteq stalled /\ beat' \in [Dispatcher -> BOOLEAN]
    BY <1>1, Zenon DEF Heartbeat, TypeOK
  <2>2. TypeOK'
    BY <1>1, <2>1, ZenonT(30) DEF Heartbeat, TypeOK
  <2> QED BY <1>1, <2>1, <2>2, ZenonT(30)
          DEF Heartbeat, Apart, LockedIsActive, StalledIsActive, ActiveJobs
<1>2. CASE ReleaseLock(d)
  <2>1. /\ lock' \in [Job -> Token \cup {NoToken}]
        /\ \A k \in Job : lock'[k] = lock[k] \/ lock'[k] = NoToken
    BY <1>2, ZenonT(30) DEF ReleaseLock, Unlocked, TypeOK
  <2>2. /\ pc' \in [Dispatcher -> Where] /\ token' \in [Dispatcher -> Token \cup {NoToken}]
        /\ cur' \in [Dispatcher -> Snapshot] /\ plan' \in [Dispatcher -> Plan]
        /\ reply' \in [Dispatcher -> Snapshot] /\ beat' \in [Dispatcher -> BOOLEAN]
    BY <1>2, ToIdleType, Zenon DEF ReleaseLock
  <2>3. TypeOK'
    BY <1>2, <2>1, <2>2, Zenon DEF ReleaseLock, TypeOK
  <2> QED BY <1>2, <2>1, <2>3, ZenonT(30)
          DEF ReleaseLock, Apart, LockedIsActive, StalledIsActive, ActiveJobs
<1> QED BY <1>1, <1>2, Zenon

\* Every step keeps the store invariant.
LEMMA StoreInvNext == StoreInv /\ [Next]_vars => StoreInv'
<1> SUFFICES ASSUME StoreInv, [Next]_vars PROVE StoreInv'
  BY Zenon
<1>1. CASE \E j \in Job : Adds(j)
  BY <1>1, StoreInvAdds, Zenon
<1>2. CASE \/ \E j \in Job : BecomesDue(j) \/ LockExpires(j)
           \/ Pause \/ Resume \/ StalledCheckExpires
  BY <1>2, StoreInvTime, Zenon
<1>3. CASE MoveStalledJobsToWait
  BY <1>3, StoreInvScan, Zenon
<1>4. ASSUME NEW d \in Dispatcher, Works(d) \/ Heartbeat(d) \/ Disturbances(d)
      PROVE  StoreInv'
  BY <1>4, StoreInvMoveToActive, StoreInvMoveToFinished, StoreInvRetryJob,
     StoreInvMoveToDelayed, StoreInvFinaliseRejected, StoreInvLocal, StoreInvLock, Zenon
     DEF Works
<1>5. CASE UNCHANGED vars
  <2>1. TypeOK'
    BY <1>5, Zenon DEF StoreInv, TypeOK, vars, storeVars, queueVars, fieldVars, endVars,
                scanVars, dispVars
  <2> QED BY <1>5, <2>1, StoreInvUnchanged, Zenon DEF vars
<1> QED BY <1>1, <1>2, <1>3, <1>4, <1>5, Zenon DEF Next

\* The store invariant holds in every reachable state.
THEOREM StoreInvariant == Spec => []StoreInv
BY StoreInvInit, StoreInvNext, PTL DEF Spec

\* Every variable keeps its type.
THEOREM TypeCorrect == Spec => []TypeOK
<1>1. StoreInv => TypeOK
  BY Zenon DEF StoreInv
<1> QED BY <1>1, StoreInvariant, PTL

\* No job is ever lost or in two places.
THEOREM JobsInOneBucket == Spec => []OneBucket
<1>1. StoreInv => OneBucket
  <2> SUFFICES ASSUME StoreInv PROVE OneBucket
    BY Zenon
  <2>0. /\ wait \in Seq(Job) /\ IsInjective(wait) /\ active \in [Job -> Nat]
        /\ prioritized \subseteq Job /\ delayed \subseteq Job
        /\ completed \subseteq Job /\ failed \subseteq Job /\ hash \subseteq Job
        /\ \A j \in Job : Apart(j)
    BY Zenon DEF StoreInv, TypeOK
  <2>1. Range(wait) \subseteq Job
    BY <2>0, RangeOfJobs, Zenon
  <2>2. /\ Buckets[1] = Range(wait) /\ Buckets[2] = prioritized /\ Buckets[3] = delayed
        /\ Buckets[4] = ActiveJobs /\ Buckets[5] = completed /\ Buckets[6] = failed
        /\ DOMAIN Buckets = 1..6
    BY DEF Buckets
  <2>3. ASSUME NEW a \in DOMAIN Buckets, NEW b \in DOMAIN Buckets, a # b
        PROVE  Buckets[a] \cap Buckets[b] = {}
    <3>1. ASSUME NEW j \in Job
          PROVE  ~(j \in Buckets[a] /\ j \in Buckets[b])
      <4>1. Apart(j) /\ active[j] \in Nat /\ (j \in ActiveJobs <=> active[j] > 0)
        BY <2>0, Zenon DEF ActiveJobs
      <4>2. /\ j \in Range(wait) => /\ j \notin prioritized /\ j \notin delayed
                                   /\ j \notin ActiveJobs
                                   /\ j \notin completed /\ j \notin failed
            /\ j \in prioritized => /\ j \notin delayed /\ j \notin ActiveJobs
                                    /\ j \notin completed /\ j \notin failed
            /\ j \in delayed => /\ j \notin ActiveJobs
                                /\ j \notin completed /\ j \notin failed
            /\ j \in ActiveJobs => j \notin completed /\ j \notin failed
            /\ j \in completed => j \notin failed
        BY <4>1 DEF Apart
      <4>3. a \in 1..6 /\ b \in 1..6
        BY <2>2, Zenon
      <4> QED BY <2>2, <2>3, <4>2, <4>3
    <3>2. Buckets[a] \subseteq Job
      <4>1. a \in {1, 2, 3, 4, 5, 6}
        BY <2>2
      <4>2. ActiveJobs \subseteq Job
        BY Zenon DEF ActiveJobs
      <4> QED BY <2>0, <2>1, <2>2, <4>1, <4>2, ZenonT(30)
    <3> QED BY <3>1, <3>2, Zenon
  <2>4. UNION Range(Buckets) = hash
    <3>1. UNION Range(Buckets) = Range(wait) \cup prioritized \cup delayed \cup ActiveJobs
                                   \cup completed \cup failed
      BY <2>2 DEF Range
    <3>2. /\ hash \subseteq Job
          /\ Range(wait) \cup prioritized \cup delayed \cup ActiveJobs
               \cup completed \cup failed \subseteq Job
      BY <2>0, <2>1, Zenon DEF ActiveJobs
    <3>3. ASSUME NEW j \in Job
          PROVE  j \in hash <=> \/ j \in Range(wait) \/ j \in prioritized \/ j \in delayed
                                \/ j \in ActiveJobs \/ j \in completed \/ j \in failed
      <4>1. Apart(j) /\ active[j] \in Nat /\ (j \in ActiveJobs <=> active[j] > 0)
        BY <2>0, Zenon DEF ActiveJobs
      <4> QED BY <4>1, Zenon DEF Apart
    <3> QED BY <3>1, <3>2, <3>3, Zenon
  <2> QED BY <2>0, <2>3, <2>4, Zenon DEF OneBucket, Apart
<1> QED BY <1>1, StoreInvariant, PTL

\* Locks and the marks of the stalled checker are only ever on active jobs, so the
\* scripts' error -3 cannot occur.
THEOREM HeldAreActive == Spec => []OnlyActiveHeld
<1>1. StoreInv => OnlyActiveHeld
  BY Zenon DEF StoreInv, OnlyActiveHeld
<1> QED BY <1>1, StoreInvariant, PTL

=============================================================================

--------------------------- MODULE JobQueueProofs ----------------------------
(***************************************************************************)
(* What a dispatcher knows of its job is right for as long as the lock is  *)
(* its own, whoever else runs the job; the accounts of attempts, stalls and *)
(* handler runs; the theorems that follow from the three parts of the      *)
(* inductive invariant; and the refinement of the job service: every step  *)
(* of the scripts and of the dispatchers is a step of JobService or        *)
(* changes nothing that a user of the queue can see.                       *)
(***************************************************************************)
EXTENDS JobQueueStoreProofs

-----------------------------------------------------------------------------
(* Ownership *)

\* No two dispatchers have the same token.
TokensUnique ==
  \A d, e \in Dispatcher : token[d] # NoToken /\ token[d] = token[e] => d = e

\* What dispatcher e knows of a job is right as long as the lock is its own: the
\* snapshot it works with or is about to read, and a decision to retry.  Once
\* it has finalised a job it does not own it any more, so that a command that
\* is sent again finds no lock.
OwnerOK(e) ==
  /\ pc[e] \in {"idle", "asking"} => cur[e].job = NoJob
  /\ \A j \in Job :
       /\ Owns(e, j) /\ pc[e] \in {"running", "finalising"}
            => cur[e].atm = atm[j] /\ cur[e].defa = defa[j]
       /\ Owns(e, j) /\ pc[e] = "finalising" /\ plan[e] \in {"retry", "delay"}
            => atm[j] + 1 < Attempts[j]
       /\ Owns(e, j) => pc[e] # "replied"
       /\ pc[e] = "replied" /\ reply[e].job = j /\ token[e] # NoToken /\ lock[j] = token[e]
            => reply[e].atm = atm[j] /\ reply[e].defa = defa[j]

OwnerInv == TokensUnique /\ \A e \in Dispatcher : OwnerOK(e)

-----------------------------------------------------------------------------
(* Ownership is inductive *)

\* Nobody has a token at first.
LEMMA OwnerInvInit == Init => OwnerInv
BY DEF Init, OwnerInv, TokensUnique, OwnerOK, Owns, NoSnap

\* A step in which dispatcher e takes no part, and which neither gives its token
\* to a job nor touches the fields of a job that it has locked.
LEMMA OwnerFrame ==
  ASSUME NEW e \in Dispatcher, OwnerOK(e),
         pc'[e] = pc[e], token'[e] = token[e], cur'[e] = cur[e],
         plan'[e] = plan[e], reply'[e] = reply[e],
         \A j \in Job : token[e] # NoToken /\ lock'[j] = token[e]
                          => lock[j] = token[e] /\ atm'[j] = atm[j] /\ defa'[j] = defa[j]
  PROVE  OwnerOK(e)'
BY ZenonT(30) DEF OwnerOK, Owns

\* Adding jobs, time and the stalled scan.
LEMMA OwnerInvStore ==
  ASSUME StoreInv, OwnerInv,
         \/ \E j \in Job : Adds(j) \/ BecomesDue(j) \/ LockExpires(j)
         \/ Pause \/ Resume \/ StalledCheckExpires \/ MoveStalledJobsToWait
         \/ UNCHANGED vars
  PROVE  OwnerInv'
<1>1. UNCHANGED dispVars
  BY Zenon DEF Adds, AddStandardJob, AddDelayedJob, AddPrioritizedJob, BecomesDue, LockExpires,
         Pause, Resume, StalledCheckExpires, MoveStalledJobsToWait, vars
<1>2. UNCHANGED <<pc, token, cur, plan, reply>>
  BY <1>1, Zenon DEF dispVars
<1>3. ASSUME NEW j \in Job, lock'[j] # NoToken
      PROVE  lock[j] = lock'[j] /\ atm'[j] = atm[j] /\ defa'[j] = defa[j]
  <2>1. CASE \E k \in Job : LockExpires(k)
    <3>1. PICK k \in Job : LockExpires(k)
      BY <2>1, Zenon
    <3>2. lock' = [lock EXCEPT ![k] = NoToken] /\ UNCHANGED <<atm, defa>>
      BY <3>1, Zenon DEF LockExpires, fieldVars
    <3> QED BY <3>2, <1>3, Zenon DEF StoreInv, TypeOK
  <2>2. CASE MoveStalledJobsToWait
    <3>1. lock' = lock /\ atm' = atm
      BY <2>2, Zenon DEF MoveStalledJobsToWait
    <3>2. j \notin StalledJobs
      BY <1>3, <3>1, Zenon DEF StalledJobs
    <3>3. defa'[j] = defa[j]
      BY <2>2, <3>2, Zenon DEF MoveStalledJobsToWait, StoreInv, TypeOK
    <3> QED BY <3>1, <3>3, Zenon
  <2>3. CASE \/ \E k \in Job : Adds(k) \/ BecomesDue(k)
             \/ Pause \/ Resume \/ StalledCheckExpires \/ UNCHANGED vars
    BY <2>3, Zenon DEF Adds, AddStandardJob, AddDelayedJob, AddPrioritizedJob, BecomesDue,
                Pause, Resume, StalledCheckExpires, vars, storeVars, fieldVars
  <2> QED BY <2>1, <2>2, <2>3, Zenon
<1>4. TokensUnique'
  BY <1>2, Zenon DEF OwnerInv, TokensUnique
<1>5. ASSUME NEW e \in Dispatcher PROVE OwnerOK(e)'
  <2>1. OwnerOK(e)
    BY Zenon DEF OwnerInv
  <2>2. \A j \in Job : token[e] # NoToken /\ lock'[j] = token[e]
                         => lock[j] = token[e] /\ atm'[j] = atm[j] /\ defa'[j] = defa[j]
    BY <1>3, Zenon
  <2> QED BY <1>2, <2>1, <2>2, OwnerFrame, Zenon
<1> QED BY <1>4, <1>5, Zenon DEF OwnerInv

\* No job was locked, or one that was not active and that the reply names.
FetchedLock(d, lck) ==
  \/ lock' = lck /\ reply' = [reply EXCEPT ![d] = NoSnap]
  \/ \E k \in Job :
       /\ active[k] = 0
       /\ lock' = [lck EXCEPT ![k] = token[d]]
       /\ reply' = [reply EXCEPT ![d] = [job |-> k, defa |-> defa'[k], atm |-> atm'[k]]]

\* The locks and the reply after fetchNextJob.
LEMMA FetchLocks ==
  ASSUME StoreInv, NEW d \in Dispatcher, NEW act, NEW lck, FetchNextJob(d, act, lck)
  PROVE  FetchedLock(d, lck)
<1>1. \/ NothingToFetch(d, act, lck)
      \/ \E k \in Ready : PrepareJobForProcessing(d, k, act, lck)
  BY FetchNextJobEffect, Zenon
<1>2. \A k \in Ready : k \in Job /\ active[k] = 0
  <2>1. wait \in Seq(Job) /\ prioritized \subseteq Job /\ delayed \subseteq Job /\ due \subseteq delayed
    BY Zenon DEF StoreInv, TypeOK
  <2>2. Ready \subseteq Job
    BY <2>1, RangeOfJobs, Zenon DEF Ready
  <2>3. \A k \in Job : Apart(k)
    BY Zenon DEF StoreInv
  <2> QED BY <2>1, <2>2, <2>3, Zenon DEF Ready, Apart
<1> QED BY <1>1, <1>2, Zenon DEF FetchedLock, NothingToFetch, PrepareJobForProcessing

\* A step of dispatcher d leaves what the others know right, provided that it
\* gives no lock but its own and writes only to jobs that it unlocks.
LEMMA OwnerOthers ==
  ASSUME StoreInv, OwnerInv, NEW d \in Dispatcher, NEW e \in Dispatcher, e # d,
         pc'[e] = pc[e], token'[e] = token[e], cur'[e] = cur[e],
         plan'[e] = plan[e], reply'[e] = reply[e],
         \A j \in Job : \/ lock'[j] = NoToken
                        \/ lock'[j] = token[d]
                        \/ lock'[j] = lock[j] /\ atm'[j] = atm[j] /\ defa'[j] = defa[j]
  PROVE  OwnerOK(e)'
<1>1. OwnerOK(e) /\ (token[e] # NoToken => token[e] # token[d])
  BY Zenon DEF OwnerInv, TokensUnique
<1> QED BY <1>1, OwnerFrame, Zenon

\* The step changes what dispatcher d has in hand and nobody else's hands, gives
\* no lock but d's and writes only to jobs that it unlocks or locks.
ByOnly(d) ==
  /\ \A e \in Dispatcher \ {d} :
       /\ pc'[e] = pc[e] /\ token'[e] = token[e] /\ cur'[e] = cur[e]
       /\ plan'[e] = plan[e] /\ reply'[e] = reply[e]
  /\ \A j \in Job : \/ lock'[j] = NoToken
                    \/ lock'[j] = token[d]
                    \/ lock'[j] = lock[j] /\ atm'[j] = atm[j] /\ defa'[j] = defa[j]

\* Such a step keeps ownership when d keeps its token (or gives it up) and knows
\* what it has to know.
LEMMA OwnerByOnly ==
  ASSUME StoreInv, OwnerInv, NEW d \in Dispatcher, ByOnly(d), OwnerOK(d)',
         token'[d] = token[d] \/ token'[d] = NoToken
  PROVE  OwnerInv'
<1>1. TokensUnique'
  BY DEF ByOnly, OwnerInv, TokensUnique
<1>2. ASSUME NEW e \in Dispatcher, e # d PROVE OwnerOK(e)'
  BY <1>2, OwnerOthers, Zenon DEF ByOnly
<1> QED BY <1>1, <1>2, Zenon DEF OwnerInv

\* Going back to the top of the loop.
LEMMA OwnerToIdle ==
  ASSUME StoreInv, OwnerInv, NEW d \in Dispatcher, ToIdle(d), UNCHANGED <<atm, defa>>,
         \A j \in Job : lock'[j] = NoToken \/ lock'[j] = lock[j]
  PROVE  OwnerInv'
<1>1. /\ pc'[d] = "idle" /\ token'[d] = NoToken /\ cur'[d] = NoSnap
      /\ \A e \in Dispatcher \ {d} :
           /\ pc'[e] = pc[e] /\ token'[e] = token[e] /\ cur'[e] = cur[e]
           /\ plan'[e] = plan[e] /\ reply'[e] = reply[e]
  BY Zenon DEF ToIdle, StoreInv, TypeOK
<1>2. ByOnly(d)
  BY <1>1, Zenon DEF ByOnly
<1>3. OwnerOK(d)'
  BY <1>1 DEF OwnerOK, Owns, NoSnap
<1> QED BY <1>1, <1>2, <1>3, OwnerByOnly, Zenon

\* Drawing a token, and the heartbeat.
LEMMA OwnerInvToken ==
  ASSUME StoreInv, OwnerInv, NEW d \in Dispatcher,
         (\E t \in Token : TryOnce(d, t)) \/ Heartbeat(d) \/ HeartbeatFails(d)
  PROVE  OwnerInv'
<1>1. CASE \E t \in Token : TryOnce(d, t)
  <2>1. PICK t \in Token : TryOnce(d, t)
    BY <1>1, Zenon
  <2>2. /\ pc[d] = "idle" /\ pc' = [pc EXCEPT ![d] = "asking"]
        /\ token' = [token EXCEPT ![d] = t]
        /\ UNCHANGED <<cur, plan, reply, lock, atm, defa>>
    BY <2>1, Zenon DEF TryOnce, storeVars, fieldVars
  <2>3. \A e \in Dispatcher : token[e] # t
    BY <2>1, Zenon DEF TryOnce, FreshToken
  <2>4. token \in [Dispatcher -> Token \cup {NoToken}] /\ pc \in [Dispatcher -> Where]
    BY Zenon DEF StoreInv, TypeOK
  <2>5. TokensUnique'
    BY <2>2, <2>3, <2>4, Zenon DEF OwnerInv, TokensUnique
  <2>6. cur[d].job = NoJob /\ NoJob \notin Job
    BY <2>2, ConstantsAssumption, Zenon DEF OwnerInv, OwnerOK
  <2>7. OwnerOK(d)'
    BY <2>2, <2>4, <2>6, Zenon DEF OwnerOK, Owns
  <2>8. ASSUME NEW e \in Dispatcher, e # d PROVE OwnerOK(e)'
    <3>1. pc'[e] = pc[e] /\ token'[e] = token[e]
      BY <2>2, <2>4, <2>8, Zenon
    <3> QED BY <2>2, <2>8, <3>1, OwnerOthers, Zenon
  <2> QED BY <2>5, <2>7, <2>8, Zenon DEF OwnerInv
<1>2. CASE Heartbeat(d) \/ HeartbeatFails(d)
  <2>1. UNCHANGED <<pc, token, cur, plan, reply, lock, atm, defa>>
    BY <1>2, Zenon DEF Heartbeat, HeartbeatFails, storeVars, fieldVars
  <2> QED BY <2>1, ZenonT(30) DEF OwnerInv, TokensUnique, OwnerOK, Owns
<1> QED BY <1>1, <1>2, Zenon

\* moveToActive locks the job in the reply, whose snapshot is taken at once.
LEMMA OwnerInvMoveToActive ==
  ASSUME StoreInv, OwnerInv, NEW d \in Dispatcher, MoveToActive(d)
  PROVE  OwnerInv'
<1>1. /\ pc[d] = "asking" /\ pc' = [pc EXCEPT ![d] = "replied"]
      /\ UNCHANGED <<atm, defa, token, cur, plan>>
      /\ FetchNextJob(d, active, lock)
  BY Zenon DEF MoveToActive
<1>2. /\ pc \in [Dispatcher -> Where] /\ reply \in [Dispatcher -> Snapshot]
      /\ lock \in [Job -> Token \cup {NoToken}]
  BY Zenon DEF StoreInv, TypeOK
<1>3. cur[d].job = NoJob /\ NoJob \notin Job
  BY <1>1, ConstantsAssumption, Zenon DEF OwnerInv, OwnerOK
<1>4. CASE lock' = lock /\ reply' = [reply EXCEPT ![d] = NoSnap]
  <2>1. ByOnly(d)
    BY <1>1, <1>2, <1>4, Zenon DEF ByOnly
  <2>2. pc'[d] = "replied" /\ reply'[d].job \notin Job /\ cur'[d].job \notin Job
    BY <1>1, <1>2, <1>3, <1>4, Zenon DEF NoSnap
  <2>3. OwnerOK(d)'
    BY <2>2, Zenon DEF OwnerOK, Owns
  <2> QED BY <1>1, <2>1, <2>3, OwnerByOnly, Zenon
<1>5. CASE \E k \in Job :
             /\ active[k] = 0
             /\ lock' = [lock EXCEPT ![k] = token[d]]
             /\ reply' = [reply EXCEPT ![d] = [job |-> k, defa |-> defa'[k], atm |-> atm'[k]]]
  <2>1. PICK k \in Job :
             /\ lock' = [lock EXCEPT ![k] = token[d]]
             /\ reply' = [reply EXCEPT ![d] = [job |-> k, defa |-> defa'[k], atm |-> atm'[k]]]
    BY <1>5, Zenon
  <2>2. ByOnly(d)
    BY <1>1, <1>2, <2>1, Zenon DEF ByOnly
  <2>3. /\ pc'[d] = "replied" /\ cur'[d].job \notin Job
        /\ reply'[d].job = k /\ reply'[d].defa = defa'[k] /\ reply'[d].atm = atm'[k]
    BY <1>1, <1>2, <1>3, <2>1, Zenon
  <2>4. OwnerOK(d)'
    BY <2>3, Zenon DEF OwnerOK, Owns
  <2> QED BY <1>1, <2>2, <2>4, OwnerByOnly, Zenon
<1>6. FetchedLock(d, lock)
  BY <1>1, FetchLocks, Zenon
<1> QED BY <1>4, <1>5, <1>6, Zenon DEF FetchedLock

\* Reading the reply turns its snapshot into the current one.
LEMMA OwnerInvReadReply ==
  ASSUME StoreInv, OwnerInv, NEW d \in Dispatcher, ReadReply(d)
  PROVE  OwnerInv'
<1>1. pc[d] = "replied" /\ UNCHANGED <<lock, atm, defa>>
  BY Zenon DEF ReadReply, storeVars, fieldVars
<1>2. CASE ToIdle(d)
  BY <1>1, <1>2, OwnerToIdle, Zenon
<1>3. CASE ~ToIdle(d)
  <2>1. /\ cur' = [cur EXCEPT ![d] = reply[d]]
        /\ reply' = [reply EXCEPT ![d] = NoSnap]
        /\ token' = token
    BY <1>3, Zenon DEF ReadReply
  <2>2. \/ /\ pc' = [pc EXCEPT ![d] = "finalising"]
           /\ plan' = [plan EXCEPT ![d] = "fail"]
        \/ /\ pc' = [pc EXCEPT ![d] = "running"]
           /\ plan' = [plan EXCEPT ![d] = "none"]
    BY <1>3, Zenon DEF ReadReply
  <2>3. /\ pc \in [Dispatcher -> Where] /\ reply \in [Dispatcher -> Snapshot]
        /\ cur \in [Dispatcher -> Snapshot] /\ plan \in [Dispatcher -> Plan]
    BY Zenon DEF StoreInv, TypeOK
  <2>4. ByOnly(d)
    BY <1>1, <2>1, <2>2, <2>3, Zenon DEF ByOnly
  <2>5. /\ cur'[d] = reply[d]
        /\ \/ pc'[d] = "finalising" /\ plan'[d] = "fail"
           \/ pc'[d] = "running"
    BY <2>1, <2>2, <2>3, Zenon
  <2>6. OwnerOK(d)
    BY Zenon  DEF OwnerInv
  <2>7. OwnerOK(d)'
    BY <1>1, <2>1, <2>5, <2>6, Zenon DEF OwnerOK, Owns
  <2> QED BY <2>1, <2>4, <2>7, OwnerByOnly, Zenon
<1> QED BY <1>2, <1>3, Zenon

\* The decision to retry rests on the attempts of an owned job.
LEMMA OwnerInvHandlerReturns ==
  ASSUME StoreInv, OwnerInv, NEW d \in Dispatcher, NEW outcome \in Outcomes,
         HandlerReturns(d, outcome)
  PROVE  OwnerInv'
<1>1. /\ pc[d] = "running" /\ pc' = [pc EXCEPT ![d] = "finalising"]
      /\ UNCHANGED <<token, cur, reply, lock, atm, defa>>
  BY Zenon DEF HandlerReturns, storeVars, fieldVars
<1>0. PICK made \in FetchAtm(d) : \E p \in Plans(cur[d].job, outcome, made) :
        plan' = [plan EXCEPT ![d] = p]
  BY Zenon DEF HandlerReturns
<1>2. PICK p \in Plans(cur[d].job, outcome, made) : plan' = [plan EXCEPT ![d] = p]
  BY <1>0, ZenonT(30)
<1>3. pc \in [Dispatcher -> Where] /\ plan \in [Dispatcher -> Plan]
  BY Zenon DEF StoreInv, TypeOK
<1>4. ByOnly(d)
  BY <1>1, <1>2, <1>3, Zenon DEF ByOnly
<1>5. OwnerOK(d)
  BY Zenon DEF OwnerInv
<1>6. pc'[d] = "finalising" /\ plan'[d] = p
  BY <1>1, <1>2, <1>3, Zenon
<1>7. ASSUME NEW j \in Job, Owns(d, j), p \in {"retry", "delay"}
      PROVE  atm[j] + 1 < Attempts[j]
  <2>1. cur[d].job = j /\ cur[d].atm = atm[j]
    BY <1>1, <1>5, <1>7, Zenon DEF OwnerOK, Owns
  <2>2. made = atm[j]
    BY <2>1, Zenon DEF FetchAtm
  <2>3. ShouldRetry(j, made)
    BY <1>2, <1>7, <2>1, Zenon DEF Plans
  <2> QED BY <2>2, <2>3, Zenon DEF ShouldRetry
<1>8. OwnerOK(d)'
  BY <1>1, <1>5, <1>6, <1>7, Zenon DEF OwnerOK, Owns
<1> QED BY <1>1, <1>4, <1>8, OwnerByOnly, Zenon

\* After a finalising script its caller does not own the job any more.
LEMMA OwnerInvFinalised ==
  ASSUME StoreInv, OwnerInv, NEW d \in Dispatcher,
         (\E fetchNext \in BOOLEAN : MoveToFinished(d, fetchNext)) \/ RetryJob(d) \/ MoveToDelayed(d)
  PROVE  OwnerInv'
<1> DEFINE j == cur[d].job
<1>1. /\ pc[d] = "finalising" /\ pc' = [pc EXCEPT ![d] = "replied"]
      /\ Code(d) = 0
      /\ UNCHANGED <<token, cur, plan>>
  BY Zenon  DEF MoveToFinished, RetryJob, MoveToDelayed, Finalises
<1>2. /\ j \in Job /\ active[j] > 0
      /\ token[d] # NoToken
  BY <1>1, CodeZero, Zenon DEF StoreInv
<1>3. /\ pc \in [Dispatcher -> Where] /\ reply \in [Dispatcher -> Snapshot]
      /\ lock \in [Job -> Token \cup {NoToken}]
      /\ atm \in [Job -> Nat] /\ defa \in [Job -> BOOLEAN]
  BY Zenon  DEF StoreInv, TypeOK
<1>4. \A k \in Job : k # j => atm'[k] = atm[k] /\ defa'[k] = defa[k]
  BY <1>2, <1>3, Zenon DEF MoveToFinished, RetryJob, MoveToDelayed
<1>5. \/ lock' = Unlocked(j) /\ reply' = [reply EXCEPT ![d] = NoSnap]
      \/ \E k \in Job :
           /\ active[k] = 0
           /\ lock' = [Unlocked(j) EXCEPT ![k] = token[d]]
           /\ reply' = [reply EXCEPT ![d] = [job |-> k, defa |-> defa'[k], atm |-> atm'[k]]]
  <2>1. CASE \E fetchNext \in BOOLEAN : MoveToFinished(d, fetchNext)
    <3>1. \/ FetchNextJob(d, LeftActive(j), Unlocked(j))
          \/ NothingToFetch(d, LeftActive(j), Unlocked(j))
      BY <2>1, Zenon DEF MoveToFinished
    <3>2. CASE FetchNextJob(d, LeftActive(j), Unlocked(j))
      <4>1. FetchedLock(d, Unlocked(j))
        BY <3>2, FetchLocks, Zenon
      <4> QED BY <4>1, Zenon DEF FetchedLock
    <3>3. CASE NothingToFetch(d, LeftActive(j), Unlocked(j))
      BY <3>3, Zenon DEF NothingToFetch
    <3> QED BY <3>1, <3>2, <3>3, Zenon
  <2>2. CASE RetryJob(d)
    BY <2>2, ZenonT(30) DEF RetryJob, NothingToFetch
  <2>3. CASE MoveToDelayed(d)
    BY <2>3, Zenon DEF MoveToDelayed
  <2> QED BY <2>1, <2>2, <2>3, Zenon
<1>6. Unlocked(j) = [lock EXCEPT ![j] = NoToken]
  BY Zenon  DEF Unlocked
<1> HIDE DEF j
<1>7. cur'[d].job = j /\ pc'[d] = "replied" /\ token'[d] = token[d]
  BY <1>1, <1>3, Zenon DEF j
<1>8. CASE lock' = Unlocked(j) /\ reply' = [reply EXCEPT ![d] = NoSnap]
  <2>1. ByOnly(d)
    BY <1>1, <1>2, <1>3, <1>4, <1>6, <1>8, Zenon DEF ByOnly
  <2>2. lock'[j] = NoToken /\ reply'[d].job \notin Job
    BY <1>2, <1>3, <1>6, <1>8, ConstantsAssumption, Zenon DEF NoSnap
  <2>3. OwnerOK(d)'
    BY <1>2, <1>7, <2>2, ZenonT(30) DEF OwnerOK, Owns
  <2> QED BY <1>7, <2>1, <2>3, OwnerByOnly, Zenon
<1>9. CASE \E k \in Job :
             /\ active[k] = 0
             /\ lock' = [Unlocked(j) EXCEPT ![k] = token[d]]
             /\ reply' = [reply EXCEPT ![d] = [job |-> k, defa |-> defa'[k], atm |-> atm'[k]]]
  <2>1. PICK k \in Job :
             /\ active[k] = 0
             /\ lock' = [Unlocked(j) EXCEPT ![k] = token[d]]
             /\ reply' = [reply EXCEPT ![d] = [job |-> k, defa |-> defa'[k], atm |-> atm'[k]]]
    BY <1>9, ZenonT(30)
  <2>2. k # j
    BY <1>2, <2>1
  <2>3. lock' = [lock EXCEPT ![j] = NoToken, ![k] = token[d]]
    BY <1>6, <2>1, Zenon
  <2>4. ByOnly(d)
    BY <1>1, <1>2, <1>3, <1>4, <2>1, <2>2, <2>3, Zenon DEF ByOnly
  <2>5. /\ lock'[j] = NoToken
        /\ reply'[d].job = k /\ reply'[d].defa = defa'[k] /\ reply'[d].atm = atm'[k]
    BY <1>2, <1>3, <2>1, <2>2, <2>3, ZenonT(30)
  <2>6. OwnerOK(d)'
    BY <1>2, <1>7, <2>5, Zenon DEF OwnerOK, Owns
  <2> QED BY <1>7, <2>4, <2>6, OwnerByOnly, Zenon
<1> QED BY <1>5, <1>8, <1>9, Zenon

\* Errors, losses and crashes.
LEMMA OwnerInvDisturbed ==
  ASSUME StoreInv, OwnerInv, NEW d \in Dispatcher,
         FinaliseRejected(d) \/ ReleaseLock(d) \/ RequestLost(d) \/ ReplyLost(d)
           \/ Resent(d) \/ Crash(d)
  PROVE  OwnerInv'
<1>1. /\ UNCHANGED <<atm, defa>>
      /\ \A j \in Job : lock'[j] = NoToken \/ lock'[j] = lock[j]
  BY Zenon 
     DEF FinaliseRejected, ReleaseLock, RequestLost, ReplyLost, Resent, Crash, Unlocked,
         storeVars, fieldVars, StoreInv, TypeOK
<1>2. CASE ToIdle(d)
  BY <1>1, <1>2, OwnerToIdle, ZenonT(30)
<1>3. CASE ~ToIdle(d)
  <2>1. \/ pc' = [pc EXCEPT ![d] = "rejected"] /\ pc[d] # "idle" /\ pc[d] # "asking"
        \/ /\ pc' = [pc EXCEPT ![d] = IF cur[d].job = NoJob THEN "asking" ELSE "finalising"]
           /\ pc[d] = "replied"
    BY <1>3, Zenon DEF FinaliseRejected, ReleaseLock, RequestLost, ReplyLost, Resent, Crash
  <2>2. /\ UNCHANGED <<token, cur, plan>>
        /\ reply' = [reply EXCEPT ![d] = NoSnap] \/ reply' = reply
    BY <1>3, Zenon DEF FinaliseRejected, ReleaseLock, RequestLost, ReplyLost, Resent, Crash
  <2>3. pc \in [Dispatcher -> Where] /\ reply \in [Dispatcher -> Snapshot]
    BY Zenon  DEF StoreInv, TypeOK
  <2>4. ByOnly(d)
    BY <1>1, <2>1, <2>2, <2>3, ZenonT(30) DEF ByOnly
  <2>5. OwnerOK(d)
    BY Zenon  DEF OwnerInv
  <2>6. \A j \in Job : Owns(d, j)' => Owns(d, j)
    BY <1>1, <2>2, ZenonT(30) DEF Owns
  <2>7. \/ pc'[d] = "rejected"
        \/ pc'[d] = "asking" /\ cur'[d].job = NoJob
        \/ pc'[d] = "finalising" /\ pc[d] = "replied"
    BY <2>1, <2>2, <2>3, Zenon
  <2>8. OwnerOK(d)'
    BY <2>5, <2>6, <2>7, ZenonT(30) DEF OwnerOK
  <2> QED BY <2>2, <2>4, <2>8, OwnerByOnly, Zenon
<1> QED BY <1>2, <1>3, Zenon

\* Every step keeps ownership.
LEMMA OwnerInvNext == StoreInv /\ OwnerInv /\ [Next]_vars => OwnerInv'
<1> SUFFICES ASSUME StoreInv, OwnerInv, [Next]_vars PROVE OwnerInv'
  BY Zenon
<1>1. CASE \/ \E j \in Job : Adds(j) \/ BecomesDue(j) \/ LockExpires(j)
           \/ Pause \/ Resume \/ StalledCheckExpires \/ MoveStalledJobsToWait
           \/ UNCHANGED vars
  BY <1>1, OwnerInvStore, Zenon
<1>2. ASSUME NEW d \in Dispatcher, Works(d) \/ Heartbeat(d) \/ Disturbances(d)
      PROVE  OwnerInv'
  BY <1>2, OwnerInvToken, OwnerInvMoveToActive, OwnerInvReadReply, OwnerInvHandlerReturns,
     OwnerInvFinalised, OwnerInvDisturbed, Zenon
     DEF Works, Disturbances
<1> QED BY <1>1, <1>2, Zenon DEF Next

-----------------------------------------------------------------------------
(* The accounts *)

\* The accounts of job j: the runs granted are covered by attempts, stalls and
\* the stay in the active list, and none of these passes its limit.
BudgetOK(j) ==
  /\ j \notin hash => atm[j] = 0 /\ stc[j] = 0 /\ ~defa[j]
  /\ atm[j] <= MaxAttempts(j)
  /\ j \in hash /\ j \notin completed /\ j \notin failed => atm[j] < MaxAttempts(j)
  /\ j \in hash => runs[j] <= atm[j] + stc[j] + active[j]
  /\ j \in hash /\ j \notin completed /\ j \notin failed /\ j \notin Repeatable /\ ~defa[j]
       => stc[j] <= MaxStalledCount
  /\ j \notin Repeatable => runs[j] <= MaxAttempts(j) + MaxStalledCount

BudgetInv == \A j \in Job : BudgetOK(j)

-----------------------------------------------------------------------------
(* The accounts are inductive *)

\* Every job has at least one attempt.
LEMMA MaxAttemptsType ==
  ASSUME NEW j \in Job
  PROVE  MaxAttempts(j) \in Nat /\ MaxAttempts(j) >= 1
BY ConstantsAssumption DEF MaxAttempts

\* Nothing has been charged or granted at first.
LEMMA BudgetInvInit == Init => BudgetInv
<1> SUFFICES ASSUME Init, NEW j \in Job PROVE BudgetOK(j)
  BY Zenon  DEF BudgetInv
<1> QED BY MaxAttemptsType, ConstantsAssumption DEF Init, BudgetOK

\* Nothing about job k changes.
LEMMA BudgetFrame ==
  ASSUME NEW k \in Job, BudgetOK(k),
         k \in hash' <=> k \in hash, k \in completed' <=> k \in completed,
         k \in failed' <=> k \in failed,
         atm'[k] = atm[k], stc'[k] = stc[k], defa'[k] = defa[k],
         active'[k] = active[k], runs'[k] = runs[k]
  PROVE  BudgetOK(k)'
BY Zenon DEF BudgetOK

\* Job k is made active; a run is granted unless its failure is deferred.
LEMMA BudgetFetched ==
  ASSUME StoreInv, NEW k \in Job, BudgetOK(k), k \in Ready,
         k \in hash' <=> k \in hash, k \in completed' <=> k \in completed,
         k \in failed' <=> k \in failed,
         atm'[k] = atm[k], stc'[k] = stc[k], defa'[k] = defa[k],
         active'[k] = 1, runs'[k] = IF defa[k] THEN runs[k] ELSE runs[k] + 1
  PROVE  BudgetOK(k)'
<1>1. /\ k \in hash /\ k \notin completed /\ k \notin failed /\ active[k] = 0
      /\ atm[k] \in Nat /\ stc[k] \in Nat /\ runs[k] \in Int /\ defa[k] \in BOOLEAN
  BY ZenonT(30) DEF StoreInv, TypeOK, Apart, Ready
<1>2. MaxAttempts(k) \in Nat /\ MaxAttempts(k) >= 1 /\ MaxStalledCount \in Nat
  BY MaxAttemptsType, ConstantsAssumption, Zenon
<1>3. CASE defa[k]
  BY <1>1, <1>2, <1>3, SMTT(30) DEF BudgetOK
<1>4. CASE ~defa[k]
  BY <1>1, <1>2, <1>4, SMTT(30) DEF BudgetOK
<1> QED BY <1>3, <1>4, Zenon

\* The active list and the runs after fetchNextJob.
LEMMA FetchRuns ==
  ASSUME StoreInv, NEW d \in Dispatcher, NEW act \in [Job -> Nat], NEW lck,
         FetchNextJob(d, act, lck)
  PROVE  \/ active' = act /\ runs' = runs
         \/ \E k \in Ready :
              /\ k \in Job /\ active[k] = 0
              /\ active' = [act EXCEPT ![k] = @ + 1]
              /\ runs' = IF defa'[k] THEN runs ELSE [runs EXCEPT ![k] = @ + 1]
<1>1. \/ NothingToFetch(d, act, lck)
      \/ \E k \in Ready : PrepareJobForProcessing(d, k, act, lck)
  BY FetchNextJobEffect, Zenon
<1>2. \A k \in Ready : k \in Job /\ active[k] = 0
  <2>1. wait \in Seq(Job) /\ prioritized \subseteq Job /\ delayed \subseteq Job /\ due \subseteq delayed
    BY Zenon DEF StoreInv, TypeOK
  <2>2. Ready \subseteq Job
    BY <2>1, RangeOfJobs, Zenon DEF Ready
  <2>3. \A k \in Job : Apart(k)
    BY Zenon DEF StoreInv
  <2> QED BY <2>1, <2>2, <2>3, Zenon DEF Ready, Apart
<1> QED BY <1>1, <1>2, Zenon DEF NothingToFetch, PrepareJobForProcessing

\* Steps that touch none of the accounts.
LEMMA BudgetInvUnchanged ==
  ASSUME BudgetInv,
         UNCHANGED <<hash, completed, failed, atm, stc, defa, active, runs>>
  PROVE  BudgetInv'
BY Zenon DEF BudgetInv, BudgetOK

\* Adding a job opens its accounts.
LEMMA BudgetInvAdds ==
  ASSUME StoreInv, BudgetInv, NEW j \in Job, Adds(j)
  PROVE  BudgetInv'
<1>1. /\ j \notin hash /\ hash' = hash \cup {j} /\ runs' = [runs EXCEPT ![j] = 0]
      /\ UNCHANGED <<completed, failed, atm, stc, defa, active>>
  BY Zenon DEF Adds, AddStandardJob, AddDelayedJob, AddPrioritizedJob, StoreJob
<1>2. runs \in [Job -> Int] /\ active[j] = 0
  BY <1>1 DEF StoreInv, TypeOK, Apart
<1> SUFFICES ASSUME NEW k \in Job PROVE BudgetOK(k)'
  BY Zenon DEF BudgetInv
<1>3. BudgetOK(k)
  BY Zenon DEF BudgetInv
<1>4. CASE k = j
  <2>1. runs'[k] = 0 /\ atm[k] = 0 /\ stc[k] = 0 /\ ~defa[k]
    BY <1>1, <1>2, <1>3, <1>4, Zenon DEF BudgetOK
  <2> QED BY <1>1, <1>2, <1>4, <2>1, MaxAttemptsType, ConstantsAssumption, SMTT(30) DEF BudgetOK
<1>5. CASE k # j
  BY <1>1, <1>2, <1>3, <1>5, BudgetFrame, Zenon
<1> QED BY <1>4, <1>5, Zenon

\* A stall is charged to the stalled counter; past the limit it defers a failure.
LEMMA BudgetInvScan ==
  ASSUME StoreInv, BudgetInv, MoveStalledJobsToWait
  PROVE  BudgetInv'
<1> SUFFICES ASSUME NEW k \in Job PROVE BudgetOK(k)'
  BY Zenon DEF BudgetInv
<1>1. BudgetOK(k) /\ Apart(k)
  BY Zenon DEF BudgetInv, StoreInv
<1>2. /\ active[k] \in Nat /\ atm[k] \in Nat /\ stc[k] \in Nat /\ runs[k] \in Int
      /\ defa[k] \in BOOLEAN /\ StalledJobs \subseteq Job
  BY Zenon DEF StoreInv, TypeOK, StalledJobs
<1>3. /\ UNCHANGED <<completed, failed, atm, runs>>
      /\ hash' = hash \cup StalledJobs
  BY Zenon  DEF MoveStalledJobsToWait, endVars
<1>4. CASE k \in StalledJobs
  <2>1. active[k] = 1 /\ k \in hash /\ k \notin completed /\ k \notin failed
    BY <1>1, <1>2, <1>4, SMTT(30) DEF StalledJobs, Apart
  <2>2. /\ active'[k] = 0 /\ stc'[k] = stc[k] + 1
        /\ defa'[k] = (defa[k] \/ (k \notin Repeatable /\ stc[k] + 1 > MaxStalledCount))
    BY <1>4, <2>1 DEF MoveStalledJobsToWait, PassesStalledLimit
  <2>3. MaxAttempts(k) \in Nat /\ MaxStalledCount \in Nat
    BY MaxAttemptsType, ConstantsAssumption, Zenon
  <2>4. k \notin Repeatable /\ ~defa'[k] => stc[k] + 1 <= MaxStalledCount
    <3>1. k \notin Repeatable /\ ~defa'[k] => ~(stc[k] + 1 > MaxStalledCount)
      BY <2>2, Zenon
    <3>2. ~(stc[k] + 1 > MaxStalledCount) => stc[k] + 1 <= MaxStalledCount
      BY <1>2, <2>3
    <3> QED BY <3>1, <3>2, Zenon
  <2>5. /\ atm'[k] = atm[k] /\ runs'[k] = runs[k]
        /\ k \in hash' /\ k \notin completed' /\ k \notin failed'
    BY <1>3, <2>1, Zenon
  <2>6. /\ atm[k] < MaxAttempts(k) /\ runs[k] <= atm[k] + stc[k] + 1
        /\ k \notin Repeatable => runs[k] <= MaxAttempts(k) + MaxStalledCount
    BY <1>1, <2>1, Zenon DEF BudgetOK
  <2>7. atm[k] <= MaxAttempts(k) /\ runs[k] <= atm[k] + (stc[k] + 1) + 0
    BY <1>2, <2>3, <2>6, SMTT(30)
  <2> QED BY <2>2, <2>4, <2>5, <2>6, <2>7, ZenonT(30) DEF BudgetOK
<1>5. CASE k \notin StalledJobs
  <2>1. active'[k] = active[k] /\ stc'[k] = stc[k]
    BY <1>5, Zenon DEF MoveStalledJobsToWait, PassesStalledLimit
  <2>2. defa'[k] = defa[k]
    BY <1>2, <1>5, Zenon DEF MoveStalledJobsToWait, PassesStalledLimit
  <2> QED BY <1>1, <1>3, <1>5, <2>1, <2>2, BudgetFrame, Zenon
<1> QED BY <1>4, <1>5, Zenon

\* moveToActive grants a run.
LEMMA BudgetInvMoveToActive ==
  ASSUME StoreInv, BudgetInv, NEW d \in Dispatcher, MoveToActive(d)
  PROVE  BudgetInv'
<1>1. /\ UNCHANGED <<hash, atm, stc, defa, completed, failed>>
      /\ FetchNextJob(d, active, lock)
  BY Zenon DEF MoveToActive, endVars
<1>2. active \in [Job -> Nat] /\ runs \in [Job -> Int]
  BY Zenon DEF StoreInv, TypeOK
<1>3. CASE active' = active /\ runs' = runs
  BY <1>1, <1>3, BudgetInvUnchanged, Zenon
<1>4. ASSUME NEW k \in Ready, k \in Job, active[k] = 0,
             active' = [active EXCEPT ![k] = @ + 1],
             runs' = IF defa'[k] THEN runs ELSE [runs EXCEPT ![k] = @ + 1]
      PROVE  BudgetInv'
  <2> SUFFICES ASSUME NEW l \in Job PROVE BudgetOK(l)'
    BY Zenon DEF BudgetInv
  <2>1. BudgetOK(l)
    BY Zenon DEF BudgetInv
  <2>2. CASE l = k
    <3>1. active'[k] = 1 /\ runs'[k] = IF defa[k] THEN runs[k] ELSE runs[k] + 1
      BY <1>1, <1>2, <1>4, SMTT(30)
    <3> QED BY <1>1, <1>4, <2>1, <2>2, <3>1, BudgetFetched, Zenon
  <2>3. CASE l # k
    <3>1. active'[l] = active[l] /\ runs'[l] = runs[l]
      BY <1>2, <1>4, <2>3, Zenon
    <3> QED BY <1>1, <2>1, <3>1, BudgetFrame, ZenonT(30)
  <2> QED BY <2>2, <2>3, Zenon
<1> QED BY <1>1, <1>2, <1>3, <1>4, FetchRuns, Zenon

\* moveToFinished charges an attempt to the finished job, or closes its accounts,
\* and grants a run to the next one.
LEMMA BudgetInvMoveToFinished ==
  ASSUME StoreInv, BudgetInv, NEW d \in Dispatcher, NEW fetchNext \in BOOLEAN,
         MoveToFinished(d, fetchNext)
  PROVE  BudgetInv'
<1>1. Code(d) = 0 /\ (plan[d] = "complete" \/ plan[d] = "fail")
  BY Zenon  DEF MoveToFinished, Finalises
<1>0. PICK j \in Job : j = cur[d].job
  BY <1>1, CodeZero, Zenon DEF StoreInv
<1> DEFINE act == LeftActive(j)
<1>2. j \in Job /\ j \in hash /\ active[j] > 0
  BY <1>0, <1>1, CodeZero, Zenon DEF StoreInv
<1>3. active[j] = 1 /\ j \notin Ready
  BY <1>2, SMTT(30) DEF StoreInv, Apart, TypeOK, Ready
<1>4. /\ completed' = IF j \notin Discard /\ plan[d] = "complete" THEN completed \cup {j} ELSE completed
      /\ failed' = IF j \notin Discard /\ plan[d] = "fail" THEN failed \cup {j} ELSE failed
      /\ hash' = IF j \notin Discard THEN hash ELSE hash \ {j}
      /\ atm' = [atm EXCEPT ![j] = IF j \notin Discard THEN @ + 1 ELSE 0]
      /\ stc' = [stc EXCEPT ![j] = IF j \notin Discard THEN @ ELSE 0]
      /\ defa' = [defa EXCEPT ![j] = j \notin Discard /\ plan[d] = "complete" /\ @]
  BY <1>0, Zenon DEF MoveToFinished
<1>5. /\ active \in [Job -> Nat] /\ runs \in [Job -> Int] /\ atm \in [Job -> Nat]
      /\ stc \in [Job -> Nat] /\ defa \in [Job -> BOOLEAN]
  BY Zenon DEF StoreInv, TypeOK
<1>6. act = [active EXCEPT ![j] = 0] /\ act \in [Job -> Nat]
  BY <1>2, <1>3, <1>5, SMTT(30) DEF LeftActive
<1>7. \/ active' = act /\ runs' = runs
      \/ \E k \in Ready :
           /\ k \in Job /\ active[k] = 0
           /\ active' = [act EXCEPT ![k] = @ + 1]
           /\ runs' = IF defa'[k] THEN runs ELSE [runs EXCEPT ![k] = @ + 1]
  <2>1. \/ FetchNextJob(d, act, Unlocked(j))
        \/ NothingToFetch(d, act, Unlocked(j))
    BY <1>0, Zenon DEF MoveToFinished
  <2>2. CASE FetchNextJob(d, act, Unlocked(j))
    BY <1>6, <2>2, FetchRuns, ZenonT(30)
  <2>3. CASE NothingToFetch(d, act, Unlocked(j))
    BY <2>3, Zenon DEF NothingToFetch
  <2> QED BY <2>1, <2>2, <2>3, ZenonT(30)
<1> HIDE DEF act
<1>8. active'[j] = 0 /\ runs'[j] = runs[j]
  BY <1>2, <1>3, <1>5, <1>6, <1>7, Zenon
<1>9. BudgetOK(j)'
  <2>1. BudgetOK(j) /\ j \notin completed /\ j \notin failed
    BY <1>2, <1>3, Zenon DEF BudgetInv, StoreInv, Apart
  <2>2. /\ atm[j] \in Nat /\ stc[j] \in Nat /\ runs[j] \in Int
        /\ MaxAttempts(j) \in Nat /\ MaxStalledCount \in Nat
    BY <1>2, <1>5, MaxAttemptsType, ConstantsAssumption, Zenon
  <2>3. /\ atm[j] < MaxAttempts(j) /\ runs[j] <= atm[j] + stc[j] + 1
        /\ j \notin Repeatable => runs[j] <= MaxAttempts(j) + MaxStalledCount
    BY <1>2, <1>3, <2>1, Zenon DEF BudgetOK
  <2>4. CASE j \notin Discard
    <3>1. /\ j \in completed' \/ j \in failed'
          /\ j \in hash'
          /\ atm'[j] = atm[j] + 1 /\ stc'[j] = stc[j]
      BY <1>1, <1>2, <1>4, <1>5, <2>4, Zenon
    <3>2. atm[j] + 1 <= MaxAttempts(j) /\ runs[j] <= (atm[j] + 1) + stc[j] + 0
      BY <2>2, <2>3, SMTT(30)
    <3> QED BY <1>8, <2>3, <3>1, <3>2, ZenonT(30) DEF BudgetOK
  <2>5. CASE j \in Discard
    <3>1. j \notin hash' /\ atm'[j] = 0 /\ stc'[j] = 0 /\ defa'[j] = FALSE
      BY <1>2, <1>4, <1>5, <2>5, ZenonT(30)
    <3>2. 0 <= MaxAttempts(j)
      BY <2>2
    <3> QED BY <1>8, <2>3, <3>1, <3>2, Zenon DEF BudgetOK
  <2> QED BY <2>4, <2>5, Zenon
<1>10. ASSUME NEW l \in Job, l # j PROVE BudgetOK(l)'
  <2>1. BudgetOK(l)
    BY Zenon  DEF BudgetInv
  <2>2. /\ l \in completed' <=> l \in completed
        /\ l \in failed' <=> l \in failed
        /\ l \in hash' <=> l \in hash
        /\ atm'[l] = atm[l] /\ stc'[l] = stc[l] /\ defa'[l] = defa[l] /\ act[l] = active[l]
    BY <1>2, <1>4, <1>5, <1>6, <1>10, Zenon
  <2>3. CASE active'[l] = act[l] /\ runs'[l] = runs[l]
    BY <2>1, <2>2, <2>3, BudgetFrame, ZenonT(30)
  <2>4. CASE ~(active'[l] = act[l] /\ runs'[l] = runs[l])
    <3>1. PICK k \in Ready :
             /\ k \in Job /\ active[k] = 0
             /\ active' = [act EXCEPT ![k] = @ + 1]
             /\ runs' = IF defa'[k] THEN runs ELSE [runs EXCEPT ![k] = @ + 1]
      BY <1>7, <2>4, Zenon
    <3>2. l = k
      BY <1>5, <1>6, <2>4, <3>1, Zenon
    <3>3. active'[l] = 1 /\ runs'[l] = IF defa[l] THEN runs[l] ELSE runs[l] + 1
      BY <1>5, <1>6, <2>2, <3>1, <3>2, SMTT(30)
    <3>4. l \in Ready
      BY <3>1, <3>2, Zenon
    <3> QED BY <2>1, <2>2, <3>3, <3>4, BudgetFetched, Zenon
  <2> QED BY <2>3, <2>4, Zenon
<1> QED BY <1>9, <1>10, Zenon DEF BudgetInv

\* A retry, immediate or delayed, is charged to an attempt that is left; a
\* handler that asked to be delayed hands its run back.
LEMMA BudgetInvRetried ==
  ASSUME StoreInv, OwnerInv, BudgetInv, NEW d \in Dispatcher,
         RetryJob(d) \/ MoveToDelayed(d)
  PROVE  BudgetInv'
<1>1. Code(d) = 0 /\ pc[d] = "finalising" /\ plan[d] \in {"retry", "delay", "postpone"}
  BY ZenonT(30) DEF RetryJob, MoveToDelayed, Finalises
<1>0. PICK j \in Job : j = cur[d].job
  BY <1>1, CodeZero, ZenonT(30) DEF StoreInv
<1>2. /\ j \in Job /\ j \in hash /\ active[j] > 0
      /\ token[d] # NoToken /\ lock[j] = token[d]
  BY <1>0, <1>1, CodeZero, Zenon DEF StoreInv
<1>3. active[j] = 1 /\ j \notin completed /\ j \notin failed
  BY <1>2 DEF StoreInv, Apart, TypeOK
<1>4. Owns(d, j)
  BY <1>0, <1>2, Zenon DEF Owns
<1>5. plan[d] # "postpone" => atm[j] + 1 < Attempts[j]
  BY <1>0, <1>1, <1>2, <1>4, Zenon DEF OwnerInv, OwnerOK
<1>6. /\ active \in [Job -> Nat] /\ runs \in [Job -> Int] /\ atm \in [Job -> Nat]
      /\ stc \in [Job -> Nat] /\ defa \in [Job -> BOOLEAN]
  BY Zenon DEF StoreInv, TypeOK
<1>7. /\ UNCHANGED <<hash, completed, failed, stc, defa>>
      /\ active' = [active EXCEPT ![j] = 0]
  <2>1. UNCHANGED <<hash, completed, failed, stc, defa>> /\ active' = LeftActive(j)
    BY <1>0, ZenonT(30) DEF RetryJob, MoveToDelayed, NothingToFetch, endVars
  <2> QED BY <1>2, <1>3, <2>1, LeftAndUnlocked, Zenon
<1>8. \/ /\ plan[d] # "postpone"
         /\ atm' = [atm EXCEPT ![j] = atm[j] + 1] /\ runs' = runs
      \/ /\ plan[d] = "postpone"
         /\ atm' = atm /\ runs' = [runs EXCEPT ![j] = runs[j] - 1]
  BY <1>0, Zenon DEF RetryJob, MoveToDelayed, NothingToFetch, Finalises
<1>9. BudgetOK(j)'
  <2>1. BudgetOK(j) /\ active'[j] = 0
    BY <1>2, <1>6, <1>7, Zenon DEF BudgetInv
  <2>2. /\ atm[j] \in Nat /\ stc[j] \in Nat /\ runs[j] \in Int
        /\ MaxAttempts(j) \in Nat /\ MaxStalledCount \in Nat /\ Attempts[j] \in Nat
    BY <1>2, <1>6, MaxAttemptsType, ConstantsAssumption, Zenon
  <2>3. /\ atm[j] < MaxAttempts(j) /\ runs[j] <= atm[j] + stc[j] + 1
        /\ j \notin Repeatable => runs[j] <= MaxAttempts(j) + MaxStalledCount
        /\ j \notin Repeatable /\ ~defa[j] => stc[j] <= MaxStalledCount
    BY <1>2, <1>3, <2>1, Zenon DEF BudgetOK
  <2>4. CASE plan[d] # "postpone"
    <3>1. atm'[j] = atm[j] + 1 /\ runs'[j] = runs[j]
      BY <1>2, <1>6, <1>8, <2>4, Zenon
    <3>2. atm[j] + 1 < MaxAttempts(j) /\ runs[j] <= (atm[j] + 1) + stc[j] + 0
      BY <1>5, <2>2, <2>3, <2>4, SMTT(30) DEF MaxAttempts
    <3>3. atm[j] + 1 <= MaxAttempts(j)
      BY <2>2, <3>2, SMTT(30)
    <3> QED BY <1>2, <1>7, <2>1, <2>3, <3>1, <3>2, <3>3, Zenon DEF BudgetOK
  <2>5. CASE plan[d] = "postpone"
    <3>1. atm'[j] = atm[j] /\ runs'[j] = runs[j] - 1
      BY <1>2, <1>6, <1>8, <2>5, Zenon
    <3>2. /\ runs[j] - 1 <= atm[j] + stc[j] + 0
          /\ j \notin Repeatable => runs[j] - 1 <= MaxAttempts(j) + MaxStalledCount
          /\ atm[j] <= MaxAttempts(j)
      BY <2>2, <2>3, SMTT(30)
    <3> QED BY <1>2, <1>7, <2>1, <2>3, <3>1, <3>2, ZenonT(30) DEF BudgetOK
  <2> QED BY <2>4, <2>5, Zenon
<1>10. ASSUME NEW l \in Job, l # j PROVE BudgetOK(l)'
  <2>1. BudgetOK(l)
    BY Zenon  DEF BudgetInv
  <2>2. atm'[l] = atm[l] /\ runs'[l] = runs[l] /\ active'[l] = active[l]
    BY <1>2, <1>6, <1>7, <1>8, <1>10, Zenon
  <2> QED BY <1>7, <2>1, <2>2, BudgetFrame, Zenon
<1> QED BY <1>9, <1>10, Zenon DEF BudgetInv

\* Every step keeps the accounts.
LEMMA BudgetInvNext == StoreInv /\ OwnerInv /\ BudgetInv /\ [Next]_vars => BudgetInv'
<1> SUFFICES ASSUME StoreInv, OwnerInv, BudgetInv, [Next]_vars PROVE BudgetInv'
  BY Zenon
<1>1. CASE \E j \in Job : Adds(j)
  BY <1>1, BudgetInvAdds, Zenon
<1>2. CASE MoveStalledJobsToWait
  BY <1>2, BudgetInvScan, Zenon
<1>3. CASE \/ \E j \in Job : BecomesDue(j) \/ LockExpires(j)
           \/ Pause \/ Resume \/ StalledCheckExpires \/ UNCHANGED vars
  <2>1. UNCHANGED <<hash, completed, failed, atm, stc, defa, active, runs>>
    BY <1>3, Zenon DEF BecomesDue, LockExpires, Pause, Resume, StalledCheckExpires, vars,
                storeVars, fieldVars, endVars
  <2> QED BY <2>1, BudgetInvUnchanged, Zenon
<1>4. ASSUME NEW d \in Dispatcher,
             \/ (\E t \in Token : TryOnce(d, t)) \/ ReadReply(d) \/ Heartbeat(d)
             \/ \E outcome \in Outcomes : HandlerReturns(d, outcome)
             \/ FinaliseRejected(d) \/ ReleaseLock(d) \/ Disturbances(d)
      PROVE  BudgetInv'
  <2>1. UNCHANGED <<hash, completed, failed, atm, stc, defa, active, runs>>
    BY <1>4, ZenonT(30)
       DEF TryOnce, ReadReply, Heartbeat, HandlerReturns, FinaliseRejected, ReleaseLock,
                Disturbances, HeartbeatFails, RequestLost, ReplyLost, Resent, Crash,
                storeVars, fieldVars, endVars
  <2> QED BY <2>1, BudgetInvUnchanged, Zenon
<1>5. ASSUME NEW d \in Dispatcher,
             \/ MoveToActive(d) \/ RetryJob(d) \/ MoveToDelayed(d)
             \/ \E fetchNext \in BOOLEAN : MoveToFinished(d, fetchNext)
      PROVE  BudgetInv'
  BY <1>5, BudgetInvMoveToActive, BudgetInvMoveToFinished, BudgetInvRetried, Zenon
<1> QED BY <1>1, <1>2, <1>3, <1>4, <1>5, Zenon DEF Next, Works

\* The whole inductive invariant.
IInv == StoreInv /\ OwnerInv /\ BudgetInv

\* It holds in every reachable state.
THEOREM InductiveInvariant == Spec => []IInv
<1>1. Init => IInv
  BY StoreInvInit, OwnerInvInit, BudgetInvInit, Zenon DEF IInv
<1>2. IInv /\ [Next]_vars => IInv'
  BY StoreInvNext, OwnerInvNext, BudgetInvNext, Zenon DEF IInv
<1> QED BY <1>1, <1>2, PTL DEF Spec

\* At most one dispatcher can finalise a job.
THEOREM OwnersAreExclusive == Spec => []OwnersExclude
<1>1. IInv => OwnersExclude
  BY Zenon  DEF IInv, OwnerInv, TokensUnique, OwnersExclude, Owns
<1> QED BY <1>1, InductiveInvariant, PTL

\* What an owner knows of its job is what Redis has.
THEOREM SnapshotsAreCurrent == Spec => []SnapshotIsCurrent
<1>1. IInv => SnapshotIsCurrent
  BY Zenon  DEF IInv, OwnerInv, OwnerOK, SnapshotIsCurrent
<1> QED BY <1>1, InductiveInvariant, PTL

\* No job makes more attempts than it has.
THEOREM AttemptsAreBounded == Spec => []AttemptsBounded
<1>1. IInv => AttemptsBounded
  BY Zenon  DEF IInv, BudgetInv, BudgetOK, AttemptsBounded
<1> QED BY <1>1, InductiveInvariant, PTL

\* No handler is run more often than attempts and maxStalledCount allow.
THEOREM RunsAreBounded == Spec => []RunsBounded
<1>1. IInv => RunsBounded
  BY Zenon DEF IInv, BudgetInv, BudgetOK, RunsBounded
<1> QED BY <1>1, InductiveInvariant, PTL

-----------------------------------------------------------------------------
(* The refinement mapping *)

\* What the status of job j is in terms of the buckets.
StatusIs(j) ==
  /\ j \in completed => status[j] = "completed"
  /\ j \notin completed /\ j \in failed => status[j] = "failed"
  /\ j \notin completed /\ j \notin failed /\ active[j] > 0 => status[j] = "active"
  /\ j \notin completed /\ j \notin failed /\ active[j] = 0 /\ j \in hash
       => status[j] = "pending"
  /\ j \notin completed /\ j \notin failed /\ active[j] = 0 /\ j \notin hash
       => status[j] = "absent"

\* The status follows the buckets, before and after a step.
LEMMA StatusFollows ==
  ASSUME StoreInv, StoreInv', NEW j \in Job
  PROVE  StatusIs(j) /\ StatusIs(j)' /\ Apart(j) /\ Apart(j)'
<1>1. active[j] \in Nat /\ active'[j] \in Nat
  BY Zenon DEF StoreInv, TypeOK
<1>2. StatusIs(j)
  BY <1>1 DEF StatusIs, status
<1>3. StatusIs(j)'
  BY <1>1 DEF StatusIs, status
<1> QED BY <1>2, <1>3, Zenon DEF StoreInv

\* The status is a function on the jobs.
LEMMA StatusFunction ==
  /\ status = [k \in Job |-> status[k]]
  /\ status' = [k \in Job |-> status'[k]]
<1>1. status = [k \in Job |-> status[k]]
  BY DEF status
<1>2. status' = [k \in Job |-> status'[k]]
  BY DEF status
<1> QED BY <1>1, <1>2, Zenon

\* A step in which job j, and it alone, gets another status.
LEMMA StatusOfOne ==
  ASSUME NEW j \in Job, \A k \in Job : k # j => status'[k] = status[k]
  PROVE  status' = [status EXCEPT ![j] = status'[j]]
BY StatusFunction, Zenon

\* A step that leaves everything alone that a job's status depends on.
LEMMA StatusKept ==
  ASSUME UNCHANGED <<hash, completed, failed, active, atm>>
  PROVE  UNCHANGED Service!vars
BY DEF Service!vars, status

-----------------------------------------------------------------------------
(* The steps *)

\* Adding a job submits it.
LEMMA AddsSubmits ==
  ASSUME StoreInv, StoreInv', NEW j \in Job, Adds(j)
  PROVE  Service!Submit(j)
<1>1. /\ j \notin hash /\ hash' = hash \cup {j}
      /\ UNCHANGED <<completed, failed, active, atm>>
  BY Zenon  DEF Adds, AddStandardJob, AddDelayedJob, AddPrioritizedJob, StoreJob
<1>2. active[j] \in Nat
  BY Zenon  DEF StoreInv, TypeOK
<1>3. status[j] = "absent" /\ status'[j] = "pending"
  BY <1>1, <1>2, StatusFollows, ZenonT(30) DEF StatusIs, Apart
<1>4. ASSUME NEW k \in Job, k # j PROVE status'[k] = status[k]
  BY <1>1, <1>4 DEF status
<1> QED BY <1>1, <1>3, <1>4, StatusOfOne, Zenon DEF Service!Submit

\* The stalled scan interrupts the attempts whose worker is gone.
LEMMA ScanInterrupts ==
  ASSUME StoreInv, StoreInv', MoveStalledJobsToWait
  PROVE  /\ StalledJobs \in SUBSET Service!Active
         /\ Service!Interrupt(StalledJobs)
<1>1. /\ UNCHANGED <<completed, failed, atm>>
      /\ hash' = hash \cup StalledJobs
      /\ active' = [j \in Job |-> IF j \in StalledJobs THEN active[j] - 1 ELSE active[j]]
  BY Zenon  DEF MoveStalledJobsToWait, endVars
<1>2. StalledJobs \subseteq Job
  BY Zenon  DEF StalledJobs, StoreInv, TypeOK
<1>3. ASSUME NEW k \in StalledJobs
      PROVE  status[k] = "active" /\ status'[k] = "pending"
  <2>1. k \in Job /\ active[k] > 0 /\ StatusIs(k) /\ StatusIs(k)' /\ Apart(k)
    BY <1>2, StatusFollows, Zenon DEF StalledJobs
  <2>2. active[k] = 1
    BY <2>1, ActiveOnce, Zenon
  <2>3. active'[k] = 0
    BY <1>1, <2>1, <2>2
  <2> QED BY <1>1, <2>1, <2>2, <2>3, Zenon DEF StatusIs, Apart
<1>4. ASSUME NEW k \in Job, k \notin StalledJobs PROVE status'[k] = status[k]
  <2>1. active'[k] = active[k]
    BY <1>1, <1>4, Zenon
  <2>2. k \in hash' <=> k \in hash
    BY <1>1, <1>4, Zenon
  <2> QED BY <1>1, <2>1, <2>2 DEF status
<1>5. status' = Service!Become(status, StalledJobs, "pending")
  BY <1>3, <1>4, StatusFunction, Zenon DEF Service!Become
<1>6. StalledJobs \subseteq Service!Active
  BY <1>2, <1>3, Zenon DEF Service!Active
<1> QED BY <1>1, <1>5, <1>6, Zenon DEF Service!Interrupt

\* moveToActive starts a job, or none.
LEMMA MoveToActiveStarts ==
  ASSUME StoreInv, StoreInv', NEW d \in Dispatcher, MoveToActive(d)
  PROVE  (\E k \in Job : Service!Start(k)) \/ UNCHANGED Service!vars
<1>1. /\ UNCHANGED <<hash, atm, defa, completed, failed>>
      /\ FetchNextJob(d, active, lock)
  BY Zenon  DEF MoveToActive, endVars
<1>2. active \in [Job -> Nat]
  BY Zenon DEF StoreInv, TypeOK
<1>3. CASE active' = active
  BY <1>1, <1>3, StatusKept, Zenon
<1>4. ASSUME NEW k \in Ready, k \in Job, active[k] = 0,
             active' = [active EXCEPT ![k] = @ + 1]
      PROVE  Service!Start(k)
  <2>1. Apart(k) /\ k \in hash /\ k \notin completed /\ k \notin failed
    BY <1>4, ZenonT(30) DEF StoreInv, TypeOK, Apart, Ready
  <2>2. active'[k] = 1
    BY <1>2, <1>4, SMTT(30)
  <2>3. status[k] = "pending" /\ status'[k] = "active"
    BY <1>1, <1>4, <2>1, <2>2, StatusFollows, SMTT(30) DEF StatusIs
  <2>4. ASSUME NEW l \in Job, l # k PROVE status'[l] = status[l]
    <3>1. active'[l] = active[l]
      BY <1>2, <1>4, <2>4, Zenon
    <3> QED BY <1>1, <3>1 DEF status
  <2> QED BY <1>1, <1>4, <2>3, <2>4, StatusOfOne, Zenon DEF Service!Start
<1> QED BY <1>1, <1>2, <1>3, <1>4, FetchRuns, Zenon

\* moveToFinished settles the job, and may start the next one.
LEMMA MoveToFinishedSettles ==
  ASSUME StoreInv, StoreInv', NEW d \in Dispatcher, NEW fetchNext \in BOOLEAN,
         MoveToFinished(d, fetchNext)
  PROVE  \E j \in Job, result \in {"completed", "failed", "absent"} :
           \E started \in SUBSET Service!Pending : Service!Settle(j, result, started)
<1>1. Code(d) = 0 /\ (plan[d] = "complete" \/ plan[d] = "fail")
  BY Zenon  DEF MoveToFinished, Finalises
<1>2. PICK j \in Job : j = cur[d].job /\ j \in hash /\ active[j] > 0
  BY <1>1, CodeZero, ZenonT(30) DEF StoreInv
<1>3. active[j] = 1 /\ Apart(j)
  BY <1>2, ActiveOnce, Zenon
<1>4. /\ completed' = IF j \notin Discard /\ plan[d] = "complete" THEN completed \cup {j} ELSE completed
      /\ failed' = IF j \notin Discard /\ plan[d] = "fail" THEN failed \cup {j} ELSE failed
      /\ hash' = IF j \notin Discard THEN hash ELSE hash \ {j}
      /\ atm' = [atm EXCEPT ![j] = IF j \notin Discard THEN @ + 1 ELSE 0]
  BY <1>2, Zenon DEF MoveToFinished
<1>5. active \in [Job -> Nat] /\ atm \in [Job -> Nat]
  BY Zenon DEF StoreInv, TypeOK
<1> DEFINE act == LeftActive(j)
<1>6. act = [active EXCEPT ![j] = 0] /\ act \in [Job -> Nat]
  BY <1>2, <1>3, <1>5, SMTT(30) DEF LeftActive
<1>7. \/ active' = act
      \/ \E k \in Ready : k \in Job /\ active[k] = 0 /\ active' = [act EXCEPT ![k] = @ + 1]
  <2>1. \/ FetchNextJob(d, act, Unlocked(j))
        \/ NothingToFetch(d, act, Unlocked(j))
    BY <1>2, Zenon DEF MoveToFinished
  <2>2. CASE FetchNextJob(d, act, Unlocked(j))
    <3>1. \/ active' = act /\ runs' = runs
          \/ \E k \in Ready :
               /\ k \in Job /\ active[k] = 0
               /\ active' = [act EXCEPT ![k] = @ + 1]
               /\ runs' = IF defa'[k] THEN runs ELSE [runs EXCEPT ![k] = @ + 1]
      BY <1>6, <2>2, FetchRuns, ZenonT(30)
    <3> HIDE DEF act
    <3> QED BY <3>1, Zenon
  <2>3. CASE NothingToFetch(d, act, Unlocked(j))
    BY <2>3, Zenon DEF NothingToFetch
  <2> QED BY <2>1, <2>2, <2>3, Zenon
<1> HIDE DEF act
<1>8. PICK started \in SUBSET Ready :
        /\ started \subseteq Job /\ \A k, l \in started : k = l
        /\ \A k \in started : active[k] = 0 /\ active'[k] = 1
        /\ \A k \in Job : k \notin started => active'[k] = act[k]
  <2>1. CASE active' = act
    <3>1. {} \in SUBSET Ready
      BY Zenon
    <3> QED BY <2>1, <3>1, Zenon
  <2>2. CASE \E k \in Ready : k \in Job /\ active[k] = 0 /\ active' = [act EXCEPT ![k] = @ + 1]
    <3>1. PICK k \in Ready : k \in Job /\ active[k] = 0 /\ active' = [act EXCEPT ![k] = @ + 1]
      BY <2>2, ZenonT(30)
    <3>2. {k} \in SUBSET Ready
      BY <3>1, Zenon
    <3>3. k # j
      BY <1>3, <3>1
    <3>4. act[k] = 0
      BY <1>2, <1>5, <1>6, <3>1, <3>3, Zenon
    <3>5. active'[k] = 1 /\ \A l \in Job : l # k => active'[l] = act[l]
      BY <1>6, <3>1, <3>4, SMTT(30)
    <3> QED BY <3>1, <3>2, <3>5, Zenon
  <2> QED BY <1>7, <2>1, <2>2, Zenon
<1> DEFINE result == IF j \in Discard THEN "absent"
                     ELSE IF plan[d] = "complete" THEN "completed" ELSE "failed"
<1>9. j \notin started
  BY <1>3, <1>8, SMTT(30)
<1>10. status[j] = "active" /\ status'[j] = result
  <2>1. active'[j] = 0
    BY <1>2, <1>5, <1>6, <1>8, <1>9, Zenon
  <2>2. StatusIs(j) /\ StatusIs(j)'
    BY StatusFollows, Zenon
  <2>3. j \notin completed /\ j \notin failed
    BY <1>3, SMTT(30) DEF Apart
  <2>4. status[j] = "active"
    BY <1>3, <2>2, <2>3, SMTT(30) DEF StatusIs
  <2>5. CASE j \in Discard
    <3>1. j \notin completed' /\ j \notin failed' /\ j \notin hash'
      BY <1>4, <2>3, <2>5, Zenon
    <3>2. status'[j] = "absent"
      BY <2>1, <2>2, <3>1, Zenon DEF StatusIs
    <3> QED BY <2>4, <2>5, <3>2, Zenon
  <2>6. CASE j \notin Discard /\ plan[d] = "complete"
    <3>1. j \in completed'
      BY <1>4, <2>6, Zenon
    <3>2. status'[j] = "completed"
      BY <2>2, <3>1, ZenonT(30) DEF StatusIs
    <3> QED BY <2>4, <2>6, <3>2, Zenon
  <2>7. CASE j \notin Discard /\ plan[d] = "fail"
    <3>1. j \notin completed' /\ j \in failed'
      BY <1>4, <2>3, <2>7, Zenon
    <3>2. status'[j] = "failed"
      BY <2>2, <3>1, ZenonT(30) DEF StatusIs
    <3> QED BY <2>4, <2>7, <3>2, Zenon
  <2> QED BY <1>1, <2>5, <2>6, <2>7, Zenon
<1>11. ASSUME NEW k \in started
       PROVE  status[k] = "pending" /\ status'[k] = "active"
  <2>1. k \in Job /\ k # j /\ k \in Ready
    BY <1>8, <1>9, Zenon
  <2>2. Apart(k) /\ StatusIs(k) /\ StatusIs(k)' /\ due \subseteq delayed
    BY <2>1, StatusFollows, ZenonT(30) DEF StoreInv, TypeOK
  <2>3. active[k] = 0 /\ active'[k] = 1
    BY <1>8, Zenon
  <2>4. k \in hash /\ k \notin completed /\ k \notin failed
    BY <2>1, <2>2, Zenon DEF Apart, Ready
  <2>5. k \notin completed' /\ k \notin failed'
    BY <1>4, <2>1, <2>4, Zenon
  <2> QED BY <2>2, <2>3, <2>4, <2>5, SMTT(30) DEF StatusIs
<1>12. ASSUME NEW k \in Job, k \notin started, k # j PROVE status'[k] = status[k]
  <2>1. active'[k] = active[k]
    BY <1>2, <1>5, <1>6, <1>8, <1>12, Zenon
  <2>2. /\ k \in hash' <=> k \in hash
        /\ k \in completed' <=> k \in completed
        /\ k \in failed' <=> k \in failed
    BY <1>4, <1>12, Zenon
  <2> QED BY <2>1, <2>2, SMTT(30) DEF status
<1> HIDE DEF result
<1>13. status' = [Service!Become(status, started, "active") EXCEPT ![j] = result]
  BY <1>9, <1>10, <1>11, <1>12, StatusFunction, Zenon DEF Service!Become
<1>14. started \in SUBSET Service!Pending
  BY <1>8, <1>11, Zenon DEF Service!Pending
<1>15. atm' = [atm EXCEPT ![j] = IF j \in Discard THEN 0 ELSE @ + 1]
  BY <1>4, ZenonT(30)
<1>16. /\ result \in {"completed", "failed", "absent"}
       /\ IF j \in Discard THEN result = "absent" ELSE result \in {"completed", "failed"}
  BY Zenon DEF result
<1>17. Service!Settle(j, result, started)
  BY <1>8, <1>10, <1>13, <1>14, <1>15, <1>16, Zenon DEF Service!Settle
<1> QED BY <1>14, <1>16, <1>17, Zenon

\* retryJob and moveToDelayed retry the job while an attempt is left; a handler
\* that asked to be delayed is interrupted.
LEMMA RetriedRetries ==
  ASSUME StoreInv, StoreInv', OwnerInv, NEW d \in Dispatcher,
         RetryJob(d) \/ MoveToDelayed(d)
  PROVE  \/ \E j \in Job : Service!Retry(j)
         \/ \E S \in SUBSET Service!Active : Service!Interrupt(S)
<1>1. Code(d) = 0 /\ pc[d] = "finalising" /\ plan[d] \in {"retry", "delay", "postpone"}
  BY ZenonT(30) DEF RetryJob, MoveToDelayed, Finalises
<1>2. PICK j \in Job : /\ j = cur[d].job /\ j \in hash /\ active[j] > 0
                       /\ token[d] # NoToken /\ lock[j] = token[d]
  BY <1>1, CodeZero, ZenonT(30) DEF StoreInv
<1>3. active[j] = 1 /\ j \notin completed /\ j \notin failed
  BY <1>2, ActiveOnce, Zenon DEF Apart
<1>4. plan[d] # "postpone" => atm[j] + 1 < Attempts[j]
  BY <1>1, <1>2, ZenonT(30) DEF OwnerInv, OwnerOK, Owns
<1>5. active \in [Job -> Nat]
  BY Zenon  DEF StoreInv, TypeOK
<1>6. /\ UNCHANGED <<hash, completed, failed>>
      /\ active' = [active EXCEPT ![j] = 0]
  <2>1. UNCHANGED <<hash, completed, failed>> /\ active' = LeftActive(j)
    BY <1>2, ZenonT(30) DEF RetryJob, MoveToDelayed, NothingToFetch, endVars
  <2> QED BY <1>2, <1>3, <2>1, LeftAndUnlocked, ZenonT(30)
<1>7. \/ plan[d] # "postpone" /\ atm' = [atm EXCEPT ![j] = @ + 1]
      \/ plan[d] = "postpone" /\ atm' = atm
  BY <1>2, ZenonT(30) DEF RetryJob, MoveToDelayed, Finalises
<1>8. status[j] = "active" /\ status'[j] = "pending"
  <2>1. active'[j] = 0
    BY <1>5, <1>6, Zenon
  <2> QED BY <1>2, <1>3, <1>6, <2>1, StatusFollows, ZenonT(30) DEF StatusIs
<1>9. ASSUME NEW k \in Job, k # j PROVE status'[k] = status[k]
  <2>1. active'[k] = active[k]
    BY <1>5, <1>6, <1>9, Zenon
  <2> QED BY <1>6, <2>1 DEF status
<1>10. CASE plan[d] # "postpone" /\ atm' = [atm EXCEPT ![j] = @ + 1]
  <2>1. Service!Retry(j)
    BY <1>4, <1>8, <1>9, <1>10, StatusOfOne, Zenon DEF Service!Retry
  <2> QED BY <2>1, Zenon
<1>11. CASE plan[d] = "postpone" /\ atm' = atm
  <2>1. status' = Service!Become(status, {j}, "pending")
    BY <1>8, <1>9, StatusFunction, Zenon DEF Service!Become
  <2>2. {j} \in SUBSET Service!Active
    BY <1>8, Zenon DEF Service!Active
  <2>3. Service!Interrupt({j})
    BY <1>11, <2>1, <2>2, Zenon DEF Service!Interrupt
  <2> QED BY <2>2, <2>3, Zenon
<1> QED BY <1>7, <1>10, <1>11, Zenon

\* Every other step is invisible.
LEMMA OthersInvisible ==
  ASSUME \/ \E j \in Job : BecomesDue(j) \/ LockExpires(j)
         \/ Pause \/ Resume \/ StalledCheckExpires \/ UNCHANGED vars
         \/ \E d \in Dispatcher :
              \/ (\E t \in Token : TryOnce(d, t)) \/ ReadReply(d) \/ Heartbeat(d)
              \/ \E outcome \in Outcomes : HandlerReturns(d, outcome)
              \/ FinaliseRejected(d) \/ ReleaseLock(d) \/ Disturbances(d)
  PROVE  UNCHANGED Service!vars
<1>1. UNCHANGED <<hash, completed, failed, active, atm>>
  BY ZenonT(30)
     DEF BecomesDue, LockExpires, Pause, Resume, StalledCheckExpires, TryOnce, ReadReply,
         Heartbeat, HandlerReturns, FinaliseRejected, ReleaseLock, Disturbances,
         HeartbeatFails, RequestLost, ReplyLost, Resent, Crash,
         vars, storeVars, fieldVars, endVars
<1> QED BY <1>1, StatusKept, Zenon

-----------------------------------------------------------------------------

\* The queue starts as a service without jobs.
LEMMA ServiceInit == Init => Service!Init
<1> SUFFICES ASSUME Init PROVE Service!Init
  BY Zenon
<1>1. status = [j \in Job |-> "absent"]
  BY DEF Init, status
<1> QED BY <1>1, Zenon DEF Init, Service!Init

\* Every step of the queue is a step of the service or a stutter.
LEMMA ServiceNext ==
  IInv /\ IInv' /\ [Next]_vars => [Service!Next]_(Service!vars)
<1> SUFFICES ASSUME IInv, IInv', [Next]_vars
             PROVE  Service!Next \/ UNCHANGED Service!vars
  BY Zenon
<1>0. StoreInv /\ StoreInv' /\ OwnerInv
  BY Zenon DEF IInv
<1>1. ASSUME NEW j \in Job, Adds(j) PROVE Service!Next
  BY <1>0, <1>1, AddsSubmits, Zenon DEF Service!Next
<1>2. CASE MoveStalledJobsToWait
  BY <1>0, <1>2, ScanInterrupts, Zenon DEF Service!Next
<1>3. ASSUME NEW d \in Dispatcher, MoveToActive(d)
      PROVE  Service!Next \/ UNCHANGED Service!vars
  BY <1>0, <1>3, MoveToActiveStarts, Zenon DEF Service!Next
<1>4. ASSUME NEW d \in Dispatcher, NEW fetchNext \in BOOLEAN, MoveToFinished(d, fetchNext)
      PROVE  Service!Next
  BY <1>0, <1>4, MoveToFinishedSettles, Zenon DEF Service!Next
<1>5. ASSUME NEW d \in Dispatcher, RetryJob(d) \/ MoveToDelayed(d)
      PROVE  Service!Next
  BY <1>0, <1>5, RetriedRetries, Zenon DEF Service!Next
<1> QED BY <1>1, <1>2, <1>3, <1>4, <1>5, OthersInvisible, Zenon DEF Next, Works

\* The queue implements the job service, for any number of jobs, dispatchers and
\* tokens: whatever is lost, sent again, stalled or dies, a job is settled once
\* and only by an attempt that is under way, and interruptions are not charged.
THEOREM QueueImplementsService == Spec => ImplementsService
<1>1. Spec => []IInv
  BY InductiveInvariant, Zenon
<1> QED BY <1>1, ServiceInit, ServiceNext, PTL DEF Spec, ImplementsService, Service!Spec

=============================================================================

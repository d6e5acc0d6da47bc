-------------------------------- MODULE Client --------------------------------
(***************************************************************************)
(* The client between its callers and Redis: NewClient, Queue.Add over the *)
(* script loader (EVALSHA, NOSCRIPT, a reload shared by all who need it),  *)
(* Define and DiscoverQueues.                                              *)
(*                                                                         *)
(* A command and its reply are two steps, so that a reply can be late or   *)
(* lost; a pipeline of reads is one.  Adds go to one queue, and those with *)
(* a deduplication id share it.  Job ids are the values of the queue's     *)
(* counter, 0 stands for no id.                                            *)
(***************************************************************************)
EXTENDS Integers, FiniteSets, Functions

CONSTANTS
  Caller,     \* goroutines that call Add
  Queue,      \* queue names; a queue also stands for its meta key
  Other,      \* other keys that match the pattern of meta keys
  Settings    \* the surroundings under study, see Setting

Key == Queue \cup Other

Options == [delay : Nat, priority : Nat, unique : BOOLEAN]

\* callers: who calls Add, with which of opts; faults: the connection may break;
\* cancels: a context may end; defines: the queues that are defined; discovers:
\* whether DiscoverQueues is called; keys: what is in Redis at the start; nodes:
\* the keys of each node; bounds on the flushes, the changes of the
\* deduplication key and those of the other keys
Setting == [callers : SUBSET Caller, opts : SUBSET Options, faults : BOOLEAN, cancels : BOOLEAN,
            maxFlushes : Nat, maxChanges : Nat, defines : SUBSET Queue, discovers : BOOLEAN,
            maxDrops : Nat, keys : [Key -> {"none", "meta", "hash", "string"}],
            nodes : SUBSET SUBSET Key]

\* Only a queue has the fields of a queue's meta key.
ASSUME ClientAssumption ==
  /\ Settings \subseteq Setting
  /\ \A s \in Settings, k \in Key : s.keys[k] = "meta" => k \in Queue

Scripts == <<"addStandardJob", "addDelayedJob", "addPrioritizedJob">>
Script == Range(Scripts)
NoId == 0

VARIABLES
  setting,   \* the surroundings, chosen once
  client,    \* NewClient: where it is, and the scripts whose SHA is known
  loaded,    \* the scripts Redis knows
  flushes,   \* times they were flushed
  calls,     \* the callers
  flight,    \* script -> the callers in its loadGroup entry: who uploads, and who waits
  jobs,      \* ids given out so far
  deKey,     \* the job that the deduplication key names
  changes,   \* times the key changed
  keys,      \* key -> "none", "meta", "hash" or "string"
  registry,  \* the set of queues that Define writes
  defines,   \* queue -> the commands of its Define still to run
  discover,  \* a DiscoverQueues call
  drops      \* changes to the keys so far

server == <<loaded, flushes, jobs, deKey, changes>>
names == <<keys, registry, defines, discover, drops>>
vars == <<setting, client, calls, flight, server, names>>

NoFlight == [leader |-> {}, waiting |-> {}]

Init ==
  /\ setting \in Settings
  /\ client = [pc |-> "loading", known |-> {}]
  /\ loaded = {} /\ flushes = 0
  /\ calls = [c \in Caller |->
       [pc |-> "idle", script |-> "none", unique |-> FALSE, pre |-> NoId, seen |-> -1,
        answer |-> NoId, made |-> {}, stale |-> FALSE, ran |-> 0, resent |-> 0,
        reloaded |-> FALSE, cancelled |-> FALSE, result |-> "none"]]
  /\ flight = [s \in Script |-> NoFlight]
  /\ jobs = 0 /\ deKey = NoId /\ changes = 0
  /\ keys = setting.keys /\ registry = {} /\ defines = [q \in Queue |-> {}]
  /\ discover = [pc |-> "idle", left |-> {}, hits |-> {}, found |-> {}, always |-> {}, ever |-> {}]
  /\ drops = 0

-----------------------------------------------------------------------------
(* NewClient *)

\* NewScripter loads one script after the other, then the client is handed out.
Preload ==
  /\ client.pc = "loading"
  /\ LET known == client.known \cup {Scripts[Cardinality(client.known) + 1]}
     IN  /\ loaded' = loaded \cup known
         /\ client' = [known |-> known, pc |-> IF known = Script THEN "ready" ELSE "loading"]
  /\ UNCHANGED <<setting, calls, flight, flushes, jobs, deKey, changes, names>>

NewClientFails ==
  /\ setting.faults /\ client.pc = "loading"
  /\ client' = [client EXCEPT !.pc = "closed"]
  /\ UNCHANGED <<setting, calls, flight, server, names>>

-----------------------------------------------------------------------------
(* Queue.Add and Scripter.Run *)

\* dispatch
Dispatch(opts) ==
  IF opts.delay > 0 THEN "addDelayedJob"
  ELSE IF opts.priority > 0 THEN "addPrioritizedJob" ELSE "addStandardJob"

CallStep == UNCHANGED <<setting, client, flight, server, names>>

Returns(call, result) == [call EXCEPT !.pc = "done", !.result = result]

\* Add up to its first command; priority with a delay is refused.
Add(c, opts) ==
  /\ client.pc = "ready" /\ calls[c].pc = "idle" /\ c \in setting.callers
  /\ calls' = [calls EXCEPT ![c] =
       IF opts.delay > 0 /\ opts.priority > 0 THEN Returns(@, "rejected")
       ELSE [@ EXCEPT !.script = Dispatch(opts), !.unique = opts.unique,
                      !.pc = IF opts.unique THEN "getting" ELSE "running"]]
  /\ CallStep

\* GET of the deduplication key before the script; an error reads as no key.
GetKey(c) ==
  /\ calls[c].pc = "getting"
  /\ \/ ~calls[c].cancelled
        /\ calls' = [calls EXCEPT ![c].pc = "running", ![c].pre = deKey, ![c].seen = changes]
     \/ (setting.faults \/ calls[c].cancelled)
        /\ calls' = [calls EXCEPT ![c].pc = "running"]
  /\ CallStep

\* get: the SHA is in the map.
Known(s) == s \in client.known

\* The script: an id is taken from the counter, then a job is stored under it, or
\* the key names one already.  A SHA that Redis does not know is answered by NOSCRIPT.
EvalSha(c) ==
  /\ calls[c].pc = "running" /\ ~calls[c].cancelled /\ Known(calls[c].script)
  /\ LET hit == calls[c].unique /\ deKey # NoId
         id == IF hit THEN deKey ELSE jobs + 1
     IN  IF calls[c].script \notin loaded
           THEN /\ calls' = [calls EXCEPT ![c].pc = "unknown"]
                /\ UNCHANGED <<jobs, deKey, changes>>
           ELSE /\ jobs' = jobs + 1
                /\ deKey' = IF calls[c].unique THEN id ELSE deKey
                /\ changes' = IF deKey' = deKey THEN changes ELSE changes + 1
                /\ calls' = [calls EXCEPT ![c].pc = "ran", ![c].answer = id, ![c].ran = @ + 1,
                               ![c].made = IF hit THEN @ ELSE @ \cup {id},
                               ![c].stale = @ \/ (calls[c].unique /\ changes # calls[c].seen)]
  /\ UNCHANGED <<setting, client, flight, loaded, flushes, names>>

\* Slip: an answer to the GET is taken for a duplicate.
IsDuplicateByGet(call) == call.pre # NoId

\* The comparison at the end of Add
IsDuplicate(call) == call.pre # NoId /\ call.pre = call.answer

Reply(c) ==
  /\ calls[c].pc = "ran"
  /\ calls' = [calls EXCEPT ![c] = Returns(@, IF IsDuplicate(@) THEN "duplicate" ELSE "added")]
  /\ CallStep

IsNoScript(err) == err = "noscript"

\* What Run does with an error: reload after NOSCRIPT, once, or return it.
Failed(call, err) ==
  IF IsNoScript(err) /\ ~call.reloaded THEN [call EXCEPT !.pc = "reload"] ELSE Returns(call, err)

NoScriptArrives(c) ==
  /\ calls[c].pc = "unknown"
  /\ calls' = [calls EXCEPT ![c] = Failed(@, "noscript")]
  /\ CallStep

\* The connection breaks before or after the script, or the context ends.
EvalFails(c) ==
  /\ calls[c].pc \in {"running", "unknown", "ran"}
  /\ \/ setting.faults /\ calls' = [calls EXCEPT ![c] = Failed(@, "network")]
     \/ calls[c].cancelled /\ calls' = [calls EXCEPT ![c] = Failed(@, "cancelled")]
  /\ CallStep

\* go-redis sends a command again when its reply is lost.
Resend(c) ==
  /\ setting.faults /\ calls[c].pc = "ran" /\ calls[c].resent = 0
  /\ calls' = [calls EXCEPT ![c].pc = "running", ![c].resent = 1]
  /\ CallStep

LoadStep == UNCHANGED <<setting, client, flushes, jobs, deKey, changes, names>>

\* Slip: a script whose SHA is known is not uploaded again.
LoadKnown(c) ==
  /\ calls[c].pc = "reload"
  /\ calls' = [calls EXCEPT ![c].pc = "running", ![c].reloaded = TRUE]
  /\ UNCHANGED <<flight, loaded>> /\ LoadStep

\* loadGroup.Do: the first uploads, whoever comes while it does waits.
Load(c) ==
  /\ calls[c].pc = "reload"
  /\ LET s == calls[c].script
     IN  IF flight[s].leader = {}
           THEN /\ flight' = [flight EXCEPT ![s].leader = {c}]
                /\ calls' = [calls EXCEPT ![c].pc = "upload"]
           ELSE /\ flight' = [flight EXCEPT ![s].waiting = @ \cup {c}]
                /\ calls' = [calls EXCEPT ![c].pc = "wait"]
  /\ UNCHANGED loaded /\ LoadStep

\* SCRIPT LOAD at the server
ScriptLoad(c) ==
  /\ calls[c].pc = "upload" /\ ~calls[c].cancelled
  /\ loaded' = loaded \cup {calls[c].script}
  /\ calls' = [calls EXCEPT ![c].pc = "uploaded"]
  /\ UNCHANGED flight /\ LoadStep

InFlight(s) == flight[s].leader \cup flight[s].waiting

\* The upload is done: all of the group run their script again.
LoadReturns(c) ==
  /\ calls[c].pc = "uploaded"
  /\ LET s == calls[c].script
     IN  /\ calls' = [d \in Caller |->
              IF d \in InFlight(s) THEN [calls[d] EXCEPT !.pc = "running", !.reloaded = TRUE]
              ELSE calls[d]]
         /\ flight' = [flight EXCEPT ![s] = NoFlight]
  /\ UNCHANGED loaded /\ LoadStep

\* Slip: only the leader learns that the upload failed.
LoadFailsAlone(c) ==
  /\ calls[c].pc \in {"upload", "uploaded"}
  /\ setting.faults \/ calls[c].cancelled
  /\ calls' = [calls EXCEPT ![c] = Returns(@, "network")]
  /\ flight' = [flight EXCEPT ![calls[c].script].leader = {}]
  /\ UNCHANGED loaded /\ LoadStep

\* The upload fails: all of the group get the leader's error.
LoadFails(c) ==
  /\ calls[c].pc \in {"upload", "uploaded"}
  /\ LET s == calls[c].script
     IN  /\ \E err \in (IF setting.faults THEN {"network"} ELSE {})
                       \cup (IF calls[c].cancelled THEN {"cancelled"} ELSE {}) :
              calls' = [d \in Caller |-> IF d \in InFlight(s) THEN Returns(calls[d], err) ELSE calls[d]]
         /\ flight' = [flight EXCEPT ![s] = NoFlight]
  /\ UNCHANGED loaded /\ LoadStep

Cancel(c) ==
  /\ setting.cancels /\ calls[c].pc \notin {"idle", "done"} /\ ~calls[c].cancelled
  /\ calls' = [calls EXCEPT ![c].cancelled = TRUE]
  /\ CallStep

CallRuns(c) ==
  \/ GetKey(c) \/ EvalSha(c) \/ Reply(c) \/ NoScriptArrives(c) \/ EvalFails(c) \/ Resend(c)
  \/ Load(c) \/ ScriptLoad(c) \/ LoadReturns(c) \/ LoadFails(c)

\* SCRIPT FLUSH, or a restart of Redis
Flush ==
  /\ flushes < setting.maxFlushes /\ client.pc = "ready"
  /\ flushes' = flushes + 1 /\ loaded' = {}
  /\ UNCHANGED <<setting, client, calls, flight, jobs, deKey, changes, names>>

\* The job that holds the key finishes or is removed, or the key's TTL ends.
ReleaseKey ==
  /\ deKey # NoId /\ changes < setting.maxChanges
  /\ deKey' = NoId /\ changes' = changes + 1
  /\ UNCHANGED <<setting, client, calls, flight, loaded, flushes, jobs, names>>

-----------------------------------------------------------------------------
(* Define and DiscoverQueues *)

NameStep == UNCHANGED <<setting, client, calls, flight, server>>

\* The keys as they are from now on, and what a discovery must and may report
SetKeys(new) ==
  /\ keys' = new
  /\ discover' = [discover EXCEPT !.always = {q \in @ : new[q] = "meta"},
                                  !.ever = @ \cup {q \in Queue : new[q] = "meta"}]

\* Define sends HSETNX of the version and SADD in one pipeline.
Define(q) ==
  /\ q \in setting.defines /\ q \notin registry /\ defines[q] = {} /\ client.pc = "ready"
  /\ defines' = [defines EXCEPT ![q] = {"HSETNX", "SADD"}]
  /\ UNCHANGED <<keys, registry, discover, drops>> /\ NameStep

Bootstrap(q) ==
  /\ defines[q] # {}
  /\ \/ /\ defines[q] = {"HSETNX", "SADD"}
        /\ defines' = [defines EXCEPT ![q] = {"SADD"}]
        /\ SetKeys([keys EXCEPT ![q] = "meta"]) /\ UNCHANGED registry
     \/ /\ defines[q] = {"SADD"}
        /\ defines' = [defines EXCEPT ![q] = {}]
        /\ registry' = registry \cup {q} /\ UNCHANGED <<keys, discover>>
     \/ /\ setting.faults
        /\ defines' = [defines EXCEPT ![q] = {}]
        /\ UNCHANGED <<keys, registry, discover>>
  /\ UNCHANGED drops /\ NameStep

\* Others write and drop keys: a queue is added to, paused or obliterated, a job
\* or a deduplication id happens to be called meta.
KeyChanges(k, kind) ==
  /\ drops < setting.maxDrops /\ drops' = drops + 1
  /\ kind \in (IF k \in Queue THEN {"none", "meta"} ELSE {"none", "hash", "string"})
  /\ keys[k] # kind /\ SetKeys([keys EXCEPT ![k] = kind])
  /\ UNCHANGED <<registry, defines>> /\ NameStep

DiscoverQueues ==
  /\ setting.discovers /\ discover.pc = "idle" /\ client.pc = "ready"
  /\ LET present == {q \in Queue : keys[q] = "meta"}
     IN  discover' = [discover EXCEPT !.pc = "scanning", !.left = Key,
                                      !.always = present, !.ever = present]
  /\ UNCHANGED <<keys, registry, defines, drops>> /\ NameStep

\* One SCAN of one node: some slots that no cursor has passed yet.
ScanNode(slots) ==
  /\ discover.pc = "scanning" /\ slots # {} /\ slots \subseteq discover.left
  /\ \E node \in setting.nodes : slots \subseteq node
  /\ discover' = [discover EXCEPT !.left = @ \ slots,
                    !.hits = @ \cup {k \in slots : keys[k] # "none"},
                    !.pc = IF discover.left = slots THEN "keeping" ELSE "scanning"]
  /\ UNCHANGED <<keys, registry, defines, drops>> /\ NameStep

DiscoverFails ==
  /\ setting.faults /\ discover.pc \in {"scanning", "keeping"}
  /\ discover' = [discover EXCEPT !.pc = "failed"]
  /\ UNCHANGED <<keys, registry, defines, drops>> /\ NameStep

\* Slip: a key of the wrong type spoils the pipeline.
KeepQueueMetaStrict(hits) ==
  IF \E k \in hits : keys[k] = "string" THEN {} ELSE {k \in hits : keys[k] = "meta"}

\* keepQueueMeta: the keys that have a field of a queue's meta; the others, the
\* ones of another type and those gone by now are passed over.
KeepQueueMeta(hits) == {k \in hits : keys[k] = "meta"}

KeepMeta ==
  /\ discover.pc = "keeping"
  /\ discover' = [discover EXCEPT !.pc = "found", !.found = KeepQueueMeta(discover.hits)]
  /\ UNCHANGED <<keys, registry, defines, drops>> /\ NameStep

-----------------------------------------------------------------------------

Next ==
  \/ Preload \/ NewClientFails \/ Flush \/ ReleaseKey
  \/ \E c \in Caller : CallRuns(c) \/ Cancel(c) \/ \E opts \in setting.opts : Add(c, opts)
  \/ \E q \in Queue : Define(q) \/ Bootstrap(q)
  \/ \E k \in Key, kind \in {"none", "meta", "hash", "string"} : KeyChanges(k, kind)
  \/ DiscoverQueues \/ DiscoverFails \/ KeepMeta \/ \E slots \in SUBSET Key : ScanNode(slots)

\* Redis answers, or the connection reports that it does not.
Spec == Init /\ [][Next]_vars /\ \A c \in Caller : WF_vars(CallRuns(c))

-----------------------------------------------------------------------------
(* Properties *)

\* An Add that returns ErrDuplicateJob has stored nothing, and names the job that
\* held the key when it looked, whatever happened to the key before its script ran.
DuplicateIsReal ==
  \A c \in Caller : calls[c].result = "duplicate" =>
    calls[c].made = {} /\ calls[c].answer = calls[c].pre

\* An Add that returns no error has stored its job, unless the key changed between
\* its GET and its script (or the GET failed): the race that its comment accepts.
AddedIsNew ==
  \A c \in Caller : calls[c].result = "added" =>
    calls[c].answer \in calls[c].made \/ calls[c].stale

\* What Add tells its caller is true.
AnswerIsTrue == DuplicateIsReal /\ AddedIsNew

\* A call runs its script at most once, and exactly once if it succeeds, through
\* NOSCRIPT, reload and errors; only a command that go-redis repeats runs again.
RunsOnce ==
  \A c \in Caller :
    /\ calls[c].ran <= 1 + calls[c].resent
    /\ calls[c].result \in {"added", "duplicate"} => calls[c].ran >= 1

\* One flush of the scripts is never seen by a caller: NOSCRIPT is returned only
\* when Redis lost the scripts again after the reload.
OneFlushIsHidden ==
  \A c \in Caller : calls[c].result = "noscript" => flushes >= 2

\* The loss of the scripts is the loader's business: nothing runs twice for it, and
\* no caller gets NOSCRIPT for one flush.  It may get another error: who waits for a
\* reload whose leader is cancelled shares that leader's error.
ReloadIsHidden == RunsOnce /\ OneFlushIsHidden

\* A queue whose meta key was there all through DiscoverQueues is found, whatever
\* other keys there are, on whatever node it is and however the keys change.
DiscoverComplete == discover.pc = "found" => discover.always \subseteq discover.found

\* What DiscoverQueues reports was a queue at some time during the call; a job, a
\* scheduler or a deduplication id called meta is not.
DiscoverSound == discover.pc = "found" => discover.found \subseteq discover.ever

\* DiscoverQueues misses no queue and invents none.
DiscoverExact == DiscoverComplete /\ DiscoverSound

\* Every Add returns: who waits for the reload of another is not left behind when
\* that one fails or is cancelled.
EveryAddReturns ==
  \A c \in Caller : calls[c].pc # "idle" ~> calls[c].pc = "done"

=============================================================================

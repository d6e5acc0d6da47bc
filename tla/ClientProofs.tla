----------------------------- MODULE ClientProofs -----------------------------
(***************************************************************************)
(* What Add and DiscoverQueues promise, for any number of callers, queues  *)
(* and keys.  The invariant says of each call how its own record relates   *)
(* to the server: Counted (its runs), Compared (the deduplication key it   *)
(* saw and the key now) and Served (what a reload has left in Redis).      *)
(* These take the server's state as arguments, so that a call that does    *)
(* not move is carried over a step of another by a lemma on constants.     *)
(***************************************************************************)
EXTENDS Client, TLAPS

Call ==
  [pc : {"idle", "getting", "running", "unknown", "ran", "reload", "upload", "uploaded", "wait",
         "done"},
   script : Script \cup {"none"}, unique : BOOLEAN, pre : Nat, seen : Int, answer : Nat,
   made : SUBSET Nat, stale : BOOLEAN, ran : Nat, resent : Nat, reloaded : BOOLEAN,
   cancelled : BOOLEAN,
   result : {"none", "rejected", "added", "duplicate", "network", "cancelled", "noscript"}]

\* A call that is to run its script has run it only as often as it was resent.
Counted(k) ==
  /\ k \in Call
  /\ k.ran <= 1 + k.resent
  /\ k.pc = "ran" => k.ran >= 1
  /\ k.pc \notin {"ran", "done"} => k.ran <= k.resent
  /\ k.pc # "idle" /\ k.result # "rejected" => k.script \in Script
  /\ k.pc # "done" => k.result = "none"
  /\ k.result \in {"added", "duplicate"} => k.ran >= 1

\* Ids j are given out, and the key names id key after n changes.  The key never
\* comes back to an id, so a call that has stored a job will not find its pre in
\* it; and as long as n has not grown since the GET the key is still pre.
Compared(k, j, key, n) ==
  /\ k.pre <= j
  /\ k.pre # NoId => k.unique
  /\ k.pc = "idle" => k.pre = NoId
  /\ k.pc = "getting" => k.unique
  /\ k.pc \in {"idle", "getting"} => k.made = {}
  /\ k.pre # NoId /\ k.made # {} => key # k.pre /\ k.answer # k.pre
  /\ k.seen <= n
  /\ k.seen = n => key = k.pre
  /\ k.pc = "ran" => k.answer \in k.made \/ k.stale \/ (k.pre # NoId /\ k.answer = k.pre)
  /\ k.result = "duplicate" => k.made = {} /\ k.answer = k.pre
  /\ k.result = "added" => k.answer \in k.made \/ k.stale

\* f flushes happened and Redis knows the scripts l.
Served(k, f, l) ==
  /\ k.pc = "idle" => ~k.reloaded
  /\ k.pc \in {"unknown", "reload", "upload", "uploaded", "wait"} \/ k.reloaded => f >= 1
  /\ (k.pc = "uploaded" \/ k.reloaded) /\ f = 1 => k.script \in l
  /\ k.pc = "unknown" /\ k.reloaded => f >= 2
  /\ k.result = "noscript" => f >= 2

CallOK(c) ==
  /\ Counted(calls[c])
  /\ Compared(calls[c], jobs, deKey, changes)
  /\ Served(calls[c], flushes, loaded)

ServerOK ==
  /\ "pc" \in DOMAIN client
  /\ jobs \in Nat /\ changes \in Nat /\ flushes \in Nat
  /\ deKey \in Nat /\ deKey <= jobs
  /\ client.pc = "ready" /\ flushes = 0 => Script \subseteq loaded
  /\ client.pc # "ready" => flushes = 0 /\ \A c \in Caller : calls[c].pc = "idle"

\* Who is in a group's entry waits for it.
FlightOK ==
  /\ flight \in [Script -> [leader : SUBSET Caller, waiting : SUBSET Caller]]
  /\ \A s \in Script :
       /\ \A c \in flight[s].leader : calls[c].pc \in {"upload", "uploaded"} /\ calls[c].script = s
       /\ \A c \in flight[s].waiting : calls[c].pc = "wait" /\ calls[c].script = s

CallsInv ==
  /\ DOMAIN calls = Caller /\ \A c \in Caller : CallOK(c)
  /\ ServerOK
  /\ FlightOK

Present == {q \in Queue : keys[q] = "meta"}

DiscoverInv ==
  /\ setting \in Settings
  /\ keys \in [Key -> {"none", "meta", "hash", "string"}]
  /\ \A k \in Key : keys[k] = "meta" => k \in Queue
  /\ discover \in [pc : {"idle", "scanning", "keeping", "found", "failed"}, left : SUBSET Key,
                   hits : SUBSET Key, found : SUBSET Key, always : SUBSET Queue,
                   ever : SUBSET Queue]
  /\ discover.pc # "idle" => discover.always \subseteq Present /\ Present \subseteq discover.ever
  /\ discover.pc \in {"scanning", "keeping"} =>
       discover.always \subseteq discover.left \cup discover.hits
  /\ discover.pc = "keeping" => discover.left = {}
  /\ discover.pc = "found" =>
       discover.always \subseteq discover.found /\ discover.found \subseteq discover.ever

-----------------------------------------------------------------------------
(* DiscoverQueues *)

LEMMA DiscoverInit == Init => DiscoverInv
<1> SUFFICES ASSUME Init PROVE DiscoverInv
  OBVIOUS
<1>1. setting.keys \in [Key -> {"none", "meta", "hash", "string"}]
  BY ClientAssumption DEF Init, Setting
<1> QED
  BY <1>1, ClientAssumption DEF Init, DiscoverInv

LEMMA SetKeysKeeps ==
  ASSUME DiscoverInv, UNCHANGED setting, NEW new, SetKeys(new),
         new \in [Key -> {"none", "meta", "hash", "string"}],
         \A k \in Key : new[k] = "meta" => k \in Queue
  PROVE  DiscoverInv'
<1>1. /\ keys' = new
      /\ discover'.pc = discover.pc /\ discover'.left = discover.left
      /\ discover'.hits = discover.hits /\ discover'.found = discover.found
      /\ discover'.always = {q \in discover.always : new[q] = "meta"}
      /\ discover'.ever = discover.ever \cup {q \in Queue : new[q] = "meta"}
      /\ discover' \in [pc : {"idle", "scanning", "keeping", "found", "failed"},
                        left : SUBSET Key, hits : SUBSET Key, found : SUBSET Key,
                        always : SUBSET Queue, ever : SUBSET Queue]
  BY Zenon DEF SetKeys, DiscoverInv
<1> QED
  BY <1>1, SMTT(30) DEF DiscoverInv, Present

LEMMA DiscoverStep ==
  ASSUME DiscoverInv, [Next]_vars
  PROVE  DiscoverInv'
<1>s. UNCHANGED setting
  BY ZenonT(30)
     DEF Next, vars, Preload, NewClientFails, Flush, ReleaseKey, CallRuns, Cancel, Add, GetKey,
         EvalSha, Reply, NoScriptArrives, EvalFails, Resend, Load, ScriptLoad, LoadReturns,
         LoadFails, CallStep, LoadStep, Define, Bootstrap, KeyChanges, DiscoverQueues,
         ScanNode, DiscoverFails, KeepMeta, NameStep
<1>1. CASE UNCHANGED <<keys, discover>>
  BY <1>1, <1>s DEF DiscoverInv, Present
<1>2. ASSUME NEW q \in Queue, Bootstrap(q), ~UNCHANGED <<keys, discover>>
      PROVE  DiscoverInv'
  <2>1. SetKeys([keys EXCEPT ![q] = "meta"])
    BY <1>2 DEF Bootstrap
  <2> QED
    BY <1>s, <2>1, SetKeysKeeps, Zenon DEF DiscoverInv, Key
<1>3. ASSUME NEW k \in Key, NEW kind \in {"none", "meta", "hash", "string"}, KeyChanges(k, kind)
      PROVE  DiscoverInv'
  <2>1. SetKeys([keys EXCEPT ![k] = kind]) /\ (kind = "meta" => k \in Queue)
    BY <1>3 DEF KeyChanges
  <2> QED
    BY <1>s, <2>1, SetKeysKeeps, Zenon DEF DiscoverInv
<1>4. CASE DiscoverQueues
  BY <1>4, <1>s, Zenon DEF DiscoverQueues, DiscoverInv, Present, Key
<1>5. ASSUME NEW slots \in SUBSET Key, ScanNode(slots)
      PROVE  DiscoverInv'
  <2>1. /\ UNCHANGED keys
        /\ discover.pc = "scanning"
        /\ discover'.left = discover.left \ slots
        /\ discover'.hits = discover.hits \cup {k \in slots : keys[k] # "none"}
        /\ discover'.pc = IF discover.left = slots THEN "keeping" ELSE "scanning"
        /\ discover'.always = discover.always /\ discover'.ever = discover.ever
        /\ discover' \in [pc : {"idle", "scanning", "keeping", "found", "failed"},
                          left : SUBSET Key, hits : SUBSET Key, found : SUBSET Key,
                          always : SUBSET Queue, ever : SUBSET Queue]
    BY <1>5, Zenon DEF ScanNode, DiscoverInv
  <2> QED
    BY <1>s, <2>1, SMTT(30) DEF DiscoverInv, Present
<1>6. CASE DiscoverFails
  BY <1>6, <1>s DEF DiscoverFails, DiscoverInv, Present
<1>7. CASE KeepMeta
  <2>1. /\ UNCHANGED keys
        /\ discover.pc = "keeping" /\ discover'.pc = "found"
        /\ discover'.found = {k \in discover.hits : keys[k] = "meta"}
        /\ discover'.always = discover.always /\ discover'.ever = discover.ever
        /\ discover' \in [pc : {"idle", "scanning", "keeping", "found", "failed"},
                          left : SUBSET Key, hits : SUBSET Key, found : SUBSET Key,
                          always : SUBSET Queue, ever : SUBSET Queue]
    BY <1>7, ZenonT(30) DEF KeepMeta, KeepQueueMeta, DiscoverInv
  <2> QED
    BY <1>s, <2>1, SMTT(30) DEF DiscoverInv, Present
<1>8. ASSUME NEW c \in Caller,
             CallRuns(c) \/ Cancel(c) \/ \E opts \in setting.opts : Add(c, opts)
      PROVE  UNCHANGED <<keys, discover>>
  BY <1>8, Zenon
     DEF CallRuns, Cancel, Add, GetKey, EvalSha, Reply, NoScriptArrives, EvalFails, Resend,
              Load, ScriptLoad, LoadReturns, LoadFails, CallStep, LoadStep, names
<1>9. Preload \/ NewClientFails \/ Flush \/ ReleaseKey \/ (\E q \in Queue : Define(q)) \/ UNCHANGED vars
        => UNCHANGED <<keys, discover>>
  BY DEF Preload, NewClientFails, Flush, ReleaseKey, Define, vars, names
<1> QED
  BY <1>1, <1>2, <1>3, <1>4, <1>5, <1>6, <1>7, <1>8, <1>9 DEF Next

-----------------------------------------------------------------------------
(* Calls that do not move *)

\* More ids are given out, and the key changes to none or to a new one.
LEMMA ComparedKept ==
  ASSUME NEW k, k \in Call, NEW j \in Nat, NEW key \in Nat, NEW n \in Nat, Compared(k, j, key, n),
         NEW i \in Nat, NEW ky \in Nat, NEW m \in Nat, j <= i,
         (ky = key /\ m = n) \/ (m = n + 1 /\ (ky = NoId \/ ky > j))
  PROVE  Compared(k, i, ky, m)
BY DEF Compared, Call, NoId

LEMMA ServedKept ==
  ASSUME NEW k, k \in Call, NEW f \in Nat, NEW l, Served(k, f, l),
         NEW g \in Nat, NEW r, (g = f /\ l \subseteq r) \/ g = f + 1
  PROVE  Served(k, g, r)
BY DEF Served, Call

\* A step that moves one call, outside a load group, and leaves the server alone.
LEMMA OneCallMoves ==
  ASSUME CallsInv, NEW c \in Caller, DOMAIN calls' = Caller,
         \A e \in Caller \ {c} : calls'[e] = calls[e],
         UNCHANGED <<client, flight, server>>, client.pc = "ready", CallOK(c)',
         \/ calls[c].pc \notin {"upload", "uploaded", "wait"}
         \/ calls'[c].pc = calls[c].pc /\ calls'[c].script = calls[c].script
  PROVE  CallsInv'
<1>1. ASSUME NEW e \in Caller PROVE CallOK(e)'
  BY <1>1 DEF CallsInv, CallOK, server
<1>2. ServerOK'
  BY DEF CallsInv, ServerOK, server
<1>3. FlightOK'
  BY DEF CallsInv, FlightOK
<1> QED
  BY <1>1, <1>2, <1>3 DEF CallsInv

LEMMA BusyMeansReady ==
  ASSUME CallsInv, NEW c \in Caller, calls[c].pc # "idle"
  PROVE  client.pc = "ready"
BY DEF CallsInv, ServerOK

LEMMA ScriptNames ==
  "addStandardJob" \in Script /\ "addDelayedJob" \in Script /\ "addPrioritizedJob" \in Script
<1>1. DOMAIN Scripts = 1..3
  BY DEF Scripts
<1>2. Scripts[1] = "addStandardJob" /\ Scripts[2] = "addDelayedJob" /\ Scripts[3] = "addPrioritizedJob"
  BY DEF Scripts
<1> QED
  BY <1>1, <1>2 DEF Script, Range

-----------------------------------------------------------------------------
(* Calls that move *)

LEMMA AddKeeps ==
  ASSUME CallsInv, NEW c \in Caller, NEW opts \in Options, Add(c, opts)
  PROVE  CallsInv'
<1> DEFINE k == calls[c]
           r == calls'[c]
<1>1. Counted(k) /\ Compared(k, jobs, deKey, changes) /\ Served(k, flushes, loaded)
  BY DEF CallsInv, CallOK
<1>2. /\ DOMAIN calls' = Caller /\ \A e \in Caller \ {c} : calls'[e] = calls[e]
      /\ UNCHANGED <<client, flight, server>> /\ client.pc = "ready" /\ k.pc = "idle"
  BY DEF CallsInv, Add, CallStep
<1>3. \/ r = Returns(k, "rejected")
      \/ r = [k EXCEPT !.script = Dispatch(opts), !.unique = opts.unique,
                       !.pc = IF opts.unique THEN "getting" ELSE "running"]
  BY DEF CallsInv, Add
<1>4. Dispatch(opts) \in Script /\ opts.unique \in BOOLEAN
  BY ScriptNames DEF Dispatch, Options
<1>5. k \in Call
  BY <1>1 DEF Counted
<1> HIDE DEF k, r
<1>6. Counted(r)
  BY <1>1, <1>2, <1>3, <1>4, <1>5, ZenonT(30) DEF Counted, Call, Returns
<1>7. Compared(r, jobs, deKey, changes)
  BY <1>1, <1>2, <1>3, <1>4, <1>5, ZenonT(30) DEF Compared, Counted, Call, Returns, NoId
<1>8. Served(r, flushes, loaded)
  BY <1>1, <1>2, <1>3, <1>4, <1>5, ZenonT(30) DEF Served, Counted, Call, Returns
<1>9. CallOK(c)'
  BY <1>2, <1>6, <1>7, <1>8 DEF CallOK, server, r
<1> QED
  BY <1>2, <1>9, OneCallMoves DEF k

\* What the steps of a call that touch nothing else make of its record.
Moved(k, r) ==
  /\ r \in Call
  /\ r.script = k.script /\ r.unique = k.unique /\ r.answer = k.answer /\ r.made = k.made
  /\ r.stale = k.stale /\ r.ran = k.ran /\ r.reloaded = k.reloaded
  /\ \/ /\ k.pc = "getting" /\ r.pc = "running"
        /\ \/ r.pre = deKey /\ r.seen = changes
           \/ r.pre = k.pre /\ r.seen = k.seen
        /\ r.resent = k.resent /\ r.result = k.result
     \/ /\ r.pre = k.pre /\ r.seen = k.seen
        /\ \/ k.pc = "ran" /\ r.pc = "running" /\ k.resent = 0 /\ r.resent = 1
              /\ r.result = k.result
           \/ /\ r.resent = k.resent
              /\ \/ k.pc = "unknown" /\ ~k.reloaded /\ r.pc = "reload" /\ r.result = k.result
                 \/ k.pc = "unknown" /\ k.reloaded /\ r.pc = "done" /\ r.result = "noscript"
                 \/ k.pc = "ran" /\ r.pc = "done" /\ IsDuplicate(k) /\ r.result = "duplicate"
                 \/ k.pc = "ran" /\ r.pc = "done" /\ ~IsDuplicate(k) /\ r.result = "added"
                 \/ /\ k.pc \in {"running", "unknown", "ran"} /\ r.pc = "done"
                    /\ r.result \in {"network", "cancelled"}
                 \/ k.pc \notin {"idle", "done"} /\ r.pc = k.pc /\ r.result = k.result

Moves(c) ==
  GetKey(c) \/ Reply(c) \/ Resend(c) \/ NoScriptArrives(c) \/ EvalFails(c) \/ Cancel(c)

LEMMA ReturnsFields ==
  ASSUME NEW k \in Call,
         NEW x \in {"rejected", "added", "duplicate", "network", "cancelled", "noscript"}
  PROVE  LET r == Returns(k, x)
         IN  /\ r \in Call /\ r.pc = "done" /\ r.result = x
             /\ r.script = k.script /\ r.unique = k.unique /\ r.answer = k.answer
             /\ r.made = k.made /\ r.stale = k.stale /\ r.ran = k.ran
             /\ r.reloaded = k.reloaded /\ r.pre = k.pre /\ r.seen = k.seen
             /\ r.resent = k.resent
BY Zenon DEF Call, Returns

LEMMA MovesShape ==
  ASSUME CallsInv, NEW c \in Caller, Moves(c)
  PROVE  /\ DOMAIN calls' = Caller /\ \A e \in Caller \ {c} : calls'[e] = calls[e]
         /\ UNCHANGED <<client, flight, server>>
         /\ Moved(calls[c], calls'[c])
<1>1. DOMAIN calls = Caller /\ calls[c] \in Call /\ deKey \in Nat /\ changes \in Nat
  BY DEF CallsInv, CallOK, Counted, ServerOK
<1>2. /\ DOMAIN calls' = Caller /\ \A e \in Caller \ {c} : calls'[e] = calls[e]
      /\ UNCHANGED <<client, flight, server>>
  BY <1>1 DEF Moves, GetKey, Reply, Resend, NoScriptArrives, EvalFails, Cancel, CallStep
<1> DEFINE k == calls[c]
           r == calls'[c]
<1>3. GetKey(c) => Moved(k, r)
  BY <1>1 DEF Call, GetKey, Moved
<1>4. Resend(c) => Moved(k, r)
  BY <1>1 DEF Call, Resend, Moved
<1>5. Cancel(c) => k.pc \notin {"idle", "done"} /\ r = [k EXCEPT !.cancelled = TRUE]
  BY <1>1 DEF Cancel
<1>6. Reply(c) => /\ k.pc = "ran"
                  /\ r = Returns(k, IF IsDuplicate(k) THEN "duplicate" ELSE "added")
  BY <1>1 DEF Reply
<1>7. NoScriptArrives(c) =>
        /\ k.pc = "unknown"
        /\ r = IF k.reloaded THEN Returns(k, "noscript") ELSE [k EXCEPT !.pc = "reload"]
  BY <1>1 DEF NoScriptArrives, Failed, IsNoScript
<1>8. EvalFails(c) => /\ k.pc \in {"running", "unknown", "ran"}
                      /\ r = Returns(k, "network") \/ r = Returns(k, "cancelled")
  BY <1>1 DEF EvalFails, Failed, IsNoScript
<1> HIDE DEF k, r
<1>k. k \in Call
  BY <1>1 DEF k
<1>9. Cancel(c) => Moved(k, r)
  BY <1>k, <1>5, ZenonT(30) DEF Call, Moved
<1>10. Reply(c) => Moved(k, r)
  BY <1>k, <1>6, ReturnsFields DEF Moved
<1>11. NoScriptArrives(c) => Moved(k, r)
  <2> SUFFICES ASSUME NoScriptArrives(c) PROVE Moved(k, r)
    OBVIOUS
  <2>1. CASE k.reloaded
    <3>1. k.pc = "unknown" /\ r = Returns(k, "noscript")
      BY <1>7, <2>1
    <3> QED
      BY <2>1, <3>1, <1>k, ReturnsFields, ZenonT(30) DEF Moved
  <2>2. CASE ~k.reloaded
    <3>1. k.pc = "unknown" /\ r = [k EXCEPT !.pc = "reload"]
      BY <1>7, <2>2
    <3> QED
      BY <2>2, <3>1, <1>k DEF Call, Moved
  <2> QED
    BY <2>1, <2>2
<1>12. EvalFails(c) => Moved(k, r)
  BY <1>k, <1>8, ReturnsFields DEF Moved
<1> QED
  BY <1>2, <1>3, <1>4, <1>9, <1>10, <1>11, <1>12 DEF Moves, k, r

LEMMA MovesKeep ==
  ASSUME CallsInv, NEW c \in Caller, Moves(c)
  PROVE  CallsInv'
<1> DEFINE k == calls[c]
           r == calls'[c]
<1>1. Counted(k) /\ Compared(k, jobs, deKey, changes) /\ Served(k, flushes, loaded)
  BY DEF CallsInv, CallOK
<1>2. k \in Call
  BY <1>1 DEF Counted
<1>3. Moved(k, r)
  BY MovesShape
<1>4. jobs \in Nat /\ changes \in Nat /\ deKey \in Nat /\ deKey <= jobs
  BY DEF CallsInv, ServerOK
<1>5. UNCHANGED <<client, flight, server>>
  BY MovesShape
<1> HIDE DEF k, r
<1>6. Counted(r)
  BY <1>1, <1>2, <1>3, <1>4 DEF Moved, Counted, Call
<1>7. Compared(r, jobs, deKey, changes)
  BY <1>1, <1>2, <1>3, <1>4 DEF Moved, Compared, Counted, Call, IsDuplicate, NoId
<1>8. Served(r, flushes, loaded)
  BY <1>1, <1>2, <1>3 DEF Moved, Served, Counted
<1>9. CallOK(c)'
  BY <1>5, <1>6, <1>7, <1>8 DEF CallOK, server, r
<1>10. /\ k.pc # "idle"
       /\ k.pc \notin {"upload", "uploaded", "wait"} \/ (r.pc = k.pc /\ r.script = k.script)
  BY <1>2, <1>3 DEF Moved, Call
<1> QED
  BY <1>5, <1>9, <1>10, MovesShape, BusyMeansReady, OneCallMoves DEF k, r

-----------------------------------------------------------------------------
(* EVALSHA *)

\* What the script makes of the record of its caller.
LEMMA ScriptRecord ==
  ASSUME CallsInv, NEW c \in Caller, EvalSha(c), calls[c].script \in loaded
  PROVE  LET k == calls[c]
             r == calls'[c]
             hit == k.unique /\ deKey # NoId
             id == IF hit THEN deKey ELSE jobs + 1
         IN  /\ k.pc = "running" /\ r \in Call /\ r.pc = "ran"
             /\ r.answer = id /\ r.ran = k.ran + 1
             /\ r.made = IF hit THEN k.made ELSE k.made \cup {id}
             /\ r.stale = (k.stale \/ (k.unique /\ changes # k.seen))
             /\ r.script = k.script /\ r.unique = k.unique /\ r.pre = k.pre /\ r.seen = k.seen
             /\ r.resent = k.resent /\ r.reloaded = k.reloaded /\ r.result = k.result
             /\ jobs' = jobs + 1 /\ deKey' = IF k.unique THEN id ELSE deKey
             /\ changes' = IF deKey' = deKey THEN changes ELSE changes + 1
<1>1. calls[c] \in Call /\ DOMAIN calls = Caller /\ jobs \in Nat /\ deKey \in Nat
  BY DEF CallsInv, CallOK, Counted, ServerOK
<1> QED
  BY <1>1 DEF EvalSha, Call

LEMMA EvalShaRuns ==
  ASSUME CallsInv, NEW c \in Caller, EvalSha(c), calls[c].script \in loaded
  PROVE  CallsInv'
<1> DEFINE k == calls[c]
           r == calls'[c]
           hit == k.unique /\ deKey # NoId
           id == IF hit THEN deKey ELSE jobs + 1
<1>1. Counted(k) /\ Compared(k, jobs, deKey, changes) /\ Served(k, flushes, loaded)
  BY DEF CallsInv, CallOK
<1>2. jobs \in Nat /\ changes \in Nat /\ deKey \in Nat /\ deKey <= jobs /\ flushes \in Nat
  BY DEF CallsInv, ServerOK
<1>3. k \in Call
  BY <1>1 DEF Counted
<1>4. /\ k.pc = "running" /\ r \in Call /\ r.pc = "ran"
      /\ r.answer = id /\ r.ran = k.ran + 1
      /\ r.made = IF hit THEN k.made ELSE k.made \cup {id}
      /\ r.stale = (k.stale \/ (k.unique /\ changes # k.seen))
      /\ r.script = k.script /\ r.unique = k.unique /\ r.pre = k.pre /\ r.seen = k.seen
      /\ r.resent = k.resent /\ r.reloaded = k.reloaded /\ r.result = k.result
      /\ jobs' = jobs + 1 /\ deKey' = IF k.unique THEN id ELSE deKey
      /\ changes' = IF deKey' = deKey THEN changes ELSE changes + 1
  BY ScriptRecord
<1>5. /\ DOMAIN calls' = Caller /\ \A e \in Caller \ {c} : calls'[e] = calls[e]
      /\ UNCHANGED <<client, flight, loaded, flushes>>
  BY DEF CallsInv, EvalSha
<1>6. client.pc = "ready"
  BY <1>4, BusyMeansReady
<1>7. /\ jobs' \in Nat /\ deKey' \in Nat /\ changes' \in Nat /\ jobs <= jobs' /\ deKey' <= jobs'
      /\ \/ deKey' = deKey /\ changes' = changes
         \/ changes' = changes + 1 /\ (deKey' = NoId \/ deKey' > jobs)
  BY <1>2, <1>4 DEF NoId
<1>8. ASSUME NEW e \in Caller \ {c} PROVE CallOK(e)'
  <2>1. calls[e] \in Call /\ Compared(calls[e], jobs, deKey, changes)
    BY DEF CallsInv, CallOK, Counted
  <2>2. Compared(calls[e], jobs', deKey', changes')
    BY <1>2, <1>7, <2>1, ComparedKept
  <2> QED
    BY <1>5, <2>2 DEF CallsInv, CallOK
<1>9. Counted(r)
  <2> HIDE DEF k, r
  <2> QED
    BY <1>1, <1>3, <1>4 DEF Counted, Call
<1>10. Compared(r, jobs', deKey', changes')
  <2> HIDE DEF k, r
  <2> QED
    BY <1>1, <1>2, <1>3, <1>4, <1>9 DEF Compared, Counted, Call, NoId
<1>11. Served(r, flushes, loaded)
  <2> HIDE DEF k, r
  <2> QED
    BY <1>1, <1>4, <1>9 DEF Served, Counted
<1>12. CallOK(c)'
  BY <1>5, <1>9, <1>10, <1>11 DEF CallOK
<1>13. ServerOK'
  BY <1>2, <1>5, <1>6, <1>7 DEF CallsInv, ServerOK
<1>14. FlightOK'
  BY <1>4, <1>5 DEF CallsInv, FlightOK
<1> QED
  BY <1>5, <1>8, <1>12, <1>13, <1>14 DEF CallsInv

\* NOSCRIPT: Redis was flushed, and once more if the call has reloaded before.
LEMMA EvalShaUnknown ==
  ASSUME CallsInv, NEW c \in Caller, EvalSha(c), calls[c].script \notin loaded
  PROVE  CallsInv'
<1> DEFINE k == calls[c]
           r == calls'[c]
<1>1. Counted(k) /\ Compared(k, jobs, deKey, changes) /\ Served(k, flushes, loaded)
  BY DEF CallsInv, CallOK
<1>2. k \in Call
  BY <1>1 DEF Counted
<1>3. /\ DOMAIN calls' = Caller /\ \A e \in Caller \ {c} : calls'[e] = calls[e]
      /\ UNCHANGED <<client, flight, server>>
      /\ k.pc = "running" /\ r = [k EXCEPT !.pc = "unknown"]
  BY DEF CallsInv, EvalSha, server
<1>4. client.pc = "ready"
  BY <1>3, BusyMeansReady
<1>5. flushes \in Nat /\ flushes # 0
  BY <1>1, <1>3, <1>4 DEF CallsInv, ServerOK, Counted
<1>6. k.script \notin loaded
  OBVIOUS
<1> HIDE DEF k, r
<1>7. Counted(r) /\ Compared(r, jobs, deKey, changes)
  BY <1>1, <1>2, <1>3 DEF Counted, Compared, Call, NoId
<1>8. Served(r, flushes, loaded)
  BY <1>1, <1>2, <1>3, <1>5, <1>6 DEF Served, Counted, Call
<1>9. CallOK(c)'
  BY <1>3, <1>7, <1>8 DEF CallOK, server, r
<1> QED
  BY <1>3, <1>4, <1>9, OneCallMoves DEF k

-----------------------------------------------------------------------------
(* The shared reload *)

LEMMA LoadKeeps ==
  ASSUME CallsInv, NEW c \in Caller, Load(c)
  PROVE  CallsInv'
<1> DEFINE k == calls[c]
           r == calls'[c]
           s == k.script
<1>1. Counted(k) /\ Compared(k, jobs, deKey, changes) /\ Served(k, flushes, loaded)
  BY DEF CallsInv, CallOK
<1>2. k \in Call /\ k.pc = "reload" /\ s \in Script
  BY <1>1 DEF Counted, Load
<1>3. /\ DOMAIN calls' = Caller /\ \A e \in Caller \ {c} : calls'[e] = calls[e]
      /\ UNCHANGED <<client, server>>
  BY DEF CallsInv, Load, LoadStep, server
<1>4. \/ r = [k EXCEPT !.pc = "upload"] /\ flight' = [flight EXCEPT ![s].leader = {c}]
      \/ r = [k EXCEPT !.pc = "wait"] /\ flight' = [flight EXCEPT ![s].waiting = @ \cup {c}]
  BY DEF CallsInv, Load
<1>5. client.pc = "ready"
  BY <1>2, BusyMeansReady
<1> HIDE DEF k, r
<1>6. Counted(r) /\ Compared(r, jobs, deKey, changes)
  BY <1>1, <1>2, <1>4 DEF Counted, Compared, Call, NoId
<1>7. Served(r, flushes, loaded)
  BY <1>1, <1>2, <1>4 DEF Served, Counted, Call
<1>8. ASSUME NEW e \in Caller PROVE CallOK(e)'
  BY <1>3, <1>6, <1>7 DEF CallsInv, CallOK, server, r
<1>9. ServerOK'
  BY <1>3, <1>5 DEF CallsInv, ServerOK, server
<1>10. /\ r.script = s /\ r.pc \in {"upload", "wait"}
       /\ r.pc = "upload" => flight' = [flight EXCEPT ![s].leader = {c}]
       /\ r.pc = "wait" => flight' = [flight EXCEPT ![s].waiting = @ \cup {c}]
  BY <1>2, <1>4 DEF Call
<1>11. flight \in [Script -> [leader : SUBSET Caller, waiting : SUBSET Caller]]
  BY DEF CallsInv, FlightOK
<1>12. FlightOK'
  <2>1. CASE r.pc = "upload"
    <3>1. /\ flight' \in [Script -> [leader : SUBSET Caller, waiting : SUBSET Caller]]
          /\ \A t \in Script : /\ flight'[t].waiting = flight[t].waiting
                               /\ flight'[t].leader = IF t = s THEN {c} ELSE flight[t].leader
      <4> DEFINE g == [flight[s] EXCEPT !.leader = {c}]
      <4>1. flight' = [flight EXCEPT ![s] = g]
        BY <1>2, <1>10, <1>11, <2>1
      <4>2. /\ g \in [leader : SUBSET Caller, waiting : SUBSET Caller]
            /\ g.waiting = flight[s].waiting /\ g.leader = {c}
        BY <1>2, <1>11
      <4> HIDE DEF g
      <4> QED
        BY <1>2, <1>11, <4>1, <4>2, Zenon
    <3> QED
      BY <1>2, <1>3, <1>10, <2>1, <3>1 DEF CallsInv, FlightOK, k, r
  <2>2. CASE r.pc = "wait"
    <3>1. /\ flight' \in [Script -> [leader : SUBSET Caller, waiting : SUBSET Caller]]
          /\ \A t \in Script :
               /\ flight'[t].leader = flight[t].leader
               /\ flight'[t].waiting =
                    IF t = s THEN flight[t].waiting \cup {c} ELSE flight[t].waiting
      <4> DEFINE g == [flight[s] EXCEPT !.waiting = @ \cup {c}]
      <4>1. flight' = [flight EXCEPT ![s] = g]
        BY <1>2, <1>10, <1>11, <2>2
      <4>2. /\ g \in [leader : SUBSET Caller, waiting : SUBSET Caller]
            /\ g.leader = flight[s].leader /\ g.waiting = flight[s].waiting \cup {c}
        BY <1>2, <1>11
      <4> HIDE DEF g
      <4> QED
        BY <1>2, <1>11, <4>1, <4>2
    <3> QED
      BY <1>2, <1>3, <1>10, <2>2, <3>1 DEF CallsInv, FlightOK, k, r
  <2> QED
    BY <1>10, <2>1, <2>2
<1> QED
  BY <1>3, <1>8, <1>9, <1>12 DEF CallsInv

LEMMA ScriptLoadKeeps ==
  ASSUME CallsInv, NEW c \in Caller, ScriptLoad(c)
  PROVE  CallsInv'
<1> DEFINE k == calls[c]
           r == calls'[c]
<1>1. Counted(k) /\ Compared(k, jobs, deKey, changes) /\ Served(k, flushes, loaded)
  BY DEF CallsInv, CallOK
<1>2. k \in Call /\ k.pc = "upload" /\ flushes \in Nat
  BY <1>1 DEF Counted, ScriptLoad, CallsInv, ServerOK
<1>3. /\ DOMAIN calls' = Caller /\ \A e \in Caller \ {c} : calls'[e] = calls[e]
      /\ UNCHANGED <<client, flight, flushes, jobs, deKey, changes>>
      /\ loaded' = loaded \cup {k.script} /\ r = [k EXCEPT !.pc = "uploaded"]
  BY DEF CallsInv, ScriptLoad, LoadStep
<1>4. client.pc = "ready"
  BY <1>2, BusyMeansReady
<1>5. ASSUME NEW e \in Caller \ {c} PROVE CallOK(e)'
  <2>1. calls[e] \in Call /\ Served(calls[e], flushes, loaded)
    BY DEF CallsInv, CallOK, Counted
  <2>2. Served(calls[e], flushes', loaded')
    BY <1>2, <1>3, <2>1, ServedKept
  <2> QED
    BY <1>3, <2>2 DEF CallsInv, CallOK
<1>6. Counted(r) /\ Compared(r, jobs, deKey, changes) /\ r.script = k.script /\ r.pc = "uploaded"
  <2> HIDE DEF k, r
  <2> QED
    BY <1>1, <1>2, <1>3 DEF Counted, Compared, Call, NoId
<1>7. Served(r, flushes', loaded')
  <2> HIDE DEF k, r
  <2> QED
    BY <1>1, <1>2, <1>3 DEF Served, Counted, Call
<1>8. CallOK(c)'
  BY <1>3, <1>6, <1>7 DEF CallOK
<1>9. ServerOK'
  BY <1>3, <1>4 DEF CallsInv, ServerOK
<1>10. ASSUME NEW d \in Caller
       PROVE  /\ calls'[d].script = calls[d].script
              /\ calls'[d].pc = calls[d].pc \/ (calls[d].pc = "upload" /\ calls'[d].pc = "uploaded")
  BY <1>2, <1>3, <1>6, Zenon
<1>11. \A s \in Script : flight[s].leader \subseteq Caller /\ flight[s].waiting \subseteq Caller
  BY DEF CallsInv, FlightOK
<1>12. FlightOK'
  BY <1>3, <1>10, <1>11 DEF CallsInv, FlightOK
<1> QED
  BY <1>3, <1>5, <1>8, <1>9, <1>12 DEF CallsInv

\* When the group of a script is let go, its members are in no other.
LEMMA GroupLeaves ==
  ASSUME CallsInv, NEW s \in Script, flight' = [flight EXCEPT ![s] = NoFlight],
         DOMAIN calls' = Caller,
         \A d \in Caller \ InFlight(s) : calls'[d] = calls[d],
         \A d \in InFlight(s) : CallOK(d)',
         UNCHANGED <<client, server>>, client.pc = "ready"
  PROVE  CallsInv'
<1>1. ASSUME NEW d \in Caller PROVE CallOK(d)'
  BY <1>1 DEF CallsInv, CallOK, server
<1>2. ServerOK'
  BY DEF CallsInv, ServerOK, server
<1>3. \A t \in Script : t # s =>
        \A d \in flight[t].leader \cup flight[t].waiting : d \in Caller \ InFlight(s)
  BY DEF CallsInv, FlightOK, InFlight
<1>4. /\ flight' \in [Script -> [leader : SUBSET Caller, waiting : SUBSET Caller]]
      /\ \A t \in Script : t # s => flight'[t] = flight[t]
      /\ flight'[s].leader = {} /\ flight'[s].waiting = {}
  BY DEF CallsInv, FlightOK, NoFlight
<1>5. FlightOK'
  BY <1>3, <1>4 DEF CallsInv, FlightOK
<1> QED
  BY <1>1, <1>2, <1>5 DEF CallsInv

LEMMA MemberState ==
  ASSUME CallsInv, NEW s \in Script, NEW d \in InFlight(s)
  PROVE  /\ d \in Caller /\ calls[d].pc \in {"upload", "uploaded", "wait"} /\ calls[d].script = s
         /\ Counted(calls[d]) /\ Compared(calls[d], jobs, deKey, changes)
         /\ Served(calls[d], flushes, loaded)
BY DEF CallsInv, FlightOK, InFlight, CallOK

LEMMA LoadReturnsKeeps ==
  ASSUME CallsInv, NEW c \in Caller, LoadReturns(c)
  PROVE  CallsInv'
<1> DEFINE s == calls[c].script
<1>1. /\ Counted(calls[c]) /\ Served(calls[c], flushes, loaded) /\ calls[c].pc = "uploaded"
      /\ DOMAIN calls' = Caller /\ flight' = [flight EXCEPT ![s] = NoFlight]
      /\ \A d \in Caller \ InFlight(s) : calls'[d] = calls[d]
      /\ UNCHANGED <<client, server>>
  BY Zenon DEF CallsInv, CallOK, LoadReturns, LoadStep, server
<1>2. client.pc = "ready" /\ s \in Script
  BY <1>1, BusyMeansReady DEF Counted
<1>3. flushes = 1 => s \in loaded
  BY <1>1 DEF Served
<1>4. ASSUME NEW d \in InFlight(s) PROVE CallOK(d)'
  <2> DEFINE k == calls[d]
             r == calls'[d]
  <2>1. /\ d \in Caller /\ k.pc \in {"upload", "uploaded", "wait"} /\ k.script = s
        /\ Counted(k) /\ Compared(k, jobs, deKey, changes) /\ Served(k, flushes, loaded)
    BY <1>2, MemberState, SMTT(30)
  <2>2. r = [k EXCEPT !.pc = "running", !.reloaded = TRUE] /\ k \in Call
    BY <2>1, Zenon DEF LoadReturns, Counted
  <2> HIDE DEF k, r
  <2>3. Counted(r) /\ Compared(r, jobs, deKey, changes)
    BY <2>1, <2>2, Zenon DEF Counted, Compared, Call, NoId
  <2>4. Served(r, flushes, loaded)
    BY <1>3, <2>1, <2>2 DEF Served, Counted, Call
  <2> QED
    BY <1>1, <2>3, <2>4 DEF CallOK, server, r
<1> QED
  BY <1>1, <1>2, <1>4, GroupLeaves, Zenon

LEMMA LoadFailsKeeps ==
  ASSUME CallsInv, NEW c \in Caller, LoadFails(c)
  PROVE  CallsInv'
<1> DEFINE s == calls[c].script
<1>1. /\ Counted(calls[c]) /\ calls[c].pc \in {"upload", "uploaded"}
      /\ DOMAIN calls' = Caller /\ flight' = [flight EXCEPT ![s] = NoFlight]
      /\ \A d \in Caller \ InFlight(s) : calls'[d] = calls[d]
      /\ UNCHANGED <<client, server>>
  BY DEF CallsInv, CallOK, LoadFails, LoadStep, server
<1>2. client.pc = "ready" /\ s \in Script
  BY <1>1, BusyMeansReady DEF Counted
<1>3. ASSUME NEW d \in InFlight(s) PROVE CallOK(d)'
  <2> DEFINE k == calls[d]
             r == calls'[d]
  <2>1. /\ d \in Caller /\ k.pc \in {"upload", "uploaded", "wait"} /\ k.script = s
        /\ Counted(k) /\ Compared(k, jobs, deKey, changes) /\ Served(k, flushes, loaded)
    BY <1>2, MemberState
  <2>2. k \in Call /\ (r = Returns(k, "network") \/ r = Returns(k, "cancelled"))
    BY <2>1 DEF LoadFails, Counted
  <2> HIDE DEF k, r
  <2>3. Counted(r) /\ Compared(r, jobs, deKey, changes)
    BY <2>1, <2>2, ReturnsFields DEF Counted, Compared, NoId
  <2>4. Served(r, flushes, loaded)
    BY <2>1, <2>2, ReturnsFields DEF Served
  <2> QED
    BY <1>1, <2>3, <2>4 DEF CallOK, server, r
<1> QED
  BY <1>1, <1>2, <1>3, GroupLeaves, Zenon

-----------------------------------------------------------------------------
(* The server, and the start *)

LEMMA FlushKeeps ==
  ASSUME CallsInv, Flush
  PROVE  CallsInv'
<1>1. /\ flushes \in Nat /\ flushes' = flushes + 1
      /\ UNCHANGED <<client, calls, flight, jobs, deKey, changes>> /\ client.pc = "ready"
  BY DEF CallsInv, ServerOK, Flush
<1>2. ASSUME NEW e \in Caller PROVE CallOK(e)'
  <2>1. calls[e] \in Call /\ Served(calls[e], flushes, loaded)
    BY DEF CallsInv, CallOK, Counted
  <2>2. Served(calls[e], flushes', loaded')
    BY <1>1, <2>1, ServedKept
  <2> QED
    BY <1>1, <2>2 DEF CallsInv, CallOK
<1>3. ServerOK' /\ FlightOK'
  BY <1>1 DEF CallsInv, ServerOK, FlightOK
<1> QED
  BY <1>1, <1>2, <1>3 DEF CallsInv

LEMMA ReleaseKeeps ==
  ASSUME CallsInv, ReleaseKey
  PROVE  CallsInv'
<1>1. /\ jobs \in Nat /\ deKey \in Nat /\ changes \in Nat
      /\ deKey' = NoId /\ changes' = changes + 1
      /\ UNCHANGED <<client, calls, flight, jobs, loaded, flushes>>
  BY DEF CallsInv, ServerOK, ReleaseKey
<1>2. ASSUME NEW e \in Caller PROVE CallOK(e)'
  <2>1. calls[e] \in Call /\ Compared(calls[e], jobs, deKey, changes)
    BY DEF CallsInv, CallOK, Counted
  <2>2. Compared(calls[e], jobs', deKey', changes')
    BY <1>1, <2>1, ComparedKept DEF NoId
  <2> QED
    BY <1>1, <2>2 DEF CallsInv, CallOK
<1>3. ServerOK' /\ FlightOK'
  BY <1>1 DEF CallsInv, ServerOK, FlightOK, NoId
<1> QED
  BY <1>1, <1>2, <1>3 DEF CallsInv

\* NewClient uploads every script before it hands out the client.
LEMMA StartKeeps ==
  ASSUME CallsInv, Preload \/ NewClientFails
  PROVE  CallsInv'
<1>1. /\ UNCHANGED <<calls, flight, flushes, jobs, deKey, changes>> /\ loaded \subseteq loaded'
      /\ client.pc = "loading" /\ "pc" \in DOMAIN client'
      /\ client'.pc = "ready" => Script \subseteq loaded'
  <2>1. CASE Preload
    <3> DEFINE known == client.known \cup {Scripts[Cardinality(client.known) + 1]}
    <3>1. /\ client' = [known |-> known, pc |-> IF known = Script THEN "ready" ELSE "loading"]
          /\ loaded' = loaded \cup known
      BY <2>1 DEF Preload
    <3> HIDE DEF known
    <3>2. "pc" \in DOMAIN client' /\ (client'.pc = "ready" => Script \subseteq loaded')
      BY <3>1
    <3> QED
      BY <2>1, <3>1, <3>2 DEF Preload
  <2>2. CASE NewClientFails
    BY <2>2 DEF CallsInv, ServerOK, NewClientFails, server
  <2> QED
    BY <2>1, <2>2
<1>2. ASSUME NEW e \in Caller PROVE CallOK(e)'
  <2>1. calls[e] \in Call /\ Served(calls[e], flushes, loaded) /\ flushes \in Nat
    BY DEF CallsInv, CallOK, Counted, ServerOK
  <2>2. Served(calls[e], flushes', loaded')
    BY <1>1, <2>1, ServedKept
  <2> QED
    BY <1>1, <2>2 DEF CallsInv, CallOK
<1>3. ServerOK' /\ FlightOK'
  BY <1>1 DEF CallsInv, ServerOK, FlightOK
<1> QED
  BY <1>1, <1>2, <1>3 DEF CallsInv

LEMMA CallsInit == Init => CallsInv
<1> SUFFICES ASSUME Init PROVE CallsInv
  OBVIOUS
<1>1. ASSUME NEW c \in Caller PROVE CallOK(c)
  <2>1. calls[c] = [pc |-> "idle", script |-> "none", unique |-> FALSE, pre |-> NoId, seen |-> -1,
                    answer |-> NoId, made |-> {}, stale |-> FALSE, ran |-> 0, resent |-> 0,
                    reloaded |-> FALSE, cancelled |-> FALSE, result |-> "none"]
    BY DEF Init
  <2>2. jobs = 0 /\ deKey = 0 /\ changes = 0 /\ flushes = 0
    BY DEF Init, NoId
  <2> QED
    BY <2>1, <2>2 DEF CallOK, Counted, Compared, Served, Call, NoId
<1>2. ServerOK
  <2>1. client = [pc |-> "loading", known |-> {}]
    BY DEF Init
  <2>2. jobs = 0 /\ deKey = 0 /\ changes = 0 /\ flushes = 0
    BY DEF Init, NoId
  <2>3. \A c \in Caller : calls[c].pc = "idle"
    BY DEF Init
  <2>4. "pc" \in DOMAIN client /\ client.pc = "loading"
    BY <2>1
  <2> QED
    BY <2>2, <2>3, <2>4, SMTT(30) DEF ServerOK
<1>3. FlightOK
  BY DEF Init, FlightOK, NoFlight
<1> QED
  BY <1>1, <1>2, <1>3 DEF CallsInv, Init

LEMMA CallsKept ==
  ASSUME CallsInv, UNCHANGED <<client, calls, flight, server>>
  PROVE  CallsInv'
BY SMTT(30) DEF CallsInv, CallOK, ServerOK, FlightOK, server

LEMMA CallsStep ==
  ASSUME CallsInv, DiscoverInv, [Next]_vars
  PROVE  CallsInv'
<1>1. ASSUME NEW c \in Caller, CallRuns(c) \/ Cancel(c) PROVE CallsInv'
  <2>1. CallRuns(c) \/ Cancel(c) =>
          Moves(c) \/ EvalSha(c) \/ Load(c) \/ ScriptLoad(c) \/ LoadReturns(c) \/ LoadFails(c)
    BY DEF CallRuns, Moves
  <2> QED
    BY <1>1, <2>1, MovesKeep, EvalShaRuns, EvalShaUnknown, LoadKeeps, ScriptLoadKeeps,
       LoadReturnsKeeps, LoadFailsKeeps
<1>2. ASSUME NEW c \in Caller, NEW opts \in setting.opts, Add(c, opts) PROVE CallsInv'
  <2>1. setting.opts \subseteq Options
    BY ClientAssumption DEF DiscoverInv, Setting
  <2> QED
    BY <1>2, <2>1, AddKeeps
<1>3. CASE UNCHANGED <<client, calls, flight, server>>
  BY <1>3, CallsKept, SMTT(30)
<1>4. \/ UNCHANGED vars
      \/ \E q \in Queue : Define(q) \/ Bootstrap(q)
      \/ \E k \in Key, kind \in {"none", "meta", "hash", "string"} : KeyChanges(k, kind)
      \/ DiscoverQueues \/ DiscoverFails \/ KeepMeta \/ \E slots \in SUBSET Key : ScanNode(slots)
      => UNCHANGED <<client, calls, flight, server>>
  BY Zenon
     DEF vars, Define, Bootstrap, KeyChanges, DiscoverQueues, DiscoverFails, KeepMeta, ScanNode,
         NameStep
<1> QED
  BY <1>1, <1>2, <1>3, <1>4, FlushKeeps, ReleaseKeeps, StartKeeps DEF Next

-----------------------------------------------------------------------------
(* The theorems *)

\* The relations between the calls, the server and the discovery are inductive.
THEOREM ClientInvariant == Spec => [](CallsInv /\ DiscoverInv)
<1>1. Init => CallsInv /\ DiscoverInv
  BY CallsInit, DiscoverInit
<1>2. CallsInv /\ DiscoverInv /\ [Next]_vars => (CallsInv /\ DiscoverInv)'
  BY CallsStep, DiscoverStep
<1> QED
  BY <1>1, <1>2, PTL DEF Spec

\* An Add that returns ErrDuplicateJob has stored nothing, whatever the races on
\* the key, the reloads and the repeated commands.
THEOREM DuplicatesAreReal == Spec => []DuplicateIsReal
<1>1. CallsInv => DuplicateIsReal
  BY DEF CallsInv, CallOK, Compared, DuplicateIsReal
<1> QED
  BY <1>1, ClientInvariant, PTL

\* An Add that returns no error has stored its job, or the key moved between the
\* two commands.
THEOREM AddedAreNew == Spec => []AddedIsNew
<1>1. CallsInv => AddedIsNew
  BY DEF CallsInv, CallOK, Compared, AddedIsNew
<1> QED
  BY <1>1, ClientInvariant, PTL

\* Reloads and errors never run a script twice.
THEOREM ScriptsRunOnce == Spec => []RunsOnce
<1>1. CallsInv => RunsOnce
  BY DEF CallsInv, CallOK, Counted, RunsOnce
<1> QED
  BY <1>1, ClientInvariant, PTL

\* No caller hears of a single flush of the scripts.
THEOREM FlushIsHidden == Spec => []OneFlushIsHidden
<1>1. CallsInv => OneFlushIsHidden
  BY DEF CallsInv, CallOK, Served, OneFlushIsHidden
<1> QED
  BY <1>1, ClientInvariant, PTL

\* DiscoverQueues misses no queue that is there all the time.
THEOREM DiscoveryIsComplete == Spec => []DiscoverComplete
<1>1. DiscoverInv => DiscoverComplete
  BY DEF DiscoverInv, DiscoverComplete
<1> QED
  BY <1>1, ClientInvariant, PTL

\* DiscoverQueues reports nothing that was not a queue during the call.
THEOREM DiscoveryIsSound == Spec => []DiscoverSound
<1>1. DiscoverInv => DiscoverSound
  BY DEF DiscoverInv, DiscoverSound
<1> QED
  BY <1>1, ClientInvariant, PTL

\* What Add tells its caller is true.
THEOREM AnswersAreTrue == Spec => []AnswerIsTrue
<1>1. DuplicateIsReal /\ AddedIsNew => AnswerIsTrue
  BY DEF AnswerIsTrue
<1> QED
  BY <1>1, DuplicatesAreReal, AddedAreNew, PTL

\* Reloads neither run a script twice nor show after a single flush.
THEOREM ReloadsAreHidden == Spec => []ReloadIsHidden
<1>1. RunsOnce /\ OneFlushIsHidden => ReloadIsHidden
  BY DEF ReloadIsHidden
<1> QED
  BY <1>1, ScriptsRunOnce, FlushIsHidden, PTL

\* DiscoverQueues misses no queue and invents none.
THEOREM DiscoveryIsExact == Spec => []DiscoverExact
<1>1. DiscoverComplete /\ DiscoverSound => DiscoverExact
  BY DEF DiscoverExact
<1> QED
  BY <1>1, DiscoveryIsComplete, DiscoveryIsSound, PTL

=============================================================================

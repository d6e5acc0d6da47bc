------------------------------ MODULE Observers ------------------------------
(***************************************************************************)
(* Those who watch a queue: a subscriber of its event stream (QueueEvents) *)
(* and a reader of its counts, lists and metrics (Counts, ListJobs,        *)
(* GetMetrics), beside the scripts that move the jobs and write the        *)
(* events.                                                                 *)
(*                                                                         *)
(* A script is one step; a call of the reader is one step for each round   *)
(* trip.  The head of a list is its left end, where LPUSH puts new jobs.   *)
(* Delayed, prioritised and scheduled jobs are left out.  So is the marker *)
(* "0:" that BullMQ 4 left at the right end of a list: getCounts and       *)
(* getRanges take it off before they look at the jobs, which are what the  *)
(* lists hold here.  The id of a stream entry is its position in the log.  *)
(***************************************************************************)
EXTENDS JobLists

CONSTANTS
  NoJob,      \* the job of an event that is about none
  MaxEvents,  \* opts.maxLenEvents
  Chunk,      \* jobs a Resume moves in one script (7000)
  PageSize,   \* entries on a page
  Settings    \* the surroundings under study, see MCObservers

ASSUME ObserversAssumption ==
  /\ NoJob \notin Job
  /\ MaxEvents \in Nat \ {0, 1} /\ Chunk \in Nat \ {0} /\ PageSize \in Nat \ {0}
  /\ \A s \in Settings :
       /\ s.wait \in Seq(Job) /\ IsInjective(s.wait)
       /\ s.legacy \in Seq(Job) /\ IsInjective(s.legacy)
       /\ Range(s.wait) \cap Range(s.legacy) = {}
       /\ s.minutes \in Nat /\ s.maxDataPoints \in Nat

VARIABLES
  setting,   \* the surroundings, chosen once
  wait, legacy, active,   \* the lists wait, paused (left by BullMQ 5) and active
  done,      \* the sets completed and failed
  hash,      \* the jobs that exist
  paused,    \* the flag in meta
  erased,    \* the jobs DrainPending deleted, unless they were added again
  log,       \* every event written so far
  trimmed,   \* how many of the oldest are gone from the stream
  sub,       \* the subscriber
  reader,    \* the reader
  metrics,   \* the metrics keys of completed and failed
  minute,    \* the clock
  newest,    \* the latest minute of a finished job's timestamp, -1 before the first
  tally,     \* the jobs finished in each minute; one whose timestamp is older than
             \* the newest counts in that minute
  ops        \* scripts run so far

queue == <<wait, legacy, active, done, hash, paused, erased>>
stream == <<log, trimmed>>
accounts == <<metrics, newest, tally>>
clocked == <<accounts, minute>>
vars == <<setting, queue, stream, sub, reader, clocked, ops>>

Finished == {"completed", "failed"}

\* prevTS is -1 when the hash is not there
NoMetrics == [count |-> 0, prevTS |-> -1, prevCount |-> 0, data |-> <<>>]

Init ==
  /\ setting \in Settings
  /\ wait = setting.wait /\ legacy = setting.legacy /\ paused = setting.paused
  /\ active = <<>> /\ done = [completed |-> {}, failed |-> {}] /\ erased = {}
  /\ hash = Range(wait) \cup Range(legacy)
  /\ log = <<>> /\ trimmed = 0
  /\ sub = [pc |-> "idle", last |-> -1, start |-> 0, batch |-> <<>>, got |-> <<>>,
            closed |-> FALSE, cancelled |-> FALSE]
  /\ reader = [pc |-> "idle", counts |-> <<>>, waiting |-> 0, bucket |-> "wait", source |-> "wait",
               ids |-> <<>>, list |-> <<>>, page |-> 0, first |-> <<>>,
               same |-> TRUE, grown |-> TRUE]
  /\ metrics = [kind \in Finished |-> NoMetrics] /\ minute = 0
  /\ newest = [kind \in Finished |-> -1]
  /\ tally = [kind \in Finished |-> [n \in 0..setting.minutes |-> 0]]
  /\ ops = 0

-----------------------------------------------------------------------------
(* The scripts *)

Event(name, j) == [event |-> name, job |-> j]

\* The end of a script: its events are in the stream, which may have been cut to
\* about MaxEvents when it had the given length, and a subscriber blocked in XREAD
\* is served.
Writes(events, length) ==
  /\ ops < setting.maxOps /\ ops' = ops + 1
  /\ log' = log \o events
  /\ trimmed' \in {trimmed} \cup trimmed..(length - MaxEvents)
  /\ sub' = IF sub.pc = "blocked"
              THEN [sub EXCEPT !.pc = "replied",
                               !.batch = [i \in 1..Len(events) |-> Len(log) + i]]
              ELSE sub
  /\ UNCHANGED <<setting, minute>>

\* What the reader's properties allow for: nothing changed, or jobs were only
\* pushed to the head of wait.
Disturbs(pushed) ==
  reader' = [reader EXCEPT !.same = FALSE, !.grown = @ /\ pushed]

Pushed(l, j, lifo) == IF lifo THEN Append(l, j) ELSE <<j>> \o l

AddStandardJob(j, lifo) ==
  /\ "add" \in setting.scripts /\ j \notin hash
  /\ hash' = hash \cup {j} /\ erased' = erased \ {j}
  /\ wait' = Pushed(wait, j, lifo)
  /\ Writes(<<Event("added", j), Event("waiting", j)>>, Len(log'))
  /\ Disturbs(~lifo)
  /\ UNCHANGED <<legacy, active, done, paused, accounts>>

MoveToActive ==
  /\ "finish" \in setting.scripts /\ ~paused /\ wait # <<>>
  /\ wait' = SubSeq(wait, 1, Len(wait) - 1) /\ active' = <<wait[Len(wait)]>> \o active
  /\ Writes(<<Event("active", wait[Len(wait)])>>, 0)
  /\ Disturbs(FALSE)
  /\ UNCHANGED <<legacy, done, hash, paused, erased, accounts>>

Zeros(n) == [i \in 1..n |-> 0]

Smaller(a, b) == IF a <= b THEN a ELSE b
Larger(a, b) == IF a >= b THEN a ELSE b

\* Slip: the zeros for the minutes without jobs come before the last count.
CollectMetricsSwapped(m, t) ==
  LET n == Smaller(t - m.prevTS, setting.maxDataPoints)
      points == <<m.count - m.prevCount>> \o Zeros(n - 1) \o m.data
  IN  IF m.prevTS = -1 THEN [m EXCEPT !.count = 1, !.prevTS = t]
      ELSE IF n <= 0 THEN [m EXCEPT !.count = @ + 1]
      ELSE [count |-> m.count + 1, prevTS |-> t, prevCount |-> m.count,
            data |-> SubSeq(points, 1, Smaller(Len(points), setting.maxDataPoints))]

\* collectMetrics: the jobs counted since the last roll go to its minute.
CollectMetrics(m, t) ==
  LET n == Smaller(t - m.prevTS, setting.maxDataPoints)
      points == Zeros(n - 1) \o <<m.count - m.prevCount>> \o m.data
  IN  IF m.prevTS = -1 THEN [m EXCEPT !.count = 1, !.prevTS = t]
      ELSE IF n <= 0 THEN [m EXCEPT !.count = @ + 1]
      ELSE [count |-> m.count + 1, prevTS |-> t, prevCount |-> m.count,
            data |-> SubSeq(points, 1, Smaller(Len(points), setting.maxDataPoints))]

\* moveToFinished: the stream is trimmed, the job goes to its set or away, older
\* ones may be dropped by retention, and with fetchNext the next job starts.
MoveToFinished(j, to, exhausted, keep, dropped, fetchNext, timestamp) ==
  /\ "finish" \in setting.scripts /\ j \in Range(active) /\ (exhausted => to = "failed")
  /\ keep \/ dropped = {}
  /\ setting.keepsAll => keep /\ dropped = {}
  /\ LET left == Without(active, j)
         next == fetchNext /\ ~paused /\ wait # <<>>
         drained == ~(fetchNext /\ paused) /\ wait = <<>> /\ left = <<>>
     IN  /\ active' = IF next THEN <<wait[Len(wait)]>> \o left ELSE left
         /\ wait' = IF next THEN SubSeq(wait, 1, Len(wait) - 1) ELSE wait
         /\ done' = [done EXCEPT ![to] = (@ \ dropped) \cup (IF keep THEN {j} ELSE {})]
         /\ hash' = (hash \ dropped) \ (IF keep THEN {} ELSE {j})
         /\ Writes(<<Event(to, j)>>
                     \o (IF exhausted THEN <<Event("retries-exhausted", j)>> ELSE <<>>)
                     \o (IF next THEN <<Event("active", wait[Len(wait)])>> ELSE <<>>)
                     \o (IF drained THEN <<Event("drained", NoJob)>> ELSE <<>>), Len(log))
  /\ metrics' = IF setting.maxDataPoints = 0 THEN metrics
                ELSE [metrics EXCEPT ![to] = CollectMetrics(@, timestamp)]
  /\ newest' = [newest EXCEPT ![to] = Larger(timestamp, @)]
  /\ tally' = [tally EXCEPT ![to][Larger(timestamp, newest[to])] = @ + 1]
  /\ Disturbs(FALSE)
  /\ UNCHANGED <<legacy, paused, erased>>

\* The worker reads its clock before the call: the timestamp is a minute of the past
\* when the call is slow or the clock is behind that of other workers.
RunMoveToFinished(j) ==
  \E to \in Finished, exhausted, keep, fetchNext \in BOOLEAN, timestamp \in 0..minute :
    \E dropped \in SUBSET done[to] :
      MoveToFinished(j, to, exhausted, keep, dropped, fetchNext, timestamp)

\* retryJob
RetryJob(j, lifo) ==
  /\ "work" \in setting.scripts /\ j \in Range(active)
  /\ active' = Without(active, j)
  /\ wait' = Pushed(wait, j, lifo)
  /\ Writes(<<Event("waiting", j)>>, Len(log'))
  /\ Disturbs(~lifo)
  /\ UNCHANGED <<legacy, done, hash, paused, erased, accounts>>

\* moveStalledJobsToWait for a job whose lock ran out
MoveStalledJobToWait(j) ==
  /\ "work" \in setting.scripts /\ j \in Range(active)
  /\ active' = Without(active, j)
  /\ wait' = Append(wait, j)
  /\ Writes(<<Event("waiting", j), Event("stalled", j)>>, Len(log))
  /\ Disturbs(FALSE)
  /\ UNCHANGED <<legacy, done, hash, paused, erased, accounts>>

\* removeJob of a job that is not locked
RemoveJob(j) ==
  /\ "remove" \in setting.scripts /\ j \in hash \ Range(active)
  /\ wait' = Without(wait, j)
  /\ legacy' = Without(legacy, j)
  /\ done' = [s \in DOMAIN done |-> done[s] \ {j}]
  /\ hash' = hash \ {j}
  /\ Writes(<<Event("removed", j)>>, Len(log'))
  /\ Disturbs(FALSE)
  /\ UNCHANGED <<active, paused, erased, accounts>>

\* drain: what waits is deleted, and the stream does not tell.
DrainPending ==
  /\ "drain" \in setting.scripts /\ ops < setting.maxOps /\ ops' = ops + 1
  /\ wait' = <<>> /\ legacy' = <<>>
  /\ hash' = hash \ (Range(wait) \cup Range(legacy))
  /\ erased' = erased \cup Range(wait) \cup Range(legacy)
  /\ Disturbs(FALSE)
  /\ UNCHANGED <<setting, active, done, paused, stream, sub, clocked>>

UpdateProgress(j) ==
  /\ "work" \in setting.scripts /\ j \in hash
  /\ Writes(<<Event("progress", j)>>, Len(log'))
  /\ UNCHANGED <<queue, reader, accounts>>

Pause ==
  /\ "pause" \in setting.scripts
  /\ paused' = TRUE
  /\ Writes(<<Event("paused", NoJob)>>, 0)
  /\ Disturbs(TRUE)
  /\ UNCHANGED <<wait, legacy, active, done, hash, erased, accounts>>

\* One script of Resume; the call repeats it while jobs are left in the legacy list,
\* and asks for the event each time.
Resume ==
  /\ "resume" \in setting.scripts
  /\ paused' = FALSE
  /\ wait' = IF wait = <<>> THEN legacy
             ELSE wait \o SubSeq(legacy, 1, Smaller(Chunk, Len(legacy)))
  /\ legacy' = IF wait = <<>> THEN <<>> ELSE SubSeq(legacy, Chunk + 1, Len(legacy))
  /\ Writes(<<Event("resumed", NoJob)>>, 0)
  /\ Disturbs(legacy = <<>>)
  /\ UNCHANGED <<active, done, hash, erased, accounts>>

MinutePasses ==
  /\ minute < setting.minutes /\ minute' = minute + 1
  /\ UNCHANGED <<setting, queue, stream, sub, reader, accounts, ops>>

Scripts ==
  \/ MoveToActive \/ DrainPending \/ Pause \/ Resume
  \/ \E j \in Job :
       \/ \E lifo \in BOOLEAN : AddStandardJob(j, lifo) \/ RetryJob(j, lifo)
       \/ RunMoveToFinished(j) \/ MoveStalledJobToWait(j) \/ RemoveJob(j) \/ UpdateProgress(j)

-----------------------------------------------------------------------------
(* QueueEvents *)

Typed ==
  {"added", "waiting", "active", "completed", "failed", "delayed", "stalled", "drained",
   "retries-exhausted", "removed", "progress"}

\* Slip: a type that was added later is not known to the switch.
DecodeStreamMessageOld(id) ==
  IF log[id].event \in Typed \ {"removed"}
    THEN [id |-> id, type |-> log[id].event, job |-> log[id].job]
    ELSE [id |-> id, type |-> "raw", job |-> NoJob]

\* decodeStreamMessage: what is not known is handed over raw.
DecodeStreamMessage(id) ==
  IF log[id].event \in Typed
    THEN [id |-> id, type |-> log[id].event, job |-> log[id].job]
    ELSE [id |-> id, type |-> "raw", job |-> NoJob]

SubSteps == <<setting, queue, stream, reader, clocked, ops>>

Subscribe ==
  /\ setting.subscribes /\ sub.pc = "idle"
  /\ sub' = [sub EXCEPT !.pc = "looping", !.last = -1, !.start = Len(log)]
  /\ UNCHANGED SubSteps

\* Slip: the loop looks at its context only.
LoopSelectCtxOnly ==
  /\ sub.pc = "looping"
  /\ sub' = [sub EXCEPT !.pc = IF sub.cancelled THEN "cancelled" ELSE "calling"]
  /\ UNCHANGED SubSteps

\* The select at the top of the loop; when both are ready either is taken.
LoopSelect ==
  /\ sub.pc = "looping"
  /\ sub' \in (IF sub.cancelled THEN {[sub EXCEPT !.pc = "cancelled"]} ELSE {})
              \cup (IF sub.closed THEN {[sub EXCEPT !.pc = "closed"]} ELSE {})
              \cup (IF sub.cancelled \/ sub.closed THEN {} ELSE {[sub EXCEPT !.pc = "calling"]})
  /\ UNCHANGED SubSteps

\* Slip: the read includes the entry it starts from, as XRANGE does.
ReadFromInclusive(last) == IF last = -1 THEN Len(log) ELSE last - 1

\* "$" is the end of the stream when the call arrives.
ReadFrom(last) == IF last = -1 THEN Len(log) ELSE last

\* XREAD BLOCK at the server: everything after the id, or it waits.
XReadArrives ==
  /\ sub.pc = "calling"
  /\ LET from == IF ReadFrom(sub.last) > trimmed THEN ReadFrom(sub.last) ELSE trimmed
         ids == [i \in 1..(Len(log) - from) |-> from + i]
     IN  sub' = IF ids = <<>> THEN [sub EXCEPT !.pc = "blocked"]
                ELSE [sub EXCEPT !.pc = "replied", !.batch = ids]
  /\ UNCHANGED SubSteps

\* redis.Nil after streamBlockTimeout
XReadTimesOut ==
  /\ sub.pc = "blocked"
  /\ sub' = [sub EXCEPT !.pc = "looping"]
  /\ UNCHANGED SubSteps

XReadFails ==
  /\ sub.pc \in {"calling", "blocked"}
  /\ \/ sub.cancelled /\ sub' = [sub EXCEPT !.pc = "cancelled"]
     \/ setting.faults /\ sub' = [sub EXCEPT !.pc = "broken"]
  /\ UNCHANGED SubSteps

\* The loop over the messages: handler gets the next one, or the batch is done.
Deliver ==
  /\ sub.pc = "replied"
  /\ IF sub.batch = <<>> THEN sub' = [sub EXCEPT !.pc = "looping"]
     ELSE \E pc \in {"replied"} \cup (IF setting.faults THEN {"refused"} ELSE {}) :
            sub' = [sub EXCEPT !.last = Head(sub.batch), !.batch = Tail(@), !.pc = pc,
                               !.got = Append(@, DecodeStreamMessage(Head(sub.batch)))]
  /\ UNCHANGED SubSteps

Close ==
  /\ setting.ends /\ ~sub.closed /\ sub' = [sub EXCEPT !.closed = TRUE]
  /\ UNCHANGED SubSteps

Cancel ==
  /\ setting.ends /\ ~sub.cancelled /\ sub' = [sub EXCEPT !.cancelled = TRUE]
  /\ UNCHANGED SubSteps

SubscribeRuns == LoopSelect \/ XReadArrives \/ XReadTimesOut \/ XReadFails \/ Deliver

-----------------------------------------------------------------------------
(* Counts, ListJobs, GetMetrics *)

ReadSteps == <<setting, queue, stream, sub, clocked, ops>>

\* LRANGE
LRange(l, from, to) ==
  LET f == IF from >= 0 THEN from ELSE IF Len(l) + from > 0 THEN Len(l) + from ELSE 0
      t == IF to >= 0 THEN Smaller(to, Len(l) - 1) ELSE Len(l) + to
  IN  IF f > t THEN <<>> ELSE SubSeq(l, f + 1, t + 1)

ListAt(bucket) == IF bucket = "wait" THEN wait ELSE IF bucket = "active" THEN active ELSE legacy

\* getCounts
Length(bucket) ==
  IF bucket \in {"wait", "active", "paused"} THEN Len(ListAt(bucket)) ELSE Cardinality(done[bucket])

\* Counts, first round trip: the requested buckets, and wait when paused needs it
Counts(buckets) ==
  /\ "counts" \in setting.reads /\ reader.pc = "idle"
  /\ LET query == buckets \cup (IF "paused" \in buckets THEN {"wait"} ELSE {})
         count == [b \in query |-> Length(b)]
     IN  reader' = [reader EXCEPT !.counts = [b \in buckets |-> count[b]],
                      !.waiting = IF "wait" \in query THEN count["wait"] ELSE 0,
                      !.same = TRUE,
                      !.pc = IF "paused" \in buckets /\ count["paused"] = 0
                               THEN "counting" ELSE "counted"]
  /\ UNCHANGED ReadSteps

\* Counts, second round trip: a paused queue holds back what is in wait
CountsIsPaused ==
  /\ reader.pc = "counting"
  /\ reader' = [reader EXCEPT !.pc = "counted",
                              !.counts["paused"] = IF paused THEN reader.waiting ELSE 0]
  /\ UNCHANGED ReadSteps

\* Slip: the flag is looked at before the legacy list.
SourceByFlag(bucket) ==
  IF bucket # "paused" THEN bucket
  ELSE IF paused THEN "wait" ELSE IF legacy # <<>> THEN "paused" ELSE "flag"

\* ListJobs for paused: the length of the legacy list, and the flag when it is empty
Source(bucket) ==
  IF bucket # "paused" THEN bucket ELSE IF legacy # <<>> THEN "paused" ELSE "flag"

ListJobs(bucket) ==
  /\ reader.pc = "counted"
  /\ reader' = [reader EXCEPT !.bucket = bucket, !.source = Source(bucket), !.list = <<>>,
                              !.pc = IF Source(bucket) = "flag" THEN "asking" ELSE "ranging"]
  /\ UNCHANGED ReadSteps

ListIsPaused ==
  /\ reader.pc = "asking"
  /\ reader' = [reader EXCEPT !.source = "wait", !.pc = IF paused THEN "ranging" ELSE "listed"]
  /\ UNCHANGED ReadSteps

\* getRangeInList: an ascending window is counted from the right end.
Ranges(l, start, end, asc) ==
  IF asc THEN LRange(l, IF end = -1 THEN 0 ELSE -(end + 1), IF start = -1 THEN 0 ELSE -(start + 1))
  ELSE LRange(l, start, end)

\* Slip: the window of an ascending read is left in the order of the list.
ListedIdsNative(l, start, end, asc) == Ranges(l, start, end, asc)

Reversed(l) == [i \in 1..Len(l) |-> l[Len(l) + 1 - i]]

\* getRanges and the reversal of an ascending list
ListedIds(l, start, end, asc) ==
  IF asc THEN Reversed(Ranges(l, start, end, asc)) ELSE Ranges(l, start, end, asc)

GetRanges ==
  /\ reader.pc = "ranging"
  /\ \E asc \in BOOLEAN :
       LET ids == ListedIds(ListAt(reader.source), 0, -1, asc)
       IN  reader' = [reader EXCEPT !.ids = ids, !.pc = IF ids = <<>> THEN "listed" ELSE "fetching"]
  /\ UNCHANGED ReadSteps

\* The jobs of a list that exist, in their order.  (SelectSeq also returns l when
\* all exist, but it is recursive: that case is spelled out for the proofs.)
Existing(l) ==
  IF Range(l) \subseteq hash THEN l ELSE SelectSeq(l, LAMBDA j : j \in hash)

\* fetchJobs skips what is gone by now.
FetchJobs ==
  /\ reader.pc \in {"fetching", "fetchingPage"}
  /\ LET found == Existing(reader.ids)
     IN  reader' = [reader EXCEPT !.list = @ \o found, !.page = @ + 1,
                      !.pc = IF reader.pc = "fetching" THEN "listed"
                             ELSE IF found = <<>> THEN "walked" ELSE "walking"]
  /\ UNCHANGED ReadSteps

\* A caller walks the pages of wait, oldest first, until one is empty.
GetPage ==
  /\ \/ "pages" \in setting.reads /\ reader.pc = "idle"
     \/ reader.pc = "walking"
  /\ LET start == reader.page * PageSize
     IN  reader' = [reader EXCEPT !.pc = "fetchingPage",
                      !.ids = ListedIds(wait, start, start + PageSize - 1, TRUE),
                      !.first = IF reader.pc = "idle" THEN Reversed(wait) ELSE @,
                      !.grown = @ \/ reader.pc = "idle"]
  /\ UNCHANGED ReadSteps

\* getMetrics is one script; a hash that is not there reads as zeros.
GetMetrics(kind, start, end) ==
  [meta |-> [metrics[kind] EXCEPT !.prevTS = IF @ = -1 THEN 0 ELSE @],
   data |-> LRange(metrics[kind].data, start, end),
   count |-> Len(metrics[kind].data)]

Reads ==
  \/ CountsIsPaused \/ ListIsPaused \/ GetRanges \/ FetchJobs \/ GetPage
  \/ \E buckets \in setting.requests : Counts(buckets)
  \/ \E bucket \in {"wait", "active", "paused"} : ListJobs(bucket)

-----------------------------------------------------------------------------

Next == Scripts \/ MinutePasses \/ Subscribe \/ SubscribeRuns \/ Close \/ Cancel \/ Reads

\* The goroutine in Subscribe goes on and XREAD does not block for ever.
Spec == Init /\ [][Next]_vars /\ WF_vars(SubscribeRuns)

-----------------------------------------------------------------------------
(* Properties *)

\* The subscriber gets events that were written after Subscribe was called, each
\* once, in the order of the stream, and from the first one on all of them, except
\* those that were cut from the stream before it read them.
EventsInOrder ==
  \A i \in 1..Len(sub.got) :
    IF i = 1 THEN sub.got[i].id > sub.start
    ELSE /\ sub.got[i].id > sub.got[i - 1].id
         /\ sub.got[i].id # sub.got[i - 1].id + 1 => sub.got[i].id - 1 <= trimmed

Contiguous == \A i \in 2..Len(sub.got) : sub.got[i].id = sub.got[i - 1].id + 1

IsAt(j, state) ==
  /\ state = "waiting" => j \in Range(wait) \cup Range(legacy) \cup erased
  /\ state = "active" => j \in Range(active)
  /\ state = "removed" => j \notin hash
  /\ state \in Finished => j \in done[state] \/ j \notin hash

\* the events that say where a job is
Placing == {"waiting", "active", "removed"} \cup Finished

\* A subscriber that waits for more and has missed nothing since its first event
\* knows where every job is that it has heard of: the last event of the job names
\* its state, whichever of these scripts moved it.  The exceptions are deletions the
\* stream does not tell: DrainPending's of a waiting job, and retention's of a
\* finished one.
SubscriberKnows ==
  sub.pc = "blocked" /\ Contiguous =>
    \A i \in 1..Len(sub.got) :
      LET heard(k) == sub.got[k].type \in Placing /\ sub.got[k].job = sub.got[i].job
      IN  heard(i) /\ (\A k \in i + 1..Len(sub.got) : ~heard(k))
            => IsAt(sub.got[i].job, sub.got[i].type)

\* Counts and ListJobs agree on every list when nothing happens in between, for
\* paused in every layout that BullMQ 5 and 6 leave and whatever other buckets were
\* asked for; QueueCounts.Paused promises that ListJobs returns exactly these jobs.
CountsAndListAgree ==
  reader.pc = "listed" /\ reader.same /\ reader.bucket \in DOMAIN reader.counts =>
    Len(reader.list) = reader.counts[reader.bucket]

\* Walking the pages in ascending order walks the bucket oldest to newest: jobs
\* that are added meanwhile neither hide nor repeat those that were there.
PagesTile ==
  reader.pc = "walked" /\ reader.grown =>
    /\ Len(reader.list) >= Len(reader.first)
    /\ SubSeq(reader.list, 1, Len(reader.first)) = reader.first
    /\ IsInjective(reader.list)

\* No stretch without a finished job was longer than the list of data points.
NoLongGap(count) ==
  \A s, t \in DOMAIN count :
    s < t /\ count[s] > 0 /\ count[t] > 0 /\ (\A u \in s + 1..t - 1 : count[u] = 0)
      => t - s <= setting.maxDataPoints

\* Each data point GetMetrics returns is the number of jobs finished that minute,
\* zeros for the minutes without, counted back from the last roll, in every window;
\* what the total has beyond the rolled count belongs to the minute of the roll.  A
\* job whose timestamp reaches the script after one of a later minute counts in that
\* later minute; no job is counted twice or not at all.
MetricsExact ==
  \A kind \in Finished, start \in 0..2 :
    LET report == GetMetrics(kind, start, start + 1)
        base == metrics[kind].prevTS
    IN  base >= 0 /\ NoLongGap(tally[kind]) =>
          /\ \A i \in 1..Len(report.data) : report.data[i] = tally[kind][base - start - i]
          /\ report.meta.count - report.meta.prevCount = tally[kind][base]

\* Subscribe returns after Close or after its context is cancelled, whatever it was
\* doing and whatever had been written to the stream.
SubscribeEnds ==
  (sub.closed \/ sub.cancelled) /\ sub.pc # "idle"
    ~> sub.pc \in {"cancelled", "closed", "broken", "refused"}

=============================================================================

--------------------------- MODULE ObserversProofs ---------------------------
(***************************************************************************)
(* What the event stream tells a subscriber is in order, without gaps that *)
(* no trimming explains, and true of the queue; what a reader counts is    *)
(* what it lists, and its pages and metrics miss nothing.                  *)
(***************************************************************************)
EXTENDS Observers, JobListProofs

-----------------------------------------------------------------------------
(* The inductive invariant *)

\* an entry of the stream, and what the subscriber makes of it
Entry == [event : Typed \cup {"paused", "resumed"}, job : Job \cup {NoJob}]
Message == [id : Nat, type : Typed \cup {"raw"}, job : Job \cup {NoJob}]

Pc == {"idle", "looping", "calling", "blocked", "replied",
       "cancelled", "closed", "broken", "refused"}

\* The lists have no duplicates.
Lists ==
  /\ NoDup(wait) /\ NoDup(legacy) /\ NoDup(active)
  /\ done \in [Finished -> SUBSET Job]

\* Job j is in at most one place, and in one exactly when its HASH exists.
Alone(j) ==
  /\ j \in Range(wait) =>
       /\ j \notin Range(legacy) /\ j \notin Range(active)
       /\ j \notin done["completed"] /\ j \notin done["failed"]
  /\ j \in Range(legacy) =>
       j \notin Range(active) /\ j \notin done["completed"] /\ j \notin done["failed"]
  /\ j \in Range(active) => j \notin done["completed"] /\ j \notin done["failed"]
  /\ j \in done["completed"] => j \notin done["failed"]
  /\ j \in hash <=> \/ j \in Range(wait) \/ j \in Range(legacy) \/ j \in Range(active)
                    \/ j \in done["completed"] \/ j \in done["failed"]

\* Something is left of a stream that was trimmed.
Stream ==
  /\ log \in Seq(Entry) /\ trimmed \in Nat
  /\ trimmed = 0 \/ trimmed < Len(log)

\* The last entry about the place of a job names its place.
Tracked ==
  \A i \in 1..Len(log) :
    /\ log[i].event \in Placing
    /\ \A k \in (i + 1)..Len(log) : ~(log[k].event \in Placing /\ log[k].job = log[i].job)
    => IsAt(log[i].job, log[i].event)

SubType ==
  sub \in [pc : Pc, last : Int, start : Nat, batch : Seq(Nat), got : Seq(Message),
           closed : BOOLEAN, cancelled : BOOLEAN]

\* The entries of a reply follow one another, and the first of them follows the
\* last one that was delivered.
Batch ==
  /\ \A i \in 1..Len(sub.batch) : sub.batch[i] \in (sub.start + 1)..Len(log)
  /\ \A i \in 2..Len(sub.batch) : sub.batch[i] = sub.batch[i - 1] + 1
  /\ sub.batch # <<>> /\ sub.got # <<>> =>
       /\ sub.batch[1] > sub.last
       /\ sub.batch[1] = sub.last + 1 \/ sub.batch[1] - 1 <= trimmed
  /\ sub.pc \in {"idle", "looping", "calling", "blocked"} => sub.batch = <<>>

\* The id to read from is that of the last delivered entry, which is the end of
\* the stream when the subscriber is blocked.
Cursor ==
  /\ sub.start <= Len(log)
  /\ sub.got = <<>> => sub.last = -1
  /\ sub.got # <<>> => sub.last = sub.got[Len(sub.got)].id /\ sub.last > sub.start
  /\ sub.pc = "idle" => sub.got = <<>>
  /\ sub.pc = "blocked" /\ sub.got # <<>> => sub.last = Len(log)

\* What was delivered are entries of the stream, counted back from the last one
\* when none is missing.
Got ==
  /\ \A i \in 1..Len(sub.got) :
       sub.got[i].id \in 1..Len(log) /\ sub.got[i] = DecodeStreamMessage(sub.got[i].id)
  /\ Contiguous => \A i \in 1..Len(sub.got) : sub.got[i].id = sub.last - (Len(sub.got) - i)

Queue == Lists /\ (\A j \in Job : Alone(j)) /\ hash \subseteq Job

Subscription == SubType /\ Batch /\ Cursor /\ Got /\ EventsInOrder

ObserversInv == Queue /\ Stream /\ Tracked /\ Subscription

-----------------------------------------------------------------------------
(* What follows from the invariant *)

\* A blocked subscriber has read to the end, so that what it heard last of a job
\* is the last that the stream says of it.
LEMMA KnowsFromInv == ObserversInv => SubscriberKnows
<1> SUFFICES ASSUME ObserversInv, sub.pc = "blocked", Contiguous, NEW i \in 1..Len(sub.got),
                    sub.got[i].type \in Placing,
                    \A k \in (i + 1)..Len(sub.got) :
                      ~(sub.got[k].type \in Placing /\ sub.got[k].job = sub.got[i].job)
             PROVE  IsAt(sub.got[i].job, sub.got[i].type)
  BY Zenon DEF SubscriberKnows
<1>1. /\ log \in Seq(Entry) /\ Len(log) \in Nat
      /\ sub.got \in Seq(Message) /\ Len(sub.got) \in Nat /\ sub.got # <<>>
  BY DEF ObserversInv, Stream, Subscription, SubType
<1>2. sub.last = Len(log)
  BY <1>1, Zenon DEF ObserversInv, Subscription, Cursor
<1>3. \A k \in 1..Len(sub.got) :
        /\ sub.got[k].id \in 1..Len(log) /\ sub.got[k] = DecodeStreamMessage(sub.got[k].id)
        /\ sub.got[k].id = Len(log) - (Len(sub.got) - k)
  BY <1>2, Zenon DEF ObserversInv, Subscription, Got
<1>4. \A k \in 1..Len(sub.got) :
        LET e == log[sub.got[k].id]
        IN  /\ sub.got[k].type \in Placing => e.event = sub.got[k].type /\ e.job = sub.got[k].job
            /\ e.event \in Placing => sub.got[k].type = e.event /\ sub.got[k].job = e.job
  <2> TAKE k \in 1..Len(sub.got)
  <2> DEFINE n == sub.got[k].id
  <2>1. sub.got[k] = IF log[n].event \in Typed
                       THEN [id |-> n, type |-> log[n].event, job |-> log[n].job]
                       ELSE [id |-> n, type |-> "raw", job |-> NoJob]
    BY <1>3, Zenon DEF DecodeStreamMessage
  <2>2. "raw" \notin Placing /\ Placing \subseteq Typed
    BY Zenon DEF Placing, Typed, Finished
  <2>3. CASE log[n].event \in Typed
    <3>1. sub.got[k].type = log[n].event /\ sub.got[k].job = log[n].job
      BY <2>1, <2>3
    <3> QED BY <3>1, Zenon
  <2>4. CASE log[n].event \notin Typed
    <3>1. sub.got[k].type = "raw"
      BY <2>1, <2>4
    <3> QED BY <3>1, <2>2, <2>4, Zenon
  <2> QED BY <2>3, <2>4, Zenon
<1> DEFINE p == sub.got[i].id
<1>5. p \in 1..Len(log) /\ log[p].event = sub.got[i].type /\ log[p].job = sub.got[i].job
  BY <1>3, <1>4, Zenon
<1>6. \A q \in (p + 1)..Len(log) : ~(log[q].event \in Placing /\ log[q].job = log[p].job)
  <2> SUFFICES ASSUME NEW q \in (p + 1)..Len(log), log[q].event \in Placing,
                      log[q].job = log[p].job
               PROVE  FALSE
    BY Zenon
  <2> DEFINE k == Len(sub.got) - (Len(log) - q)
  <2>1. p = Len(log) - (Len(sub.got) - i) /\ Len(log) \in Nat /\ Len(sub.got) \in Nat
    BY <1>1, <1>3, Zenon
  <2> HIDE DEF p
  <2>2. k \in (i + 1)..Len(sub.got) /\ k \in 1..Len(sub.got)
    BY <2>1, SMTT(30)
  <2>3. Len(log) - (Len(sub.got) - k) = q
    BY <2>1, SMTT(30)
  <2>4. sub.got[k].id = q
    BY <1>3, <2>2, <2>3, Zenon
  <2> HIDE DEF k
  <2>5. sub.got[k].type = log[q].event /\ sub.got[k].job = log[q].job
    BY <1>4, <2>2, <2>4, Zenon
  <2> QED BY <1>5, <2>2, <2>5, Zenon
<1> QED BY <1>5, <1>6, Zenon DEF ObserversInv, Tracked

-----------------------------------------------------------------------------
(* The subscriber *)

\* The state of a subscriber that has just been made.
LEMMA SubscriptionInit == Init => Subscription
<1> SUFFICES ASSUME Init PROVE Subscription
  BY Zenon
<1>1. sub = [pc |-> "idle", last |-> -1, start |-> 0, batch |-> <<>>, got |-> <<>>,
             closed |-> FALSE, cancelled |-> FALSE]
  BY Zenon DEF Init
<1>2. /\ sub.pc = "idle" /\ sub.last = -1 /\ sub.start = 0 /\ sub.batch = <<>>
      /\ sub.got = <<>> /\ Len(log) = 0
  BY <1>1 DEF Init
<1>3. SubType
  <2>1. -1 \in Int /\ <<>> \in Seq(Nat) /\ <<>> \in Seq(Message)
    OBVIOUS
  <2> QED BY <1>1, <2>1, Zenon DEF SubType, Pc
<1>4. Batch /\ Cursor /\ Got /\ EventsInOrder
  BY <1>2 DEF Batch, Cursor, Got, EventsInOrder
<1> QED BY <1>3, <1>4, Zenon DEF Subscription

\* A step that leaves the cursor, the reply and the messages alone.
LEMMA SamePlace ==
  ASSUME Subscription, Stream, UNCHANGED stream,
         NEW pc \in Pc, NEW closed \in BOOLEAN, NEW cancelled \in BOOLEAN,
         sub' = [sub EXCEPT !.pc = pc, !.closed = closed, !.cancelled = cancelled],
         pc \in {"idle", "looping", "calling", "blocked"} => sub.batch = <<>>,
         pc = "idle" => sub.pc = "idle",
         pc = "blocked" /\ sub.got # <<>> => sub.last = Len(log)
  PROVE  Subscription'
<1>1. SubType'
  BY Zenon DEF Subscription, SubType
<1>2. /\ sub'.pc = pc /\ sub'.last = sub.last /\ sub'.start = sub.start
      /\ sub'.batch = sub.batch /\ sub'.got = sub.got
  BY Zenon DEF Subscription, SubType
<1>3. log' = log /\ trimmed' = trimmed
  BY Zenon DEF stream
<1>4. Batch'
  BY <1>2, <1>3, Zenon DEF Subscription, Batch
<1>5. Cursor'
  BY <1>2, <1>3, Zenon DEF Subscription, Cursor
<1>6. Got'
  BY <1>2, <1>3, ZenonT(30) DEF Subscription, Got, Contiguous, DecodeStreamMessage
<1>7. EventsInOrder'
  BY <1>2, <1>3, Zenon DEF Subscription, EventsInOrder
<1> QED BY <1>1, <1>4, <1>5, <1>6, <1>7, Zenon DEF Subscription

\* What a subscriber in these steps has for a reply.
LEMMA NoBatch ==
  ASSUME Subscription
  PROVE  /\ sub.pc \in {"idle", "looping", "calling", "blocked"} => sub.batch = <<>>
         /\ sub.pc \in Pc /\ sub.closed \in BOOLEAN /\ sub.cancelled \in BOOLEAN
         /\ sub = [sub EXCEPT !.pc = sub.pc, !.closed = sub.closed, !.cancelled = sub.cancelled]
BY Zenon DEF Subscription, SubType, Batch

\* Subscribe starts where the stream ends.
LEMMA SubscribeStep ==
  ASSUME Subscription, Stream, Subscribe
  PROVE  Subscription'
<1>1. /\ sub.pc = "idle" /\ log' = log /\ trimmed' = trimmed
      /\ sub' = [sub EXCEPT !.pc = "looping", !.last = -1, !.start = Len(log)]
  BY Zenon DEF Subscribe, SubSteps, stream
<1>2. Len(log) \in Nat /\ sub.got = <<>> /\ sub.batch = <<>>
  BY <1>1 DEF Stream, Subscription, Cursor, Batch
<1>3. SubType'
  <2>1. -1 \in Int
    OBVIOUS
  <2> QED BY <1>1, <1>2, <2>1, Zenon DEF Subscription, SubType, Pc
<1>4. /\ sub'.pc = "looping" /\ sub'.last = -1 /\ sub'.start = Len(log)
      /\ sub'.batch = <<>> /\ sub'.got = <<>>
  BY <1>1, <1>2, Zenon DEF Subscription, SubType
<1>5. Batch' /\ Cursor' /\ Got' /\ EventsInOrder'
  BY <1>1, <1>2, <1>4 DEF Batch, Cursor, Got, EventsInOrder
<1> QED BY <1>3, <1>5, Zenon DEF Subscription

\* The steps that only change where the loop is.
LEMMA LoopStep ==
  ASSUME Subscription, Stream,
         LoopSelect \/ XReadTimesOut \/ XReadFails \/ Close \/ Cancel
  PROVE  Subscription'
<1>1. UNCHANGED stream
  BY Zenon DEF LoopSelect, XReadTimesOut, XReadFails, Close, Cancel, SubSteps
<1>2. ASSUME NEW pc \in {"cancelled", "closed", "calling", "looping", "broken"},
             sub.pc \in {"looping", "calling", "blocked"}, sub' = [sub EXCEPT !.pc = pc]
      PROVE  Subscription'
  <2>1. sub' = [sub EXCEPT !.pc = pc, !.closed = sub.closed, !.cancelled = sub.cancelled]
    BY <1>2, NoBatch, Zenon DEF Subscription, SubType
  <2> QED BY <1>1, <1>2, <2>1, NoBatch, SamePlace, Zenon DEF Pc
<1>3. CASE LoopSelect
  BY <1>2, <1>3, Zenon DEF LoopSelect
<1>4. CASE XReadTimesOut
  BY <1>2, <1>4, Zenon DEF XReadTimesOut
<1>5. CASE XReadFails
  BY <1>2, <1>5, Zenon DEF XReadFails
<1>6. CASE Close \/ Cancel
  <2>1. \E closed, cancelled \in BOOLEAN :
          sub' = [sub EXCEPT !.pc = sub.pc, !.closed = closed, !.cancelled = cancelled]
    <3>1. CASE Close
      <4>1. sub' = [sub EXCEPT !.pc = sub.pc, !.closed = TRUE, !.cancelled = sub.cancelled]
        BY <3>1, Zenon DEF Close, Subscription, SubType
      <4> QED BY <4>1, NoBatch, Zenon
    <3>2. CASE Cancel
      <4>1. sub' = [sub EXCEPT !.pc = sub.pc, !.closed = sub.closed, !.cancelled = TRUE]
        BY <3>2, ZenonT(30) DEF Cancel, Subscription, SubType
      <4> QED BY <4>1, NoBatch, Zenon
    <3> QED BY <1>6, <3>1, <3>2, ZenonT(30)
  <2>2. sub.pc = "blocked" /\ sub.got # <<>> => sub.last = Len(log)
    BY Zenon DEF Subscription, Cursor
  <2> QED BY <1>1, <2>1, <2>2, NoBatch, SamePlace, ZenonT(30)
<1> QED BY <1>3, <1>4, <1>5, <1>6, Zenon

\* XREAD answers with the entries after the last delivered one that are left.
LEMMA XReadStep ==
  ASSUME Subscription, Stream, XReadArrives
  PROVE  Subscription'
<1> DEFINE from == IF ReadFrom(sub.last) > trimmed THEN ReadFrom(sub.last) ELSE trimmed
           ids == [i \in 1..(Len(log) - from) |-> from + i]
<1>1. /\ sub.pc = "calling" /\ log' = log /\ trimmed' = trimmed
      /\ sub' = IF ids = <<>> THEN [sub EXCEPT !.pc = "blocked"]
                ELSE [sub EXCEPT !.pc = "replied", !.batch = ids]
  BY Zenon DEF XReadArrives, SubSteps, stream
<1>2. /\ log \in Seq(Entry) /\ Len(log) \in Nat /\ trimmed \in Nat
      /\ trimmed = 0 \/ trimmed < Len(log)
  BY DEF Stream
<1>3. /\ sub.last \in Int /\ sub.start \in Nat /\ sub.batch = <<>>
      /\ sub.got \in Seq(Message) /\ Len(sub.got) \in Nat
  BY <1>1 DEF Subscription, SubType, Batch
<1>4. sub.got # <<>> => sub.last \in 1..Len(log) /\ sub.last > sub.start
  BY <1>3 DEF Subscription, Cursor, Got
<1>5. sub.start <= Len(log) /\ (sub.got = <<>> => sub.last = -1)
  BY Zenon DEF Subscription, Cursor
<1>6. /\ from \in Nat
      /\ sub.got = <<>> => from = Len(log)
      /\ sub.got # <<>> => from >= sub.last /\ (from = sub.last \/ from = trimmed)
  BY <1>2, <1>3, <1>4, <1>5 DEF ReadFrom
<1> HIDE DEF from
<1>7. CASE from >= Len(log)
  <2>1. ids = <<>>
    BY <1>2, <1>6, <1>7
  <2>2. sub' = [sub EXCEPT !.pc = "blocked"]
    BY <1>1, <2>1, Zenon
  <2>3. sub.got # <<>> => sub.last = Len(log)
    BY <1>2, <1>3, <1>4, <1>6, <1>7
  <2>4. sub' = [sub EXCEPT !.pc = "blocked", !.closed = sub.closed, !.cancelled = sub.cancelled]
    BY <2>2, Zenon DEF Subscription, SubType
  <2> QED BY <1>1, <1>3, <2>3, <2>4, NoBatch, SamePlace, Zenon DEF stream, Pc
<1>8. CASE from < Len(log)
  <2>1. /\ ids \in Seq(Nat) /\ Len(ids) = Len(log) - from /\ Len(ids) \in Nat \ {0}
        /\ \A i \in 1..Len(ids) : ids[i] = from + i
    BY <1>2, <1>6, <1>8
  <2> HIDE DEF ids
  <2>2. ids # <<>>
    BY <2>1
  <2>3. sub' = [sub EXCEPT !.pc = "replied", !.batch = ids]
    BY <1>1, <2>2, Zenon
  <2>4. sub.got # <<>>
    BY <1>2, <1>6, <1>8
  <2>5. SubType'
    BY <2>1, <2>3, Zenon DEF Subscription, SubType, Pc
  <2>6. /\ sub'.pc = "replied" /\ sub'.batch = ids /\ sub'.last = sub.last
        /\ sub'.start = sub.start /\ sub'.got = sub.got
    BY <2>3, Zenon DEF Subscription, SubType
  <2>7. Batch'
    <3>1. \A i \in 1..Len(ids) : ids[i] \in (sub.start + 1)..Len(log)
      BY <1>2, <1>3, <1>4, <1>6, <2>1, <2>4, SMTT(30)
    <3>2. \A i \in 2..Len(ids) : ids[i] = ids[i - 1] + 1
      <4> TAKE i \in 2..Len(ids)
      <4>1. i \in 1..Len(ids) /\ i - 1 \in 1..Len(ids)
        BY <2>1
      <4>2. ids[i] = from + i /\ ids[i - 1] = from + (i - 1)
        BY <2>1, <4>1, Zenon
      <4> QED BY <1>6, <2>1, <4>2
    <3>3. ids[1] = from + 1
      BY <2>1
    <3>4. ids[1] > sub.last /\ (ids[1] = sub.last + 1 \/ ids[1] - 1 <= trimmed)
      BY <1>2, <1>3, <1>6, <2>4, <3>3
    <3> QED BY <1>1, <2>6, <3>1, <3>2, <3>4, Zenon DEF Batch
  <2>8. Cursor'
    BY <1>1, <2>6, Zenon DEF Subscription, Cursor
  <2>9. Got'
    BY <1>1, <2>6, ZenonT(30) DEF Subscription, Got, Contiguous, DecodeStreamMessage
  <2>10. EventsInOrder'
    BY <1>1, <2>6, Zenon DEF Subscription, EventsInOrder
  <2> QED BY <2>5, <2>7, <2>8, <2>9, <2>10, Zenon DEF Subscription
<1> QED BY <1>2, <1>6, <1>7, <1>8

\* The distance to the end of a list that has grown by one.
LEMMA OneFurther ==
  ASSUME NEW last \in Int, NEW n \in Int, NEW i \in Int
  PROVE  (last + 1) - ((n + 1) - i) = last - (n - i)
OBVIOUS

\* The handler gets the next entry of the reply.
LEMMA DeliverStep ==
  ASSUME Subscription, Stream, Deliver
  PROVE  Subscription'
<1>1. sub.pc = "replied" /\ log' = log /\ trimmed' = trimmed /\ UNCHANGED stream
  BY Zenon DEF Deliver, SubSteps, stream
<1>2. CASE sub.batch = <<>>
  <2>1. sub' = [sub EXCEPT !.pc = "looping", !.closed = sub.closed, !.cancelled = sub.cancelled]
    BY <1>2, NoBatch, ZenonT(30) DEF Deliver, Subscription, SubType
  <2> QED BY <1>1, <1>2, <2>1, NoBatch, SamePlace, Zenon DEF Pc
<1>3. CASE sub.batch # <<>>
  <2> DEFINE id == Head(sub.batch)
             m == DecodeStreamMessage(id)
             n == Len(sub.got)
  <2>1. PICK pc \in {"replied", "refused"} :
          sub' = [sub EXCEPT !.last = id, !.batch = Tail(sub.batch), !.pc = pc,
                             !.got = Append(sub.got, m)]
    BY <1>3, Zenon DEF Deliver
  <2>2. /\ log \in Seq(Entry) /\ Len(log) \in Nat /\ trimmed \in Nat
        /\ sub.batch \in Seq(Nat) /\ Len(sub.batch) \in Nat \ {0}
        /\ sub.last \in Int /\ sub.start \in Nat
        /\ sub.got \in Seq(Message) /\ n \in Nat
    BY <1>3 DEF Stream, Subscription, SubType
  <2>3. id = sub.batch[1] /\ id \in Nat /\ id \in 1..Len(log) /\ id > sub.start
    <3>1. id = sub.batch[1] /\ 1 \in 1..Len(sub.batch)
      BY <1>3, <2>2
    <3>2. sub.batch[1] \in (sub.start + 1)..Len(log)
      BY <3>1, Zenon DEF Subscription, Batch
    <3> QED BY <2>2, <3>1, <3>2
  <2>4. m \in Message /\ m.id = id
    <3>1. log[id] \in Entry
      BY <2>2, <2>3
    <3>2. log[id].job \in Job \cup {NoJob} /\ log[id].event \in Typed \cup {"paused", "resumed"}
      BY <3>1, Zenon DEF Entry
    <3>3. CASE log[id].event \in Typed
      <4>1. m = [id |-> id, type |-> log[id].event, job |-> log[id].job]
        BY <3>3, Zenon DEF DecodeStreamMessage
      <4> HIDE DEF m, id
      <4> QED BY <4>1, <3>2, <3>3, <2>3, Zenon DEF Message
    <3>4. CASE log[id].event \notin Typed
      <4>1. m = [id |-> id, type |-> "raw", job |-> NoJob]
        BY <3>4, Zenon DEF DecodeStreamMessage
      <4> HIDE DEF m, id
      <4> QED BY <4>1, <2>3, Zenon DEF Message
    <3> QED BY <3>3, <3>4, Zenon
  <2>5. /\ Tail(sub.batch) \in Seq(Nat) /\ Len(Tail(sub.batch)) = Len(sub.batch) - 1
        /\ \A i \in 1..(Len(sub.batch) - 1) : Tail(sub.batch)[i] = sub.batch[i + 1]
    BY <1>3, <2>2
  <2>6. \A i : DecodeStreamMessage(i)' = DecodeStreamMessage(i)
    BY <1>1, Zenon DEF DecodeStreamMessage
  <2> HIDE DEF m, id
  <2>7. /\ Append(sub.got, m) \in Seq(Message) /\ Len(Append(sub.got, m)) = n + 1
        /\ Append(sub.got, m)[n + 1] = m
        /\ \A i \in 1..n : Append(sub.got, m)[i] = sub.got[i]
    BY <2>2, <2>4
  <2>8. SubType'
    <3>1. pc \in Pc /\ id \in Int
      BY <2>3 DEF Pc
    <3> QED BY <2>1, <3>1, <2>5, <2>7, Zenon DEF Subscription, SubType
  <2>9. /\ sub'.pc = pc /\ sub'.batch = Tail(sub.batch) /\ sub'.last = id
        /\ sub'.start = sub.start /\ sub'.got = Append(sub.got, m)
    BY <2>1, Zenon DEF Subscription, SubType
  <2>10. /\ Len(sub'.got) = n + 1 /\ sub'.got[n + 1] = m /\ sub'.got # <<>>
         /\ \A i \in 1..n : sub'.got[i] = sub.got[i]
    <3>1. n + 1 # 0 /\ Len(<<>>) = 0
      BY <2>2
    <3> QED BY <2>7, <2>9, <3>1, Zenon
  <2>11. Batch'
    <3>1. \A i \in 1..(Len(sub.batch) - 1) :
            i + 1 \in 1..Len(sub.batch) /\ i + 1 \in 2..Len(sub.batch)
      BY <2>2
    <3>2. \A i \in 1..Len(sub'.batch) : sub'.batch[i] \in (sub.start + 1)..Len(log)
      BY <2>5, <2>9, <3>1, ZenonT(30) DEF Subscription, Batch
    <3>3. \A i \in 2..Len(sub'.batch) : sub'.batch[i] = sub'.batch[i - 1] + 1
      <4> TAKE i \in 2..Len(sub'.batch)
      <4>1. i \in 1..(Len(sub.batch) - 1) /\ i - 1 \in 1..(Len(sub.batch) - 1)
            /\ i + 1 \in 2..Len(sub.batch) /\ (i - 1) + 1 = i /\ (i + 1) - 1 = i
        BY <2>2, <2>5, <2>9
      <4>2. sub'.batch[i] = sub.batch[i + 1] /\ sub'.batch[i - 1] = sub.batch[i]
        BY <2>5, <2>9, <4>1, Zenon
      <4>3. sub.batch[i + 1] = sub.batch[i] + 1
        BY <4>1, Zenon DEF Subscription, Batch
      <4> QED BY <4>2, <4>3, Zenon
    <3>4. sub'.batch # <<>> => sub'.batch[1] = sub'.last + 1
      <4> SUFFICES ASSUME sub'.batch # <<>> PROVE sub'.batch[1] = sub'.last + 1
        BY Zenon
      <4>1. Len(sub.batch) >= 2
        BY <2>2, <2>5, <2>9
      <4>2. 2 \in 2..Len(sub.batch) /\ 1 \in 1..(Len(sub.batch) - 1) /\ 2 - 1 = 1 /\ 1 + 1 = 2
        BY <2>2, <4>1
      <4>3. sub.batch[2] = sub.batch[1] + 1
        BY <4>2, Zenon DEF Subscription, Batch
      <4> QED BY <2>3, <2>5, <2>9, <4>2, <4>3, Zenon
    <3>5. sub'.batch # <<>> => sub'.batch[1] > sub'.last
      BY <2>3, <2>9, <3>4
    <3> QED BY <1>1, <2>9, <3>2, <3>3, <3>4, <3>5, Zenon DEF Batch
  <2>12. Cursor'
    <3>1. sub.start <= Len(log)
      BY Zenon DEF Subscription, Cursor
    <3> QED BY <1>1, <2>3, <2>4, <2>9, <2>10, <3>1, Zenon DEF Cursor
  <2>13. sub.got # <<>> =>
           /\ sub.last = sub.got[n].id
           /\ id > sub.last /\ (id = sub.last + 1 \/ id - 1 <= trimmed)
    BY <1>3, <2>3, Zenon DEF Subscription, Cursor, Batch
  <2>14. n > 0 => sub.got # <<>>
    BY <2>2
  <2>15. Got'
    <3>1. \A i \in 1..(n + 1) :
            sub'.got[i].id \in 1..Len(log) /\ sub'.got[i] = DecodeStreamMessage(sub'.got[i].id)
      <4> TAKE i \in 1..(n + 1)
      <4>1. CASE i = n + 1
        BY <2>3, <2>4, <2>10, <4>1, Zenon DEF m
      <4>2. CASE i # n + 1
        <5>1. i \in 1..n
          BY <2>2, <4>2
        <5> QED BY <5>1, <2>10, Zenon DEF Subscription, Got
      <4> QED BY <4>1, <4>2, Zenon
    <3>2. ASSUME Contiguous', NEW i \in 1..(n + 1)
          PROVE  sub'.got[i].id = id - ((n + 1) - i)
      <4>1. CASE n = 0
        BY <2>2, <2>3, <2>4, <2>10, <4>1
      <4>2. CASE n > 0
        <5>1. \A k \in 2..(n + 1) : sub'.got[k].id = sub'.got[k - 1].id + 1
          BY <3>2, <2>10, Zenon DEF Contiguous
        <5>2. Contiguous
          <6> SUFFICES ASSUME NEW k \in 2..n PROVE sub.got[k].id = sub.got[k - 1].id + 1
            BY Zenon DEF Contiguous
          <6>1. k \in 2..(n + 1) /\ k \in 1..n /\ k - 1 \in 1..n
            BY <2>2
          <6> QED BY <5>1, <6>1, <2>10, Zenon
        <5>3. n + 1 \in 2..(n + 1) /\ (n + 1) - 1 = n /\ n \in 1..n
          BY <2>2, <4>2
        <5>4. id = sub.last + 1
          BY <5>1, <5>3, <2>4, <2>10, <2>13, <2>14, <4>2, Zenon
        <5>5. CASE i = n + 1
          BY <2>2, <2>3, <2>4, <2>10, <5>5
        <5>6. CASE i # n + 1
          <6>1. i \in 1..n
            BY <2>2, <5>6
          <6>2. sub'.got[i].id = sub.last - (n - i)
            BY <5>2, <6>1, <2>10, Zenon DEF Subscription, Got
          <6>3. n \in Int /\ i \in Int
            BY <2>2, <6>1
          <6> QED BY <2>2, <5>4, <6>2, <6>3, OneFurther, Zenon
        <5> QED BY <5>5, <5>6, Zenon
      <4> QED BY <2>2, <4>1, <4>2
    <3>3. \A i \in 1..(n + 1) : (sub.got[i] = DecodeStreamMessage(sub.got[i].id))'
      BY <3>1, <1>1, Zenon DEF DecodeStreamMessage
    <3> QED BY <1>1, <2>9, <2>10, <3>1, <3>2, <3>3, Zenon DEF Got
  <2>16. EventsInOrder'
    <3> SUFFICES ASSUME NEW i \in 1..(n + 1)
                 PROVE  IF i = 1 THEN sub'.got[i].id > sub.start
                        ELSE /\ sub'.got[i].id > sub'.got[i - 1].id
                             /\ sub'.got[i].id # sub'.got[i - 1].id + 1
                                  => sub'.got[i].id - 1 <= trimmed
      BY <1>1, <2>9, <2>10, Zenon DEF EventsInOrder
    <3>1. CASE i \in 1..n
      <4>1. i # 1 => i - 1 \in 1..n
        BY <2>2, <3>1
      <4> QED BY <2>10, <3>1, <4>1, Zenon DEF Subscription, EventsInOrder
    <3>2. CASE i = n + 1
      <4>1. CASE n = 0
        BY <2>2, <2>3, <2>4, <2>10, <3>2, <4>1
      <4>2. CASE n > 0
        <5>1. i # 1 /\ i - 1 = n /\ n \in 1..n
          BY <2>2, <3>2, <4>2
        <5>2. sub'.got[i].id = id /\ sub'.got[i - 1].id = sub.last
          BY <2>4, <2>10, <2>13, <2>14, <3>2, <4>2, <5>1, Zenon
        <5> QED BY <2>13, <2>14, <4>2, <5>1, <5>2, Zenon
      <4> QED BY <2>2, <4>1, <4>2
    <3> QED BY <2>2, <3>1, <3>2
  <2> QED BY <2>8, <2>11, <2>12, <2>15, <2>16, Zenon DEF Subscription
<1> QED BY <1>2, <1>3, Zenon

-----------------------------------------------------------------------------
(* The stream *)

\* A script appends its events, may trim the stream, and serves a blocked reader.
LEMMA WritesStep ==
  ASSUME Subscription, Stream, NEW events \in Seq(Entry), NEW length \in Nat,
         length <= Len(log) + Len(events), Writes(events, length)
  PROVE  Subscription' /\ Stream'
<1> DEFINE ids == [i \in 1..Len(events) |-> Len(log) + i]
<1>1. /\ log' = log \o events /\ trimmed' \in {trimmed} \cup trimmed..(length - MaxEvents)
      /\ sub' = IF sub.pc = "blocked" THEN [sub EXCEPT !.pc = "replied", !.batch = ids] ELSE sub
  BY Zenon DEF Writes
<1>2. /\ log \in Seq(Entry) /\ Len(log) \in Nat /\ trimmed \in Nat
      /\ trimmed = 0 \/ trimmed < Len(log)
      /\ Len(events) \in Nat
  BY DEF Stream
<1>3. /\ log' \in Seq(Entry) /\ Len(log') = Len(log) + Len(events) /\ Len(log') \in Nat
      /\ Len(log') >= Len(log)
      /\ \A i \in 1..Len(log) : log'[i] = log[i]
  BY <1>1, <1>2
<1>4. trimmed' \in Nat /\ trimmed' >= trimmed /\ (trimmed' = trimmed \/ trimmed' < Len(log'))
  BY <1>1, <1>2, <1>3, ObserversAssumption
<1>5. Stream'
  BY <1>2, <1>3, <1>4 DEF Stream
<1>6. /\ sub.last \in Int /\ sub.start \in Nat /\ sub.batch \in Seq(Nat) /\ Len(sub.batch) \in Nat
      /\ sub.got \in Seq(Message) /\ Len(sub.got) \in Nat
  BY DEF Subscription, SubType
<1>7. sub'.last = sub.last /\ sub'.start = sub.start /\ sub'.got = sub.got
  BY <1>1, Zenon DEF Subscription, SubType
<1>8. Got'
  <2>1. \A i \in 1..Len(sub.got) :
          /\ sub.got[i].id \in 1..Len(log')
          /\ (sub.got[i] = DecodeStreamMessage(sub.got[i].id))'
    <3> TAKE i \in 1..Len(sub.got)
    <3>1. sub.got[i].id \in 1..Len(log) /\ sub.got[i] = DecodeStreamMessage(sub.got[i].id)
      BY Zenon DEF Subscription, Got
    <3>2. log'[sub.got[i].id] = log[sub.got[i].id]
      BY <1>3, <3>1, Zenon
    <3>3. (sub.got[i] = DecodeStreamMessage(sub.got[i].id))'
      BY <1>7, <3>1, <3>2, Zenon DEF DecodeStreamMessage
    <3> QED BY <1>2, <1>3, <3>1, <3>3
  <2> QED BY <1>7, <2>1, Zenon DEF Subscription, Got, Contiguous
<1>9. EventsInOrder'
  <2> SUFFICES ASSUME NEW i \in 1..Len(sub.got)
               PROVE  IF i = 1 THEN sub.got[i].id > sub.start
                      ELSE /\ sub.got[i].id > sub.got[i - 1].id
                           /\ sub.got[i].id # sub.got[i - 1].id + 1
                                => sub.got[i].id - 1 <= trimmed'
    BY <1>7, Zenon DEF EventsInOrder
  <2>1. sub.got[i].id \in 1..Len(log)
    BY Zenon DEF Subscription, Got
  <2>2. sub.got[i].id - 1 <= trimmed => sub.got[i].id - 1 <= trimmed'
    BY <1>2, <1>4, <2>1
  <2> QED BY <2>2, Zenon DEF Subscription, EventsInOrder
<1>10. CASE sub.pc # "blocked"
  <2>1. sub' = sub
    BY <1>1, <1>10, Zenon
  <2>2. SubType'
    BY <2>1, Zenon DEF Subscription, SubType
  <2>3. Batch'
    <3>1. \A i \in 1..Len(sub.batch) : sub.batch[i] \in (sub.start + 1)..Len(log')
      <4> TAKE i \in 1..Len(sub.batch)
      <4>1. sub.batch[i] \in (sub.start + 1)..Len(log)
        BY Zenon DEF Subscription, Batch
      <4> QED BY <1>2, <1>3, <1>6, <4>1, SMTT(30)
    <3>2. sub.batch # <<>> /\ sub.got # <<>> /\ sub.batch[1] - 1 <= trimmed
            => sub.batch[1] - 1 <= trimmed'
      <4>1. sub.batch # <<>> => sub.batch[1] \in Nat
        BY <1>6, SMTT(30)
      <4> QED BY <1>2, <1>4, <4>1
    <3> QED BY <2>1, <3>1, <3>2, Zenon DEF Subscription, Batch
  <2>4. Cursor'
    BY <1>2, <1>3, <1>6, <1>10, <2>1 DEF Subscription, Cursor
  <2> QED BY <1>5, <1>8, <1>9, <2>2, <2>3, <2>4, Zenon DEF Subscription
<1>11. CASE sub.pc = "blocked"
  <2>1. /\ ids \in Seq(Nat) /\ Len(ids) = Len(events)
        /\ \A i \in 1..Len(ids) : ids[i] = Len(log) + i
    BY <1>2
  <2> HIDE DEF ids
  <2>2. sub' = [sub EXCEPT !.pc = "replied", !.batch = ids]
    BY <1>1, <1>11, Zenon DEF ids
  <2>3. sub'.pc = "replied" /\ sub'.batch = ids
    BY <2>2, Zenon DEF Subscription, SubType
  <2>4. SubType'
    BY <2>1, <2>2, Zenon DEF Subscription, SubType, Pc
  <2>5. sub.start <= Len(log) /\ (sub.got # <<>> => sub.last = Len(log))
    BY <1>11, Zenon DEF Subscription, Cursor
  <2>6. Batch'
    <3>1. \A i \in 1..Len(ids) : ids[i] \in (sub.start + 1)..Len(log')
      <4> TAKE i \in 1..Len(ids)
      <4>1. ids[i] = Len(log) + i /\ i \in 1..Len(events)
        BY <2>1, Zenon
      <4> QED BY <1>2, <1>3, <1>6, <2>5, <4>1, SMTT(30)
    <3>2. \A i \in 2..Len(ids) : ids[i] = ids[i - 1] + 1
      <4> TAKE i \in 2..Len(ids)
      <4>1. i \in 1..Len(ids) /\ i - 1 \in 1..Len(ids)
        BY <1>2, <2>1
      <4>2. ids[i] = Len(log) + i /\ ids[i - 1] = Len(log) + (i - 1)
        BY <2>1, <4>1, Zenon
      <4> QED BY <1>2, <2>1, <4>2
    <3>3. ids # <<>> => ids[1] = Len(log) + 1
      <4>1. ids # <<>> => 1 \in 1..Len(ids)
        BY <1>2, <2>1
      <4> QED BY <2>1, <4>1, Zenon
    <3>4. ids # <<>> /\ sub.got # <<>> => ids[1] > sub.last /\ ids[1] = sub.last + 1
      BY <1>2, <2>5, <3>3
    <3> QED BY <1>7, <2>3, <3>1, <3>2, <3>4, Zenon DEF Batch
  <2>7. Cursor'
    BY <1>2, <1>3, <1>6, <1>7, <2>3 DEF Subscription, Cursor
  <2> QED BY <1>5, <1>8, <1>9, <2>4, <2>6, <2>7, Zenon DEF Subscription
<1> QED BY <1>10, <1>11, Zenon

-----------------------------------------------------------------------------
(* The scripts tell the truth *)

\* the entries among those of a script that place a job
Told(events) == { e \in Range(events) : e.event \in Placing }

\* What the stream said of a job before the step is still true after it.
Keeps(k) == \A state \in Placing : IsAt(k, state) => IsAt(k, state)'

\* The entries of a script are true after it, and it disturbs no other job.
Truthful(events) ==
  /\ \A e \in Told(events) : IsAt(e.job, e.event)'
  /\ \A k \in Job \cup {NoJob} : (\A e \in Told(events) : e.job # k) => Keeps(k)

\* Some events that a script writes, and that are true.
Reports ==
  \E events \in Seq(Entry) : \E length \in Nat :
    length <= Len(log) + Len(events) /\ Writes(events, length) /\ Truthful(events)

\* A script that tells the truth keeps the stream true.
LEMMA TrackedStep ==
  ASSUME Stream, Tracked, NEW events \in Seq(Entry), log' = log \o events, Truthful(events)
  PROVE  Tracked'
<1>1. log \in Seq(Entry) /\ Len(log) \in Nat /\ Len(events) \in Nat
  BY DEF Stream
<1>2. /\ Len(log') = Len(log) + Len(events)
      /\ \A i \in 1..Len(log) : log'[i] = log[i]
      /\ \A i \in 1..Len(events) : log'[Len(log) + i] = events[i]
      /\ \A i \in 1..Len(log') : log'[i] \in Entry
  BY <1>1
<1> SUFFICES ASSUME NEW i \in 1..Len(log'), log'[i].event \in Placing,
                    \A k \in (i + 1)..Len(log') :
                      ~(log'[k].event \in Placing /\ log'[k].job = log'[i].job)
             PROVE  IsAt(log[i].job, log[i].event)'
  BY Zenon DEF Tracked
<1>3. CASE i > Len(log)
  <2> DEFINE n == i - Len(log)
  <2>1. n \in 1..Len(events) /\ Len(log) + n = i
    BY <1>1, <1>2, <1>3
  <2> HIDE DEF n
  <2>2. log'[i] = events[n] /\ events[n] \in Range(events)
    BY <1>1, <1>2, <2>1 DEF Range
  <2>3. events[n] \in Told(events)
    BY <2>2, Zenon DEF Told
  <2> QED BY <2>2, <2>3, Zenon DEF Truthful, IsAt
<1>4. CASE i <= Len(log)
  <2>1. i \in 1..Len(log) /\ log'[i] = log[i]
    BY <1>1, <1>2, <1>4
  <2>2. \A k \in (i + 1)..Len(log) :
          k \in (i + 1)..Len(log') /\ k \in 1..Len(log)
    BY <1>1, <1>2, <2>1
  <2>3. \A k \in (i + 1)..Len(log) : ~(log[k].event \in Placing /\ log[k].job = log[i].job)
    BY <1>2, <2>1, <2>2, Zenon
  <2>4. IsAt(log[i].job, log[i].event)
    BY <2>1, <2>3, Zenon DEF Tracked
  <2>5. \A e \in Told(events) : e.job # log[i].job
    <3> SUFFICES ASSUME NEW e \in Told(events), e.job = log[i].job PROVE FALSE
      BY Zenon
    <3>1. PICK n \in 1..Len(events) : events[n] = e
      BY <1>1 DEF Told, Range
    <3>2. Len(log) + n \in (i + 1)..Len(log') /\ log'[Len(log) + n] = e
      BY <1>1, <1>2, <2>1, <3>1
    <3> QED BY <2>1, <3>2, Zenon DEF Told
  <2>6. log[i].job \in Job \cup {NoJob}
    <3>1. log[i] \in Entry
      BY <1>1, <2>1
    <3> QED BY <3>1, Zenon DEF Entry
  <2>7. PICK j \in Job \cup {NoJob} : j = log[i].job
    BY <2>6, Zenon
  <2>8. PICK state \in Placing : state = log[i].event
    BY <2>1, Zenon
  <2>9. IsAt(j, state)
    BY <2>4, <2>7, <2>8, Zenon
  <2>10. IsAt(j, state) => IsAt(j, state)'
    <3>1. Keeps(j)
      BY <2>5, <2>7, Zenon DEF Truthful
    <3> QED BY <3>1, Zenon DEF Keeps
  <2> QED BY <2>1, <2>7, <2>8, <2>9, <2>10, Zenon DEF IsAt
<1> QED BY <1>1, <1>2, <1>3, <1>4

\* The sequences of one and of two events.
LEMMA FewEvents ==
  ASSUME NEW e \in Entry, NEW f \in Entry
  PROVE  /\ <<e>> \in Seq(Entry) /\ Len(<<e>>) = 1 /\ Range(<<e>>) = {e}
         /\ <<e, f>> \in Seq(Entry) /\ Len(<<e, f>>) = 2 /\ Range(<<e, f>>) = {e, f}
<1>1. <<e>> \in Seq(Entry) /\ Len(<<e>>) = 1 /\ DOMAIN <<e>> = 1..1 /\ <<e>>[1] = e
  OBVIOUS
<1>2. /\ <<e, f>> \in Seq(Entry) /\ Len(<<e, f>>) = 2 /\ DOMAIN <<e, f>> = 1..2
      /\ <<e, f>>[1] = e /\ <<e, f>>[2] = f
  OBVIOUS
<1>3. 1..1 = {1} /\ 1..2 = {1, 2}
  OBVIOUS
<1>4. Range(<<e>>) = {e}
  BY <1>1, <1>3, Zenon DEF Range
<1>5. Range(<<e, f>>) = {e, f}
  BY <1>2, <1>3, Zenon DEF Range
<1> QED BY <1>1, <1>2, <1>4, <1>5, Zenon

\* The events that scripts write.
LEMMA EventIsEntry ==
  ASSUME NEW name \in Typed \cup {"paused", "resumed"}, NEW j \in Job \cup {NoJob}
  PROVE  Event(name, j) \in Entry /\ Event(name, j).event = name /\ Event(name, j).job = j
BY Zenon DEF Event, Entry

\* A script that moves only job j, whose place it tells.
LEMMA TellsPlace ==
  ASSUME Stream, NEW events \in Seq(Entry), NEW j \in Job,
         NEW name \in Placing, Event(name, j) \in Range(events),
         \A e \in Told(events) : e = Event(name, j),
         \A k \in Job \cup {NoJob} : k # j => Keeps(k),
         IsAt(j, name)'
  PROVE  Truthful(events)
<1>1. Placing \subseteq Typed
  BY Zenon DEF Placing, Typed, Finished
<1>2. Event(name, j).event = name /\ Event(name, j).job = j
  BY <1>1, EventIsEntry, Zenon
<1>3. Event(name, j) \in Told(events)
  BY <1>2, Zenon DEF Told
<1>4. \A e \in Told(events) : IsAt(e.job, e.event)'
  BY <1>2, Zenon DEF IsAt
<1>5. \A k \in Job \cup {NoJob} : (\A e \in Told(events) : e.job # k) => k # j
  BY <1>2, <1>3, Zenon
<1> QED BY <1>4, <1>5, Zenon DEF Truthful

\* A script that places no job.
LEMMA TellsNothing ==
  ASSUME NEW events \in Seq(Entry), Told(events) = {}, \A k \in Job \cup {NoJob} : Keeps(k)
  PROVE  Truthful(events)
BY Zenon DEF Truthful

\* Jobs stay where they are.
LEMMA KeepsFrom ==
  ASSUME NEW k,
         k \in Range(wait) \cup Range(legacy) \cup erased
           => k \in Range(wait') \cup Range(legacy') \cup erased',
         k \in Range(active) => k \in Range(active'),
         k \notin hash => k \notin hash',
         \A state \in Finished : k \in done[state] => k \in done'[state] \/ k \notin hash'
  PROVE  Keeps(k)
BY Zenon DEF Keeps, IsAt, Placing, Finished

\* addStandardJob
LEMMA AddStep ==
  ASSUME Queue, Stream, NEW j \in Job, NEW lifo \in BOOLEAN, AddStandardJob(j, lifo)
  PROVE  Queue' /\ Reports
<1> DEFINE e == Event("added", j)
           f == Event("waiting", j)
<1>1. /\ j \notin hash /\ hash' = hash \cup {j} /\ wait' = Pushed(wait, j, lifo)
      /\ Writes(<<e, f>>, Len(log'))
      /\ legacy' = legacy /\ active' = active /\ done' = done /\ erased' = erased \ {j}
  BY Zenon DEF AddStandardJob
<1>2. /\ Alone(j) /\ j \notin Range(wait) /\ j \notin Range(legacy) /\ j \notin Range(active)
      /\ j \notin done["completed"] /\ j \notin done["failed"]
  BY <1>1, Zenon DEF Queue, Alone
<1>3. NoDup(wait') /\ Range(wait') = Range(wait) \cup {j}
  BY <1>1, <1>2, NoDupAdd, Zenon DEF Queue, Lists, Pushed
<1>4. Queue'
  <2>1. Lists'
    BY <1>1, <1>3, Zenon DEF Queue, Lists
  <2>2. \A k \in Job : Alone(k)'
    BY <1>1, <1>2, <1>3, Zenon DEF Queue, Alone
  <2> QED BY <1>1, <2>1, <2>2, Zenon DEF Queue
<1>5. /\ e \in Entry /\ f \in Entry /\ e.event = "added" /\ f.event = "waiting" /\ f.job = j
  BY EventIsEntry, Zenon DEF Typed
<1>6. <<e, f>> \in Seq(Entry) /\ Len(<<e, f>>) = 2 /\ Range(<<e, f>>) = {e, f}
  BY <1>5, FewEvents, Zenon
<1> HIDE DEF e, f
<1>7. \A x \in Told(<<e, f>>) : x = f
  BY <1>5, <1>6, Zenon DEF Told, Placing, Finished
<1>8. \A k \in Job \cup {NoJob} : k # j => Keeps(k)
  BY <1>1, <1>3, KeepsFrom, Zenon
<1>9. IsAt(j, "waiting")'
  BY <1>3, Zenon DEF IsAt, Finished
<1>10. Truthful(<<e, f>>)
  BY <1>6, <1>7, <1>8, <1>9, TellsPlace, Zenon DEF f, Placing
<1>11. Len(log') \in Nat /\ Len(log') <= Len(log) + Len(<<e, f>>)
  BY <1>1, <1>6 DEF Stream, Writes
<1> QED BY <1>1, <1>4, <1>6, <1>10, <1>11, Zenon DEF Reports

\* The job at the right end of wait starts.
LEMMA PopWait ==
  ASSUME Queue, wait # <<>>
  PROVE  /\ wait[Len(wait)] \in Job /\ wait[Len(wait)] \in Range(wait)
         /\ NoDup(SubSeq(wait, 1, Len(wait) - 1))
         /\ Range(SubSeq(wait, 1, Len(wait) - 1)) = Range(wait) \ {wait[Len(wait)]}
BY NoDupPop, Zenon DEF Queue, Lists

\* moveToActive
LEMMA ActiveStep ==
  ASSUME Queue, Stream, MoveToActive
  PROVE  Queue' /\ Reports
<1>1. wait # <<>>
  BY Zenon DEF MoveToActive
<1>2. PICK j \in Job : j = wait[Len(wait)]
  BY <1>1, PopWait, Zenon
<1> DEFINE e == Event("active", j)
<1>3. /\ wait' = SubSeq(wait, 1, Len(wait) - 1) /\ active' = <<j>> \o active /\ Writes(<<e>>, 0)
      /\ legacy' = legacy /\ done' = done /\ hash' = hash /\ erased' = erased
  BY <1>2, Zenon DEF MoveToActive
<1>4. /\ j \in Range(wait) /\ NoDup(wait') /\ Range(wait') = Range(wait) \ {j}
      /\ j \notin Range(legacy) /\ j \notin Range(active)
      /\ j \notin done["completed"] /\ j \notin done["failed"] /\ j \in hash
  <2>1. /\ j \in Range(wait) /\ NoDup(wait') /\ Range(wait') = Range(wait) \ {j}
    BY <1>1, <1>2, <1>3, PopWait, Zenon
  <2> QED BY <2>1, Zenon DEF Queue, Alone
<1>10. NoDup(active') /\ Range(active') = Range(active) \cup {j}
  BY <1>3, <1>4, NoDupAdd, Zenon DEF Queue, Lists
<1>5. Queue'
  <2>1. Lists'
    BY <1>3, <1>4, <1>10, Zenon DEF Queue, Lists
  <2>2. \A k \in Job : Alone(k)'
    BY <1>3, <1>4, <1>10, Zenon DEF Queue, Alone
  <2> QED BY <1>3, <2>1, <2>2, Zenon DEF Queue
<1>6. e \in Entry /\ e.event = "active" /\ e.job = j
  BY EventIsEntry, Zenon DEF Typed
<1>7. <<e>> \in Seq(Entry) /\ Len(<<e>>) = 1 /\ Range(<<e>>) = {e}
  BY <1>6, FewEvents, Zenon
<1>8. \A k \in Job \cup {NoJob} : k # j => Keeps(k)
  BY <1>3, <1>4, <1>10, KeepsFrom, Zenon
<1>9. IsAt(j, "active")'
  BY <1>10, Zenon DEF IsAt, Finished
<1>11. Truthful(<<e>>)
  BY <1>7, <1>8, <1>9, TellsPlace, Zenon DEF Placing, Told
<1>12. 0 \in Nat /\ 0 <= Len(log) + Len(<<e>>)
  BY <1>7 DEF Stream
<1> QED BY <1>3, <1>5, <1>7, <1>11, <1>12, Zenon DEF Reports

\* retryJob and moveStalledJobsToWait put an active job back.
LEMMA BackStep ==
  ASSUME Queue, Stream, NEW j \in Job, NEW lifo \in BOOLEAN,
         RetryJob(j, lifo) \/ MoveStalledJobToWait(j)
  PROVE  Queue' /\ Reports
<1> DEFINE e == Event("waiting", j)
           f == Event("stalled", j)
<1>1. /\ j \in Range(active) /\ active' = Without(active, j)
      /\ wait' \in {<<j>> \o wait, Append(wait, j)}
      /\ legacy' = legacy /\ done' = done /\ hash' = hash /\ erased' = erased
  BY Zenon DEF RetryJob, MoveStalledJobToWait, Pushed
<1>2. /\ j \notin Range(wait) /\ j \notin Range(legacy)
      /\ j \notin done["completed"] /\ j \notin done["failed"] /\ j \in hash
  BY <1>1, Zenon DEF Queue, Alone
<1>3. NoDup(wait') /\ Range(wait') = Range(wait) \cup {j}
  BY <1>1, <1>2, NoDupAdd, ZenonT(30) DEF Queue, Lists
<1>4. NoDup(active') /\ Range(active') = Range(active) \ {j}
  BY <1>1, NoDupWithout, Zenon DEF Queue, Lists
<1>5. Queue'
  <2>1. Lists'
    BY <1>1, <1>3, <1>4, Zenon DEF Queue, Lists
  <2>2. \A k \in Job : Alone(k)'
    BY <1>1, <1>2, <1>3, <1>4, Zenon DEF Queue, Alone
  <2> QED BY <1>1, <2>1, <2>2, Zenon DEF Queue
<1>6. /\ e \in Entry /\ e.event = "waiting" /\ e.job = j
      /\ f \in Entry /\ f.event = "stalled" /\ f.job = j
  BY EventIsEntry, Zenon DEF Typed
<1>7. /\ <<e>> \in Seq(Entry) /\ Len(<<e>>) = 1 /\ Range(<<e>>) = {e}
      /\ <<e, f>> \in Seq(Entry) /\ Len(<<e, f>>) = 2 /\ Range(<<e, f>>) = {e, f}
  BY <1>6, FewEvents, Zenon
<1>8. \A k \in Job \cup {NoJob} : k # j => Keeps(k)
  BY <1>1, <1>3, <1>4, KeepsFrom, Zenon
<1>9. IsAt(j, "waiting")'
  BY <1>3, Zenon DEF IsAt, Finished
<1> HIDE DEF f
<1>10. Truthful(<<e>>)
  BY <1>7, <1>8, <1>9, TellsPlace, Zenon DEF Placing, Told
<1>11. Truthful(<<e, f>>)
  <2>1. \A x \in Told(<<e, f>>) : x = e
    BY <1>6, <1>7, Zenon DEF Told, Placing, Finished
  <2> QED BY <1>7, <1>8, <1>9, <2>1, TellsPlace, Zenon DEF Placing
<1>12. CASE RetryJob(j, lifo)
  <2>1. Writes(<<e>>, Len(log'))
    BY <1>12, Zenon DEF RetryJob
  <2>2. Len(log') \in Nat /\ Len(log') <= Len(log) + Len(<<e>>)
    BY <1>7, <2>1 DEF Stream, Writes
  <2> QED BY <1>5, <1>7, <1>10, <2>1, <2>2, Zenon DEF Reports
<1>13. CASE MoveStalledJobToWait(j)
  <2>1. Writes(<<e, f>>, Len(log))
    BY <1>13, Zenon DEF MoveStalledJobToWait, f
  <2>2. Len(log) \in Nat /\ Len(log) <= Len(log) + Len(<<e, f>>)
    BY <1>7 DEF Stream
  <2> QED BY <1>5, <1>7, <1>11, <2>1, <2>2, Zenon DEF Reports
<1> QED BY <1>12, <1>13, Zenon

\* removeJob
LEMMA RemoveStep ==
  ASSUME Queue, Stream, NEW j \in Job, RemoveJob(j)
  PROVE  Queue' /\ Reports
<1> DEFINE e == Event("removed", j)
<1>1. /\ j \in hash /\ j \notin Range(active)
      /\ wait' = Without(wait, j) /\ legacy' = Without(legacy, j)
      /\ done' = [s \in DOMAIN done |-> done[s] \ {j}]
      /\ hash' = hash \ {j} /\ active' = active /\ erased' = erased
      /\ Writes(<<e>>, Len(log'))
  BY Zenon DEF RemoveJob
<1>2. /\ NoDup(wait') /\ Range(wait') = Range(wait) \ {j}
      /\ NoDup(legacy') /\ Range(legacy') = Range(legacy) \ {j}
  BY <1>1, NoDupWithout, Zenon DEF Queue, Lists
<1>3. /\ done' \in [Finished -> SUBSET Job]
      /\ \A s \in Finished : done'[s] = done[s] \ {j}
  BY <1>1, Zenon DEF Queue, Lists
<1>4. Queue'
  <2>1. Lists'
    BY <1>1, <1>2, <1>3, Zenon DEF Queue, Lists
  <2>2. \A k \in Job : Alone(k)'
    BY <1>1, <1>2, <1>3, Zenon DEF Queue, Alone, Finished
  <2> QED BY <1>1, <2>1, <2>2, Zenon DEF Queue
<1>5. e \in Entry /\ e.event = "removed" /\ e.job = j
  BY EventIsEntry, Zenon DEF Typed
<1>6. <<e>> \in Seq(Entry) /\ Len(<<e>>) = 1 /\ Range(<<e>>) = {e}
  BY <1>5, FewEvents, ZenonT(30)
<1>7. \A k \in Job \cup {NoJob} : k # j => Keeps(k)
  BY <1>1, <1>2, <1>3, KeepsFrom, Zenon
<1>8. IsAt(j, "removed")'
  BY <1>1, Zenon DEF IsAt, Finished
<1>9. Truthful(<<e>>)
  BY <1>6, <1>7, <1>8, TellsPlace, Zenon DEF Placing, Told
<1>10. Len(log') \in Nat /\ Len(log') <= Len(log) + Len(<<e>>)
  BY <1>1, <1>6 DEF Stream, Writes
<1> QED BY <1>1, <1>4, <1>6, <1>9, <1>10, Zenon DEF Reports

\* What is cut from the legacy list is in wait afterwards.
LEMMA ResumeMoves ==
  ASSUME Queue, Resume
  PROVE  /\ NoDup(wait') /\ NoDup(legacy') /\ Range(wait') \cap Range(legacy') = {}
         /\ Range(wait') \cup Range(legacy') = Range(wait) \cup Range(legacy)
<1>1. NoDup(wait) /\ NoDup(legacy) /\ Range(wait) \cap Range(legacy) = {}
  <2>1. NoDup(wait) /\ NoDup(legacy)
    BY Zenon DEF Queue, Lists
  <2>2. Range(wait) \subseteq Job
    BY <2>1, RangeOfJobs, Zenon DEF NoDup
  <2> QED BY <2>1, <2>2, Zenon DEF Queue, Alone
<1>2. CASE wait = <<>>
  BY <1>1, <1>2, NoDupEmpty, Zenon DEF Resume
<1>3. CASE wait # <<>>
  <2> DEFINE n == Smaller(Chunk, Len(legacy))
             t == SubSeq(legacy, 1, n)
             u == SubSeq(legacy, n + 1, Len(legacy))
  <2>1. wait' = wait \o t /\ legacy' = SubSeq(legacy, Chunk + 1, Len(legacy))
    BY <1>3, Zenon DEF Resume
  <2>2. /\ Len(legacy) \in Nat /\ Chunk \in Nat /\ n \in 0..Len(legacy)
        /\ n = Chunk \/ (n = Len(legacy) /\ Chunk > Len(legacy))
    BY <1>1, ObserversAssumption DEF NoDup, Smaller
  <2> HIDE DEF n
  <2>3. /\ NoDup(t) /\ NoDup(u) /\ Range(t) \cap Range(u) = {}
        /\ Range(t) \cup Range(u) = Range(legacy)
    BY <1>1, <2>2, NoDupSplit, Zenon
  <2>4. legacy' = u
    <3>1. CASE n = Chunk
      BY <2>1, <3>1, Zenon
    <3>2. CASE n = Len(legacy) /\ Chunk > Len(legacy)
      <4>1. legacy' = <<>> /\ u = <<>>
        BY <1>1, <2>1, <2>2, <3>2 DEF NoDup
      <4> QED BY <4>1, Zenon
    <3> QED BY <2>2, <3>1, <3>2, Zenon
  <2> HIDE DEF t, u
  <2>5. NoDup(wait \o t) /\ Range(wait \o t) = Range(wait) \cup Range(t)
    BY <1>1, <2>3, NoDupConcat, ZenonT(30)
  <2> QED BY <1>1, <2>1, <2>3, <2>4, <2>5, Zenon
<1> QED BY <1>2, <1>3, Zenon

\* The scripts that tell of no job's place: updateProgress, pause and resume.
LEMMA QuietStep ==
  ASSUME Queue, Stream, NEW j \in Job \cup {NoJob}, UpdateProgress(j) \/ Pause \/ Resume
  PROVE  Queue' /\ Reports
<1>1. /\ NoDup(wait') /\ NoDup(legacy') /\ Range(wait') \cap Range(legacy') = {}
      /\ Range(wait') \cup Range(legacy') = Range(wait) \cup Range(legacy)
      /\ active' = active /\ done' = done /\ hash' = hash /\ erased' = erased
  <2>1. CASE Resume
    BY <2>1, ResumeMoves, Zenon DEF Resume
  <2>2. CASE UpdateProgress(j) \/ Pause
    <3>1. /\ wait' = wait /\ legacy' = legacy /\ active' = active /\ done' = done
          /\ hash' = hash /\ erased' = erased
      BY <2>2, Zenon DEF UpdateProgress, Pause, queue
    <3>2. NoDup(wait) /\ NoDup(legacy)
      BY Zenon DEF Queue, Lists
    <3>3. Range(wait) \subseteq Job
      BY <3>2, RangeOfJobs, Zenon DEF NoDup
    <3> QED BY <3>1, <3>2, <3>3, Zenon DEF Queue, Alone
  <2> QED BY <2>1, <2>2, Zenon
<1>2. Queue'
  <2>1. Lists'
    BY <1>1, Zenon DEF Queue, Lists
  <2>2. ASSUME NEW k \in Job PROVE Alone(k)'
    <3>1. /\ k \in Range(wait') \/ k \in Range(legacy') <=> k \in Range(wait) \/ k \in Range(legacy)
          /\ ~(k \in Range(wait') /\ k \in Range(legacy'))
      BY <1>1, Zenon
    <3> QED BY <1>1, <3>1, Zenon DEF Queue, Alone
  <2> QED BY <1>1, <2>1, <2>2, Zenon DEF Queue
<1>3. \A k \in Job \cup {NoJob} : Keeps(k)
  BY <1>1, KeepsFrom, Zenon
<1>4. ASSUME NEW name \in {"progress", "paused", "resumed"}, NEW k \in Job \cup {NoJob}
      PROVE  /\ <<Event(name, k)>> \in Seq(Entry) /\ Len(<<Event(name, k)>>) = 1
             /\ Truthful(<<Event(name, k)>>)
  <2> DEFINE e == Event(name, k)
  <2>1. e \in Entry /\ e.event = name
    BY EventIsEntry, Zenon DEF Typed
  <2>2. <<e>> \in Seq(Entry) /\ Len(<<e>>) = 1 /\ Range(<<e>>) = {e}
    BY <2>1, FewEvents, Zenon
  <2>3. Told(<<e>>) = {}
    BY <2>1, <2>2, Zenon DEF Told, Placing, Finished
  <2> QED BY <1>3, <2>2, <2>3, TellsNothing, Zenon
<1>5. CASE UpdateProgress(j)
  <2>1. Writes(<<Event("progress", j)>>, Len(log'))
    BY <1>5, Zenon DEF UpdateProgress
  <2>2. Len(log') \in Nat /\ Len(log') <= Len(log) + Len(<<Event("progress", j)>>)
    BY <1>4, <2>1 DEF Stream, Writes
  <2> QED BY <1>2, <1>4, <2>1, <2>2, Zenon DEF Reports
<1>6. CASE Pause \/ Resume
  <2>1. PICK name \in {"paused", "resumed"} : Writes(<<Event(name, NoJob)>>, 0)
    BY <1>6, Zenon DEF Pause, Resume
  <2>2. 0 \in Nat /\ 0 <= Len(log) + Len(<<Event(name, NoJob)>>)
    BY <1>4 DEF Stream
  <2> QED BY <1>2, <1>4, <2>1, <2>2, Zenon DEF Reports
<1> QED BY <1>5, <1>6, Zenon

\* One run of events after another.
LEMMA JoinEvents ==
  ASSUME NEW s \in Seq(Entry), NEW t \in Seq(Entry)
  PROVE  s \o t \in Seq(Entry) /\ Range(s \o t) = Range(s) \cup Range(t)
<1>1. /\ Len(s) \in Nat /\ Len(t) \in Nat /\ s \o t \in Seq(Entry)
      /\ DOMAIN s = 1..Len(s) /\ DOMAIN t = 1..Len(t)
      /\ DOMAIN (s \o t) = 1..(Len(s) + Len(t))
      /\ \A i \in 1..Len(s) : (s \o t)[i] = s[i]
      /\ \A i \in 1..Len(t) : (s \o t)[Len(s) + i] = t[i]
  OBVIOUS
<1>2. \A i \in 1..(Len(s) + Len(t)) : (s \o t)[i] \in Range(s) \cup Range(t)
  <2> TAKE i \in 1..(Len(s) + Len(t))
  <2>1. CASE i <= Len(s)
    BY <1>1, <2>1 DEF Range
  <2>2. CASE i > Len(s)
    <3>1. i - Len(s) \in 1..Len(t) /\ Len(s) + (i - Len(s)) = i
      BY <1>1, <2>2
    <3>2. (s \o t)[i] = t[i - Len(s)]
      BY <1>1, <3>1, Zenon
    <3> QED BY <1>1, <3>1, <3>2, Zenon DEF Range
  <2> QED BY <1>1, <2>1, <2>2
<1>3. \A i \in 1..Len(s) : s[i] \in Range(s \o t)
  <2> TAKE i \in 1..Len(s)
  <2>1. i \in 1..(Len(s) + Len(t))
    BY <1>1
  <2> QED BY <1>1, <2>1, Zenon DEF Range
<1>4. \A i \in 1..Len(t) : t[i] \in Range(s \o t)
  <2> TAKE i \in 1..Len(t)
  <2>1. Len(s) + i \in 1..(Len(s) + Len(t))
    BY <1>1
  <2> QED BY <1>1, <2>1, Zenon DEF Range
<1> QED BY <1>1, <1>2, <1>3, <1>4, ZenonT(30) DEF Range

\* What a run of events tells of places.
LEMMA ToldByJoined ==
  ASSUME NEW s \in Seq(Entry), NEW t \in Seq(Entry)
  PROVE  s \o t \in Seq(Entry) /\ Told(s \o t) = Told(s) \cup Told(t)
BY JoinEvents DEF Told

LEMMA ToldByOne ==
  ASSUME NEW e \in Entry
  PROVE  <<e>> \in Seq(Entry) /\ Told(<<e>>) = IF e.event \in Placing THEN {e} ELSE {}
BY FewEvents, Zenon DEF Told

\* drain deletes jobs and tells nothing.
LEMMA DrainStep ==
  ASSUME Queue, Stream, Tracked, DrainPending
  PROVE  Queue' /\ Stream' /\ Tracked'
<1>1. /\ wait' = <<>> /\ legacy' = <<>> /\ active' = active /\ done' = done
      /\ hash' = hash \ (Range(wait) \cup Range(legacy))
      /\ erased' = erased \cup Range(wait) \cup Range(legacy)
      /\ log' = log /\ trimmed' = trimmed
  BY Zenon DEF DrainPending, stream
<1>2. NoDup(<<>>) /\ Range(<<>>) = {}
  BY NoDupEmpty, Zenon
<1>3. Queue'
  <2>1. Lists'
    BY <1>1, <1>2, Zenon DEF Queue, Lists
  <2>2. \A k \in Job : Alone(k)'
    BY <1>1, <1>2, Zenon DEF Queue, Alone
  <2> QED BY <1>1, <2>1, <2>2, Zenon DEF Queue
<1>4. Stream'
  BY <1>1, Zenon DEF Stream
<1>5. <<>> \in Seq(Entry) /\ Told(<<>>) = {} /\ log' = log \o <<>>
  BY <1>1 DEF Told, Range, Stream
<1>6. \A k \in Job \cup {NoJob} : Keeps(k)
  BY <1>1, KeepsFrom, Zenon
<1>7. Truthful(<<>>)
  BY <1>5, <1>6, TellsNothing, Zenon
<1> QED BY <1>3, <1>4, <1>5, <1>7, TrackedStep, Zenon

\* moveToFinished
LEMMA FinishStep ==
  ASSUME Queue, Stream, NEW j \in Job, NEW to \in Finished, NEW exhausted \in BOOLEAN,
         NEW keep \in BOOLEAN, NEW dropped \in SUBSET done[to], NEW fetchNext \in BOOLEAN,
         NEW timestamp, MoveToFinished(j, to, exhausted, keep, dropped, fetchNext, timestamp)
  PROVE  Queue' /\ Reports
<1> DEFINE left == Without(active, j)
           next == fetchNext /\ ~paused /\ wait # <<>>
           drained == ~(fetchNext /\ paused) /\ wait = <<>> /\ left = <<>>
<1>1. PICK l \in Job \cup {NoJob} :
        next => /\ l = wait[Len(wait)] /\ l \in Job /\ l \in Range(wait)
                /\ NoDup(SubSeq(wait, 1, Len(wait) - 1))
                /\ Range(SubSeq(wait, 1, Len(wait) - 1)) = Range(wait) \ {l}
  BY PopWait, Zenon
<1> DEFINE A == <<Event(to, j)>>
           B == IF exhausted THEN <<Event("retries-exhausted", j)>> ELSE <<>>
           C == IF next THEN <<Event("active", l)>> ELSE <<>>
           D == IF drained THEN <<Event("drained", NoJob)>> ELSE <<>>
           events == A \o B \o C \o D
<1>4. /\ j \in Range(active) /\ dropped \subseteq done[to]
      /\ active' = IF next THEN <<l>> \o left ELSE left
      /\ wait' = IF next THEN SubSeq(wait, 1, Len(wait) - 1) ELSE wait
      /\ done' = [done EXCEPT ![to] = (@ \ dropped) \cup (IF keep THEN {j} ELSE {})]
      /\ hash' = (hash \ dropped) \ (IF keep THEN {} ELSE {j})
      /\ Writes(events, Len(log)) /\ legacy' = legacy /\ erased' = erased
  BY <1>1, Zenon DEF MoveToFinished
<1>5. /\ events \in Seq(Entry)
      /\ Told(events) = {Event(to, j)} \cup (IF next THEN {Event("active", l)} ELSE {})
  <2>1. /\ Event(to, j) \in Entry /\ Event(to, j).event = to
        /\ Event("retries-exhausted", j) \in Entry
        /\ Event("retries-exhausted", j).event = "retries-exhausted"
        /\ Event("active", l) \in Entry /\ Event("active", l).event = "active"
        /\ Event("drained", NoJob) \in Entry /\ Event("drained", NoJob).event = "drained"
    BY EventIsEntry, Zenon DEF Typed, Finished
  <2>2. /\ "active" \in Placing /\ to \in Placing
        /\ "retries-exhausted" \notin Placing /\ "drained" \notin Placing
    BY Zenon DEF Placing, Finished
  <2>3. <<>> \in Seq(Entry) /\ Told(<<>>) = {}
    BY DEF Told, Range
  <2>4. A \in Seq(Entry) /\ Told(A) = {Event(to, j)}
    BY <2>1, <2>2, ToldByOne, Zenon
  <2>5. B \in Seq(Entry) /\ Told(B) = {}
    BY <2>1, <2>2, <2>3, ToldByOne, Zenon
  <2>6. C \in Seq(Entry) /\ Told(C) = IF next THEN {Event("active", l)} ELSE {}
    <3>1. CASE next
      <4>1. C = <<Event("active", l)>>
        BY <3>1, Zenon
      <4> QED BY <2>1, <2>2, <3>1, <4>1, ToldByOne, Zenon
    <3>2. CASE ~next
      <4>1. C = <<>>
        BY <3>2, Zenon
      <4> QED BY <2>3, <3>2, <4>1, Zenon
    <3> QED BY <3>1, <3>2, Zenon
  <2>7. D \in Seq(Entry) /\ Told(D) = {}
    BY <2>1, <2>2, <2>3, ToldByOne, Zenon
  <2> HIDE DEF A, B, C, D, next
  <2>8. A \o B \in Seq(Entry) /\ Told(A \o B) = {Event(to, j)}
    BY <2>4, <2>5, ToldByJoined, Zenon
  <2>9. A \o B \o C \in Seq(Entry) /\ Told(A \o B \o C) = {Event(to, j)} \cup Told(C)
    BY <2>6, <2>8, ToldByJoined, Zenon
  <2> DEFINE before == A \o B \o C
  <2> HIDE DEF before
  <2>10. before \in Seq(Entry) /\ Told(before) = {Event(to, j)} \cup Told(C)
    BY <2>9, Zenon DEF before
  <2>11. before \o D \in Seq(Entry) /\ Told(before \o D) = Told(before) \cup Told(D)
    BY <2>7, <2>10, ToldByJoined, Zenon
  <2> QED BY <2>6, <2>7, <2>10, <2>11, Zenon DEF before
<1> HIDE DEF events
<1>6. /\ NoDup(left) /\ Range(left) = Range(active) \ {j}
      /\ NoDup(wait) /\ NoDup(legacy) /\ done \in [Finished -> SUBSET Job]
  BY NoDupWithout, Zenon DEF Queue, Lists
<1> HIDE DEF left, next, drained
<1>7. /\ j \notin Range(wait) /\ j \notin Range(legacy) /\ j \in hash
      /\ j \notin done["completed"] /\ j \notin done["failed"]
  BY <1>4, Zenon DEF Queue, Alone
<1>8. next => /\ l \notin Range(legacy) /\ l \notin Range(active) /\ l \in hash /\ l # j
              /\ l \notin done["completed"] /\ l \notin done["failed"]
  BY <1>1, <1>7, Zenon DEF Queue, Alone
<1>9. /\ NoDup(active')
      /\ Range(active') = (Range(active) \ {j}) \cup (IF next THEN {l} ELSE {})
  <2>1. CASE next
    <3>1. NoDup(<<l>> \o left) /\ Range(<<l>> \o left) = Range(left) \cup {l}
      BY <1>1, <1>6, <1>8, <2>1, NoDupAdd, Zenon
    <3> QED BY <1>4, <1>6, <2>1, <3>1, Zenon
  <2>2. CASE ~next
    BY <1>4, <1>6, <2>2, Zenon
  <2> QED BY <2>1, <2>2, Zenon
<1>10. NoDup(wait') /\ Range(wait') = Range(wait) \ (IF next THEN {l} ELSE {})
  BY <1>1, <1>4, <1>6, Zenon
<1>11. /\ done' \in [Finished -> SUBSET Job]
       /\ done'[to] = (done[to] \ dropped) \cup (IF keep THEN {j} ELSE {})
       /\ \A s \in Finished : s # to => done'[s] = done[s]
  BY <1>4, <1>6, Zenon
<1>12. Queue'
  <2>1. Lists'
    BY <1>4, <1>6, <1>9, <1>10, <1>11, Zenon DEF Lists
  <2>2. ASSUME NEW k \in Job PROVE Alone(k)'
    <3>1. Alone(k)
      BY Zenon DEF Queue
    <3>2. CASE k = j
      <4>1. k \notin dropped
        BY <1>4, <1>7, <3>2, Zenon DEF Finished
      <4> QED BY <3>2, <4>1, <1>4, <1>7, <1>8, <1>9, <1>10, <1>11, Zenon DEF Alone, Finished
    <3>3. CASE k # j /\ next /\ k = l
      <4>1. k \notin dropped
        BY <1>4, <1>8, <3>3, Zenon DEF Finished
      <4> QED BY <3>3, <4>1, <1>4, <1>8, <1>9, <1>10, <1>11, Zenon DEF Alone, Finished
    <3>4. CASE k # j /\ ~(next /\ k = l)
      <4>1. /\ k \in Range(active') <=> k \in Range(active)
            /\ k \in Range(wait') <=> k \in Range(wait)
            /\ k \in hash' <=> k \in hash /\ k \notin dropped
            /\ k \in done'[to] <=> k \in done[to] /\ k \notin dropped
        BY <1>4, <1>9, <1>10, <1>11, <3>4, Zenon
      <4>2. k \in dropped => k \in done[to]
        BY <1>4, Zenon
      <4> QED BY <3>1, <4>1, <4>2, <1>4, <1>11, Zenon DEF Alone, Finished
    <3> QED BY <3>2, <3>3, <3>4, Zenon
  <2>3. hash' \subseteq Job
    BY <1>4, Zenon DEF Queue
  <2> QED BY <2>1, <2>2, <2>3, Zenon DEF Queue
<1>13. Truthful(events)
  <2>1. /\ Event(to, j).event = to /\ Event(to, j).job = j
        /\ Event("active", l).event = "active" /\ Event("active", l).job = l
    BY Zenon DEF Event
  <2>2. IsAt(j, to)'
    <3>1. j \in done'[to] \/ j \notin hash'
      BY <1>4, <1>11, Zenon
    <3> QED BY <3>1, Zenon DEF IsAt, Finished
  <2>3. next => IsAt(l, "active")'
    BY <1>9, Zenon DEF IsAt, Finished
  <2>4. \A e \in Told(events) : IsAt(e.job, e.event)'
    BY <1>5, <2>1, <2>2, <2>3, Zenon DEF IsAt
  <2>5. ASSUME NEW k \in Job \cup {NoJob}, \A e \in Told(events) : e.job # k PROVE Keeps(k)
    <3>1. k # j /\ ~(next /\ k = l)
      BY <1>5, <2>1, <2>5, Zenon
    <3>2. /\ k \in Range(wait) \cup Range(legacy) \cup erased
               => k \in Range(wait') \cup Range(legacy') \cup erased'
          /\ k \in Range(active) => k \in Range(active')
          /\ k \notin hash => k \notin hash'
      BY <1>4, <1>9, <1>10, <3>1, Zenon
    <3>3. \A state \in Finished : k \in done[state] => k \in done'[state] \/ k \notin hash'
      BY <1>4, <1>11, <3>1, Zenon
    <3> QED BY <3>2, <3>3, KeepsFrom, Zenon
  <2> QED BY <2>4, <2>5, Zenon DEF Truthful
<1>14. Len(log) \in Nat /\ Len(log) <= Len(log) + Len(events)
  BY <1>5 DEF Stream
<1> QED BY <1>4, <1>5, <1>12, <1>13, <1>14, Zenon DEF Reports

-----------------------------------------------------------------------------
(* The metrics *)

Meter == [count : Nat, prevTS : Int, prevCount : Nat, data : Seq(Int)]

\* No two neighbouring minutes with finished jobs are more than n apart.
GapsWithin(count, n) ==
  \A s, t \in DOMAIN count :
    s < t /\ count[s] > 0 /\ count[t] > 0 /\ (\A u \in s + 1..t - 1 : count[u] = 0)
      => t - s <= n

\* The data points count back from the minute base.
Points(data, count, base, n) ==
  /\ data \in Seq(Int) /\ Len(data) <= base
  /\ GapsWithin(count, n) => \A i \in 1..Len(data) : data[i] = count[base - i]

\* The metrics m are those of the jobs finished in each minute, of which the given
\* one is the latest, with n data points at most.
Metered(m, count, now, n) ==
  /\ m \in Meter /\ m.prevTS >= -1
  /\ m.prevTS = -1 => m.count = 0 /\ m.prevCount = 0 /\ m.data = <<>>
                      /\ (n > 0 => \A u \in DOMAIN count : count[u] = 0)
  /\ m.prevTS >= 0 =>
       /\ n > 0 /\ m.prevTS <= now /\ Points(m.data, count, m.prevTS, n)
       /\ \A u \in DOMAIN count : u > m.prevTS => count[u] = 0
       /\ m.count - m.prevCount = count[m.prevTS] /\ count[m.prevTS] > 0

\* The list of data points after a roll over n minutes, cut to max of them.
Rolled(n, max, c, data) ==
  LET points == Zeros(n - 1) \o <<c>> \o data
  IN  SubSeq(points, 1, Smaller(Len(points), max))

LEMMA RolledPoints ==
  ASSUME NEW n \in Nat \ {0}, NEW max \in Nat \ {0}, NEW c \in Int, NEW data \in Seq(Int)
  PROVE  /\ Rolled(n, max, c, data) \in Seq(Int)
         /\ Len(Rolled(n, max, c, data)) <= n + Len(data)
         /\ \A i \in 1..Len(Rolled(n, max, c, data)) :
              /\ i < n => Rolled(n, max, c, data)[i] = 0
              /\ i = n => Rolled(n, max, c, data)[i] = c
              /\ i > n => /\ i - n \in 1..Len(data)
                          /\ Rolled(n, max, c, data)[i] = data[i - n]
<1> DEFINE z == Zeros(n - 1)
           zc == z \o <<c>>
           points == zc \o data
           size == Smaller(Len(points), max)
           cut == SubSeq(points, 1, size)
<1>1. z \in Seq(Int) /\ Len(z) = n - 1 /\ (\A i \in 1..(n - 1) : z[i] = 0)
  BY DEF Zeros
<1> HIDE DEF z
<1>2. /\ zc \in Seq(Int) /\ Len(zc) = n
      /\ \A i \in 1..(n - 1) : zc[i] = 0
      /\ zc[n] = c
  <2>1. zc \in Seq(Int) /\ Len(zc) = (n - 1) + 1
    BY <1>1
  <2>2. \A i \in 1..(n - 1) : zc[i] = 0
    BY <1>1
  <2>3. zc[Len(z) + 1] = c
    BY <1>1
  <2>4. (n - 1) + 1 = n
    OBVIOUS
  <2> QED BY <1>1, <2>1, <2>2, <2>3, <2>4, Zenon
<1> HIDE DEF zc
<1>3. /\ Len(data) \in Nat /\ points \in Seq(Int) /\ Len(points) = n + Len(data)
      /\ \A i \in 1..n : points[i] = zc[i]
      /\ \A i \in 1..Len(data) : points[n + i] = data[i]
  BY <1>2, SMTT(30)
<1> HIDE DEF points
<1>4. size \in Nat /\ size <= Len(points) /\ size <= n + Len(data)
  BY <1>3 DEF Smaller
<1> HIDE DEF size
<1>5. cut \in Seq(Int) /\ Len(cut) = size /\ (\A i \in 1..size : cut[i] = points[i])
  BY <1>3, <1>4
<1> HIDE DEF cut
<1>6. ASSUME NEW i \in 1..Len(cut)
      PROVE  /\ i < n => cut[i] = 0
             /\ i = n => cut[i] = c
             /\ i > n => i - n \in 1..Len(data) /\ cut[i] = data[i - n]
  <2>1. i \in Nat /\ i >= 1 /\ i <= n + Len(data) /\ cut[i] = points[i]
    BY <1>3, <1>4, <1>5
  <2>2. CASE i < n
    <3>1. i \in 1..n /\ i \in 1..(n - 1)
      BY <2>1, <2>2
    <3> QED BY <1>2, <1>3, <2>1, <2>2, <3>1
  <2>3. CASE i = n
    <3>1. n \in 1..n
      OBVIOUS
    <3> QED BY <1>2, <1>3, <2>1, <2>3, <3>1
  <2>4. CASE i > n
    <3>1. i - n \in 1..Len(data) /\ n + (i - n) = i
      BY <1>3, <2>1, <2>4, SMTT(30)
    <3>2. points[n + (i - n)] = data[i - n]
      BY <1>3, <3>1, Zenon
    <3>3. cut[i] = data[i - n]
      BY <2>1, <3>1, <3>2, Zenon
    <3> QED BY <2>1, <2>4, <3>1, <3>3
  <2> QED BY <2>1, <2>2, <2>3, <2>4, Zenon
<1>7. cut \in Seq(Int) /\ Len(cut) <= n + Len(data)
  BY <1>4, <1>5, Zenon
<1>8. Rolled(n, max, c, data) = cut
  BY Zenon DEF Rolled, cut, size, points, zc, z
<1> QED BY <1>6, <1>7, <1>8, Zenon

\* A job that finishes in a later minute than the last leaves the gaps before it.
LEMMA GapsGrow ==
  ASSUME NEW M \in Nat, NEW count \in [0..M -> Nat], NEW t \in 0..M, NEW n \in Nat,
         \A u \in 0..M : u > t => count[u] = 0,
         GapsWithin([count EXCEPT ![t] = @ + 1], n)
  PROVE  GapsWithin(count, n)
<1> DEFINE more == [count EXCEPT ![t] = @ + 1]
<1>1. /\ DOMAIN count = 0..M /\ DOMAIN more = 0..M
      /\ \A u \in 0..M : count[u] \in Nat /\ more[u] = IF u = t THEN count[u] + 1 ELSE count[u]
  BY Zenon
<1> SUFFICES ASSUME NEW s \in 0..M, NEW u \in 0..M, s < u, count[s] > 0, count[u] > 0,
                    \A v \in s + 1..u - 1 : count[v] = 0
             PROVE  u - s <= n
  BY <1>1, Zenon DEF GapsWithin
<1>2. u <= t
  BY <1>1
<1>3. more[s] > 0 /\ more[u] > 0
  BY <1>1
<1>4. \A v \in s + 1..u - 1 : v \in 0..M /\ v # t
  BY <1>2
<1>5. \A v \in s + 1..u - 1 : more[v] = 0
  BY <1>1, <1>4, Zenon
<1>6. GapsWithin(more, n)
  BY Zenon
<1> HIDE DEF more
<1> QED BY <1>1, <1>3, <1>5, <1>6, Zenon DEF GapsWithin

\* Another job in the minute of the last roll.
LEMMA SameMinute ==
  ASSUME NEW M \in Nat, NEW count \in [0..M -> Nat], NEW t \in 0..M, NEW n \in Nat,
         NEW data, Points(data, count, t, n), \A u \in 0..M : u > t => count[u] = 0
  PROVE  Points(data, [count EXCEPT ![t] = @ + 1], t, n)
<1> DEFINE more == [count EXCEPT ![t] = @ + 1]
<1>1. data \in Seq(Int) /\ Len(data) \in Nat /\ Len(data) <= t
  BY DEF Points
<1>2. GapsWithin(more, n) => GapsWithin(count, n)
  BY GapsGrow, Zenon
<1>3. ASSUME GapsWithin(more, n), NEW i \in 1..Len(data) PROVE data[i] = more[t - i]
  <2>1. t - i \in 0..M /\ t - i # t
    BY <1>1
  <2>2. more[t - i] = count[t - i]
    BY <2>1, Zenon
  <2> QED BY <1>2, <1>3, <2>2, Zenon DEF Points
<1> QED BY <1>1, <1>3, Zenon DEF Points

\* The first job after the minute of the last roll.
LEMMA LaterMinute ==
  ASSUME NEW M \in Nat, NEW count \in [0..M -> Nat], NEW t \in 0..M, NEW n \in Nat \ {0},
         NEW base \in 0..M, base < t, count[base] > 0,
         NEW data, Points(data, count, base, n), \A u \in 0..M : u > base => count[u] = 0
  PROVE  Points(Rolled(Smaller(t - base, n), n, count[base], data),
                [count EXCEPT ![t] = @ + 1], t, n)
<1> DEFINE more == [count EXCEPT ![t] = @ + 1]
           z == Smaller(t - base, n)
           c == count[base]
           rolled == Rolled(z, n, c, data)
<1>1. data \in Seq(Int) /\ Len(data) \in Nat /\ Len(data) <= base /\ c \in Int
  BY DEF Points
<1>2. z \in Nat \ {0} /\ z <= t - base /\ (t - base <= n => z = t - base)
  BY DEF Smaller
<1> HIDE DEF z, c
<1>3. /\ rolled \in Seq(Int) /\ Len(rolled) <= z + Len(data)
      /\ \A i \in 1..Len(rolled) :
           /\ i < z => rolled[i] = 0
           /\ i = z => rolled[i] = c
           /\ i > z => i - z \in 1..Len(data) /\ rolled[i] = data[i - z]
  BY <1>1, <1>2, RolledPoints
<1> HIDE DEF rolled
<1>4. Len(rolled) \in Nat /\ Len(rolled) <= t
  BY <1>1, <1>2, <1>3
<1>5. /\ DOMAIN more = 0..M
      /\ \A u \in 0..M : u # t => more[u] = count[u]
      /\ more[t] > 0 /\ more[base] > 0
  OBVIOUS
<1>6. GapsWithin(more, n) => GapsWithin(count, n)
  <2>1. \A u \in 0..M : u > t => count[u] = 0
    OBVIOUS
  <2> QED BY <2>1, GapsGrow, Zenon
<1> HIDE DEF more
<1>7. ASSUME GapsWithin(more, n), NEW i \in 1..Len(rolled) PROVE rolled[i] = more[t - i]
  <2>1. t - base <= n
    <3>1. \A u \in base + 1..t - 1 : u \in 0..M /\ u > base /\ u # t
      OBVIOUS
    <3>2. \A u \in base + 1..t - 1 : more[u] = 0
      BY <1>5, <3>1, Zenon
    <3> QED BY <1>5, <1>7, <3>2, Zenon DEF GapsWithin
  <2>2. z = t - base
    BY <1>2, <2>1, Zenon
  <2>3. i \in Nat /\ i >= 1 /\ t - i \in 0..M /\ t - i # t
    BY <1>4
  <2>4. more[t - i] = count[t - i]
    BY <1>5, <2>3, Zenon
  <2>5. CASE i < z
    <3>1. t - i > base
      BY <2>2, <2>3, <2>5
    <3> QED BY <1>3, <2>3, <2>4, <2>5, <3>1, Zenon
  <2>6. CASE i = z
    <3>1. t - i = base
      BY <2>2, <2>3, <2>6
    <3> QED BY <1>3, <2>4, <2>6, <3>1, Zenon DEF c
  <2>7. CASE i > z
    <3>1. i - z \in 1..Len(data) /\ rolled[i] = data[i - z]
      BY <1>3, <2>7, Zenon
    <3>2. data[i - z] = count[base - (i - z)]
      BY <1>6, <1>7, <3>1, Zenon DEF Points
    <3>3. base - (i - z) = t - i
      BY <2>2, <2>3
    <3> QED BY <2>4, <3>1, <3>2, <3>3, Zenon
  <2> QED BY <1>2, <2>3, <2>5, <2>6, <2>7
<1> QED BY <1>3, <1>4, <1>7, Zenon DEF Points, rolled, more, z, c

\* What a meter has to satisfy.
LEMMA MeteredNow ==
  ASSUME NEW m \in Meter, NEW count, NEW now \in Nat, NEW t \in 0..now, NEW n \in Nat \ {0},
         m.prevTS = t,
         Points(m.data, count, t, n), \A u \in DOMAIN count : u > t => count[u] = 0,
         m.count - m.prevCount = count[t], count[t] > 0
  PROVE  Metered(m, count, now, n)
<1>1. m.prevTS >= -1 /\ ~(m.prevTS = -1) /\ m.prevTS <= now /\ n > 0
  OBVIOUS
<1> QED BY <1>1, Zenon DEF Metered

\* Collecting a job that finished in minute at into the metrics m leaves those of the
\* counts with the job in its minute, or in the latest one seen where that is later.
Collected(m, at, count, now, n) ==
  /\ Metered(CollectMetrics(m, at), [count EXCEPT ![Larger(at, m.prevTS)] = @ + 1], now, n)
  /\ CollectMetrics(m, at).prevTS = Larger(at, m.prevTS)

\* collectMetrics keeps the metrics those of the finished jobs, each counted in the
\* minute of its timestamp or, when that is over, in the latest one.
LEMMA CollectKeeps ==
  ASSUME NEW M \in Nat, NEW count \in [0..M -> Nat], NEW now \in 0..M, NEW at \in 0..now,
         NEW n \in Nat \ {0}, setting.maxDataPoints = n, NEW m, Metered(m, count, now, n)
  PROVE  Collected(m, at, count, now, n)
<1> USE DEF Collected
<1> DEFINE t == Larger(at, m.prevTS)
           more == [count EXCEPT ![t] = @ + 1]
           k == CollectMetrics(m, at)
<1>1. /\ m \in Meter /\ m.prevTS \in Int /\ m.prevTS >= -1 /\ m.count \in Nat
      /\ m.prevCount \in Nat /\ m.data \in Seq(Int)
  BY Zenon DEF Metered, Meter
<1>8. m.prevTS >= 0 => m.prevTS <= now
  BY Zenon DEF Metered
<1>9. /\ t \in 0..now /\ t \in 0..M /\ now \in Nat /\ at \in Int
      /\ IF m.prevTS >= at THEN t = m.prevTS /\ m.prevTS >= 0 ELSE t = at
  BY <1>1, <1>8 DEF Larger
<1> HIDE DEF t
<1>2. /\ more \in [0..M -> Nat] /\ more[t] = count[t] + 1
      /\ \A u \in 0..M : u # t => more[u] = count[u]
      /\ DOMAIN more = 0..M /\ t \in Nat
  BY <1>9
<1>3. CASE m.prevTS = -1
  <2>8. t = at
    BY <1>3, <1>9
  <2>1. k = [m EXCEPT !.count = 1, !.prevTS = t]
    BY <1>3, <2>8, Zenon DEF CollectMetrics
  <2> HIDE DEF k
  <2>2. /\ k \in Meter /\ k.prevTS = t /\ k.count = 1 /\ k.prevCount = m.prevCount
        /\ k.data = m.data
    <3>1. 1 \in Nat /\ t \in Int
      BY <1>2
    <3>2. k \in [count : Nat, prevTS : Int, prevCount : Nat, data : Seq(Int)]
      BY <1>1, <2>1, <3>1, Zenon DEF Meter
    <3>3. k.prevTS = t /\ k.count = 1 /\ k.prevCount = m.prevCount /\ k.data = m.data
      BY <1>1, <2>1, Zenon DEF Meter
    <3> QED BY <3>2, <3>3, Zenon DEF Meter
  <2>3. m.prevCount = 0 /\ m.data = <<>> /\ \A u \in 0..M : count[u] = 0
    BY <1>3 DEF Metered
  <2>4. Points(k.data, more, t, n)
    BY <1>2, <2>2, <2>3 DEF Points
  <2>5. more[t] = 1 /\ \A u \in 0..M : u > t => more[u] = 0
    BY <1>2, <2>3, SMTT(30)
  <2>6. k.count - k.prevCount = more[t] /\ more[t] > 0
    BY <2>2, <2>3, <2>5
  <2> HIDE DEF more
  <2>7. Metered(k, more, now, n)
    BY <1>2, <2>2, <2>4, <2>5, <2>6, <1>9, MeteredNow, Zenon
  <2> QED BY <2>2, <2>7, Zenon DEF k, more, t
<1>4. CASE m.prevTS >= at
  <2>9. m.prevTS = t /\ m.prevTS # -1 /\ m.prevTS >= 0
    BY <1>1, <1>4, <1>9
  <2>1. Smaller(at - m.prevTS, n) <= 0
    BY <1>1, <1>4, <1>9 DEF Smaller
  <2>2. k = [m EXCEPT !.count = @ + 1]
    BY <2>1, <2>9, Zenon DEF CollectMetrics
  <2> HIDE DEF k
  <2>3. /\ k \in Meter /\ k.prevTS = t /\ k.count = m.count + 1 /\ k.prevCount = m.prevCount
        /\ k.data = m.data
    <3>1. m.count + 1 \in Nat
      BY <1>1
    <3>2. k \in [count : Nat, prevTS : Int, prevCount : Nat, data : Seq(Int)]
      BY <1>1, <2>2, <3>1, Zenon DEF Meter
    <3>3. /\ k.prevTS = m.prevTS /\ k.count = m.count + 1 /\ k.prevCount = m.prevCount
          /\ k.data = m.data
      BY <1>1, <2>2, Zenon DEF Meter
    <3> QED BY <2>9, <3>2, <3>3, Zenon DEF Meter
  <2>4. /\ Points(m.data, count, t, n) /\ \A u \in 0..M : u > t => count[u] = 0
        /\ m.count - m.prevCount = count[t] /\ count[t] > 0
    BY <2>9, Zenon DEF Metered
  <2>5. Points(k.data, more, t, n)
    BY <1>9, <2>3, <2>4, SameMinute, Zenon
  <2>6. \A u \in 0..M : u > t => more[u] = 0
    BY <1>2, <2>4
  <2>7. k.count - k.prevCount = more[t] /\ more[t] > 0
    <3>1. count[t] \in Nat
      BY <1>9
    <3> HIDE DEF more
    <3> QED BY <1>1, <1>2, <2>3, <2>4, <3>1, SMTT(30)
  <2> HIDE DEF more
  <2>8. Metered(k, more, now, n)
    BY <1>2, <2>3, <2>5, <2>6, <2>7, <1>9, MeteredNow, Zenon
  <2> QED BY <2>3, <2>8, Zenon DEF k, more, t
<1>5. CASE m.prevTS >= 0 /\ m.prevTS < at
  <2>12. t = at
    BY <1>1, <1>5, <1>9
  <2> DEFINE base == m.prevTS
             z == Smaller(at - base, n)
  <2>13. base \in 0..M /\ base < t
    BY <1>1, <1>5, <1>9, <2>12
  <2>1. /\ base \in 0..M /\ Points(m.data, count, base, n) /\ count[base] > 0
        /\ \A u \in 0..M : u > base => count[u] = 0
        /\ m.count - m.prevCount = count[base]
    BY <1>1, <1>5, <2>13, Zenon DEF Metered
  <2>2. z \in Int /\ ~ (z <= 0) /\ base # -1 /\ z = Smaller(at - base, setting.maxDataPoints)
    BY <1>1, <1>5, <1>9, SMTT(30) DEF Smaller
  <2> HIDE DEF z
  <2>3. k = [count |-> m.count + 1, prevTS |-> t, prevCount |-> m.count,
             data |-> Rolled(z, n, m.count - m.prevCount, m.data)]
    BY <2>2, <2>12, Zenon DEF CollectMetrics, Rolled
  <2> HIDE DEF k
  <2>4. k = [count |-> m.count + 1, prevTS |-> t, prevCount |-> m.count,
             data |-> Rolled(z, n, count[base], m.data)]
    BY <2>1, <2>3, Zenon
  <2>5. /\ k.prevTS = t /\ k.count = m.count + 1 /\ k.prevCount = m.count
        /\ k.data = Rolled(z, n, count[base], m.data)
    BY <2>4, Zenon
  <2>6. Points(k.data, more, t, n)
    <3>1. Points(Rolled(z, n, count[base], m.data), more, t, n)
      <4> HIDE DEF base
      <4> QED BY <1>9, <2>1, <2>12, <2>13, LaterMinute, Zenon DEF z
    <3> QED BY <2>5, <3>1, Zenon
  <2>7. k \in Meter
    <3>1. m.count + 1 \in Nat /\ m.count \in Nat /\ t \in Int /\ k.data \in Seq(Int)
      <4>1. k.data \in Seq(Int)
        BY <2>6, Zenon DEF Points
      <4>2. m.count \in Nat /\ t \in Nat
        BY <1>1, <1>2, Zenon
      <4>3. \A a \in Nat : a + 1 \in Nat /\ a \in Int
        OBVIOUS
      <4> QED BY <4>1, <4>2, <4>3, Zenon
    <3>2. Rolled(z, n, count[base], m.data) \in Seq(Int)
      BY <2>5, <3>1, Zenon
    <3> QED BY <2>4, <3>1, <3>2, Zenon DEF Meter
  <2>8. \A u \in 0..M : u > t => more[u] = 0
    BY <1>1, <1>2, <2>13, <2>1, SMTT(30)
  <2>9. count[t] = 0
    BY <1>9, <2>13, <2>1
  <2>10. k.count - k.prevCount = more[t] /\ more[t] > 0
    BY <1>1, <1>2, <2>5, <2>9
  <2> HIDE DEF more
  <2>11. Metered(k, more, now, n)
    BY <1>2, <2>5, <2>6, <2>7, <2>8, <2>10, <1>9, MeteredNow, Zenon
  <2> QED BY <2>5, <2>11, Zenon DEF k, more, t
<1>7. m.prevTS = -1 \/ m.prevTS >= at \/ (m.prevTS >= 0 /\ m.prevTS < at)
  BY <1>1, <1>9
<1> QED BY <1>3, <1>4, <1>5, <1>7, Zenon

MetricsInv ==
  /\ setting \in Settings /\ minute \in 0..setting.minutes
  /\ tally \in [Finished -> [0..setting.minutes -> Nat]] /\ DOMAIN metrics = Finished
  /\ newest \in [Finished -> Int]
  /\ \A kind \in Finished :
       /\ Metered(metrics[kind], tally[kind], minute, setting.maxDataPoints)
       /\ newest[kind] <= minute
       /\ setting.maxDataPoints > 0 => newest[kind] = metrics[kind].prevTS

LEMMA MetricsInit == Init => MetricsInv
<1> SUFFICES ASSUME Init PROVE MetricsInv
  BY Zenon
<1> DEFINE none == [n \in 0..setting.minutes |-> 0]
<1>1. /\ setting \in Settings /\ minute = 0 /\ metrics = [kind \in Finished |-> NoMetrics]
      /\ tally = [kind \in Finished |-> none] /\ newest = [kind \in Finished |-> -1]
  BY Zenon DEF Init
<1>2. setting.minutes \in Nat
  BY <1>1, ObserversAssumption, Zenon
<1>3. none \in [0..setting.minutes -> Nat] /\ \A u \in DOMAIN none : none[u] = 0
  BY Zenon
<1> HIDE DEF none
<1>4. NoMetrics \in Meter /\ NoMetrics.prevTS = -1
  BY DEF Meter, NoMetrics
<1>5. Metered(NoMetrics, none, minute, setting.maxDataPoints)
  BY <1>3, <1>4 DEF Metered, NoMetrics
<1>6. -1 \in Int /\ -1 <= 0 /\ (setting.minutes \in Nat => 0 \in 0..setting.minutes)
  OBVIOUS
<1> QED BY <1>1, <1>2, <1>3, <1>4, <1>5, <1>6, Zenon DEF MetricsInv

LEMMA FinishMetered ==
  ASSUME MetricsInv, NEW j \in Job, NEW to \in Finished, NEW exhausted \in BOOLEAN,
         NEW keep \in BOOLEAN, NEW dropped, NEW fetchNext \in BOOLEAN,
         NEW timestamp \in 0..minute,
         MoveToFinished(j, to, exhausted, keep, dropped, fetchNext, timestamp)
  PROVE  MetricsInv'
<1> DEFINE max == setting.maxDataPoints
           t == Larger(timestamp, newest[to])
           more == [tally[to] EXCEPT ![t] = @ + 1]
<1>1. /\ setting' = setting /\ minute' = minute
      /\ metrics' = IF max = 0 THEN metrics
                    ELSE [metrics EXCEPT ![to] = CollectMetrics(@, timestamp)]
      /\ tally' = [tally EXCEPT ![to] = more]
      /\ newest' = [newest EXCEPT ![to] = t]
  BY Zenon DEF MoveToFinished, Writes
<1>2. /\ setting \in Settings /\ minute \in 0..setting.minutes
      /\ tally \in [Finished -> [0..setting.minutes -> Nat]] /\ DOMAIN metrics = Finished
      /\ newest \in [Finished -> Int]
      /\ \A kind \in Finished :
           /\ Metered(metrics[kind], tally[kind], minute, max) /\ newest[kind] <= minute
           /\ max > 0 => newest[kind] = metrics[kind].prevTS
  BY Zenon DEF MetricsInv
<1>3. setting.minutes \in Nat /\ max \in Nat
  BY <1>2, ObserversAssumption, Zenon
<1>9. t \in 0..minute /\ t \in 0..setting.minutes /\ t \in Int /\ t <= minute
  <2>1. newest[to] \in Int /\ newest[to] <= minute
    BY <1>2, Zenon
  <2> QED BY <1>2, <1>3, <2>1 DEF Larger
<1> HIDE DEF t
<1>4. more \in [0..setting.minutes -> Nat]
  BY <1>2, <1>3, <1>9
<1>5. /\ tally' \in [Finished -> [0..setting.minutes -> Nat]] /\ tally'[to] = more
      /\ \A kind \in Finished : kind # to => tally'[kind] = tally[kind]
      /\ newest' \in [Finished -> Int] /\ newest'[to] = t
      /\ \A kind \in Finished : kind # to => newest'[kind] = newest[kind]
  BY <1>1, <1>2, <1>4, <1>9, Zenon
<1>6. /\ DOMAIN metrics' = Finished
      /\ \A kind \in Finished : kind # to => metrics'[kind] = metrics[kind]
      /\ metrics'[to] = IF max = 0 THEN metrics[to] ELSE CollectMetrics(metrics[to], timestamp)
  BY <1>1, <1>2, Zenon
<1>7. Metered(metrics'[to], more, minute, max) /\ (max > 0 => t = metrics'[to].prevTS)
  <2>1. CASE max = 0
    <3> DEFINE m == metrics[to]
    <3>1. metrics'[to] = m /\ Metered(m, tally[to], minute, max)
      BY <1>2, <1>6, <2>1, Zenon
    <3> HIDE DEF m
    <3>2. m \in Meter /\ m.prevTS = -1 /\ m.count = 0 /\ m.prevCount = 0 /\ m.data = <<>>
      BY <2>1, <3>1 DEF Metered, Meter
    <3>3. m.prevTS >= -1 /\ ~(m.prevTS >= 0) /\ ~(max > 0)
      BY <2>1, <3>2, SMTT(30)
    <3> QED BY <3>1, <3>2, <3>3, Zenon DEF Metered
  <2>2. CASE max # 0
    <3>1. metrics'[to] = CollectMetrics(metrics[to], timestamp) /\ max > 0
      BY <1>3, <1>6, <2>2
    <3>2. /\ tally[to] \in [0..setting.minutes -> Nat]
          /\ Metered(metrics[to], tally[to], minute, max)
          /\ t = Larger(timestamp, metrics[to].prevTS)
      BY <1>2, <3>1, Zenon DEF t
    <3>3. /\ Metered(CollectMetrics(metrics[to], timestamp), more, minute, max)
          /\ CollectMetrics(metrics[to], timestamp).prevTS = t
      <4> HIDE DEF max
      <4>1. /\ Metered(CollectMetrics(metrics[to], timestamp),
                       [tally[to] EXCEPT ![Larger(timestamp, metrics[to].prevTS)] = @ + 1],
                       minute, max)
            /\ CollectMetrics(metrics[to], timestamp).prevTS = Larger(timestamp, metrics[to].prevTS)
        <5>1. max \in Nat \ {0} /\ setting.maxDataPoints = max
          BY <1>3, <2>2, Zenon DEF max
        <5>2. minute \in 0..setting.minutes /\ setting.minutes \in Nat
          BY <1>2, <1>3, Zenon
        <5>3. timestamp \in 0..minute
          OBVIOUS
        <5>4. tally[to] \in [0..setting.minutes -> Nat]
          BY <3>2, Zenon
        <5>5. Metered(metrics[to], tally[to], minute, max)
          BY <3>2, Zenon
        <5> DEFINE M == setting.minutes
                   count == tally[to]
                   m == metrics[to]
        <5>6. /\ M \in Nat /\ count \in [0..M -> Nat] /\ minute \in 0..M
              /\ max \in Nat \ {0} /\ Metered(m, count, minute, max)
          BY <5>1, <5>2, <5>4, <5>5, Zenon
        <5> HIDE DEF M, count, m
        <5>7. Collected(m, timestamp, count, minute, max)
          BY <5>1, <5>3, <5>6, CollectKeeps, ZenonT(30)
        <5> QED BY <5>7, Zenon DEF Collected, count, m
      <4> QED BY <3>2, <4>1, Zenon
    <3> QED BY <3>1, <3>3, Zenon
  <2> QED BY <2>1, <2>2, Zenon
<1> HIDE DEF more
<1>8. ASSUME NEW kind \in Finished
      PROVE  /\ Metered(metrics'[kind], tally'[kind], minute, max) /\ newest'[kind] <= minute
             /\ max > 0 => newest'[kind] = metrics'[kind].prevTS
  <2>1. CASE kind = to
    BY <1>5, <1>7, <1>9, <2>1, Zenon
  <2>2. CASE kind # to
    BY <1>2, <1>5, <1>6, <2>2, Zenon
  <2> QED BY <2>1, <2>2, Zenon
<1> QED BY <1>1, <1>2, <1>5, <1>6, <1>8, Zenon DEF MetricsInv

LEMMA MetricsStep == MetricsInv /\ [Next]_vars => MetricsInv'
<1> SUFFICES ASSUME MetricsInv, [Next]_vars PROVE MetricsInv'
  BY Zenon
<1>1. ASSUME UNCHANGED <<setting, metrics, newest, tally, minute>> PROVE MetricsInv'
  BY <1>1, Zenon DEF MetricsInv
<1>2. CASE Scripts
  <2>1. ASSUME NEW j \in Job, RunMoveToFinished(j) PROVE MetricsInv'
    BY <2>1, FinishMetered, ZenonT(30) DEF RunMoveToFinished
  <2>2. ASSUME NEW j \in Job, NEW lifo \in BOOLEAN, AddStandardJob(j, lifo) \/ RetryJob(j, lifo)
        PROVE  MetricsInv'
    BY <2>2, <1>1, Zenon DEF AddStandardJob, RetryJob, Writes, accounts
  <2>3. ASSUME NEW j \in Job, MoveStalledJobToWait(j) \/ RemoveJob(j) \/ UpdateProgress(j)
        PROVE  MetricsInv'
    BY <2>3, <1>1, Zenon DEF MoveStalledJobToWait, RemoveJob, UpdateProgress, Writes, accounts
  <2>4. CASE MoveToActive \/ Pause \/ Resume
    BY <2>4, <1>1, Zenon DEF MoveToActive, Pause, Resume, Writes, accounts
  <2>5. CASE DrainPending
    BY <2>5, <1>1, Zenon DEF DrainPending, clocked, accounts
  <2> QED BY <1>2, <2>1, <2>2, <2>3, <2>4, <2>5, ZenonT(30) DEF Scripts
<1>3. CASE MinutePasses
  <2>1. /\ setting' = setting /\ metrics' = metrics /\ tally' = tally /\ newest' = newest
        /\ minute < setting.minutes /\ minute' = minute + 1
    BY <1>3, Zenon DEF MinutePasses, accounts
  <2>2. setting.minutes \in Nat /\ minute \in 0..setting.minutes
    BY ObserversAssumption, Zenon DEF MetricsInv
  <2>3. minute' \in 0..setting.minutes /\ minute <= minute' /\ minute \in Int
    BY <2>1, <2>2, SMTT(30)
  <2>4. ASSUME NEW kind \in Finished
        PROVE  /\ Metered(metrics[kind], tally[kind], minute', setting.maxDataPoints)
               /\ newest[kind] <= minute'
    <3>1. Metered(metrics[kind], tally[kind], minute, setting.maxDataPoints)
      BY Zenon  DEF MetricsInv
    <3>2. metrics[kind].prevTS \in Int
      BY <3>1, Zenon DEF Metered, Meter
    <3>3. metrics[kind].prevTS <= minute => metrics[kind].prevTS <= minute'
      BY <2>2, <2>3, <3>2, SMTT(30)
    <3>4. newest[kind] \in Int /\ newest[kind] <= minute
      BY Zenon DEF MetricsInv
    <3>5. newest[kind] <= minute'
      BY <2>2, <2>3, <3>4, SMTT(30)
    <3> QED BY <3>1, <3>3, <3>5, Zenon DEF Metered
  <2> QED BY <2>1, <2>3, <2>4, Zenon DEF MetricsInv
<1>4. CASE Subscribe \/ SubscribeRuns \/ Close \/ Cancel
  BY <1>4, <1>1, Zenon DEF Subscribe, SubscribeRuns, LoopSelect, XReadArrives, XReadTimesOut,
                    XReadFails, Deliver, Close, Cancel, SubSteps, clocked, accounts
<1>5. CASE Reads
  <2>1. UNCHANGED ReadSteps
    BY <1>5, Zenon
       DEF Reads, CountsIsPaused, ListIsPaused, GetRanges, FetchJobs, GetPage, Counts,
                ListJobs
  <2> QED BY <2>1, <1>1, Zenon DEF ReadSteps, clocked, accounts
<1>6. CASE UNCHANGED vars
  BY <1>6, <1>1, Zenon DEF vars, clocked, accounts
<1> QED BY <1>2, <1>3, <1>4, <1>5, <1>6, Zenon DEF Next

\* LRANGE with a window from a non-negative start.
LEMMA WindowPoints ==
  ASSUME NEW l \in Seq(Int), NEW start \in Nat, NEW end \in Nat,
         NEW i \in 1..Len(LRange(l, start, end))
  PROVE  start + i \in 1..Len(l) /\ LRange(l, start, end)[i] = l[start + i]
<1> DEFINE t == Smaller(end, Len(l) - 1)
<1>1. LRange(l, start, end) = IF start > t THEN <<>> ELSE SubSeq(l, start + 1, t + 1)
  BY DEF LRange
<1>2. Len(l) \in Nat /\ t \in Int /\ t <= Len(l) - 1
  BY DEF Smaller
<1> HIDE DEF t
<1>3. CASE start > t
  BY <1>1, <1>3
<1>4. CASE start <= t
  <2>1. LRange(l, start, end) = SubSeq(l, start + 1, t + 1)
    BY <1>1, <1>2, <1>4
  <2>2. start + 1 \in Nat \ {0} /\ t + 1 \in Nat /\ start + 1 <= t + 1 /\ t + 1 <= Len(l)
    BY <1>2, <1>4
  <2>3. Len(SubSeq(l, start + 1, t + 1)) = t - start + 1
    <3> DEFINE f == start + 1
               g == t + 1
    <3>1. f \in Int /\ g \in Int /\ f <= g /\ g - f + 1 = t - start + 1
      BY <1>2, <2>2
    <3> HIDE DEF f, g
    <3>2. Len(SubSeq(l, f, g)) = g - f + 1
      BY <3>1
    <3> QED BY <3>1, <3>2, Zenon DEF f, g
  <2>4. i \in Nat /\ 1 <= i /\ i <= t - start + 1
    BY <2>1, <2>3, <1>2
  <2>5. SubSeq(l, start + 1, t + 1)[i] = l[start + 1 + i - 1]
    BY <2>2, <2>4, <1>2, SMTT(30)
  <2> QED BY <2>1, <2>2, <2>4, <2>5, <1>2
<1> QED BY <1>2, <1>3, <1>4

LEMMA ExactFromInv == MetricsInv => MetricsExact
<1> SUFFICES ASSUME MetricsInv, NEW kind \in Finished, NEW start \in 0..2,
                    metrics[kind].prevTS >= 0, NoLongGap(tally[kind])
             PROVE  LET report == GetMetrics(kind, start, start + 1)
                        base == metrics[kind].prevTS
                    IN  /\ \A i \in 1..Len(report.data) :
                             report.data[i] = tally[kind][base - start - i]
                        /\ report.meta.count - report.meta.prevCount = tally[kind][base]
  BY Zenon DEF MetricsExact
<1> DEFINE report == GetMetrics(kind, start, start + 1)
           m == metrics[kind]
           count == tally[kind]
<1>1. Metered(m, count, minute, setting.maxDataPoints) /\ GapsWithin(count, setting.maxDataPoints)
  BY Zenon DEF MetricsInv, NoLongGap, GapsWithin
<1>2. report.meta = [m EXCEPT !.prevTS = IF @ = -1 THEN 0 ELSE @]
  BY Zenon DEF GetMetrics
<1>3. report.data = LRange(m.data, start, start + 1)
  BY Zenon  DEF GetMetrics
<1> HIDE DEF report, m, count
<1>4. /\ m \in Meter /\ m.prevTS \in Int /\ m.data \in Seq(Int)
      /\ m.count - m.prevCount = count[m.prevTS]
      /\ \A i \in 1..Len(m.data) : m.data[i] = count[m.prevTS - i]
  BY <1>1, Zenon DEF Metered, Meter, Points, m
<1>5. report.meta.count = m.count /\ report.meta.prevCount = m.prevCount
  BY <1>2, <1>4, Zenon DEF Meter
<1>6. ASSUME NEW i \in 1..Len(report.data)
      PROVE  report.data[i] = count[m.prevTS - start - i]
  <2>1. start + i \in 1..Len(m.data) /\ report.data[i] = m.data[start + i]
    <3> DEFINE end == start + 1
    <3>1. start \in Nat /\ end \in Nat
      OBVIOUS
    <3>2. report.data = LRange(m.data, start, end)
      BY <1>3, Zenon
    <3> HIDE DEF end
    <3>3. \A j \in 1..Len(LRange(m.data, start, end)) :
               /\ start + j \in 1..Len(m.data)
               /\ LRange(m.data, start, end)[j] = m.data[start + j]
      BY <3>1, <1>4, WindowPoints, Zenon
    <3> QED BY <3>2, <3>3, Zenon
  <2>2. i \in Int /\ m.prevTS - (start + i) = m.prevTS - start - i
    BY <1>3, <1>4
  <2>3. m.data[start + i] = count[m.prevTS - (start + i)]
    BY <1>4, <2>1, Zenon
  <2> QED BY <2>1, <2>2, <2>3, Zenon
<1> QED BY <1>4, <1>5, <1>6, Zenon DEF report, m, count

-----------------------------------------------------------------------------
(* Counts and ListJobs *)

\* fetchJobs skips none when every job exists.
LEMMA AllExist ==
  ASSUME NEW l \in Seq(Job), Range(l) \subseteq hash
  PROVE  Existing(l) = l
BY Zenon DEF Existing

\* Turning a list round.
LEMMA TurnedRound ==
  ASSUME NEW l \in Seq(Job)
  PROVE  /\ Reversed(l) \in Seq(Job) /\ Len(Reversed(l)) = Len(l)
         /\ \A i \in 1..Len(l) : Len(l) + 1 - i \in 1..Len(l) /\ Reversed(l)[i] = l[Len(l) + 1 - i]
         /\ Range(Reversed(l)) \subseteq Range(l)
<1>1. Len(l) \in Nat /\ DOMAIN l = 1..Len(l) /\ \A i \in 1..Len(l) : l[i] \in Job
  OBVIOUS
<1>2. \A i \in 1..Len(l) : Len(l) + 1 - i \in 1..Len(l)
  BY <1>1
<1>3. Reversed(l) \in Seq(Job) /\ Len(Reversed(l)) = Len(l) /\ DOMAIN Reversed(l) = 1..Len(l)
  BY <1>1, <1>2 DEF Reversed
<1>4. \A i \in 1..Len(l) : Reversed(l)[i] = l[Len(l) + 1 - i]
  BY Zenon DEF Reversed
<1> QED BY <1>1, <1>2, <1>3, <1>4, Zenon DEF Range

\* The window from 0 to -1 is the whole list, in both orders.
LEMMA WholeList ==
  ASSUME NEW l \in Seq(Job), NEW asc \in BOOLEAN
  PROVE  LET ids == ListedIds(l, 0, -1, asc)
         IN  ids \in Seq(Job) /\ Len(ids) = Len(l) /\ Range(ids) \subseteq Range(l)
<1>1. LRange(l, 0, -1) = l
  <2>1. Len(l) \in Nat
    OBVIOUS
  <2>2. CASE Len(l) = 0
    <3>1. l = <<>> /\ 0 > Len(l) + (-1) /\ 0 >= 0 /\ ~(-1 >= 0)
      BY <2>2
    <3> QED BY <3>1, Zenon DEF LRange
  <2>3. CASE Len(l) # 0
    <3>1. ~(0 > Len(l) + (-1)) /\ 0 >= 0 /\ ~(-1 >= 0)
      BY <2>1, <2>3
    <3>2. LRange(l, 0, -1) = SubSeq(l, 0 + 1, Len(l) + (-1) + 1)
      BY <3>1, Zenon DEF LRange
    <3>3. 0 + 1 = 1 /\ Len(l) + (-1) + 1 = Len(l)
      BY <2>1
    <3>4. SubSeq(l, 1, Len(l)) = l
      BY <2>1
    <3> QED BY <3>2, <3>3, <3>4, Zenon
  <2> QED BY <2>2, <2>3, Zenon
<1>2. Ranges(l, 0, -1, asc) = l
  <2>1. -(0 + 1) = -1 /\ 0 # -1
    OBVIOUS
  <2> QED BY <1>1, <2>1, Zenon DEF Ranges
<1> QED BY <1>2, TurnedRound, Zenon DEF ListedIds

\* An ascending page holds the entries that come after the given number of oldest
\* ones, oldest first.
LEMMA PageOf ==
  ASSUME NEW l \in Seq(Job), NEW start \in Nat, NEW size \in Nat \ {0}
  PROVE  LET ids == ListedIds(l, start, start + size - 1, TRUE)
         IN  /\ ids \in Seq(Job)
             /\ Len(ids) = IF Len(l) <= start THEN 0 ELSE Smaller(size, Len(l) - start)
             /\ \A i \in 1..Len(ids) : ids[i] = l[Len(l) + 1 - (start + i)]
<1> DEFINE ids == ListedIds(l, start, start + size - 1, TRUE)
           from == -(start + size - 1 + 1)
           to == -(start + 1)
           low == IF Len(l) + from > 0 THEN Len(l) + from ELSE 0
           high == Len(l) + to
           part == IF low > high THEN <<>> ELSE SubSeq(l, low + 1, high + 1)
<1>1. /\ Len(l) \in Nat /\ start + size - 1 # -1 /\ start # -1
      /\ ~(from >= 0) /\ ~(to >= 0)
  OBVIOUS
<1>2. Ranges(l, start, start + size - 1, TRUE) = part
  BY <1>1, Zenon DEF Ranges, LRange
<1>3. ids = Reversed(part)
  BY <1>2, Zenon DEF ListedIds
<1>4. CASE Len(l) <= start
  <2>1. low > high
    BY <1>1, <1>4
  <2>2. part = <<>>
    BY <2>1, Zenon
  <2>3. <<>> \in Seq(Job) /\ Len(<<>>) = 0
    OBVIOUS
  <2>4. ids \in Seq(Job) /\ Len(ids) = 0
    BY <1>3, <2>2, <2>3, TurnedRound, Zenon
  <2>5. 1..0 = {}
    OBVIOUS
  <2> QED BY <2>4, <2>5, <1>4, Zenon
<1>5. CASE ~(Len(l) <= start)
  <2>1. /\ high \in Nat /\ high + 1 = Len(l) - start /\ high + 1 <= Len(l)
        /\ Len(l) + from = high + 1 - size
    BY <1>1, <1>5
  <2>2. /\ ~(low > high) /\ low \in Nat /\ low <= high
        /\ high + 1 - low = IF size <= Len(l) - start THEN size ELSE Len(l) - start
    <3> HIDE DEF high, from
    <3> QED BY <2>1
  <2>3. part = SubSeq(l, low + 1, high + 1)
    BY <2>2, Zenon
  <2> HIDE DEF part, low, high
  <2>4. part \in Seq(Job) /\ Len(part) = high + 1 - low
    BY <2>1, <2>2, <2>3
  <2>5. \A i \in 1..(high + 1 - low) : part[i] = l[low + i]
    BY <2>1, <2>2, <2>3
  <2>6. /\ ids \in Seq(Job) /\ Len(ids) = high + 1 - low
        /\ \A i \in 1..(high + 1 - low) :
             /\ high + 1 - low + 1 - i \in 1..(high + 1 - low)
             /\ ids[i] = part[high + 1 - low + 1 - i]
    BY <1>3, <2>4, TurnedRound, Zenon
  <2>7. \A i \in 1..(high + 1 - low) :
          low + (high + 1 - low + 1 - i) = Len(l) + 1 - (start + i)
    BY <2>1, <2>2, <1>1
  <2> QED BY <1>5, <2>1, <2>2, <2>5, <2>6, <2>7, ZenonT(30) DEF Smaller
<1> QED BY <1>4, <1>5, Zenon

\* The fields of the reader.
Reading ==
  DOMAIN reader = {"pc", "counts", "waiting", "bucket", "source", "ids", "list", "page",
                   "first", "same", "grown"}

\* How many jobs ListJobs has for a bucket.
Listed(bucket) ==
  IF bucket = "paused" /\ legacy = <<>> THEN IF paused THEN Len(wait) ELSE 0
  ELSE Len(ListAt(bucket))

Listable == {"wait", "active", "paused"}

\* As long as nothing has happened since Counts: the first round trip has found the
\* lengths of the lists, the second one leaves what ListJobs will find, and each
\* round trip of ListJobs keeps to it.
Agreeing ==
  reader.same =>
    /\ reader.pc = "counting" =>
         /\ legacy = <<>> /\ reader.waiting = Len(wait) /\ "paused" \in DOMAIN reader.counts
         /\ \A b \in Listable \ {"paused"} :
              b \in DOMAIN reader.counts => reader.counts[b] = Listed(b)
    /\ reader.pc \in {"counted", "asking", "ranging", "fetching", "listed"} =>
         \A b \in Listable : b \in DOMAIN reader.counts => reader.counts[b] = Listed(b)
    /\ reader.pc \in {"asking", "ranging", "fetching", "listed"} => reader.bucket \in Listable
    /\ reader.pc \in {"asking", "ranging", "fetching"} => reader.list = <<>>
    /\ reader.pc = "asking" => reader.bucket = "paused" /\ legacy = <<>>
    /\ reader.pc = "ranging" =>
         reader.source \in Listable /\ Len(ListAt(reader.source)) = Listed(reader.bucket)
    /\ reader.pc = "fetching" =>
         /\ reader.ids \in Seq(Job) /\ Range(reader.ids) \subseteq hash
         /\ Len(reader.ids) = Listed(reader.bucket)
    /\ reader.pc = "listed" => Len(reader.list) = Listed(reader.bucket)

AgreeingInv == Reading /\ Agreeing

\* What was listed is what was counted.
LEMMA AgreeFromInv == AgreeingInv => CountsAndListAgree
BY Zenon DEF AgreeingInv, Agreeing, CountsAndListAgree

\* The start: nothing was counted.
LEMMA AgreeingInit == Init => AgreeingInv
<1> SUFFICES ASSUME Init PROVE AgreeingInv
  BY Zenon
<1>1. reader.pc = "idle" /\ Reading
  BY DEF Init, Reading
<1> QED BY <1>1 DEF AgreeingInv, Agreeing

\* Every job of a list exists.
LEMMA ListedExist ==
  ASSUME Queue, NEW bucket
  PROVE  ListAt(bucket) \in Seq(Job) /\ Range(ListAt(bucket)) \subseteq hash
<1>1. wait \in Seq(Job) /\ legacy \in Seq(Job) /\ active \in Seq(Job)
  BY Zenon DEF Queue, Lists, NoDup
<1>2. /\ Range(wait) \subseteq Job /\ Range(legacy) \subseteq Job /\ Range(active) \subseteq Job
  BY <1>1, RangeOfJobs, Zenon
<1>3. Range(wait) \subseteq hash /\ Range(legacy) \subseteq hash /\ Range(active) \subseteq hash
  BY <1>2, Zenon DEF Queue, Alone
<1> QED BY <1>1, <1>3, Zenon DEF ListAt

\* The first round trip of Counts.
LEMMA CountsAgrees ==
  ASSUME AgreeingInv, Queue, NEW buckets, Counts(buckets)
  PROVE  AgreeingInv'
<1> DEFINE query == buckets \cup (IF "paused" \in buckets THEN {"wait"} ELSE {})
           count == [b \in query |-> Length(b)]
           counting == "paused" \in buckets /\ count["paused"] = 0
<1>1. /\ Reading' /\ reader'.same = TRUE
      /\ reader'.counts = [b \in buckets |-> count[b]]
      /\ reader'.waiting = IF "wait" \in query THEN count["wait"] ELSE 0
      /\ reader'.pc = IF counting THEN "counting" ELSE "counted"
  BY SMTT(30) DEF Counts, AgreeingInv, Reading
<1>2. UNCHANGED <<wait, legacy, active, paused>>
  BY Zenon DEF Counts, ReadSteps, queue
<1>3. \A b \in Listable : b \in buckets => reader'.counts[b] = Len(ListAt(b))
  BY <1>1, Zenon DEF Length, Listable
<1>4. DOMAIN reader'.counts = buckets
  BY <1>1, Zenon
<1>5. legacy \in Seq(Job)
  BY Zenon DEF Queue, Lists, NoDup
<1>6. legacy = <<>> <=> Len(legacy) = 0
  BY <1>5
<1>7. ListAt("paused") = legacy /\ ListAt("wait") = wait
  BY Zenon DEF ListAt
<1>8. "paused" \in buckets =>
        count["paused"] = Len(legacy) /\ count["wait"] = Len(wait) /\ "wait" \in query
  BY <1>7, Zenon DEF Length
<1>9. \A b : Listed(b)' = Listed(b)
  BY <1>2, Zenon DEF Listed, ListAt
<1>10. \A b \in Listable \ {"paused"} : Listed(b) = Len(ListAt(b))
  BY Zenon DEF Listed
<1> HIDE DEF query, count
<1>11. CASE counting
  <2>1. legacy' = <<>> /\ reader'.waiting = Len(wait)' /\ "paused" \in DOMAIN reader'.counts
    BY <1>11, <1>1, <1>2, <1>4, <1>6, <1>8, Zenon
  <2>2. reader'.pc = "counting"
    BY <1>1, <1>11, Zenon
  <2> QED BY <1>1, <2>1, <2>2, <1>3, <1>4, <1>9, <1>10, Zenon
             DEF AgreeingInv, Agreeing, Listable
<1>12. CASE ~counting
  <2>1. "paused" \in buckets => legacy # <<>>
    BY <1>12, <1>6, <1>8, Zenon
  <2>2. \A b \in Listable : b \in buckets => Listed(b) = Len(ListAt(b))
    BY <2>1, Zenon DEF Listed
  <2>3. reader'.pc = "counted"
    BY <1>1, <1>12, Zenon
  <2> QED BY <1>1, <2>2, <2>3, <1>3, <1>4, <1>9, Zenon DEF AgreeingInv, Agreeing
<1> QED BY <1>11, <1>12, Zenon

\* The second round trip of Counts.
LEMMA CountsPausedAgrees ==
  ASSUME AgreeingInv, CountsIsPaused
  PROVE  AgreeingInv'
<1>1. /\ reader.pc = "counting" /\ reader'.pc = "counted" /\ Reading'
      /\ reader'.counts = [reader.counts EXCEPT !["paused"] = IF paused THEN reader.waiting ELSE 0]
      /\ reader'.same = reader.same
  BY SMTT(30) DEF CountsIsPaused, AgreeingInv, Reading
<1>2. UNCHANGED <<wait, legacy, active, paused>>
  BY Zenon DEF CountsIsPaused, ReadSteps, queue
<1>3. SUFFICES ASSUME reader.same
               PROVE  \A b \in Listable :
                        b \in DOMAIN reader'.counts => reader'.counts[b] = Listed(b)'
  BY <1>1, Zenon DEF AgreeingInv, Agreeing
<1>4. /\ legacy = <<>> /\ reader.waiting = Len(wait) /\ "paused" \in DOMAIN reader.counts
      /\ \A b \in Listable \ {"paused"} :
           b \in DOMAIN reader.counts => reader.counts[b] = Listed(b)
  BY <1>1, <1>3, Zenon DEF AgreeingInv, Agreeing
<1>5. \A b : Listed(b)' = Listed(b)
  BY <1>2, Zenon DEF Listed, ListAt
<1>6. Listed("paused") = IF paused THEN reader.waiting ELSE 0
  BY <1>4, Zenon DEF Listed
<1>7. /\ DOMAIN reader'.counts = DOMAIN reader.counts
      /\ reader'.counts["paused"] = Listed("paused")
      /\ \A b \in DOMAIN reader.counts \ {"paused"} : reader'.counts[b] = reader.counts[b]
  BY <1>1, <1>4, <1>6, Zenon
<1> QED BY <1>4, <1>5, <1>7, Zenon

\* The round trips of ListJobs up to the ids.
LEMMA ListingAgrees ==
  ASSUME AgreeingInv, Queue,
         ListIsPaused \/ GetRanges \/ \E bucket \in {"wait", "active", "paused"} : ListJobs(bucket)
  PROVE  AgreeingInv'
<1>1. UNCHANGED <<wait, legacy, active, paused, hash>>
  BY Zenon DEF ListIsPaused, GetRanges, ListJobs, ReadSteps, queue
<1>2. (\A b : Listed(b)' = Listed(b)) /\ \A b : ListAt(b)' = ListAt(b)
  BY <1>1, Zenon DEF Listed, ListAt
<1>3. CASE ListIsPaused
  <2>1. /\ reader.pc = "asking" /\ reader'.pc = IF paused THEN "ranging" ELSE "listed"
        /\ reader'.source = "wait" /\ reader'.counts = reader.counts /\ Reading'
        /\ reader'.bucket = reader.bucket /\ reader'.list = reader.list
        /\ reader'.same = reader.same
    BY <1>3, SMTT(30) DEF ListIsPaused, AgreeingInv, Reading
  <2>2. SUFFICES ASSUME reader.same PROVE Agreeing'
    BY <2>1, Zenon DEF AgreeingInv, Agreeing
  <2>3. /\ reader.list = <<>> /\ reader.bucket = "paused" /\ legacy = <<>>
        /\ \A b \in Listable : b \in DOMAIN reader.counts => reader.counts[b] = Listed(b)
    BY <2>1, <2>2, Zenon DEF AgreeingInv, Agreeing
  <2>4. /\ paused => Listed("paused") = Len(ListAt("wait"))
        /\ ~paused => Listed("paused") = 0
    BY <2>3, Zenon DEF Listed, ListAt
  <2>5. Len(<<>>) = 0
    OBVIOUS
  <2> QED BY <2>1, <2>3, <2>4, <2>5, <1>2, ZenonT(30) DEF Agreeing, Listable
<1>4. CASE GetRanges
  <2>1. PICK asc \in BOOLEAN :
          reader' = [reader EXCEPT !.ids = ListedIds(ListAt(reader.source), 0, -1, asc),
                       !.pc = IF ListedIds(ListAt(reader.source), 0, -1, asc) = <<>>
                                THEN "listed" ELSE "fetching"]
    BY <1>4, Zenon DEF GetRanges
  <2> DEFINE ids == ListedIds(ListAt(reader.source), 0, -1, asc)
  <2>2. reader.pc = "ranging"
    BY <1>4, Zenon DEF GetRanges
  <2> HIDE DEF ids
  <2>3. reader' = [reader EXCEPT !.ids = ids, !.pc = IF ids = <<>> THEN "listed" ELSE "fetching"]
    BY <2>1, Zenon DEF ids
  <2>4. /\ reader'.ids = ids /\ reader'.pc = IF ids = <<>> THEN "listed" ELSE "fetching"
        /\ reader'.counts = reader.counts /\ Reading'
        /\ reader'.bucket = reader.bucket /\ reader'.list = reader.list
        /\ reader'.same = reader.same
    BY <2>3, SMTT(30) DEF AgreeingInv, Reading
  <2>5. SUFFICES ASSUME reader.same PROVE Agreeing'
    BY <2>4, Zenon DEF AgreeingInv, Agreeing
  <2>6. /\ reader.list = <<>> /\ reader.bucket \in Listable
        /\ Len(ListAt(reader.source)) = Listed(reader.bucket)
        /\ \A b \in Listable : b \in DOMAIN reader.counts => reader.counts[b] = Listed(b)
    BY <2>2, <2>5, Zenon DEF AgreeingInv, Agreeing
  <2>7. ids \in Seq(Job) /\ Len(ids) = Listed(reader.bucket) /\ Range(ids) \subseteq hash
    BY <2>6, ListedExist, WholeList, Zenon DEF ids
  <2>8. Len(<<>>) = 0
    OBVIOUS
  <2> QED BY <2>4, <2>6, <2>7, <2>8, <1>1, <1>2, ZenonT(30) DEF Agreeing
<1>5. ASSUME NEW bucket \in {"wait", "active", "paused"}, ListJobs(bucket) PROVE AgreeingInv'
  <2>1. /\ reader.pc = "counted" /\ reader'.bucket = bucket /\ reader'.source = Source(bucket)
        /\ reader'.list = <<>>
        /\ reader'.pc = IF Source(bucket) = "flag" THEN "asking" ELSE "ranging"
        /\ reader'.counts = reader.counts /\ reader'.same = reader.same /\ Reading'
    BY <1>5, SMTT(30) DEF ListJobs, AgreeingInv, Reading
  <2>2. SUFFICES ASSUME reader.same PROVE Agreeing'
    BY <2>1, Zenon DEF AgreeingInv, Agreeing
  <2>3. \A b \in Listable : b \in DOMAIN reader.counts => reader.counts[b] = Listed(b)
    BY <2>1, <2>2, Zenon DEF AgreeingInv, Agreeing
  <2>4. IF Source(bucket) = "flag" THEN bucket = "paused" /\ legacy = <<>>
        ELSE Source(bucket) \in Listable /\ Len(ListAt(Source(bucket))) = Listed(bucket)
    BY Zenon DEF Source, Listed, Listable, ListAt
  <2> QED BY <2>1, <2>3, <2>4, <1>1, <1>2, ZenonT(30) DEF Agreeing, Listable
<1> QED BY <1>3, <1>4, <1>5, Zenon

\* The last round trip of ListJobs.
LEMMA FetchAgrees ==
  ASSUME AgreeingInv, FetchJobs
  PROVE  AgreeingInv'
<1>1. UNCHANGED <<wait, legacy, active, paused, hash>>
  BY Zenon DEF FetchJobs, ReadSteps, queue
<1>2. \A b : Listed(b)' = Listed(b)
  BY <1>1, Zenon DEF Listed, ListAt
<1>3. /\ reader.pc \in {"fetching", "fetchingPage"}
      /\ reader'.pc = IF reader.pc = "fetching" THEN "listed"
                      ELSE IF Existing(reader.ids) = <<>> THEN "walked" ELSE "walking"
      /\ reader'.list = reader.list \o Existing(reader.ids)
      /\ reader'.counts = reader.counts /\ reader'.bucket = reader.bucket
      /\ reader'.same = reader.same /\ Reading'
  BY SMTT(30) DEF FetchJobs, AgreeingInv, Reading
<1>4. CASE reader.pc = "fetchingPage"
  BY <1>3, <1>4, Zenon DEF AgreeingInv, Agreeing
<1>5. CASE reader.pc = "fetching"
  <2>1. SUFFICES ASSUME reader.same PROVE Agreeing'
    BY <1>3, Zenon DEF AgreeingInv, Agreeing
  <2>2. /\ reader.list = <<>> /\ reader.bucket \in Listable
        /\ reader.ids \in Seq(Job) /\ Range(reader.ids) \subseteq hash
        /\ Len(reader.ids) = Listed(reader.bucket)
        /\ \A b \in Listable : b \in DOMAIN reader.counts => reader.counts[b] = Listed(b)
    BY <1>5, <2>1, Zenon DEF AgreeingInv, Agreeing
  <2>3. reader'.list = <<>> \o reader.ids
    BY <1>3, <2>2, AllExist, Zenon
  <2>4. Len(reader'.list) = Len(reader.ids)
    BY <2>2, <2>3
  <2> QED BY <1>2, <1>3, <1>5, <2>2, <2>4, ZenonT(30) DEF Agreeing
<1> QED BY <1>3, <1>4, <1>5, Zenon

\* The reader notices that a job finished.
LEMMA FinishDisturbs == \A j \in Job : RunMoveToFinished(j) => Disturbs(FALSE)
<1>1. ASSUME NEW j, NEW to, NEW exhausted, NEW keep, NEW dropped, NEW fetchNext, NEW timestamp,
             MoveToFinished(j, to, exhausted, keep, dropped, fetchNext, timestamp)
      PROVE  Disturbs(FALSE)
  BY <1>1, Zenon DEF MoveToFinished
<1> QED BY <1>1, Zenon DEF RunMoveToFinished

\* A script that moves jobs, pauses or resumes is noticed.
LEMMA DisturbedAgrees ==
  ASSUME AgreeingInv, NEW pushed, Disturbs(pushed)
  PROVE  AgreeingInv'
<1>1. reader'.same = FALSE /\ Reading'
  BY SMTT(30) DEF Disturbs, AgreeingInv, Reading
<1> QED BY <1>1, Zenon DEF AgreeingInv, Agreeing

\* Every step.
LEMMA AgreeingStep == AgreeingInv /\ Queue /\ [Next]_vars => AgreeingInv'
<1> SUFFICES ASSUME AgreeingInv, Queue, [Next]_vars PROVE AgreeingInv'
  BY Zenon
<1>1. ASSUME UNCHANGED <<reader, wait, legacy, active, paused, hash>> PROVE AgreeingInv'
  BY <1>1, ZenonT(30) DEF AgreeingInv, Reading, Agreeing, Listed, ListAt
<1>2. CASE Scripts
  <2>1. ASSUME NEW j \in Job, NEW lifo \in BOOLEAN, AddStandardJob(j, lifo) \/ RetryJob(j, lifo)
        PROVE  AgreeingInv'
    BY <2>1, DisturbedAgrees, Zenon DEF AddStandardJob, RetryJob
  <2>2. ASSUME NEW j \in Job, MoveStalledJobToWait(j) \/ RemoveJob(j) PROVE AgreeingInv'
    BY <2>2, DisturbedAgrees, Zenon DEF MoveStalledJobToWait, RemoveJob
  <2>3. ASSUME NEW j \in Job, UpdateProgress(j) PROVE AgreeingInv'
    BY <2>3, <1>1, Zenon DEF UpdateProgress, queue
  <2>4. ASSUME NEW j \in Job, RunMoveToFinished(j) PROVE AgreeingInv'
    BY <2>4, FinishDisturbs, DisturbedAgrees, Zenon
  <2>5. CASE MoveToActive \/ DrainPending \/ Pause \/ Resume
    BY <2>5, DisturbedAgrees, Zenon DEF MoveToActive, DrainPending, Pause, Resume
  <2> QED BY <1>2, <2>1, <2>2, <2>3, <2>4, <2>5, ZenonT(30) DEF Scripts
<1>3. CASE MinutePasses \/ Subscribe \/ SubscribeRuns \/ Close \/ Cancel \/ UNCHANGED vars
  BY <1>3, <1>1, Zenon DEF MinutePasses, Subscribe, SubscribeRuns, LoopSelect, XReadArrives,
                    XReadTimesOut, XReadFails, Deliver, Close, Cancel, SubSteps, vars, queue
<1>4. CASE Reads
  <2>1. CASE GetPage
    <3>1. Reading' /\ reader'.pc = "fetchingPage"
      BY <2>1, SMTT(30) DEF GetPage, AgreeingInv, Reading
    <3> QED BY <3>1, Zenon DEF AgreeingInv, Agreeing
  <2> QED BY <1>4, <2>1, CountsAgrees, CountsPausedAgrees, ListingAgrees, FetchAgrees, Zenon
             DEF Reads
<1> QED BY <1>2, <1>3, <1>4, Zenon DEF Next

-----------------------------------------------------------------------------
(* The pages *)

\* the job that k - 1 jobs of wait are older than
Oldest(k) == wait[Len(wait) + 1 - k]

Begin == reader.page * PageSize

\* What was there at first are the oldest jobs of wait; what was listed are jobs
\* from before the next page, each once and beginning with those that were there at
\* first, of which none is missing.
Walk ==
  /\ reader.first \in Seq(Job) /\ Len(reader.first) <= Len(wait)
  /\ \A i \in 1..Len(reader.first) : reader.first[i] = Oldest(i)
  /\ NoDup(reader.list)
  /\ \A i \in 1..Len(reader.list) : i <= Len(reader.first) => reader.list[i] = reader.first[i]
  /\ \A i \in 1..Len(reader.list) :
       \E k \in 1..Len(wait) : k <= Begin /\ reader.list[i] = Oldest(k)
  /\ IF Begin <= Len(reader.first) THEN Len(reader.list) = Begin
     ELSE Len(reader.list) >= Len(reader.first)

\* The page that was read holds the jobs from its beginning on, and is full unless
\* it reaches the end of what was there at first.
Page ==
  /\ reader.ids \in Seq(Job) /\ Len(reader.ids) <= PageSize
  /\ \A i \in 1..Len(reader.ids) : Begin + i <= Len(wait) /\ reader.ids[i] = Oldest(Begin + i)
  /\ Len(reader.ids) = PageSize \/ Begin + Len(reader.ids) >= Len(reader.first)

PagingInv ==
  /\ Reading /\ reader.page \in Nat /\ reader.grown \in BOOLEAN
  /\ reader.pc = "idle" => reader.page = 0 /\ reader.list = <<>>
  /\ reader.grown /\ reader.pc \in {"walking", "fetchingPage", "walked"} => Walk
  /\ reader.grown /\ reader.pc = "fetchingPage" => Page
  /\ reader.grown /\ reader.pc = "walked" => Len(reader.list) >= Len(reader.first)

\* A list that agrees with a shorter one on the length of that begins with it.
LEMMA BeginsWith ==
  ASSUME NEW l \in Seq(Job), NEW f \in Seq(Job), Len(l) >= Len(f),
         \A i \in 1..Len(l) : i <= Len(f) => l[i] = f[i]
  PROVE  SubSeq(l, 1, Len(f)) = f
<1>1. Len(l) \in Nat /\ Len(f) \in Nat /\ DOMAIN f = 1..Len(f)
  OBVIOUS
<1>2. \A i \in 1..Len(f) : i \in 1..Len(l) /\ i <= Len(f)
  BY <1>1
<1>3. \A i \in 1..Len(f) : l[i] = f[i]
  BY <1>2, Zenon
<1>4. SubSeq(l, 1, Len(f)) = [i \in 1..Len(f) |-> l[i]]
  BY <1>1
<1>5. f = [i \in 1..Len(f) |-> f[i]]
  BY <1>1
<1> QED BY <1>3, <1>4, <1>5, Zenon

\* A walk that is over has listed what was there at first.
LEMMA TileFromInv == PagingInv => PagesTile
<1> SUFFICES ASSUME PagingInv, reader.pc = "walked", reader.grown
             PROVE  /\ Len(reader.list) >= Len(reader.first)
                    /\ SubSeq(reader.list, 1, Len(reader.first)) = reader.first
                    /\ IsInjective(reader.list)
  BY Zenon DEF PagesTile
<1>1. Walk /\ Len(reader.list) >= Len(reader.first)
  BY Zenon DEF PagingInv
<1> QED BY <1>1, BeginsWith, Zenon DEF Walk, NoDup

\* The start: no page was read.
LEMMA PagingInit == Init => PagingInv
<1> SUFFICES ASSUME Init PROVE PagingInv
  BY Zenon
<1>1. reader.pc = "idle" /\ Reading /\ reader.page = 0 /\ reader.list = <<>> /\ reader.grown = TRUE
  BY DEF Init, Reading
<1>2. 0 \in Nat
  OBVIOUS
<1> QED BY <1>1, <1>2, ZenonT(30) DEF PagingInv

\* Positions counted from the end of a list.
LEMMA FromEnd ==
  ASSUME NEW n \in Nat, NEW k \in 1..n
  PROVE  n + 1 - k \in 1..n /\ \A m \in 1..n : n + 1 - k = n + 1 - m => k = m
OBVIOUS

\* Every job of wait has one age.
LEMMA OldestOnce ==
  ASSUME Queue, NEW k \in 1..Len(wait)
  PROVE  /\ Oldest(k) \in Range(wait)
         /\ \A m \in 1..Len(wait) : Oldest(m) = Oldest(k) => m = k
<1>1. wait \in Seq(Job) /\ IsInjective(wait)
  BY Zenon DEF Queue, Lists, NoDup
<1>2. Len(wait) \in Nat /\ DOMAIN wait = 1..Len(wait)
  BY <1>1
<1>3. \A m \in 1..Len(wait) : Len(wait) + 1 - m \in 1..Len(wait)
  BY <1>2, FromEnd, Zenon
<1>4. ASSUME NEW m \in 1..Len(wait), Oldest(m) = Oldest(k) PROVE m = k
  <2>1. Len(wait) + 1 - m = Len(wait) + 1 - k
    BY <1>1, <1>2, <1>3, <1>4, Zenon DEF Oldest, IsInjective
  <2> QED BY <2>1, <1>2, FromEnd, Zenon
<1>5. Oldest(k) \in Range(wait)
  BY <1>2, <1>3, Zenon DEF Oldest, Range
<1> QED BY <1>4, <1>5, Zenon

\* A push to the head leaves the older jobs their places.
LEMMA PushKeepsOldest ==
  ASSUME wait \in Seq(Job), wait' = wait \/ \E j \in Job : wait' = <<j>> \o wait
  PROVE  /\ Len(wait) \in Nat /\ Len(wait)' \in Nat /\ Len(wait) <= Len(wait)'
         /\ \A k \in 1..Len(wait) : Oldest(k)' = Oldest(k)
<1>1. Len(wait) \in Nat
  OBVIOUS
<1>2. CASE wait' = wait
  BY <1>1, <1>2 DEF Oldest
<1>3. ASSUME NEW j \in Job, wait' = <<j>> \o wait
      PROVE  /\ Len(wait) \in Nat /\ Len(wait)' \in Nat /\ Len(wait) <= Len(wait)'
             /\ \A k \in 1..Len(wait) : Oldest(k)' = Oldest(k)
  <2>1. Len(wait') = Len(wait) + 1
    BY <1>3
  <2>2. \A i \in 1..Len(wait) : wait'[i + 1] = wait[i]
    BY <1>3
  <2>3. \A k \in 1..Len(wait) :
          Len(wait) + 1 - k \in 1..Len(wait) /\ Len(wait) + 1 + 1 - k = (Len(wait) + 1 - k) + 1
    BY <1>1
  <2>4. \A k \in 1..Len(wait) : wait'[Len(wait) + 1 + 1 - k] = wait[Len(wait) + 1 - k]
    BY <2>2, <2>3, Zenon
  <2>5. \A k \in 1..Len(wait) : Oldest(k)' = Oldest(k)
    BY <2>1, <2>4, Zenon DEF Oldest
  <2> QED BY <1>1, <2>1, <2>5
<1> QED BY <1>2, <1>3, Zenon

\* A script that only pushes leaves the walk as it is.
LEMMA PushedOnly ==
  ASSUME PagingInv, wait \in Seq(Job), wait' = wait \/ \E j \in Job : wait' = <<j>> \o wait,
         NEW pushed, Disturbs(pushed) \/ reader' = reader
  PROVE  PagingInv'
<1>1. /\ Reading' /\ reader'.grown \in BOOLEAN /\ (reader'.grown => reader.grown)
      /\ reader'.pc = reader.pc /\ reader'.page = reader.page /\ reader'.list = reader.list
      /\ reader'.first = reader.first /\ reader'.ids = reader.ids
  <2>1. CASE reader' = reader
    BY <2>1, Zenon DEF PagingInv, Reading
  <2>2. CASE Disturbs(pushed)
    BY <2>2, SMTT(30) DEF Disturbs, PagingInv, Reading
  <2> QED BY <2>1, <2>2, Zenon
<1>2. /\ Len(wait) \in Nat /\ Len(wait)' \in Nat /\ Len(wait) <= Len(wait)'
      /\ \A k \in 1..Len(wait) : Oldest(k)' = Oldest(k)
  BY PushKeepsOldest, Zenon
<1>3. \A k \in 1..Len(wait) : k \in 1..Len(wait')
  BY <1>2
<1>4. Begin' = Begin /\ Begin \in Nat
  <2>1. reader.page \in Nat /\ PageSize \in Nat
    BY ObserversAssumption, Zenon DEF PagingInv
  <2> QED BY <1>1, <2>1, SMTT(30) DEF Begin
<1>5. ASSUME Walk PROVE Walk'
  <2>1. Len(reader.first) <= Len(wait') /\ \A i \in 1..Len(reader.first) : i \in 1..Len(wait)
    BY <1>2, <1>5 DEF Walk
  <2>2. \A i \in 1..Len(reader.first) : reader.first[i] = Oldest(i)'
    BY <1>2, <1>5, <2>1, Zenon DEF Walk
  <2>3. \A i \in 1..Len(reader.list) :
          \E k \in 1..Len(wait') : k <= Begin /\ reader.list[i] = Oldest(k)'
    BY <1>2, <1>3, <1>5, Zenon DEF Walk
  <2> QED BY <1>1, <1>4, <1>5, <2>1, <2>2, <2>3, ZenonT(30) DEF Walk
<1>6. ASSUME Page PROVE Page'
  <2>1. \A i \in 1..Len(reader.ids) : Begin + i \in 1..Len(wait) /\ Begin + i <= Len(wait')
    <3>1. \A b, m, n \in Nat : \A i \in Nat \ {0} :
            b + i <= m /\ m <= n => b + i \in 1..m /\ b + i <= n
      OBVIOUS
    <3>2. \A i \in 1..Len(reader.ids) : i \in Nat \ {0}
      BY <1>6 DEF Page
    <3> QED BY <1>2, <1>4, <1>6, <3>1, <3>2, Zenon DEF Page
  <2>2. \A i \in 1..Len(reader.ids) : reader.ids[i] = Oldest(Begin + i)'
    BY <1>2, <1>4, <1>6, <2>1, Zenon DEF Page
  <2> QED BY <1>1, <1>4, <1>6, <2>1, <2>2, Zenon DEF Page
<1> QED BY <1>1, <1>5, <1>6, Zenon DEF PagingInv

\* The next page begins where this one ends.
LEMMA NextBegins ==
  ASSUME NEW p \in Nat
  PROVE  p * PageSize \in Nat /\ (p + 1) * PageSize = p * PageSize + PageSize
BY ObserversAssumption, SMTT(30)

\* Reading the ids of a page.
LEMMA GetPageWalks ==
  ASSUME PagingInv, Queue, GetPage
  PROVE  PagingInv'
<1> DEFINE ids == ListedIds(wait, Begin, Begin + PageSize - 1, TRUE)
<1>1. wait \in Seq(Job) /\ Len(wait) \in Nat
  <2>1. wait \in Seq(Job)
    BY Zenon DEF Queue, Lists, NoDup
  <2> QED BY <2>1
<1>2. reader.page \in Nat /\ PageSize \in Nat \ {0} /\ Begin \in Nat
  BY ObserversAssumption, NextBegins, Zenon DEF PagingInv, Begin
<1>3. reader' = [reader EXCEPT !.pc = "fetchingPage", !.ids = ids,
                   !.first = IF reader.pc = "idle" THEN Reversed(wait) ELSE reader.first,
                   !.grown = reader.grown \/ reader.pc = "idle"]
  BY Zenon DEF GetPage, Begin
<1>4. UNCHANGED wait
  BY Zenon DEF GetPage, ReadSteps, queue
<1>5. /\ ids \in Seq(Job)
      /\ Len(ids) = IF Len(wait) <= Begin THEN 0 ELSE Smaller(PageSize, Len(wait) - Begin)
      /\ \A i \in 1..Len(ids) : ids[i] = wait[Len(wait) + 1 - (Begin + i)]
  BY <1>1, <1>2, PageOf, Zenon
<1> HIDE DEF ids
<1>6. /\ Reading' /\ reader'.pc = "fetchingPage" /\ reader'.ids = ids
      /\ reader'.first = IF reader.pc = "idle" THEN Reversed(wait) ELSE reader.first
      /\ reader'.grown \in BOOLEAN /\ (reader'.grown => reader.grown \/ reader.pc = "idle")
      /\ reader'.page = reader.page /\ reader'.list = reader.list
  BY <1>3, SMTT(30) DEF PagingInv, Reading
<1>7. Begin' = Begin /\ \A k : Oldest(k)' = Oldest(k)
  BY <1>4, <1>6, Zenon DEF Begin, Oldest
<1>8. ASSUME reader'.grown PROVE Walk'
  <2>1. CASE reader.pc = "idle"
    <3>1. reader.page = 0 /\ reader.list = <<>> /\ reader'.first = Reversed(wait)
      BY <1>6, <2>1, Zenon DEF PagingInv
    <3>2. /\ reader'.first \in Seq(Job) /\ Len(reader'.first) = Len(wait)
          /\ \A i \in 1..Len(wait) : reader'.first[i] = Oldest(i)
      BY <1>1, <3>1, TurnedRound, ZenonT(30) DEF Oldest
    <3>3. Begin = 0
      BY <1>2, <3>1, SMTT(30) DEF Begin
    <3>4. /\ Len(wait) <= Len(wait) /\ 0 <= Len(wait) /\ Len(<<>>) = 0 /\ 1..0 = {}
      BY <1>1
    <3> QED BY <1>4, <1>6, <1>7, <3>1, <3>2, <3>3, <3>4, NoDupEmpty, Zenon DEF Walk
  <2>2. CASE reader.pc # "idle"
    <3>1. Walk
      BY <1>6, <1>8, <2>2, Zenon DEF PagingInv, GetPage
    <3>2. reader'.first = reader.first
      BY <1>6, <2>2, Zenon
    <3> QED BY <1>4, <1>6, <1>7, <3>1, <3>2, Zenon DEF Walk
  <2> QED BY <2>1, <2>2, Zenon
<1>9. ASSUME reader'.grown PROVE Page'
  <2>1. Len(reader'.first) <= Len(wait) /\ Len(reader'.first) \in Nat
    <3>1. reader'.first \in Seq(Job) /\ Len(reader'.first) <= Len(wait)
      BY <1>4, <1>8, <1>9, Zenon DEF Walk
    <3> QED BY <3>1
  <2>2. \A i \in 1..Len(ids) : Begin + i <= Len(wait)
    BY <1>1, <1>2, <1>5, SMTT(30) DEF Smaller
  <2>3. Len(ids) <= PageSize /\ (Len(ids) = PageSize \/ Begin + Len(ids) >= Len(reader'.first))
    BY <1>1, <1>2, <1>5, <2>1, SMTT(30) DEF Smaller
  <2>4. \A i \in 1..Len(ids) : ids[i] = Oldest(Begin + i)
    BY <1>5, Zenon DEF Oldest
  <2> QED BY <1>4, <1>5, <1>6, <1>7, <2>2, <2>3, <2>4, Zenon DEF Page
<1> QED BY <1>2, <1>6, <1>8, <1>9, Zenon DEF PagingInv

\* Fetching the jobs of a page.
LEMMA FetchWalks ==
  ASSUME PagingInv, Queue, FetchJobs
  PROVE  PagingInv'
<1> DEFINE ids == reader.ids
           list == reader.list
           first == reader.first
<1>1. /\ reader.pc \in {"fetching", "fetchingPage"}
      /\ reader'.pc = IF reader.pc = "fetching" THEN "listed"
                      ELSE IF Existing(ids) = <<>> THEN "walked" ELSE "walking"
      /\ reader'.list = list \o Existing(ids) /\ reader'.page = reader.page + 1
      /\ reader'.first = first /\ reader'.grown = reader.grown /\ Reading'
  BY SMTT(30) DEF FetchJobs, PagingInv, Reading
<1>2. wait' = wait
  BY Zenon DEF FetchJobs, ReadSteps, queue
<1>3. /\ reader'.page \in Nat /\ Begin' = Begin + PageSize /\ Begin \in Nat
      /\ PageSize \in Nat \ {0}
  <2>1. reader.page \in Nat
    BY Zenon DEF PagingInv
  <2>2. reader.page + 1 \in Nat
    BY <2>1
  <2> QED BY <1>1, <2>1, <2>2, NextBegins, ObserversAssumption, Zenon DEF Begin
<1>4. CASE ~(reader.grown /\ reader.pc = "fetchingPage")
  BY <1>1, <1>3, <1>4, Zenon DEF PagingInv
<1>5. CASE reader.grown /\ reader.pc = "fetchingPage"
  <2>1. Walk /\ Page
    BY <1>5, Zenon DEF PagingInv
  <2>2. /\ ids \in Seq(Job) /\ list \in Seq(Job) /\ first \in Seq(Job) /\ NoDup(list)
    BY <2>1, Zenon DEF Walk, Page, NoDup
  <2> HIDE DEF ids, list, first
  <2>3. Len(ids) \in Nat /\ Len(list) \in Nat /\ Len(first) \in Nat /\ Len(wait) \in Nat
    <3>1. wait \in Seq(Job)
      BY Zenon DEF Queue, Lists, NoDup
    <3> QED BY <2>2, <3>1
  <2>4. \A i \in 1..Len(ids) :
          /\ Begin + i \in 1..Len(wait) /\ Begin + i > Begin /\ Begin + i <= Begin + PageSize
          /\ ids[i] = Oldest(Begin + i)
    <3>1. /\ Len(ids) <= PageSize
          /\ \A i \in 1..Len(ids) : Begin + i <= Len(wait) /\ ids[i] = Oldest(Begin + i)
      BY <2>1, Zenon DEF Page, ids
    <3> QED BY <1>3, <2>3, <3>1, SMTT(30)
  <2>5. Range(ids) \subseteq hash
    <3>1. Range(wait) \subseteq hash
      BY ListedExist, Zenon DEF ListAt
    <3>2. \A i \in 1..Len(ids) : ids[i] \in hash
      BY <2>4, <3>1, OldestOnce, Zenon
    <3> QED BY <2>2, <3>2 DEF Range
  <2>6. Existing(ids) = ids
    BY <2>2, <2>5, AllExist, Zenon
  <2>7. NoDup(ids)
    <3>1. \A a, b \in 1..Len(ids) : ids[a] = ids[b] => Begin + a = Begin + b
      BY <2>4, OldestOnce, Zenon
    <3>2. \A a, b \in 1..Len(ids) : Begin + a = Begin + b => a = b
      BY <1>3, <2>3
    <3>3. DOMAIN ids = 1..Len(ids)
      BY <2>2
    <3> QED BY <2>2, <3>1, <3>2, <3>3, Zenon DEF NoDup, IsInjective
  <2>8. \A i \in 1..Len(list) :
          \E k \in 1..Len(wait) : k <= Begin /\ list[i] = Oldest(k)
    BY <2>1, Zenon DEF Walk, list
  <2>9. Range(list) \cap Range(ids) = {}
    <3>1. ASSUME NEW i \in 1..Len(list), NEW m \in 1..Len(ids), list[i] = ids[m] PROVE FALSE
      <4>1. PICK k \in 1..Len(wait) : k <= Begin /\ list[i] = Oldest(k)
        BY <2>8, Zenon
      <4>2. k = Begin + m /\ Begin + m > Begin
        BY <2>4, <3>1, <4>1, OldestOnce, Zenon
      <4> QED BY <1>3, <4>1, <4>2
    <3>2. DOMAIN list = 1..Len(list) /\ DOMAIN ids = 1..Len(ids)
      BY <2>2
    <3> QED BY <3>1, <3>2, Zenon DEF Range
  <2> DEFINE new == list \o ids
  <2>10. NoDup(new)
    BY <2>2, <2>7, <2>9, NoDupConcat, Zenon
  <2>11. /\ Len(new) = Len(list) + Len(ids)
         /\ \A i \in 1..Len(list) : new[i] = list[i]
         /\ \A i \in (Len(list) + 1)..(Len(list) + Len(ids)) :
              i - Len(list) \in 1..Len(ids) /\ new[i] = ids[i - Len(list)]
    BY <2>2, SMTT(30)
  <2> HIDE DEF new
  <2>12. \A i \in 1..Len(new) :
           i \in 1..Len(list) \/ i \in (Len(list) + 1)..(Len(list) + Len(ids))
    BY <2>3, <2>11
  <2>13. /\ (IF Begin <= Len(first) THEN Len(list) = Begin ELSE Len(list) >= Len(first))
         /\ Len(ids) = PageSize \/ Begin + Len(ids) >= Len(first)
    BY <2>1, Zenon DEF Walk, Page, list, first, ids
  <2>14. \A i \in 1..Len(new) : i <= Len(first) => new[i] = first[i]
    <3> SUFFICES ASSUME NEW i \in 1..Len(new), i <= Len(first) PROVE new[i] = first[i]
      BY Zenon
    <3>1. CASE i \in 1..Len(list)
      BY <2>1, <2>11, <3>1, Zenon DEF Walk, list, first
    <3>2. CASE i \in (Len(list) + 1)..(Len(list) + Len(ids))
      <4>1. Len(list) = Begin /\ Begin + (i - Len(list)) = i /\ i \in 1..Len(first)
        BY <1>3, <2>3, <2>13, <3>2, SMTT(30)
      <4>2. new[i] = Oldest(i)
        BY <2>4, <2>11, <3>2, <4>1, Zenon
      <4>3. first[i] = Oldest(i)
        BY <2>1, <4>1, Zenon DEF Walk, first
      <4> QED BY <4>2, <4>3, Zenon
    <3> QED BY <2>12, <3>1, <3>2, Zenon
  <2>15. \A i \in 1..Len(new) :
           \E k \in 1..Len(wait) : k <= Begin + PageSize /\ new[i] = Oldest(k)
    <3>1. \A k \in 1..Len(wait) : k <= Begin => k <= Begin + PageSize
      BY <1>3, <2>3
    <3> QED BY <2>4, <2>8, <2>11, <2>12, <3>1, Zenon
  <2>16. IF Begin + PageSize <= Len(first) THEN Len(new) = Begin + PageSize
         ELSE Len(new) >= Len(first)
    <3>1. Len(ids) <= PageSize /\ Len(new) = Len(list) + Len(ids)
      BY <2>1, <2>11, Zenon DEF Page, ids
    <3>2. CASE Begin + PageSize <= Len(first)
      <4>1. Begin <= Len(first)
        BY <1>3, <2>3, <3>2, SMTT(30)
      <4>2. Len(list) = Begin
        BY <2>13, <4>1, Zenon
      <4>3. Len(ids) = PageSize
        BY <1>3, <2>3, <2>13, <3>1, <3>2, SMTT(30)
      <4> QED BY <3>1, <3>2, <4>2, <4>3, Zenon
    <3>3. CASE ~(Begin + PageSize <= Len(first))
      <4>1. Len(list) + Len(ids) >= Len(first)
        BY <1>3, <2>3, <2>13, <3>3, SMTT(30)
      <4> QED BY <3>1, <3>3, <4>1, Zenon
    <3> QED BY <3>2, <3>3, Zenon
  <2>17. Existing(ids) = <<>> => Len(new) >= Len(first)
    BY <1>3, <2>3, <2>6, <2>11, <2>13, SMTT(30)
  <2>18. Walk'
    <3>1. Len(first) <= Len(wait) /\ \A i \in 1..Len(first) : first[i] = Oldest(i)
      BY <2>1, Zenon DEF Walk, first
    <3>2. reader'.list = new /\ reader'.first = first /\ \A k : Oldest(k)' = Oldest(k)
      BY <1>1, <1>2, <2>6, Zenon DEF new, Oldest, ids, list, first
    <3> QED BY <1>2, <1>3, <2>2, <2>10, <2>14, <2>15, <2>16, <3>1, <3>2, ZenonT(30) DEF Walk
  <2>19. reader'.list = new /\ reader'.first = first
    BY <1>1, <2>6, Zenon DEF new, ids, list, first
  <2>20. reader'.pc = "walked" => Len(reader'.list) >= Len(reader'.first)
    BY <1>1, <1>5, <2>17, <2>19, Zenon DEF ids
  <2> QED BY <1>1, <1>3, <1>5, <2>18, <2>20, Zenon DEF PagingInv
<1> QED BY <1>4, <1>5, Zenon

\* A walk that jobs were taken from promises nothing.
LEMMA TakenFrom ==
  ASSUME PagingInv, Disturbs(FALSE)
  PROVE  PagingInv'
<1>1. ASSUME NEW pushed \in BOOLEAN, Disturbs(pushed)
      PROVE  /\ Reading' /\ reader'.grown \in BOOLEAN /\ (reader'.grown => pushed)
             /\ reader'.pc = reader.pc /\ reader'.page = reader.page /\ reader'.list = reader.list
  BY <1>1, SMTT(30) DEF Disturbs, PagingInv, Reading
<1>2. /\ Reading' /\ reader'.grown \in BOOLEAN /\ (reader'.grown => FALSE)
      /\ reader'.pc = reader.pc /\ reader'.page = reader.page /\ reader'.list = reader.list
  BY <1>1, Zenon
<1> QED BY <1>2, Zenon DEF PagingInv

\* Every step.
LEMMA PagingStep == PagingInv /\ Queue /\ [Next]_vars => PagingInv'
<1> SUFFICES ASSUME PagingInv, Queue, [Next]_vars PROVE PagingInv'
  BY Zenon
<1>1. wait \in Seq(Job)
  BY Zenon DEF Queue, Lists, NoDup
<1>2. ASSUME UNCHANGED <<reader, wait>> PROVE PagingInv'
  BY <1>1, <1>2, PushedOnly, Zenon
<1>3. ASSUME NEW pushed, UNCHANGED wait, Disturbs(pushed) PROVE PagingInv'
  BY <1>1, <1>3, PushedOnly, Zenon
<1>4. CASE Scripts
  <2>1. ASSUME NEW j \in Job, NEW lifo \in BOOLEAN, AddStandardJob(j, lifo) \/ RetryJob(j, lifo)
        PROVE  PagingInv'
    <3>1. Disturbs(~lifo) /\ wait' = Pushed(wait, j, lifo)
      BY <2>1, Zenon DEF AddStandardJob, RetryJob
    <3>2. CASE lifo = TRUE
      <4>1. Disturbs(FALSE)
        BY <3>1, <3>2, Zenon
      <4> QED BY <4>1, TakenFrom, Zenon
    <3>3. CASE lifo = FALSE
      <4>1. wait' = <<j>> \o wait
        BY <3>1, <3>3, Zenon DEF Pushed
      <4> QED BY <1>1, <3>1, <4>1, PushedOnly, Zenon
    <3> QED BY <3>2, <3>3, Zenon
  <2>2. ASSUME NEW j \in Job, MoveStalledJobToWait(j) \/ RemoveJob(j) PROVE PagingInv'
    BY <2>2, TakenFrom, Zenon DEF MoveStalledJobToWait, RemoveJob
  <2>3. ASSUME NEW j \in Job, UpdateProgress(j) PROVE PagingInv'
    BY <2>3, <1>2, Zenon DEF UpdateProgress, queue
  <2>4. ASSUME NEW j \in Job, RunMoveToFinished(j) PROVE PagingInv'
    BY <2>4, FinishDisturbs, TakenFrom, Zenon
  <2>5. CASE MoveToActive \/ DrainPending
    BY <2>5, TakenFrom, Zenon DEF MoveToActive, DrainPending
  <2>6. CASE Pause
    BY <2>6, <1>3, Zenon DEF Pause
  <2>7. CASE Resume
    <3>1. Disturbs(legacy = <<>>)
      BY <2>7, Zenon DEF Resume
    <3>2. CASE legacy # <<>>
      <4>1. Disturbs(FALSE)
        BY <3>1, <3>2, Zenon
      <4> QED BY <4>1, TakenFrom, Zenon
    <3>3. CASE legacy = <<>>
      <4>1. wait' = IF wait = <<>> THEN <<>> ELSE wait \o SubSeq(<<>>, 1, Smaller(Chunk, Len(<<>>)))
        BY <2>7, <3>3, Zenon DEF Resume
      <4>2. Len(<<>>) = 0 /\ Smaller(Chunk, 0) = 0
        BY ObserversAssumption DEF Smaller
      <4>3. wait \o SubSeq(<<>>, 1, 0) = wait
        BY <1>1
      <4>4. wait' = wait
        BY <4>1, <4>2, <4>3, Zenon
      <4>5. Disturbs(TRUE)
        BY <3>1, <3>3, Zenon
      <4> QED BY <1>3, <4>4, <4>5, Zenon
    <3> QED BY <3>2, <3>3, Zenon
  <2> QED BY <1>4, <2>1, <2>2, <2>3, <2>4, <2>5, <2>6, <2>7, ZenonT(30) DEF Scripts
<1>5. CASE MinutePasses \/ Subscribe \/ SubscribeRuns \/ Close \/ Cancel \/ UNCHANGED vars
  BY <1>5, <1>2, Zenon DEF MinutePasses, Subscribe, SubscribeRuns, LoopSelect, XReadArrives,
                    XReadTimesOut, XReadFails, Deliver, Close, Cancel, SubSteps, vars, queue
<1>6. CASE Reads
  <2>1. ASSUME CountsIsPaused \/ ListIsPaused \/ GetRanges
                 \/ (\E buckets \in setting.requests : Counts(buckets))
                 \/ (\E bucket \in {"wait", "active", "paused"} : ListJobs(bucket))
        PROVE  PagingInv'
    <3>1. /\ Reading' /\ reader'.page = reader.page /\ reader'.grown = reader.grown
          /\ reader'.pc \in {"counting", "counted", "asking", "ranging", "fetching", "listed"}
      <4>1. CASE CountsIsPaused
        BY <4>1, SMTT(30) DEF CountsIsPaused, PagingInv, Reading
      <4>2. CASE ListIsPaused
        BY <4>2, SMTT(30) DEF ListIsPaused, PagingInv, Reading
      <4>3. CASE GetRanges
        BY <4>3, SMTT(30) DEF GetRanges, PagingInv, Reading
      <4>4. ASSUME NEW buckets, Counts(buckets)
            PROVE  /\ Reading' /\ reader'.page = reader.page /\ reader'.grown = reader.grown
                   /\ reader'.pc \in {"counting", "counted"}
        BY <4>4, SMTT(30) DEF Counts, PagingInv, Reading
      <4>5. ASSUME NEW bucket, ListJobs(bucket)
            PROVE  /\ Reading' /\ reader'.page = reader.page /\ reader'.grown = reader.grown
                   /\ reader'.pc \in {"asking", "ranging"}
        BY <4>5, SMTT(30) DEF ListJobs, PagingInv, Reading
      <4> QED BY <2>1, <4>1, <4>2, <4>3, <4>4, <4>5, Zenon
    <3> QED BY <3>1, Zenon DEF PagingInv
  <2> QED BY <1>6, <2>1, GetPageWalks, FetchWalks, Zenon DEF Reads
<1> QED BY <1>4, <1>5, <1>6, Zenon DEF Next

-----------------------------------------------------------------------------
(* The theorems *)

\* The start.
LEMMA ObserversInit == Init => ObserversInv
<1> SUFFICES ASSUME Init PROVE ObserversInv
  BY Zenon
<1>1. /\ NoDup(wait) /\ NoDup(legacy) /\ Range(wait) \cap Range(legacy) = {}
      /\ active = <<>> /\ hash = Range(wait) \cup Range(legacy)
      /\ done = [completed |-> {}, failed |-> {}] /\ log = <<>> /\ trimmed = 0
  BY ObserversAssumption, Zenon DEF Init, NoDup
<1>2. done \in [Finished -> SUBSET Job] /\ done["completed"] = {} /\ done["failed"] = {}
  BY <1>1 DEF Finished
<1>3. NoDup(active) /\ Range(active) = {}
  BY <1>1, NoDupEmpty, Zenon
<1>4. Range(wait) \subseteq Job /\ Range(legacy) \subseteq Job
  BY <1>1, RangeOfJobs, Zenon DEF NoDup
<1>5. Queue
  BY <1>1, <1>2, <1>3, <1>4, Zenon DEF Queue, Lists, Alone
<1>6. Stream /\ Tracked
  BY <1>1 DEF Stream, Tracked
<1> QED BY <1>5, <1>6, SubscriptionInit, Zenon DEF ObserversInv

\* Every step.
LEMMA ObserversStep == ObserversInv /\ [Next]_vars => ObserversInv'
<1> SUFFICES ASSUME ObserversInv, [Next]_vars PROVE ObserversInv'
  BY Zenon
<1> USE DEF ObserversInv
<1>1. ASSUME Queue', Reports PROVE ObserversInv'
  <2>1. PICK events \in Seq(Entry) : \E length \in Nat :
          length <= Len(log) + Len(events) /\ Writes(events, length) /\ Truthful(events)
    BY <1>1, Zenon DEF Reports
  <2>2. PICK length \in Nat :
          length <= Len(log) + Len(events) /\ Writes(events, length) /\ Truthful(events)
    BY <2>1, Zenon
  <2>3. Subscription' /\ Stream'
    BY <2>2, WritesStep, Zenon
  <2>4. Tracked'
    BY <2>2, TrackedStep, Zenon DEF Writes
  <2> QED BY <1>1, <2>3, <2>4, Zenon
<1>4. ASSUME UNCHANGED <<stream, sub>> PROVE Subscription'
  <2>1. sub' = sub /\ log' = log /\ trimmed' = trimmed
    BY <1>4, Zenon DEF stream
  <2> QED BY <2>1, ZenonT(30)
             DEF Subscription, SubType, Batch, Cursor, Got, EventsInOrder, Contiguous,
                      DecodeStreamMessage
<1>2. CASE Scripts
  <2>1. CASE MoveToActive
    BY <2>1, <1>1, ActiveStep, Zenon
  <2>2. ASSUME NEW j \in Job,
               \/ \E lifo \in BOOLEAN : AddStandardJob(j, lifo) \/ RetryJob(j, lifo)
               \/ MoveStalledJobToWait(j) \/ RemoveJob(j) \/ UpdateProgress(j)
        PROVE  ObserversInv'
    BY <2>2, <1>1, AddStep, BackStep, RemoveStep, QuietStep, ZenonT(30)
  <2>4. ASSUME NEW j \in Job, RunMoveToFinished(j) PROVE ObserversInv'
    BY <2>4, <1>1, FinishStep, ZenonT(30) DEF RunMoveToFinished
  <2>3. CASE Pause \/ Resume
    BY <2>3, <1>1, QuietStep, Zenon
  <2>5. CASE DrainPending
    <3>1. UNCHANGED <<stream, sub>>
      BY <2>5, Zenon DEF DrainPending
    <3> QED BY <2>5, <3>1, <1>4, DrainStep, Zenon
  <2> QED BY <1>2, <2>1, <2>2, <2>3, <2>4, <2>5, ZenonT(30) DEF Scripts
<1>3. ASSUME UNCHANGED <<queue, stream>> PROVE Queue' /\ Stream' /\ Tracked'
  <2>1. /\ wait' = wait /\ legacy' = legacy /\ active' = active /\ done' = done /\ hash' = hash
        /\ erased' = erased /\ log' = log /\ trimmed' = trimmed
    BY <1>3, Zenon DEF queue, stream
  <2>2. Queue'
    BY <2>1, Zenon DEF Queue, Lists, Alone
  <2>3. Stream'
    BY <2>1, Zenon DEF Stream
  <2>4. Tracked'
    BY <2>1, ZenonT(30) DEF Tracked, IsAt
  <2> QED BY <2>2, <2>3, <2>4, Zenon
<1>5. CASE MinutePasses \/ Reads \/ UNCHANGED vars
  <2>1. UNCHANGED <<queue, stream, sub>>
    <3>1. CASE MinutePasses
      BY <3>1, Zenon DEF MinutePasses
    <3>2. CASE Reads
      <4>1. UNCHANGED ReadSteps
        BY <3>2, Zenon
           DEF Reads, CountsIsPaused, ListIsPaused, GetRanges, FetchJobs, GetPage, Counts,
                    ListJobs
      <4> QED BY <4>1, Zenon DEF ReadSteps
    <3>3. CASE UNCHANGED vars
      BY <3>3, Zenon DEF vars
    <3> QED BY <1>5, <3>1, <3>2, <3>3, Zenon
  <2> QED BY <2>1, <1>3, <1>4, Zenon
<1>6. CASE Subscribe \/ SubscribeRuns \/ Close \/ Cancel
  <2>1. UNCHANGED <<queue, stream>>
    BY <1>6, Zenon
       DEF Subscribe, SubscribeRuns, LoopSelect, XReadArrives, XReadTimesOut, XReadFails,
                Deliver, Close, Cancel, SubSteps
  <2>2. Subscription'
    BY <1>6, SubscribeStep, LoopStep, XReadStep, DeliverStep, Zenon DEF SubscribeRuns
  <2> QED BY <2>1, <2>2, <1>3, Zenon
<1> QED BY <1>2, <1>5, <1>6, Zenon DEF Next

\* The books of queue, stream and subscriber agree at all times.
THEOREM ObserversInvariant == Spec => []ObserversInv
BY ObserversInit, ObserversStep, PTL DEF Spec

\* EventsInOrder holds for every queue, every bound on the stream and every
\* number of jobs: Subscribe delivers each entry once, in order, and skips only
\* what was trimmed.
THEOREM DeliveryInOrder == Spec => []EventsInOrder
<1>1. ObserversInv => EventsInOrder
  BY Zenon DEF ObserversInv, Subscription
<1> QED BY <1>1, ObserversInvariant, PTL

\* SubscriberKnows holds likewise: what a subscriber that has missed nothing heard
\* last of a job is where the job is.
THEOREM EventsTellState == Spec => []SubscriberKnows
BY KnowsFromInv, ObserversInvariant, PTL

\* MetricsExact holds for every number of data points kept, every length of the
\* history and every pattern of minutes with and without finished jobs.
THEOREM MetricsAreExact == Spec => []MetricsExact
<1>1. Spec => []MetricsInv
  BY MetricsInit, MetricsStep, PTL DEF Spec
<1> QED BY <1>1, ExactFromInv, PTL

\* CountsAndListAgree holds for every queue, every set of requested buckets and
\* whatever scripts run between the round trips: as long as none has touched the
\* queue, ListJobs returns as many jobs as Counts said.
THEOREM CountsMatchLists == Spec => []CountsAndListAgree
<1>1. ObserversInv => Queue
  BY Zenon DEF ObserversInv
<1>2. Spec => []AgreeingInv
  BY <1>1, AgreeingInit, AgreeingStep, ObserversInvariant, PTL DEF Spec
<1> QED BY <1>2, AgreeFromInv, PTL

\* PagesTile holds for every page size and every number of jobs, however many are
\* pushed between two pages and between the ids of a page and its jobs.
THEOREM PagesMissNothing == Spec => []PagesTile
<1>1. ObserversInv => Queue
  BY Zenon DEF ObserversInv
<1>2. Spec => []PagingInv
  BY <1>1, PagingInit, PagingStep, ObserversInvariant, PTL DEF Spec
<1> QED BY <1>2, TileFromInv, PTL

=============================================================================

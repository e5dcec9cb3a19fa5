---------------------------- MODULE PollingProofs -----------------------------
(****************************************************************************)
(* For any number of items, any scheduled times and any polls: every item   *)
(* is retrieved at most once, none waits longer than its place in the queue *)
(* accounts for, and what a query derives from the view of an item is what  *)
(* the polls did with it.                                                   *)
(****************************************************************************)
EXTENDS PollingSimulation, ReducerProofs, FiniteSetTheorems

QueueType ==
    /\ items \in [Job -> [scheduled_at : ScheduledTimes \cup {None}, retrieved : BOOLEAN]]
    /\ record \in [Job -> Record]

\* Nothing is recorded of an item before it is enqueued.
OnlyQueuedCount ==
    \A j \in Job \ Queued : ~ items[j].retrieved /\ record[j].passed_over = 0

IndInv == QueueType /\ OnlyQueuedCount /\ RetrievedOnce /\ WaitIsEarned

\* The view v of an item says what the polls did with it.
Reported(v, item, rec, now) ==
    /\ (item.scheduled_at = None => v = NewJob)
    /\ (item.scheduled_at # None =>
          /\ v.scheduled_at = item.scheduled_at
          /\ (v.scheduler_retrieved_at = None <=> ~ rec.announced)
          /\ (v.started_at = None <=> ~ rec.started)
          /\ (~ rec.started =>
                v.recorded_status = IF rec.announced THEN "AWAITING_EXECUTION" ELSE "SCHEDULED"))
    /\ (rec.announced \/ rec.started => item.retrieved)
    /\ (item.retrieved => item.scheduled_at # None /\ item.scheduled_at <= now)

ViewInv ==
    /\ clock \in 0..MaxTime
    /\ view \in [Job -> JobVisibility]
    /\ \A j \in Job : Reported(view[j], items[j], record[j], clock)

\* The older items that have been retrieved.
Ahead(j) == {k \in Queued : items[k].retrieved /\ Precedes(k, j)}

EligibleBefore(j) == {k \in Eligible : Precedes(k, j)}

Selected(call) == {j \in Eligible : Position(j) <= Limit(call.retrieve_count)}

Begun(call) == {j \in Selected(call) : call.start /\ Position(j) <= config.worker_capacity}

-----------------------------------------------------------------------------
(* The order of the queue. *)

LEMMA QueuedTimes ==
    ASSUME QueueType
    PROVE  /\ IsFiniteSet(Queued) /\ IsFiniteSet(Eligible)
           /\ Eligible \subseteq Queued /\ Queued \subseteq Job /\ Queued \subseteq Nat
           /\ \A j \in Queued : items[j].scheduled_at \in Nat
<1>1. Queued \subseteq Job /\ Eligible \subseteq Queued
  BY DEF Queued, Eligible
<1>2. \A j \in Queued : items[j].scheduled_at \in Nat
  <2>1. ScheduledTimes \subseteq Nat
    BY TimeAssumption
  <2>2. SUFFICES ASSUME NEW j \in Queued PROVE items[j].scheduled_at \in ScheduledTimes
    BY <2>1
  <2>3. j \in Job /\ items[j].scheduled_at # None
    BY DEF Queued
  <2>4. items[j] \in [scheduled_at : ScheduledTimes \cup {None}, retrieved : BOOLEAN]
    BY <2>3 DEF QueueType
  <2> QED BY <2>3, <2>4
<1> QED BY <1>1, <1>2, JobAssumption, FS_Subset

LEMMA QueueOrder ==
    ASSUME QueueType, NEW i \in Queued, NEW j \in Queued, NEW k \in Queued
    PROVE  /\ ~ Precedes(i, i)
           /\ Precedes(i, j) /\ Precedes(j, k) => Precedes(i, k)
BY QueuedTimes DEF Precedes

\* An item has a later position than every eligible item that precedes it.
LEMMA PositionsGrow ==
    ASSUME QueueType, NEW j \in Eligible, NEW k \in Eligible, Precedes(k, j)
    PROVE  Position(k) \in Nat /\ Position(j) \in Nat /\ Position(k) < Position(j)
<1>1. EligibleBefore(k) \subseteq EligibleBefore(j)
  BY QueueOrder, QueuedTimes DEF EligibleBefore
<1>2. k \in EligibleBefore(j) /\ k \notin EligibleBefore(k)
  BY QueueOrder, QueuedTimes DEF EligibleBefore
<1>3. IsFiniteSet(EligibleBefore(j)) /\ IsFiniteSet(EligibleBefore(k))
  BY QueuedTimes, FS_Subset DEF EligibleBefore
<1>4. /\ Cardinality(EligibleBefore(j)) \in Nat /\ Cardinality(EligibleBefore(k)) \in Nat
      /\ Cardinality(EligibleBefore(k)) <= Cardinality(EligibleBefore(j))
      /\ Cardinality(EligibleBefore(k)) # Cardinality(EligibleBefore(j))
  BY <1>1, <1>2, <1>3, FS_Subset, FS_CardinalityType
<1>5. Position(j) = Cardinality(EligibleBefore(j)) + 1 /\ Position(k) = Cardinality(EligibleBefore(k)) + 1
  BY DEF Position, EligibleBefore
<1> QED BY <1>4, <1>5

LEMMA LimitIsPositive ==
    ASSUME NEW call \in Calls
    PROVE  Limit(call.retrieve_count) \in Nat \ {0}
<1>1. call.retrieve_count \in Nat \cup {None}
  BY CallsAssumption
<1>2. config.max_items_per_poll \in Nat \ {0}
  BY BatchConfigAssumption
<1> QED BY <1>1, <1>2, NoTimeAssumption DEF Limit

\* A poll that leaves an eligible item takes one that precedes it.
LEMMA PassedOverForOlder ==
    ASSUME QueueType, NEW call \in Calls, NEW j \in Eligible, j \notin Selected(call)
    PROVE  \E k \in Selected(call) : Precedes(k, j)
<1> DEFINE Places == {Position(k) : k \in EligibleBefore(j)}
<1>1. EligibleBefore(j) # {}
  <2>1. SUFFICES ASSUME EligibleBefore(j) = {} PROVE FALSE
    OBVIOUS
  <2>2. Position(j) = 1
    BY <2>1, FS_EmptySet DEF Position, EligibleBefore
  <2> QED BY <2>2, LimitIsPositive DEF Selected
<1>2. Places \in SUBSET Nat /\ Places # {}
  BY <1>1, PositionsGrow DEF EligibleBefore
<1>3. PICK p \in Places : \A q \in Places : p <= q
  BY <1>2, NatMinimum
<1>4. PICK k \in EligibleBefore(j) : p = Position(k)
  BY <1>3
<1>5. k \in Eligible /\ Precedes(k, j)
  BY <1>4 DEF EligibleBefore
<1>6. EligibleBefore(k) = {}
  <2>1. SUFFICES ASSUME NEW m \in EligibleBefore(k) PROVE FALSE
    OBVIOUS
  <2>2. m \in Eligible /\ Precedes(m, k)
    BY DEF EligibleBefore
  <2>3. m \in EligibleBefore(j)
    BY <2>2, <1>5, QueueOrder, QueuedTimes DEF EligibleBefore
  <2>4. Position(m) < Position(k) /\ Position(m) \in Nat /\ Position(k) \in Nat
    BY <2>2, <1>5, PositionsGrow
  <2> QED BY <2>3, <2>4, <1>3, <1>4
<1>7. Position(k) = 1
  BY <1>6, FS_EmptySet DEF Position, EligibleBefore
<1> QED BY <1>5, <1>7, LimitIsPositive DEF Selected

-----------------------------------------------------------------------------
(* The inductive invariant. *)

LEMMA InitIndInv == Init => IndInv
<1> SUFFICES ASSUME Init PROVE IndInv
  OBVIOUS
<1>1. Queued = {}
  BY DEF Init, Queued
<1>2. QueueType
  BY DEF Init, QueueType, Record
<1>3. OnlyQueuedCount /\ RetrievedOnce
  BY DEF Init, OnlyQueuedCount, RetrievedOnce
<1> QED BY <1>1, <1>2, <1>3 DEF IndInv, WaitIsEarned

LEMMA AddJobInv ==
    ASSUME IndInv, NEW i \in Job, NEW t \in ScheduledTimes, AddJob(i, t)
    PROVE  IndInv'
<1> USE DEF IndInv
<1>1. i \notin Queued /\ items' = [items EXCEPT ![i].scheduled_at = t] /\ record' = record
  BY DEF AddJob
<1>2. QueueType'
  BY <1>1 DEF QueueType
<1>3. t # None
  BY TimeAssumption, NoTimeAssumption
<1>4. Queued' = Queued \cup {i}
  BY <1>1, <1>3 DEF Queued, QueueType
<1>5. \A j \in Job : items'[j].retrieved = items[j].retrieved
  BY <1>1 DEF QueueType
<1>6. \A j \in Queued : items'[j] = items[j]
  BY <1>1 DEF QueueType, Queued
<1>7. ~ items[i].retrieved /\ record[i].passed_over = 0
  BY <1>1 DEF OnlyQueuedCount
<1>8. OnlyQueuedCount'
  BY <1>1, <1>4, <1>5 DEF OnlyQueuedCount
<1>9. RetrievedOnce'
  BY <1>1, <1>5 DEF RetrievedOnce
<1>10. ASSUME NEW j \in Queued' PROVE (record[j].passed_over <= Cardinality(Ahead(j)))'
  <2>1. IsFiniteSet(Queued')
    BY <1>2, <1>4, QueuedTimes, FS_AddElement
  <2>2. IsFiniteSet(Ahead(j)') /\ Cardinality(Ahead(j)') \in Nat
    BY <2>1, FS_Subset, FS_CardinalityType DEF Ahead
  <2>3. CASE j = i
    BY <2>2, <2>3, <1>1, <1>7
  <2>4. CASE j \in Queued
    <3>1. Ahead(j)' = Ahead(j)
      BY <2>4, <1>4, <1>5, <1>6, <1>7, QueuedTimes DEF Ahead, Precedes
    <3> QED BY <3>1, <2>4, <1>1 DEF WaitIsEarned, Ahead
  <2> QED BY <2>3, <2>4, <1>4
<1>11. WaitIsEarned'
  BY <1>10 DEF WaitIsEarned, Ahead
<1> QED BY <1>2, <1>8, <1>9, <1>11

LEMMA UnchangedInv ==
    ASSUME IndInv, UNCHANGED <<items, record>>
    PROVE  IndInv'
BY DEF IndInv, QueueType, OnlyQueuedCount, RetrievedOnce, WaitIsEarned, Queued, Precedes

\* The record of a selected item after the poll.
Named(r, a, b) == [[[r EXCEPT !.retrievals = r.retrievals + 1] EXCEPT !.announced = a] EXCEPT !.started = b]

LEMMA NamedType ==
    ASSUME NEW r \in Record, NEW a \in BOOLEAN, NEW b \in BOOLEAN
    PROVE  /\ Named(r, a, b) \in Record
           /\ Named(r, a, b).retrievals = r.retrievals + 1
           /\ Named(r, a, b).passed_over = r.passed_over
           /\ Named(r, a, b).announced = a
           /\ Named(r, a, b).started = b
<1> DEFINE c == [r EXCEPT !.retrievals = r.retrievals + 1]
           d == [c EXCEPT !.announced = a]
           n == [d EXCEPT !.started = b]
<1>1. c \in Record /\ c.retrievals = r.retrievals + 1 /\ c.passed_over = r.passed_over
  BY DEF Record
<1> HIDE DEF c
<1>2. /\ d \in Record /\ d.retrievals = c.retrievals /\ d.passed_over = c.passed_over
      /\ d.announced = a
  BY <1>1 DEF Record
<1> HIDE DEF d
<1>3. /\ n \in Record /\ n.retrievals = d.retrievals /\ n.passed_over = d.passed_over
      /\ n.announced = d.announced /\ n.started = b
  BY <1>2 DEF Record
<1>4. Named(r, a, b) = n
  BY DEF c, d, Named
<1> HIDE DEF n
<1> QED BY <1>1, <1>2, <1>3, <1>4

LEMMA PollMoves ==
    ASSUME QueueType, NEW call \in Calls, Poll(call)
    PROVE  /\ QueueType'
           /\ Queued' = Queued
           /\ \A j \in Job :
                 /\ items'[j].scheduled_at = items[j].scheduled_at
                 /\ items'[j].retrieved <=> items[j].retrieved \/ j \in Selected(call)
                 /\ j \in Selected(call) =>
                       /\ record'[j].retrievals = record[j].retrievals + 1
                       /\ record'[j].passed_over = record[j].passed_over
                       /\ record'[j].announced <=> record[j].announced \/ call.emit_retrieval
                       /\ record'[j].started <=> record[j].started \/ j \in Begun(call)
                 /\ j \notin Selected(call) =>
                       /\ record'[j].retrievals = record[j].retrievals
                       /\ record'[j].announced <=> record[j].announced
                       /\ record'[j].started <=> record[j].started
                       /\ record'[j].passed_over = record[j].passed_over
                                                   + IF j \in Eligible THEN 1 ELSE 0
<1> DEFINE picked == Selected(call)
           begun == Begun(call)
           calledA(j) == record[j].announced \/ call.emit_retrieval
           calledS(j) == record[j].started \/ j \in begun
           named(j) == Named(record[j], calledA(j), calledS(j))
           left(j) == [record[j] EXCEPT !.passed_over = record[j].passed_over + 1]
           item(j) == [items[j] EXCEPT !.retrieved = items[j].retrieved \/ j \in picked]
<1>1. items' = [j \in Job |-> item(j)]
  BY DEF Poll, Selected
<1>2. record' = [j \in Job |-> IF j \in picked THEN named(j)
                              ELSE IF j \in Eligible THEN left(j) ELSE record[j]]
  BY DEF Poll, Selected, Begun, Named
<1>3. call.emit_retrieval \in BOOLEAN
  BY CallsAssumption
<1>4. ASSUME NEW j \in Job
      PROVE  /\ item(j) \in [scheduled_at : ScheduledTimes \cup {None}, retrieved : BOOLEAN]
             /\ item(j).scheduled_at = items[j].scheduled_at
             /\ item(j).retrieved <=> items[j].retrieved \/ j \in picked
  BY DEF QueueType
<1>5. ASSUME NEW j \in Job
      PROVE  /\ left(j) \in Record
             /\ left(j).retrievals = record[j].retrievals
             /\ left(j).passed_over = record[j].passed_over + 1
             /\ left(j).announced = record[j].announced
             /\ left(j).started = record[j].started
  BY DEF QueueType, Record
<1>6. ASSUME NEW j \in Job
      PROVE  /\ named(j) \in Record
             /\ named(j).retrievals = record[j].retrievals + 1
             /\ named(j).passed_over = record[j].passed_over
             /\ named(j).announced = calledA(j)
             /\ named(j).started = calledS(j)
  <2>1. record[j] \in Record
    BY DEF QueueType
  <2>2. calledA(j) \in BOOLEAN /\ calledS(j) \in BOOLEAN
    OBVIOUS
  <2> HIDE DEF calledA, calledS
  <2> QED BY <2>1, <2>2, NamedType, Zenon
<1>7. \A j \in Job : record[j] \in Record /\ record[j].passed_over \in Nat
  BY DEF QueueType, Record
<1>8. ASSUME NEW j \in Job
      PROVE  /\ calledA(j) <=> (record[j].announced \/ call.emit_retrieval)
             /\ calledS(j) <=> (record[j].started \/ j \in begun)
  OBVIOUS
<1> HIDE DEF picked, begun, calledA, calledS, named, left, item
<1>9. QueueType'
  BY <1>1, <1>2, <1>4, <1>5, <1>6, <1>7 DEF QueueType
<1>10. Queued' = Queued
  BY <1>1, <1>4 DEF Queued
<1>11. ASSUME NEW j \in Job
       PROVE  /\ j \in picked => record'[j] = named(j)
              /\ j \notin picked => record'[j] = IF j \in Eligible THEN left(j) ELSE record[j]
              /\ items'[j] = item(j)
  BY <1>1, <1>2
<1>12. ASSUME NEW j \in Job
       PROVE  /\ items'[j].scheduled_at = items[j].scheduled_at
              /\ items'[j].retrieved <=> (items[j].retrieved \/ j \in picked)
  BY <1>4, <1>11
<1>13. ASSUME NEW j \in Job, j \in picked
       PROVE  /\ record'[j].retrievals = record[j].retrievals + 1
              /\ record'[j].passed_over = record[j].passed_over
              /\ record'[j].announced <=> (record[j].announced \/ call.emit_retrieval)
              /\ record'[j].started <=> (record[j].started \/ j \in begun)
  <2>1. record'[j].announced = calledA(j) /\ record'[j].started = calledS(j)
    BY <1>6, <1>11, <1>13
  <2> QED BY <2>1, <1>6, <1>8, <1>11, <1>13
<1>14. ASSUME NEW j \in Job, j \notin picked
       PROVE  /\ record'[j].retrievals = record[j].retrievals
              /\ record'[j].announced <=> record[j].announced
              /\ record'[j].started <=> record[j].started
              /\ record'[j].passed_over = record[j].passed_over + IF j \in Eligible THEN 1 ELSE 0
  BY <1>5, <1>7, <1>11, <1>14
<1> QED BY <1>9, <1>10, <1>12, <1>13, <1>14 DEF picked, begun

LEMMA PollInv ==
    ASSUME IndInv, NEW call \in Calls, Poll(call)
    PROVE  IndInv'
<1> USE DEF IndInv
<1>1. Selected(call) \subseteq Eligible /\ Eligible \subseteq Queued /\ Queued \subseteq Job
  BY QueuedTimes DEF Selected
<1>2. \A j \in Eligible : ~ items[j].retrieved
  BY DEF Eligible
<1>3. QueueType' /\ Queued' = Queued
  BY PollMoves
<1>4. OnlyQueuedCount'
  BY <1>1, <1>3, PollMoves DEF OnlyQueuedCount, QueueType, Record
<1>5. ASSUME NEW j \in Job
      PROVE  record'[j].retrievals = IF items'[j].retrieved THEN 1 ELSE 0
  <2>1. record[j].retrievals = IF items[j].retrieved THEN 1 ELSE 0
    BY DEF RetrievedOnce
  <2>2. CASE j \in Selected(call)
    <3>1. ~ items[j].retrieved /\ items'[j].retrieved
      BY <2>2, <1>1, <1>2, PollMoves
    <3>2. record'[j].retrievals = record[j].retrievals + 1
      BY <2>2, PollMoves
    <3> QED BY <3>1, <3>2, <2>1
  <2>3. CASE j \notin Selected(call)
    <3>1. items'[j].retrieved <=> items[j].retrieved
      BY <2>3, PollMoves
    <3>2. record'[j].retrievals = record[j].retrievals
      BY <2>3, PollMoves
    <3> QED BY <3>1, <3>2, <2>1
  <2> QED BY <2>2, <2>3
<1>6. RetrievedOnce'
  BY <1>5 DEF RetrievedOnce
<1>7. ASSUME NEW j \in Queued
      PROVE  (record[j].passed_over <= Cardinality(Ahead(j)))'
  <2>1. \A k \in Queued : Precedes(k, j)' = Precedes(k, j)
    BY <1>1, PollMoves DEF Precedes
  <2>2. Ahead(j) \subseteq Ahead(j)' /\ IsFiniteSet(Ahead(j)') /\ IsFiniteSet(Ahead(j))
    BY <2>1, <1>1, <1>3, PollMoves, QueuedTimes, FS_Subset DEF Ahead
  <2>3. /\ Cardinality(Ahead(j)) \in Nat /\ Cardinality(Ahead(j)') \in Nat
        /\ Cardinality(Ahead(j)) <= Cardinality(Ahead(j)')
        /\ Cardinality(Ahead(j)) = Cardinality(Ahead(j)') => Ahead(j) = Ahead(j)'
    BY <2>2, FS_Subset, FS_CardinalityType
  <2>4. record[j].passed_over \in Nat /\ record[j].passed_over <= Cardinality(Ahead(j))
    BY <1>1 DEF WaitIsEarned, Ahead, QueueType, Record
  <2>5. CASE j \in Selected(call) \/ j \notin Eligible
    <3>1. record'[j].passed_over = record[j].passed_over
      BY <2>5, <2>4, <1>1, PollMoves
    <3> QED BY <3>1, <2>3, <2>4
  <2>6. CASE j \in Eligible /\ j \notin Selected(call)
    <3>1. PICK k \in Selected(call) : Precedes(k, j)
      BY <2>6, PassedOverForOlder
    <3>2. k \in Ahead(j)' /\ k \notin Ahead(j)
      BY <3>1, <2>1, <1>1, <1>2, <1>3, PollMoves DEF Ahead
    <3>3. record'[j].passed_over = record[j].passed_over + 1
      BY <2>6, <1>1, PollMoves
    <3>4. Cardinality(Ahead(j)) < Cardinality(Ahead(j)')
      BY <3>2, <2>3
    <3> QED BY <3>3, <3>4, <2>3, <2>4
  <2> QED BY <2>5, <2>6
<1>8. WaitIsEarned'
  BY <1>3, <1>7 DEF WaitIsEarned, Ahead
<1> QED BY <1>3, <1>4, <1>6, <1>8

LEMMA NextIndInv == IndInv /\ [Next]_vars => IndInv'
<1> SUFFICES ASSUME IndInv, [Next]_vars PROVE IndInv'
  OBVIOUS
<1>1. CASE \E j \in Job, t \in ScheduledTimes : AddJob(j, t)
  BY <1>1, AddJobInv
<1>2. CASE Advance
  BY <1>2, UnchangedInv DEF Advance
<1>3. CASE SomePoll
  BY <1>3, PollInv DEF SomePoll
<1>4. CASE UNCHANGED vars
  BY <1>4, UnchangedInv DEF vars
<1> QED BY <1>1, <1>2, <1>3, <1>4 DEF Next

-----------------------------------------------------------------------------
(* The view of an item. *)

\* What poll and add_job make is an EDR.
LEMMA MakeType ==
    ASSUME clock \in Nat, NEW type \in EventType, NEW t \in Time, NEW n \in {0, 1}
    PROVE  LET e == Make(type, t, n)
           IN  /\ e \in Event /\ e.type = type /\ e.event_time = clock
               /\ RetrievedTime(e) = clock
               /\ e.scheduled_at = t
<1>1. n \in 0..MaxAttempt
  BY MaxAttemptAssumption
<1>2. FALSE \in BOOLEAN /\ None \in Time /\ 0 \in Nat
  BY DEF Time
<1> QED BY <1>1, <1>2 DEF Make, Event, RetrievedTime, Time

\* An item that was just enqueued is reported as scheduled.
LEMMA AddedView ==
    ASSUME clock \in Nat, NEW t \in Nat
    PROVE  LET v == Reduce(Reduce(NewJob, Make("JOB_CREATED", t, 0)),
                           Make("JOB_SCHEDULER_SUBMISSION_ACKNOWLEDGED", t, 0))
           IN  /\ v \in JobVisibility /\ v.scheduled_at = t /\ v.recorded_status = "SCHEDULED"
               /\ v.scheduler_retrieved_at = None /\ v.started_at = None
<1> DEFINE c == Make("JOB_CREATED", t, 0)
           a == Make("JOB_SCHEDULER_SUBMISSION_ACKNOWLEDGED", t, 0)
           u == Reduce(NewJob, c)
           v == Reduce(u, a)
<1>1. t \in Time /\ t # None
  BY NoTimeAssumption DEF Time
<1>2. c \in Event /\ c.type = "JOB_CREATED" /\ c.scheduled_at = t
  BY <1>1, MakeType DEF EventType
<1>3. a \in Event /\ a.type = "JOB_SCHEDULER_SUBMISSION_ACKNOWLEDGED"
  BY <1>1, MakeType DEF EventType
<1> HIDE DEF c, a
<1>4. /\ NewJob.scheduled_at = None /\ NewJob.recorded_status = "UNKNOWN"
      /\ NewJob.scheduler_retrieved_at = None /\ NewJob.started_at = None
  BY DEF NewJob
<1>5. u \in JobVisibility /\ Effect(NewJob, c, u)
  BY <1>2, NewJobType, ReduceRule
<1>6. u.scheduled_at = t
  <2>1. ~ IsSemanticDuplicate(NewJob, c)
    BY <1>2 DEF IsSemanticDuplicate
  <2> QED BY <2>1, <1>2, <1>4, NewJobType, ReduceRule
<1> HIDE DEF u
<1>7. u.recorded_status = "CREATED" /\ u.scheduler_retrieved_at = None
  BY <1>2, <1>4, <1>5 DEF Effect, WaitEffect
<1>8. u.started_at = None
  BY <1>2, <1>4, <1>5 DEF Effect, StartEffect
<1>9. v \in JobVisibility /\ Effect(u, a, v)
  BY <1>3, <1>5, ReduceRule
<1>10. v.scheduled_at = t
  BY <1>1, <1>3, <1>5, <1>6, ReduceRule
<1> HIDE DEF v
<1>11. v.recorded_status = "SCHEDULED" /\ v.scheduler_retrieved_at = None
  BY <1>3, <1>7, <1>9 DEF Effect, WaitEffect
<1>12. v.started_at = None
  BY <1>3, <1>8, <1>9 DEF Effect, StartEffect
<1> QED BY <1>9, <1>10, <1>11, <1>12 DEF v, u, c, a

\* The EDRs of a poll, for an item that no poll has named before.
LEMMA PolledView ==
    ASSUME clock \in Nat, NEW j \in Job, view[j] \in JobVisibility,
           items[j].scheduled_at \in Nat, view[j].scheduled_at = items[j].scheduled_at,
           view[j].recorded_status = "SCHEDULED",
           view[j].scheduler_retrieved_at = None, view[j].started_at = None,
           NEW call \in Calls, NEW starts \in BOOLEAN
    PROVE  LET v == Polled(j, call, starts)
           IN  /\ v \in JobVisibility /\ v.scheduled_at = items[j].scheduled_at
               /\ (v.scheduler_retrieved_at = None <=> ~ call.emit_retrieval)
               /\ (v.started_at = None <=> ~ starts)
               /\ (~ starts => v.recorded_status =
                      IF call.emit_retrieval THEN "AWAITING_EXECUTION" ELSE "SCHEDULED")
<1> DEFINE t == items[j].scheduled_at
           g == Make("JOB_SCHEDULER_ITEM_RETRIEVED", t, 1)
           b == Make("JOB_EXECUTION_STARTED", t, 1)
           d == Make("JOB_EXECUTION_SUCCEEDED", t, 1)
           u == IF call.emit_retrieval THEN Reduce(view[j], g) ELSE view[j]
           w == IF starts THEN Reduce(u, b) ELSE u
           v == IF starts /\ call.complete THEN Reduce(w, d) ELSE w
<1>1. t \in Time /\ t # None /\ clock # None
  BY NoTimeAssumption DEF Time
<1>2. g \in Event /\ g.type = "JOB_SCHEDULER_ITEM_RETRIEVED" /\ RetrievedTime(g) = clock
  BY <1>1, MakeType DEF EventType
<1>3. b \in Event /\ b.type = "JOB_EXECUTION_STARTED" /\ b.event_time = clock
  BY <1>1, MakeType DEF EventType
<1>4. d \in Event /\ d.type = "JOB_EXECUTION_SUCCEEDED"
  BY <1>1, MakeType DEF EventType
<1>5. Polled(j, call, starts) = v
  BY DEF Polled
<1> HIDE DEF g, b, d
<1>6. u \in JobVisibility /\ u.scheduled_at = t
  BY <1>1, <1>2, ReduceRule
<1>7. /\ (u.scheduler_retrieved_at = None <=> ~ call.emit_retrieval)
      /\ u.started_at = None
      /\ u.recorded_status = IF call.emit_retrieval THEN "AWAITING_EXECUTION" ELSE "SCHEDULED"
  <2>1. CASE ~ call.emit_retrieval
    BY <2>1
  <2>2. CASE call.emit_retrieval
    <3>1. Effect(view[j], g, u)
      BY <2>2, <1>2, ReduceRule
    <3>2. u.scheduler_retrieved_at = Earliest(None, clock)
      BY <3>1, <1>2 DEF Effect, WaitEffect
    <3>3. u.recorded_status = "AWAITING_EXECUTION"
      BY <3>1, <1>2 DEF Effect, WaitEffect
    <3>4. u.started_at = None
      BY <3>1, <1>2 DEF Effect, StartEffect
    <3> QED BY <3>2, <3>3, <3>4, <2>2, <1>1 DEF Earliest
  <2> QED BY <2>1, <2>2
<1> HIDE DEF u
<1>8. w \in JobVisibility /\ w.scheduled_at = t
  BY <1>1, <1>3, <1>6, ReduceRule
<1>9. /\ (w.started_at = None <=> ~ starts)
      /\ w.scheduler_retrieved_at = u.scheduler_retrieved_at
      /\ (~ starts => w.recorded_status = u.recorded_status)
  <2>1. CASE ~ starts
    BY <2>1, <1>7
  <2>2. CASE starts
    <3>1. Effect(u, b, w)
      BY <2>2, <1>3, <1>6, ReduceRule
    <3>2. w.started_at = Earliest(None, clock)
      BY <3>1, <1>3, <1>7 DEF Effect, StartEffect
    <3>3. w.scheduler_retrieved_at = u.scheduler_retrieved_at
      BY <3>1, <1>3 DEF Effect, WaitEffect
    <3> QED BY <3>2, <3>3, <2>2, <1>1 DEF Earliest
  <2> QED BY <2>1, <2>2
<1> HIDE DEF w
<1>10. /\ v \in JobVisibility /\ v.scheduled_at = t /\ v.started_at = w.started_at
       /\ v.scheduler_retrieved_at = w.scheduler_retrieved_at
       /\ (~ starts => v.recorded_status = w.recorded_status)
  <2>1. CASE ~ (starts /\ call.complete)
    BY <2>1, <1>8
  <2>2. CASE starts /\ call.complete
    <3>1. v \in JobVisibility /\ Effect(w, d, v) /\ v.scheduled_at = t
      BY <2>2, <1>1, <1>4, <1>8, ReduceRule
    <3>2. v.started_at = w.started_at
      BY <3>1, <1>4 DEF Effect, StartEffect
    <3>3. v.scheduler_retrieved_at = w.scheduler_retrieved_at
      BY <3>1, <1>4 DEF Effect, WaitEffect
    <3> QED BY <3>1, <3>2, <3>3, <2>2
  <2> QED BY <2>1, <2>2
<1> HIDE DEF v
<1> QED BY <1>5, <1>7, <1>9, <1>10

LEMMA InitViewInv == Init => ViewInv
<1> SUFFICES ASSUME Init PROVE ViewInv
  OBVIOUS
<1>1. clock \in 0..MaxTime
  BY TimeAssumption DEF Init
<1>2. view \in [Job -> JobVisibility]
  BY NewJobType DEF Init
<1>3. ASSUME NEW j \in Job PROVE Reported(view[j], items[j], record[j], clock)
  <2>1. view[j] = NewJob /\ items[j].scheduled_at = None /\ ~ items[j].retrieved
    BY DEF Init
  <2>2. ~ record[j].announced /\ ~ record[j].started
    BY DEF Init
  <2> QED BY <2>1, <2>2 DEF Reported
<1> QED BY <1>1, <1>2, <1>3 DEF ViewInv

LEMMA AddJobView ==
    ASSUME QueueType, ViewInv, NEW i \in Job, NEW t \in ScheduledTimes, AddJob(i, t)
    PROVE  ViewInv'
<1>1. clock' = clock /\ clock \in Nat /\ t \in Nat /\ t # None
  BY TimeAssumption, NoTimeAssumption DEF AddJob, ViewInv
<1>2. items' = [items EXCEPT ![i].scheduled_at = t] /\ record' = record /\ i \notin Queued
  BY DEF AddJob
<1>3. items[i].scheduled_at = None /\ view[i] = NewJob
  BY <1>2 DEF Queued, ViewInv, Reported
<1> DEFINE v == Reduce(Reduce(NewJob, Make("JOB_CREATED", t, 0)),
                       Make("JOB_SCHEDULER_SUBMISSION_ACKNOWLEDGED", t, 0))
<1>4. /\ v \in JobVisibility /\ v.scheduled_at = t /\ v.recorded_status = "SCHEDULED"
      /\ v.scheduler_retrieved_at = None /\ v.started_at = None
  BY <1>1, AddedView
<1>5. view' = [view EXCEPT ![i] = v]
  BY <1>3 DEF AddJob, ViewInv
<1> HIDE DEF v
<1>6. view' \in [Job -> JobVisibility]
  BY <1>4, <1>5 DEF ViewInv
<1>7. ASSUME NEW j \in Job PROVE Reported(view'[j], items'[j], record'[j], clock')
  <2>1. Reported(view[j], items[j], record[j], clock)
    BY DEF ViewInv
  <2>2. CASE j # i
    BY <2>1, <2>2, <1>1, <1>2, <1>5 DEF QueueType, ViewInv
  <2>3. CASE j = i
    <3>1. ~ items[i].retrieved /\ ~ record[i].announced /\ ~ record[i].started
      BY <2>1, <2>3, <1>3 DEF Reported
    <3>2. items'[i].scheduled_at = t /\ items'[i].retrieved = items[i].retrieved
      BY <1>2 DEF QueueType
    <3>3. view'[i] = v
      BY <1>5 DEF ViewInv
    <3> QED BY <3>1, <3>2, <3>3, <2>3, <1>1, <1>2, <1>4 DEF Reported
  <2> QED BY <2>2, <2>3
<1> QED BY <1>1, <1>6, <1>7 DEF ViewInv

LEMMA AdvanceView ==
    ASSUME QueueType, ViewInv, Advance
    PROVE  ViewInv'
<1>1. clock' = clock + 1 /\ clock' \in 0..MaxTime /\ clock \in Nat
  BY TimeAssumption DEF Advance, ViewInv
<1>2. items' = items /\ view' = view /\ record' = record
  BY DEF Advance
<1>3. ASSUME NEW j \in Job PROVE Reported(view[j], items[j], record[j], clock')
  <2>1. Reported(view[j], items[j], record[j], clock)
    BY DEF ViewInv
  <2>2. items[j].scheduled_at # None => items[j].scheduled_at \in Nat
    BY QueuedTimes DEF Queued
  <2> QED BY <2>1, <2>2, <1>1 DEF Reported
<1> QED BY <1>1, <1>2, <1>3 DEF ViewInv

LEMMA PollView ==
    ASSUME QueueType, ViewInv, NEW call \in Calls, Poll(call)
    PROVE  ViewInv'
<1>1. clock' = clock /\ clock \in Nat
  <2>1. UNCHANGED clock
    BY DEF Poll
  <2> QED BY <2>1, TimeAssumption DEF ViewInv
<1>2. view' = [j \in Job |-> IF j \in Selected(call) THEN Polled(j, call, j \in Begun(call))
                            ELSE view[j]]
  BY DEF Poll, Selected, Begun
<1>3. ASSUME NEW j \in Job
      PROVE  /\ view'[j] \in JobVisibility
             /\ Reported(view'[j], items'[j], record'[j], clock')
  <2>1. view[j] \in JobVisibility /\ Reported(view[j], items[j], record[j], clock)
    BY DEF ViewInv
  <2>2. items'[j].scheduled_at = items[j].scheduled_at
    BY PollMoves
  <2>3. CASE j \notin Selected(call)
    <3>1. view'[j] = view[j]
      BY <2>3, <1>2
    <3>2. items'[j].retrieved <=> items[j].retrieved
      BY <2>3, PollMoves
    <3>3. /\ (record'[j].announced <=> record[j].announced)
          /\ (record'[j].started <=> record[j].started)
      BY <2>3, PollMoves
    <3> QED BY <3>1, <3>2, <3>3, <2>1, <2>2, <1>1 DEF Reported
  <2>4. CASE j \in Selected(call)
    <3>1. /\ items[j].scheduled_at # None /\ items[j].scheduled_at <= clock
          /\ ~ items[j].retrieved /\ items[j].scheduled_at \in Nat
      BY <2>4, QueuedTimes DEF Selected, Eligible, Queued
    <3>2. ~ record[j].announced /\ ~ record[j].started
      BY <3>1, <2>1 DEF Reported
    <3>3. /\ view[j].scheduled_at = items[j].scheduled_at
          /\ view[j].recorded_status = "SCHEDULED"
          /\ view[j].scheduler_retrieved_at = None /\ view[j].started_at = None
      BY <3>1, <3>2, <2>1 DEF Reported
    <3> DEFINE starts == j \in Begun(call)
               v == Polled(j, call, starts)
    <3>4. starts \in BOOLEAN
      OBVIOUS
    <3>5. view'[j] = v
      BY <2>4, <1>2
    <3>6. items'[j].retrieved
      BY <2>4, PollMoves
    <3>7. record'[j].announced <=> call.emit_retrieval
      BY <3>2, <2>4, PollMoves
    <3>8. record'[j].started <=> starts
      BY <3>2, <2>4, PollMoves
    <3> HIDE DEF starts
    <3>9. /\ v \in JobVisibility /\ v.scheduled_at = items[j].scheduled_at
          /\ (v.scheduler_retrieved_at = None <=> ~ call.emit_retrieval)
          /\ (v.started_at = None <=> ~ starts)
          /\ (~ starts => v.recorded_status =
                IF call.emit_retrieval THEN "AWAITING_EXECUTION" ELSE "SCHEDULED")
      BY <3>1, <3>3, <3>4, <2>1, <1>1, PolledView
    <3> HIDE DEF v
    <3> QED BY <3>1, <3>5, <3>6, <3>7, <3>8, <3>9, <2>2, <1>1 DEF Reported
  <2> QED BY <2>3, <2>4
<1> QED BY <1>1, <1>2, <1>3 DEF ViewInv

LEMMA NextViewInv == QueueType /\ ViewInv /\ [Next]_vars => ViewInv'
<1> SUFFICES ASSUME QueueType, ViewInv, [Next]_vars PROVE ViewInv'
  OBVIOUS
<1>1. CASE \E j \in Job, t \in ScheduledTimes : AddJob(j, t)
  BY <1>1, AddJobView
<1>2. CASE Advance
  BY <1>2, AdvanceView
<1>3. CASE SomePoll
  BY <1>3, PollView DEF SomePoll
<1>4. CASE UNCHANGED vars
  BY <1>4 DEF vars, ViewInv
<1> QED BY <1>1, <1>2, <1>3, <1>4 DEF Next

\* What is read off such a view is what the scheduler did.
LEMMA ViewIsTrue ==
    ASSUME QueueType, ViewInv
    PROVE  ReportIsTrue
<1> DEFINE grace == config.grace_period
           late(j) == clock > items[j].scheduled_at + grace
<1>1. grace \in Nat /\ config.poll_interval \in Nat /\ clock \in Nat
  BY QueryConfigAssumption, TimeAssumption DEF ViewInv
<1>2. ASSUME NEW j \in Queued
      PROVE  LET job == view[j]
                 status == DerivedStatus(job, clock)
                 waits == DelayClassification(job, clock, status)
             IN  /\ (status = "OVERDUE" <=> ~ record[j].started /\ late(j))
                 /\ (OverdueDuration(job, clock) > 0 <=> status = "OVERDUE")
                 /\ (waits = "RETRIEVED_AWAITING_WORKER"
                       <=> record[j].announced /\ ~ record[j].started /\ ~ late(j))
                 /\ (waits \in {"AWAITING_POLL_WINDOW", "POSSIBLE_BATCH_BACKLOG"}
                       => ~ record[j].announced /\ items[j].scheduled_at <= clock)
  <2> DEFINE job == view[j]
             status == DerivedStatus(job, clock)
             waits == DelayClassification(job, clock, status)
             t == items[j].scheduled_at
             announced == record[j].announced
             begun == record[j].started
  <2>1. j \in Job /\ t # None /\ t \in Nat
    BY QueuedTimes DEF Queued
  <2>2. job \in JobVisibility /\ Reported(job, items[j], record[j], clock)
    BY <2>1 DEF ViewInv
  <2>3. /\ job.scheduled_at = t
        /\ (job.scheduler_retrieved_at = None <=> ~ announced)
        /\ (job.started_at = None <=> ~ begun)
        /\ (~ begun => job.recorded_status \in {"SCHEDULED", "AWAITING_EXECUTION"})
        /\ (announced => t <= clock)
    BY <2>1, <2>2 DEF Reported
  <2>4. job.recorded_status \in Status
    BY <2>2 DEF JobVisibility
  <2>5. job.recorded_status # "OVERDUE"
    BY <2>4 DEF Status, TERMINAL_STATUSES
  <2> HIDE DEF job, t, announced, begun
  <2>6. IsOverdue(job, clock, grace) <=> ~ begun /\ clock > t + grace
    BY <2>1, <2>3, <1>1 DEF IsOverdue, Elapsed
  <2>7. status = "OVERDUE" <=> ~ begun /\ clock > t + grace
    BY <2>1, <2>3, <2>5, <2>6 DEF DerivedStatus
  <2>8. OverdueDuration(job, clock) > 0 <=> status = "OVERDUE"
    <3>1. CASE IsOverdue(job, clock, grace)
      <4>1. OverdueDuration(job, clock) = clock - (t + grace)
        BY <3>1, <2>1, <2>3, <2>6, <1>1 DEF OverdueDuration, Monus
      <4> HIDE DEF status
      <4> QED BY <4>1, <3>1, <2>1, <2>6, <2>7, <1>1
    <3>2. CASE ~ IsOverdue(job, clock, grace)
      <4>1. OverdueDuration(job, clock) = 0
        BY <3>2 DEF OverdueDuration
      <4> HIDE DEF status
      <4> QED BY <4>1, <3>2, <2>6, <2>7
    <3> QED BY <3>1, <3>2
  <2> HIDE DEF status
  <2>9. /\ (waits = "RETRIEVED_AWAITING_WORKER" <=> announced /\ ~ begun /\ ~ (clock > t + grace))
        /\ (waits \in {"AWAITING_POLL_WINDOW", "POSSIBLE_BATCH_BACKLOG"}
              => ~ announced /\ t <= clock)
    BY <2>1, <2>3, <2>7, <1>1, NoWordAssumption DEF DelayClassification
  <2> QED BY <2>7, <2>8, <2>9 DEF job, status, t, announced, begun
<1> QED BY <1>2 DEF ReportIsTrue, Response

-----------------------------------------------------------------------------
(* The theorems. *)

\* The inductive invariant holds of every run of the polling simulation.
THEOREM Invariance == Spec => []IndInv
<1> QED BY InitIndInv, NextIndInv, PTL DEF Spec

\* However poll is called, no two poll records name the same job.
THEOREM EachRetrievedOnce == Spec => []RetrievedOnce
<1>1. IndInv => RetrievedOnce
  BY DEF IndInv
<1> QED BY <1>1, Invariance, PTL

\* Older jobs do not starve: a poll leaves a due item only for an older one.
THEOREM NoStarvation == Spec => []WaitIsEarned
<1>1. IndInv => WaitIsEarned
  BY DEF IndInv
<1> QED BY <1>1, Invariance, PTL

\* The clock keeps within its bound, and the items, their views and what is
\* recorded of them are of their types, whatever is enqueued and polled.
THEOREM TypeCorrect == Spec => []TypeOK
<1>1. IndInv /\ ViewInv => TypeOK
  BY DEF IndInv, QueueType, ViewInv, TypeOK
<1>2. IndInv => QueueType
  BY DEF IndInv
<1> QED BY <1>1, <1>2, InitIndInv, NextIndInv, InitViewInv, NextViewInv, PTL DEF Spec

\* What a query derives from the view of an enqueued item is what the polls did
\* with it, at every time of the clock.
THEOREM ReportsAreTrue == Spec => []ReportIsTrue
<1>1. QueueType /\ ViewInv => ReportIsTrue
  BY ViewIsTrue
<1>2. IndInv => QueueType
  BY DEF IndInv
<1> QED BY <1>1, <1>2, InitIndInv, NextIndInv, InitViewInv, NextViewInv, PTL DEF Spec
=============================================================================

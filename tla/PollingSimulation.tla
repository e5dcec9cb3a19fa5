------------------------- MODULE PollingSimulation --------------------------
(****************************************************************************)
(* The polling simulation: PollingScheduler of simulation.py takes due      *)
(* items in batches and applies their EDRs to the visibility engine at      *)
(* once, against a virtual clock.  poll runs to its end in one thread, so   *)
(* it is one action; the scenarios choose its arguments.                    *)
(****************************************************************************)
EXTENDS QueryRules

CONSTANTS
    Job,            \* job ids, ordered as numbers
    ScheduledTimes, \* the times for which a job is scheduled
    Calls,          \* the argument lists of the polls made
    MaxTime         \* bound: the last time of the virtual clock

ASSUME JobAssumption == Job \subseteq Nat /\ IsFiniteSet(Job)
ASSUME TimeAssumption == MaxTime \in Nat /\ ScheduledTimes \subseteq 0..MaxTime
ASSUME CallsAssumption ==
    Calls \subseteq [start : BOOLEAN, complete : BOOLEAN, emit_retrieval : BOOLEAN,
                    retrieve_count : Nat \cup {None}]
ASSUME BatchConfigAssumption ==
    config \in [poll_interval : Nat, grace_period : Nat,
                max_items_per_poll : Nat \ {0}, worker_capacity : Nat]

VARIABLES
    clock,      \* VirtualClock.current
    items,      \* items: scheduled_at is None until the item is enqueued
    view,       \* the engine's _jobs
    record      \* what polls and the published EDRs say of each item

vars == <<clock, items, view, record>>

Record == [retrievals : Nat,       \* poll records that name the item
           passed_over : Nat,      \* poll records that count it eligible and leave it
           announced : BOOLEAN,    \* its retrieval EDR was emitted
           started : BOOLEAN]      \* its execution was started

TypeOK ==
    /\ clock \in 0..MaxTime
    /\ items \in [Job -> [scheduled_at : ScheduledTimes \cup {None}, retrieved : BOOLEAN]]
    /\ view \in [Job -> JobVisibility]
    /\ record \in [Job -> Record]

Init ==
    /\ clock = 0
    /\ items = [j \in Job |-> [scheduled_at |-> None, retrieved |-> FALSE]]
    /\ view = [j \in Job |-> NewJob]
    /\ record = [j \in Job |-> [retrievals |-> 0, passed_over |-> 0,
                                announced |-> FALSE, started |-> FALSE]]

-----------------------------------------------------------------------------
Queued == {j \in Job : items[j].scheduled_at # None}

\* EventFactory.make: the times are the clock's.
Make(type, scheduled_at, attempt_number) ==
    [event_id |-> 0, type |-> type, attempt_number |-> attempt_number, event_time |-> clock,
     ingestion_time |-> clock, scheduled_at |-> scheduled_at, retryable |-> FALSE,
     next_retry_at |-> None,
     poll_time |-> IF type = "JOB_SCHEDULER_ITEM_RETRIEVED" THEN clock ELSE None]

\* Mutant: the scheduled time is taken for a delay.
AddJob_Relative(j, scheduled_at) ==
    /\ j \notin Queued
    /\ items' = [items EXCEPT ![j].scheduled_at = clock + scheduled_at]
    /\ UNCHANGED <<clock, view, record>>

\* add_job of the polling scenarios: two EDRs, then enqueue.
AddJob(j, scheduled_at) ==
    /\ j \notin Queued
    /\ items' = [items EXCEPT ![j].scheduled_at = scheduled_at]
    /\ view' = [view EXCEPT ![j] =
                   Reduce(Reduce(@, Make("JOB_CREATED", scheduled_at, 0)),
                          Make("JOB_SCHEDULER_SUBMISSION_ACKNOWLEDGED", scheduled_at, 0))]
    /\ UNCHANGED <<clock, record>>

Advance ==
    /\ clock < MaxTime
    /\ clock' = clock + 1
    /\ UNCHANGED <<items, view, record>>

\* Mutant: an item is only due at the very time it is scheduled for.
Eligible_Exactly == {j \in Queued : ~ items[j].retrieved /\ items[j].scheduled_at = clock}

\* Mutant: retrieved items stay in the selection.
Eligible_Again == {j \in Queued : items[j].scheduled_at <= clock}

Eligible == {j \in Queued : ~ items[j].retrieved /\ items[j].scheduled_at <= clock}

\* The sort key (scheduled_at, job_id).
Precedes(j, k) ==
    \/ items[j].scheduled_at < items[k].scheduled_at
    \/ items[j].scheduled_at = items[k].scheduled_at /\ j < k

\* Mutant: retrieve_count = 0 is taken as a limit of no item.
Limit_Zero(retrieve_count) ==
    IF retrieve_count = None \/ retrieve_count > config.max_items_per_poll
    THEN config.max_items_per_poll ELSE retrieve_count

\* min(max_items_per_poll, retrieve_count or max_items_per_poll): 0 is no limit.
Limit(retrieve_count) ==
    IF retrieve_count \in {None, 0} \/ retrieve_count > config.max_items_per_poll
    THEN config.max_items_per_poll ELSE retrieve_count

\* The place of an item in its batch, counted from 1.
Position(j) == Cardinality({k \in Eligible : Precedes(k, j)}) + 1

\* The EDRs poll applies for a selected item.
Polled(j, call, starts) ==
    LET made(type) == Make(type, items[j].scheduled_at, 1)
        retrieved == IF call.emit_retrieval
                     THEN Reduce(view[j], made("JOB_SCHEDULER_ITEM_RETRIEVED")) ELSE view[j]
        running == IF starts
                   THEN Reduce(retrieved, made("JOB_EXECUTION_STARTED")) ELSE retrieved
    IN  IF starts /\ call.complete
        THEN Reduce(running, made("JOB_EXECUTION_SUCCEEDED")) ELSE running

Poll(call) ==
    LET selected == {j \in Eligible : Position(j) <= Limit(call.retrieve_count)}
        started == {j \in selected : call.start /\ Position(j) <= config.worker_capacity}
    IN  /\ items' = [j \in Job |-> [items[j] EXCEPT !.retrieved = @ \/ j \in selected]]
        /\ view' = [j \in Job |-> IF j \in selected THEN Polled(j, call, j \in started)
                                  ELSE view[j]]
        /\ record' = [j \in Job |->
               IF j \in selected
               THEN [record[j] EXCEPT !.retrievals = @ + 1,
                                      !.announced = @ \/ call.emit_retrieval,
                                      !.started = @ \/ j \in started]
               ELSE IF j \in Eligible THEN [record[j] EXCEPT !.passed_over = @ + 1]
               ELSE record[j]]
        /\ UNCHANGED clock

SomePoll == \E call \in Calls : Poll(call)

Next ==
    \/ \E j \in Job, t \in ScheduledTimes : AddJob(j, t)
    \/ Advance
    \/ SomePoll

\* The scheduler polls again and again while time passes.
Spec == Init /\ [][Next]_vars /\ WF_vars(Advance) /\ WF_vars(SomePoll)

-----------------------------------------------------------------------------
(* Properties. *)

\* POLL-03 and POLL-09: whoever polls, and however short the batches are, no
\* two poll records name the same job.
RetrievedOnce == \A j \in Job : record[j].retrievals = IF items[j].retrieved THEN 1 ELSE 0

\* POLL-05, older jobs do not starve: a due item is left in the queue at most
\* once for every older item that has been retrieved, so that its place in the
\* queue bounds its wait, also when items are enqueued late or retrieved singly.
WaitIsEarned ==
    \A j \in Queued :
        record[j].passed_over
            <= Cardinality({k \in Queued : items[k].retrieved /\ Precedes(k, j)})

\* Section 8 of the plan: what a query derives from the view and the time is what
\* the scheduler did.  OVERDUE is an unstarted job past its grace period, a wait
\* for a worker is a retrieval without a start, and a job is said to wait for a
\* poll only if its retrieval was never announced.
ReportIsTrue ==
    \A j \in Queued :
        LET answer == Response(view[j], clock)
            late == clock > items[j].scheduled_at + config.grace_period
            waits == answer.classification
        IN  /\ answer.status = "OVERDUE" <=> ~ record[j].started /\ late
            /\ answer.overdue_duration > 0 <=> answer.status = "OVERDUE"
            /\ waits = "RETRIEVED_AWAITING_WORKER"
                  <=> record[j].announced /\ ~ record[j].started /\ ~ late
            /\ waits \in {"AWAITING_POLL_WINDOW", "POSSIBLE_BATCH_BACKLOG"}
                  => ~ record[j].announced /\ items[j].scheduled_at <= clock

\* An enqueued item is retrieved in the end, whatever batch sizes are asked for.
EveryItemIsRetrieved == \A j \in Job : j \in Queued ~> items[j].retrieved
=============================================================================

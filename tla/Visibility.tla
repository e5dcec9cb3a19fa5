----------------------------- MODULE Visibility ------------------------------
(****************************************************************************)
(* VisibilityEngine of engine.py for one job: request threads of the API    *)
(* apply EDRs under the engine's lock, alone or as optimistic writers, and  *)
(* a reconciliation run marks findings on the stored view without the lock. *)
(* An EDR is journalled before it is reduced, and its reduction may raise.  *)
(* The transport may reorder, repeat and lose EDRs: any request may carry   *)
(* any event of the job's history.                                          *)
(****************************************************************************)
EXTENDS LifecycleRules, SequencesExt

CONSTANTS
    Writers,        \* request threads
    Histories,      \* the sets of EDRs a job may have produced
    Optimistic,     \* the kinds of request made: {FALSE}: apply, {TRUE}: apply_with_retry
    Retries,        \* apply_with_retry(retries)
    Naive,          \* the EDRs whose times carry no UTC offset
    MaxRaises,      \* bound: reductions that a reconciliation makes raise
    config,         \* VisibilityConfig, the thresholds of reconcile
    Clock           \* bound: the times at which a reconciliation may run

ASSUME HistoriesAssumption ==
    /\ Histories \subseteq SUBSET Event
    /\ \A events \in Histories :
          IsFiniteSet(events) /\ \A e, f \in events : e.event_id = f.event_id => e = f
ASSUME ConfigAssumption ==
    /\ Retries \in Nat /\ MaxRaises \in Nat /\ Clock \subseteq Nat /\ Optimistic \subseteq BOOLEAN
    /\ config \in [submission_acknowledgement_timeout : Nat, running_timeout : Nat,
                   retry_acknowledgement_timeout : Nat, grace_period : Nat]

VARIABLES
    history,        \* the EDRs produced for the job
    view,           \* _jobs[job_id]; NewJob while the key is missing
    zone,           \* tzinfo of its last_event_time
    journal,        \* _events
    event_ids,      \* _event_ids
    writer,         \* the request each thread is serving
    now,            \* the time of the last reconciliation run
    dropped         \* history: the EDRs whose reduction raised

vars == <<history, view, zone, journal, event_ids, writer, now, dropped>>

stored == <<view, zone>>

Idle == [pc |-> "idle"]

\* pc "copy" and "store" hold the lock: the EDR is journalled, its reduced copy is
\* not in the dictionary yet; known: the view's findings when the lock was taken.
Request == [pc : {"apply", "reload"}, event : history, optimistic : BOOLEAN,
            expected_version : Nat, number : 0..Retries]

Reducing == [pc : {"copy"}, event : history,
             known : [FindingCode -> {"none", "active", "resolved"}]]

Storing == [pc : {"store"}, event : history, job : JobVisibility]

TypeOK ==
    /\ history \in Histories
    /\ view \in JobVisibility
    /\ zone \in {"none", "aware", "naive"}
    /\ journal \in Seq(history)
    /\ event_ids = {journal[i].event_id : i \in DOMAIN journal}
    /\ writer \in [Writers -> {Idle, [pc |-> "raised"]} \cup Request \cup Reducing \cup Storing]
    /\ now \in Clock \cup {0}
    /\ dropped \subseteq ToSet(journal)

Init ==
    /\ history \in Histories
    /\ view = NewJob
    /\ zone = "none"
    /\ journal = <<>>
    /\ event_ids = {}
    /\ writer = [w \in Writers |-> Idle]
    /\ now = 0
    /\ dropped = {}

-----------------------------------------------------------------------------
\* A request reaches a thread; an optimistic writer has read the version.
Receive(w) ==
    /\ writer[w].pc \in {"idle", "raised"}
    /\ \E e \in history, optimistic \in Optimistic :
          writer' = [writer EXCEPT ![w] =
              [pc |-> "apply", event |-> e, optimistic |-> optimistic,
               expected_version |-> IF optimistic THEN view.version ELSE 0, number |-> 0]]
    /\ UNCHANGED <<history, stored, journal, event_ids, now, dropped>>

\* Mutant: apply does not take the lock.
LockFree_Always == TRUE

LockFree == \A w \in Writers : writer[w].pc \notin {"copy", "store"}

\* Mutant: the identity of an event is not remembered.
Seen_Never(e) == FALSE

Seen(e) == e.event_id \in event_ids

ExactDuplicate(w) ==
    /\ writer[w].pc = "apply"
    /\ LockFree
    /\ Seen(writer[w].event)
    /\ writer' = [writer EXCEPT ![w] = Idle]
    /\ UNCHANGED <<history, stored, journal, event_ids, now, dropped>>

VersionConflicts(w) ==
    writer[w].optimistic /\ writer[w].expected_version # view.version

\* Mutant: the identity of the event is not stored with it.
Apply_Forgetful(w) ==
    /\ writer[w].pc = "apply"
    /\ LockFree
    /\ ~ Seen(writer[w].event)
    /\ ~ VersionConflicts(w)
    /\ journal' = Append(journal, writer[w].event)
    /\ writer' = [writer EXCEPT ![w] = [pc |-> "copy", event |-> @.event,
                                       known |-> view.findings]]
    /\ UNCHANGED <<history, stored, event_ids, now, dropped>>

\* The EDR is remembered and journalled under the lock, and reduced after that.
Apply(w) ==
    /\ writer[w].pc = "apply"
    /\ LockFree
    /\ ~ Seen(writer[w].event)
    /\ ~ VersionConflicts(w)
    /\ journal' = Append(journal, writer[w].event)
    /\ event_ids' = event_ids \cup {writer[w].event.event_id}
    /\ writer' = [writer EXCEPT ![w] = [pc |-> "copy", event |-> @.event,
                                       known |-> view.findings]]
    /\ UNCHANGED <<history, stored, now, dropped>>

Zone(e) == IF e \in Naive THEN "naive" ELSE "aware"

\* _latest(last_event_time, event_time) compares the two.
Comparable(e) == zone \in {"none", Zone(e)}

\* The findings that reconcile marked again since the lock was taken: the copy of
\* each is of before or after.
Touched(w) == {code \in FindingCode : writer[w].known[code] \notin {"none", view.findings[code]}}

\* deepcopy of the stored object, which reconcile goes on marking.
Copied(w, before) ==
    [view EXCEPT !.findings =
        [code \in FindingCode |-> IF code \in before THEN writer[w].known[code] ELSE @[code]]]

\* reduce_visibility, on the copy.
Copy(w) ==
    /\ writer[w].pc = "copy"
    /\ Comparable(writer[w].event)
    /\ \E before \in SUBSET Touched(w) :
          writer' = [writer EXCEPT ![w] =
              [pc |-> "store", event |-> @.event, job |-> Reduce(Copied(w, before), @.event)]]
    /\ UNCHANGED <<history, stored, journal, event_ids, now, dropped>>

\* reconcile added a finding: a deepcopy that is at the dictionary raises.
Grown(w) == \E code \in FindingCode :
                writer[w].known[code] = "none" /\ view.findings[code] # "none"

\* The reduction raises.  The EDR stays journalled and remembered, the view is as
\* it was, and the producer's next try will be answered EXACT_DUPLICATE.
Raise(w) ==
    /\ writer[w].pc = "copy"
    /\ \/ ~ Comparable(writer[w].event)
       \/ Grown(w) /\ Cardinality(dropped) < MaxRaises
    /\ writer' = [writer EXCEPT ![w] = Idle]
    /\ dropped' = dropped \cup {writer[w].event}
    /\ UNCHANGED <<history, stored, journal, event_ids, now>>

Store(w) ==
    /\ writer[w].pc = "store"
    /\ view' = writer[w].job
    /\ zone' = Zone(writer[w].event)
    /\ writer' = [writer EXCEPT ![w] = Idle]
    /\ UNCHANGED <<history, journal, event_ids, now, dropped>>

\* Mutant: range(retries)
OutOfRetries_OffByOne(w) == writer[w].number + 1 >= Retries

OutOfRetries(w) == writer[w].number = Retries

\* VersionConflictError: caught by apply_with_retry until the last try.
Conflict(w) ==
    /\ writer[w].pc = "apply"
    /\ LockFree
    /\ ~ Seen(writer[w].event)
    /\ VersionConflicts(w)
    /\ writer' = [writer EXCEPT ![w] = IF OutOfRetries(w) THEN [pc |-> "raised"]
                                       ELSE [@ EXCEPT !.pc = "reload"]]
    /\ UNCHANGED <<history, stored, journal, event_ids, now, dropped>>

\* The version is read again outside the lock.
Reload(w) ==
    /\ writer[w].pc = "reload"
    /\ writer' = [writer EXCEPT ![w].pc = "apply",
                                ![w].number = @ + 1,
                                ![w].expected_version = view.version]
    /\ UNCHANGED <<history, stored, journal, event_ids, now, dropped>>

HasGap(job) ==
    \E n \in Attempts : job.attempts[n].status # "NONE" /\ MissingBefore(job, n)

\* The findings of one job at a time, in the order of reconcile's conditions.
Observed(job, time) ==
    {code \in FindingCode :
        \/ /\ code = "SCHEDULER_ACK_TIMEOUT"
           /\ job.recorded_status = "PENDING_SUBMISSION"
           /\ Elapsed(time, job.submission_requested_at,
                      config.submission_acknowledgement_timeout)
        \/ /\ code = "RUNNING_TIMEOUT"
           /\ job.recorded_status = "RUNNING"
           /\ Elapsed(time, job.started_at, config.running_timeout)
        \/ /\ code = "RETRY_ACK_TIMEOUT"
           /\ job.retry_requested /\ ~ job.retry_acknowledged
           /\ Elapsed(time, job.retry_requested_at, config.retry_acknowledgement_timeout)
        \/ code = "EXECUTION_START_OVERDUE" /\ IsOverdue(job, time, config.grace_period)
        \/ code = "ATTEMPT_SEQUENCE_GAP" /\ HasGap(job)}

\* The order of reconcile's conditions.
ReconcileOrder == <<"SCHEDULER_ACK_TIMEOUT", "RUNNING_TIMEOUT", "RETRY_ACK_TIMEOUT",
                    "EXECUTION_START_OVERDUE", "ATTEMPT_SEQUENCE_GAP">>

\* The first finding of a run at this time that is not marked yet.
Due(time, i) ==
    /\ ReconcileOrder[i] \in Observed(view, time)
    /\ view.findings[ReconcileOrder[i]] # "active"
    /\ \A k \in 1..(i - 1) : ReconcileOrder[k] \in Observed(view, time)
                              => view.findings[ReconcileOrder[k]] = "active"

\* reconcile marks the stored object, one finding at a time, with or without a
\* writer in the lock; times without an offset raise when it compares them.
Reconcile ==
    /\ zone # "naive"
    /\ \E time \in Clock, i \in DOMAIN ReconcileOrder :
          /\ time >= now
          /\ now' = time
          /\ Due(time, i)
          /\ view' = Finding(view, ReconcileOrder[i])
    /\ UNCHANGED <<history, zone, journal, event_ids, writer, dropped>>

Next ==
    \/ \E w \in Writers : \/ Receive(w) \/ ExactDuplicate(w) \/ Apply(w) \/ Copy(w)
                          \/ Raise(w) \/ Store(w)
                          \/ Conflict(w) \/ Reload(w)
    \/ Reconcile

Spec == Init /\ [][Next]_vars

-----------------------------------------------------------------------------
(* Properties. *)

\* The events without those of a set, in their order.
Without(events, S) ==
    LET kept[n \in 0..Len(events)] ==
            IF n = 0 THEN <<>>
            ELSE IF events[n] \in S THEN kept[n - 1] ELSE Append(kept[n - 1], events[n])
    IN  kept[Len(events)]

\* The journal without the EDRs whose reduction raised.
applied == Without(journal, dropped)

Applied(type) == {e \in ToSet(applied) : e.type = type}

\* The view once the writer in the lock, if any, has stored its copy.
Settled == LockFree

\* A recorded success is final: no late, repeated or conflicting EDR, and no
\* reconciliation run, moves recorded_status away from SUCCEEDED.
SuccessIsAbsorbing ==
    [][view.recorded_status = "SUCCEEDED" => view'.recorded_status = "SUCCEEDED"]_vars

\* In whatever order the STARTED EDRs of the attempts arrive, started_at is the
\* time of the earliest one whose reduction did not raise.
StartTimeExact ==
    LET starts == {e.event_time : e \in Applied("JOB_EXECUTION_STARTED")} IN
    Settled => IF starts = {} THEN view.started_at = None
               ELSE view.started_at \in starts /\ \A t \in starts : view.started_at <= t

\* The findings that only EDRs make, and reconcile does not.
EdrFinding == {"EXECUTED_AFTER_CANCEL", "EXECUTION_AFTER_RETRY_EXHAUSTION",
               "CONFLICTING_TERMINAL_OUTCOME"}

\* The parts of a view that only apply writes.
Projected(job) == [job EXCEPT !.findings = [code \in EdrFinding |-> @[code]]]

\* An EDR is missing from the view only if its own reduction raised: reducing the
\* others from nothing, in the order of the journal, gives the stored view.  No
\* thread undoes another one's update, and no run of reconcile an EDR's.
ViewIsReplay ==
    Settled => Projected(view) = Projected(Replayed(applied))

\* Exactly-once effect: an event that is delivered again is journalled once, and
\* the version never counts more events than the journal holds.
DuplicatesAreAbsorbed ==
    /\ Cardinality(ToSet(journal)) = Len(journal)
    /\ view.version <= Len(journal)

AttemptEvidence(e) ==
    e.type \in {"JOB_SCHEDULER_ITEM_RETRIEVED", "JOB_EXECUTION_STARTED",
               "JOB_EXECUTION_SUCCEEDED", "JOB_EXECUTION_FAILED"}

\* The event at i is evidence of an attempt, and nothing before it of attempt m.
OpensGap(events, i, m) ==
    /\ AttemptEvidence(events[i])
    /\ \A k \in 1..(i - 1) : AttemptEvidence(events[k]) => AttemptNumber(events[k]) # m

\* A gap is reported exactly when evidence of an attempt arrived before any
\* evidence of an earlier attempt, also when that evidence came in later.
GapIsReported ==
    Settled =>
        (view.findings["ATTEMPT_SEQUENCE_GAP"] # "none"
           <=> \E i \in DOMAIN applied : \E m \in 1..(AttemptNumber(applied[i]) - 1) :
                  OpensGap(applied, i, m))

\* One of the EDRs came after every acknowledgement that did.
Unanswered(acknowledgement, types) ==
    \E i \in DOMAIN applied :
        /\ applied[i].type \in types
        /\ \A k \in DOMAIN applied : applied[k].type = acknowledgement => k < i

\* A reconciliation that runs beside the writers does not accuse a scheduler that
\* has answered: an acknowledgement timeout stands only if a request, or what
\* the rules take for an open one, arrived after every acknowledgement.
AckTimeoutIsJustified ==
    Settled =>
        /\ view.findings["SCHEDULER_ACK_TIMEOUT"] = "active" =>
              Unanswered("JOB_SCHEDULER_SUBMISSION_ACKNOWLEDGED",
                         {"JOB_SCHEDULER_SUBMISSION_REQUESTED"})
        /\ view.findings["RETRY_ACK_TIMEOUT"] = "active" =>
              Unanswered("JOB_RETRY_ACKNOWLEDGED",
                         {"JOB_RETRY_REQUESTED", "JOB_RETRY_REJECTED", "JOB_RETRIES_EXHAUSTED"})

\* Whatever arrives around it, a success EDR makes the job SUCCEEDED unless the
\* view has evidence that the job or that attempt ended otherwise.
SuccessConverges ==
    LET otherwise(n) == {e \in ToSet(applied) :
            \/ e.type \in {"JOB_SCHEDULER_SUBMISSION_FAILED", "JOB_RETRY_REJECTED",
                           "JOB_RETRIES_EXHAUSTED"}
            \/ e.type = "JOB_EXECUTION_FAILED" /\ (~ e.retryable \/ AttemptNumber(e) = n)}
    IN  Settled => \A e \in Applied("JOB_EXECUTION_SUCCEEDED") :
                      otherwise(AttemptNumber(e)) = {} => view.recorded_status = "SUCCEEDED"

\* An optimistic writer conflicts at most once with every other EDR of the job:
\* with no more of them than retries, apply_with_retry never gives up.
WritersGetThrough ==
    Cardinality(history) <= Retries + 1 => \A w \in Writers : writer[w].pc # "raised"

-----------------------------------------------------------------------------
(* What specs/001 promises and the engine does not keep. *)

\* No late non-terminal EDR moves the job out of a terminal status.
TerminalNotRegressed ==
    [][view.recorded_status \in TERMINAL_STATUSES
          => view'.recorded_status \in TERMINAL_STATUSES]_vars

\* Every EDR that was journalled is in the view: it is if no reduction raises.
NoEventIsDropped ==
    Settled => Projected(view) = Projected(Replayed(journal))
=============================================================================

--------------------------- MODULE LifecycleRules ----------------------------
(****************************************************************************)
(* The visibility reducer of engine.py: what one EDR makes of the view of a *)
(* job.  reduce_visibility and the _on_* rules are functions of the view    *)
(* and the event; they read no clock and hold no lock.                      *)
(****************************************************************************)
EXTENDS Naturals, FiniteSets, Sequences

CONSTANTS
    MaxAttempt,     \* bound: the largest attempt number of an event
    None            \* Python None

ASSUME MaxAttemptAssumption == MaxAttempt \in Nat \ {0}
ASSUME NoTimeAssumption == None \notin Nat

TERMINAL_STATUSES == {"SUCCEEDED", "FAILED", "RETRIES_EXHAUSTED", "CANCELLED"}

Status == TERMINAL_STATUSES \cup
          {"UNKNOWN", "CREATED", "PENDING_SUBMISSION", "SCHEDULED", "AWAITING_EXECUTION",
           "RUNNING", "RETRY_PENDING", "RETRY_SCHEDULED"}

EventType == {"JOB_CREATED", "JOB_SCHEDULER_SUBMISSION_REQUESTED",
              "JOB_SCHEDULER_SUBMISSION_ACKNOWLEDGED", "JOB_SCHEDULER_SUBMISSION_FAILED",
              "JOB_SCHEDULER_ITEM_RETRIEVED", "JOB_EXECUTION_STARTED",
              "JOB_EXECUTION_SUCCEEDED", "JOB_EXECUTION_FAILED", "JOB_RETRY_REQUESTED",
              "JOB_RETRY_ACKNOWLEDGED", "JOB_RETRY_REJECTED", "JOB_RETRIES_EXHAUSTED",
              "JOB_CANCELLED"}

FindingCode == {"SCHEDULER_ACK_TIMEOUT", "RUNNING_TIMEOUT", "RETRY_ACK_TIMEOUT",
                "EXECUTION_START_OVERDUE", "ATTEMPT_SEQUENCE_GAP", "EXECUTED_AFTER_CANCEL",
                "EXECUTION_AFTER_RETRY_EXHAUSTION", "CONFLICTING_TERMINAL_OUTCOME"}

Time == Nat \cup {None}

Attempts == 1..MaxAttempt

\* attempts[n].status = "NONE" when the dictionary has no attempt n.
Attempt == [status : {"NONE", "UNKNOWN", "RETRIEVED", "RUNNING", "SUCCEEDED", "FAILED"},
            retrieved_at : Time, started_at : Time]

JobVisibility ==
    [recorded_status : Status, attempts : [Attempts -> Attempt],
     scheduled_at : Time, submission_requested_at : Time, scheduler_retrieved_at : Time,
     started_at : Time, completed_at : Time,
     retry_requested_at : Time, next_retry_at : Time, data_as_of : Time,
     retry_eligible : BOOLEAN, retry_requested : BOOLEAN, retry_acknowledged : BOOLEAN,
     cancellation_violation : BOOLEAN, retries_exhausted_violation : BOOLEAN,
     incomplete_lifecycle : BOOLEAN,
     findings : [FindingCode -> {"none", "active", "resolved"}], version : Nat]

\* An EDR, with the fields the rules read.
Event == [event_id : Nat, type : EventType, attempt_number : 0..MaxAttempt,
          event_time : Nat, ingestion_time : Nat, scheduled_at : Time, retryable : BOOLEAN,
          next_retry_at : Time, poll_time : Time]

\* JobVisibility(job_id=event.job_id)
NewJob ==
    [recorded_status |-> "UNKNOWN",
     attempts |-> [n \in Attempts |->
                      [status |-> "NONE", retrieved_at |-> None, started_at |-> None]],
     scheduled_at |-> None, submission_requested_at |-> None, scheduler_retrieved_at |-> None,
     started_at |-> None, completed_at |-> None,
     retry_requested_at |-> None, next_retry_at |-> None, data_as_of |-> None,
     retry_eligible |-> FALSE, retry_requested |-> FALSE, retry_acknowledged |-> FALSE,
     cancellation_violation |-> FALSE, retries_exhausted_violation |-> FALSE,
     incomplete_lifecycle |-> FALSE,
     findings |-> [code \in FindingCode |-> "none"], version |-> 0]

-----------------------------------------------------------------------------
\* Mutant: the time observed last replaces the earlier one.
Earliest_Last(left, right) == right

Earliest(left, right) ==
    IF left = None THEN right
    ELSE IF right = None \/ left <= right THEN left ELSE right

Latest(left, right) ==
    IF left = None THEN right
    ELSE IF right = None \/ right <= left THEN left ELSE right

\* event.attempt_number or 1
AttemptNumber(e) == IF e.attempt_number = 0 THEN 1 ELSE e.attempt_number

Finding(job, code) == [job EXCEPT !.findings[code] = "active"]

FindingIf(job, condition, code) == IF condition THEN Finding(job, code) ELSE job

Resolve(job, code) ==
    IF job.findings[code] = "active" THEN [job EXCEPT !.findings[code] = "resolved"] ELSE job

\* Mutant: range(1, number - 1)
MissingBefore_OffByOne(job, n) == \E m \in 1..(n - 2) : job.attempts[m].status = "NONE"

MissingBefore(job, n) == \E m \in 1..(n - 1) : job.attempts[m].status = "NONE"

\* _attempt: find or create the event's attempt, reporting a gap before it.
WithAttempt(job, e) ==
    LET n == AttemptNumber(e)
        gap == MissingBefore(job, n)
    IN  [FindingIf(job, gap, "ATTEMPT_SEQUENCE_GAP") EXCEPT
            !.incomplete_lifecycle = @ \/ gap,
            !.attempts[n].status = IF @ = "NONE" THEN "UNKNOWN" ELSE @]

TerminalConflict(job) ==
    Finding([job EXCEPT !.incomplete_lifecycle = TRUE], "CONFLICTING_TERMINAL_OUTCOME")

\* Mutant: an outcome seen under another event id is applied again.
IsSemanticDuplicate_Never(job, e) == FALSE

IsSemanticDuplicate(job, e) ==
    LET status == job.attempts[AttemptNumber(e)].status IN
    \/ e.type = "JOB_EXECUTION_SUCCEEDED" /\ status = "SUCCEEDED"
    \/ e.type = "JOB_EXECUTION_FAILED" /\ status = "FAILED"

-----------------------------------------------------------------------------
(* The rules, one per event type. *)

OnJobCreated(job, e) ==
    [job EXCEPT !.recorded_status = IF @ = "UNKNOWN" THEN "CREATED" ELSE @]

OnSubmissionRequested(job, e) ==
    [job EXCEPT
        !.submission_requested_at = Earliest(@, e.event_time),
        !.recorded_status =
            IF @ \in TERMINAL_STATUSES \cup {"RUNNING", "RETRY_PENDING", "RETRY_SCHEDULED"}
            THEN @ ELSE "PENDING_SUBMISSION"]

OnSubmissionAcknowledged(job, e) ==
    Resolve([job EXCEPT
                !.recorded_status =
                    IF @ \in TERMINAL_STATUSES \cup
                             {"RUNNING", "RETRY_PENDING", "RETRY_SCHEDULED", "AWAITING_EXECUTION"}
                    THEN @ ELSE "SCHEDULED"],
            "SCHEDULER_ACK_TIMEOUT")

OnSubmissionFailed(job, e) ==
    IF job.recorded_status \in TERMINAL_STATUSES THEN job
    ELSE [job EXCEPT !.recorded_status = "FAILED",
                     !.completed_at = Latest(@, e.event_time)]

\* event.poll_time or event.event_time
RetrievedTime(e) == IF e.poll_time = None THEN e.event_time ELSE e.poll_time

RetrievedAttempt(attempt, e) ==
    [attempt EXCEPT !.retrieved_at = Earliest(@, RetrievedTime(e)),
                    !.status = IF @ = "UNKNOWN" THEN "RETRIEVED" ELSE @]

OnItemRetrieved(job, e) ==
    LET n == AttemptNumber(e) IN
    [WithAttempt(job, e) EXCEPT
        !.attempts[n] = RetrievedAttempt(@, e),
        !.scheduler_retrieved_at = Earliest(@, RetrievedTime(e)),
        !.recorded_status = IF @ \in TERMINAL_STATUSES \cup {"RUNNING"}
                            THEN @ ELSE "AWAITING_EXECUTION"]

\* Mutant: a start that arrives after the success restarts the job.
OnStarted_Restarts(job, e) ==
    LET n == AttemptNumber(e) IN
    [WithAttempt(job, e) EXCEPT
        !.attempts[n].started_at = Earliest(@, e.event_time),
        !.attempts[n].status = "RUNNING",
        !.started_at = Earliest(@, e.event_time),
        !.recorded_status = "RUNNING"]

\* The start is recorded even when it arrives after the outcome.
Backfilled(found, e) ==
    LET n == AttemptNumber(e) IN
    [found EXCEPT
        !.incomplete_lifecycle = @ \/ found.attempts[n].retrieved_at = None,
        !.attempts[n].started_at = Earliest(@, e.event_time),
        !.started_at = Earliest(@, e.event_time)]

OnStarted(job, e) ==
    LET n == AttemptNumber(e)
        found == WithAttempt(job, e)
        attempt == found.attempts[n]
        backfilled == Backfilled(found, e)
        cancelled == found.recorded_status = "CANCELLED"
        exhausted == found.recorded_status = "RETRIES_EXHAUSTED"
    IN  IF \/ attempt.status = "SUCCEEDED" \/ found.recorded_status = "SUCCEEDED"
           \/ attempt.status = "FAILED" /\ found.recorded_status = "FAILED"
        THEN backfilled
        ELSE [FindingIf(FindingIf(backfilled, cancelled, "EXECUTED_AFTER_CANCEL"),
                        exhausted, "EXECUTION_AFTER_RETRY_EXHAUSTION") EXCEPT
                 !.attempts[n].status = "RUNNING",
                 !.cancellation_violation = @ \/ cancelled,
                 !.retries_exhausted_violation = @ \/ exhausted,
                 !.recorded_status = "RUNNING"]

OnSucceeded(job, e) ==
    LET n == AttemptNumber(e)
        found == WithAttempt(job, e)
        cancelled == found.recorded_status = "CANCELLED"
    IN  IF \/ found.attempts[n].status = "FAILED"
           \/ found.recorded_status \in {"FAILED", "RETRIES_EXHAUSTED"}
        THEN TerminalConflict(found)
        ELSE [FindingIf(found, cancelled, "EXECUTED_AFTER_CANCEL") EXCEPT
                 !.incomplete_lifecycle = @ \/ found.attempts[n].started_at = None,
                 !.cancellation_violation = @ \/ cancelled,
                 !.attempts[n].status = "SUCCEEDED",
                 !.completed_at = Latest(@, e.event_time),
                 !.recorded_status = "SUCCEEDED",
                 !.retry_eligible = FALSE,
                 !.next_retry_at = None]

\* Mutant: a failure always overrules what is recorded.
OnFailed_Overrules(job, e) ==
    [WithAttempt(job, e) EXCEPT
        !.attempts[AttemptNumber(e)].status = "FAILED",
        !.completed_at = Latest(@, e.event_time),
        !.retry_eligible = e.retryable,
        !.recorded_status = IF e.retryable THEN "RETRY_PENDING" ELSE "FAILED"]

OnFailed(job, e) ==
    LET n == AttemptNumber(e)
        found == WithAttempt(job, e)
    IN  IF \/ found.attempts[n].status = "SUCCEEDED"
           \/ found.recorded_status \in TERMINAL_STATUSES \ {"CANCELLED"}
        THEN TerminalConflict(found)
        ELSE [found EXCEPT
                 !.incomplete_lifecycle = @ \/ found.attempts[n].started_at = None,
                 !.attempts[n].status = "FAILED",
                 !.completed_at = Latest(@, e.event_time),
                 !.retry_eligible = e.retryable,
                 !.retry_requested = FALSE,
                 !.retry_acknowledged = FALSE,
                 !.next_retry_at = None,
                 !.recorded_status = IF e.retryable THEN "RETRY_PENDING" ELSE "FAILED"]

OnRetryRequested(job, e) ==
    IF job.recorded_status \in TERMINAL_STATUSES THEN job
    ELSE [job EXCEPT !.retry_requested = TRUE,
                     !.retry_acknowledged = FALSE,
                     !.retry_requested_at = Latest(@, e.event_time),
                     !.next_retry_at = None,
                     !.recorded_status = "RETRY_PENDING"]

\* Mutant: the timeout that was reported is not resolved.
OnRetryAcknowledged_Unresolved(job, e) ==
    [job EXCEPT
        !.retry_requested = TRUE,
        !.retry_acknowledged = TRUE,
        !.next_retry_at = IF e.next_retry_at = None THEN @ ELSE e.next_retry_at,
        !.recorded_status = IF @ \in TERMINAL_STATUSES \cup {"RUNNING"}
                            THEN @ ELSE "RETRY_SCHEDULED"]

OnRetryAcknowledged(job, e) ==
    Resolve([job EXCEPT
                !.retry_requested = TRUE,
                !.retry_acknowledged = TRUE,
                !.next_retry_at = IF e.next_retry_at = None THEN @ ELSE e.next_retry_at,
                !.recorded_status = IF @ \in TERMINAL_STATUSES \cup {"RUNNING"}
                                    THEN @ ELSE "RETRY_SCHEDULED"],
            "RETRY_ACK_TIMEOUT")

OnRetryRejected(job, e) ==
    IF job.recorded_status \in TERMINAL_STATUSES THEN job
    ELSE [job EXCEPT !.retry_requested = TRUE,
                     !.retry_acknowledged = FALSE,
                     !.retry_eligible = FALSE,
                     !.next_retry_at = None,
                     !.recorded_status = "FAILED"]

OnRetriesExhausted(job, e) ==
    IF job.recorded_status = "SUCCEEDED" THEN job
    ELSE [job EXCEPT !.recorded_status = "RETRIES_EXHAUSTED",
                     !.retry_eligible = FALSE,
                     !.retry_acknowledged = FALSE,
                     !.next_retry_at = None,
                     !.completed_at = Latest(@, e.event_time)]

OnCancelled(job, e) ==
    IF job.recorded_status \in TERMINAL_STATUSES THEN job
    ELSE [job EXCEPT !.recorded_status = "CANCELLED",
                     !.completed_at = Latest(@, e.event_time)]

-----------------------------------------------------------------------------
\* The events a rule answers with False: terminal state preserved.
Ignored(job, e) ==
    \/ /\ e.type \in {"JOB_SCHEDULER_SUBMISSION_FAILED", "JOB_RETRY_REQUESTED",
                      "JOB_RETRY_REJECTED", "JOB_CANCELLED"}
       /\ job.recorded_status \in TERMINAL_STATUSES
    \/ e.type = "JOB_RETRIES_EXHAUSTED" /\ job.recorded_status = "SUCCEEDED"

\* _project: the handler named after the event type.
Project(job, e) ==
    CASE e.type = "JOB_CREATED" -> OnJobCreated(job, e)
      [] e.type = "JOB_SCHEDULER_SUBMISSION_REQUESTED" -> OnSubmissionRequested(job, e)
      [] e.type = "JOB_SCHEDULER_SUBMISSION_ACKNOWLEDGED" -> OnSubmissionAcknowledged(job, e)
      [] e.type = "JOB_SCHEDULER_SUBMISSION_FAILED" -> OnSubmissionFailed(job, e)
      [] e.type = "JOB_SCHEDULER_ITEM_RETRIEVED" -> OnItemRetrieved(job, e)
      [] e.type = "JOB_EXECUTION_STARTED" -> OnStarted(job, e)
      [] e.type = "JOB_EXECUTION_SUCCEEDED" -> OnSucceeded(job, e)
      [] e.type = "JOB_EXECUTION_FAILED" -> OnFailed(job, e)
      [] e.type = "JOB_RETRY_REQUESTED" -> OnRetryRequested(job, e)
      [] e.type = "JOB_RETRY_ACKNOWLEDGED" -> OnRetryAcknowledged(job, e)
      [] e.type = "JOB_RETRY_REJECTED" -> OnRetryRejected(job, e)
      [] e.type = "JOB_RETRIES_EXHAUSTED" -> OnRetriesExhausted(job, e)
      [] e.type = "JOB_CANCELLED" -> OnCancelled(job, e)

\* What every event brings to the view before its rule runs: the first
\* scheduled time observed is kept.
Described(job, e) ==
    [job EXCEPT !.scheduled_at = IF @ = None THEN e.scheduled_at ELSE @]

Reduced(job, e) ==
    IF IsSemanticDuplicate(job, e) THEN job
    ELSE [Project(Described(job, e), e) EXCEPT
             !.version = IF Ignored(job, e) THEN @ ELSE @ + 1]

\* Mutant: the view is as of the EDR reduced last.
Reduce_LastIngested(job, e) == [Reduced(job, e) EXCEPT !.data_as_of = e.ingestion_time]

\* reduce_visibility: the version counts the events that were not ignored, and
\* data_as_of is the latest ingestion_time of all of them.
Reduce(job, e) == [Reduced(job, e) EXCEPT !.data_as_of = Latest(@, e.ingestion_time)]

\* The views a job goes through when its events are reduced one by one, from the
\* new view on.
Replay(events) ==
    LET views[n \in 0..Len(events)] ==
            IF n = 0 THEN NewJob ELSE Reduce(views[n - 1], events[n])
    IN  views

Replayed(events) == Replay(events)[Len(events)]

\* now - since > timedelta(seconds=timeout)
Elapsed(now, since, timeout) == since # None /\ now > since + timeout

IsOverdue(job, now, grace_period) ==
    /\ Elapsed(now, job.scheduled_at, grace_period)
    /\ job.started_at = None
    /\ job.recorded_status \in {"SCHEDULED", "AWAITING_EXECUTION"}

CompletedAttempts(job) ==
    {n \in Attempts : job.attempts[n].status \in {"SUCCEEDED", "FAILED"}}
=============================================================================

---------------------------- MODULE ReducerProofs ----------------------------
(****************************************************************************)
(* Lemmas on the visibility reducer, for any view, event and number of      *)
(* attempts: the fields each rule writes, the effect of one EDR in terms of *)
(* the few fields the properties are about, that findings do not feed back  *)
(* into the rest of the view, that a view only moves forward, and what a    *)
(* replay of a journal is.                                                  *)
(****************************************************************************)
EXTENDS LifecycleRules, WellFoundedInduction, TLAPS

(* Views as records of fields. *)

Fields == {"recorded_status", "attempts", "scheduled_at", "submission_requested_at",
           "scheduler_retrieved_at", "started_at", "completed_at", "retry_requested_at",
           "next_retry_at", "data_as_of", "retry_eligible", "retry_requested",
           "retry_acknowledged", "cancellation_violation", "retries_exhausted_violation",
           "incomplete_lifecycle", "findings", "version"}

IsView(r) == r = [f \in Fields |-> r[f]]

\* r differs from job in the fields S only.
Keeps(r, job, S) == IsView(r) /\ \A f \in Fields \ S : r[f] = job[f]

\* Two views that differ in their findings only.
Same(a, b) == \A f \in Fields \ {"findings"} : a[f] = b[f]

\* OnStarted only fills in the time of a start that comes after the outcome.
StartIsLate(found, n) ==
    \/ found.attempts[n].status = "SUCCEEDED"
    \/ found.recorded_status = "SUCCEEDED"
    \/ found.attempts[n].status = "FAILED" /\ found.recorded_status = "FAILED"

\* A view of a job is a record with these fields and no others.
LEMMA ViewShape == ASSUME NEW job \in JobVisibility PROVE IsView(job) /\ DOMAIN job = Fields
BY DEF IsView, JobVisibility, Fields

\* A view whose fields are of their types is a view of a job.
LEMMA TypeFromFields == ASSUME NEW r, IsView(r),
     r.recorded_status \in Status, r.attempts \in [Attempts -> Attempt],
     r.scheduled_at \in Time, r.submission_requested_at \in Time,
     r.scheduler_retrieved_at \in Time,
     r.started_at \in Time, r.completed_at \in Time,
     r.retry_requested_at \in Time, r.next_retry_at \in Time, r.data_as_of \in Time,
     r.retry_eligible \in BOOLEAN, r.retry_requested \in BOOLEAN,
     r.retry_acknowledged \in BOOLEAN,
     r.cancellation_violation \in BOOLEAN, r.retries_exhausted_violation \in BOOLEAN,
     r.incomplete_lifecycle \in BOOLEAN,
     r.findings \in [FindingCode -> {"none", "active", "resolved"}], r.version \in Nat
   PROVE r \in JobVisibility
BY DEF IsView, Fields, JobVisibility

\* The earlier and the later of two optional times are optional times.
LEMMA EarliestType ==
    ASSUME NEW a \in Time, NEW b \in Time
    PROVE  Earliest(a, b) \in Time
BY DEF Earliest, Time

LEMMA LatestType ==
    ASSUME NEW a \in Time, NEW b \in Time
    PROVE  Latest(a, b) \in Time
BY DEF Latest, Time

\* The number of an event is that of an attempt.
LEMMA NumberType ==
    ASSUME NEW e \in Event
    PROVE  AttemptNumber(e) \in Attempts
BY MaxAttemptAssumption DEF AttemptNumber, Event, Attempts

\* An item is retrieved at some time.
LEMMA RetrievedTimeType ==
    ASSUME NEW e \in Event
    PROVE  RetrievedTime(e) \in Nat
BY DEF RetrievedTime, Event, Time

\* OnRetryAcknowledged makes r of job.
AcknowledgedFields(job, e, r) ==
    /\ Keeps(r, job, {"findings", "retry_requested", "retry_acknowledged", "next_retry_at",
                      "recorded_status"})
    /\ r.retry_requested = TRUE
    /\ r.retry_acknowledged = TRUE
    /\ r.next_retry_at = IF e.next_retry_at = None THEN job.next_retry_at ELSE e.next_retry_at
    /\ r.recorded_status = IF job.recorded_status \in TERMINAL_STATUSES \cup {"RUNNING"}
                           THEN job.recorded_status ELSE "RETRY_SCHEDULED"

\* The fields each rule writes, as its EXCEPT says; what follows needs no other
\* fact about the records.
LEMMA OnRetryAcknowledgedChanges ==
    ASSUME NEW job, IsView(job), NEW e
    PROVE  AcknowledgedFields(job, e, OnRetryAcknowledged(job, e))
BY ZenonT(60) DEF IsView, Keeps, Fields, OnRetryAcknowledged, Resolve, AcknowledgedFields

\* WithAttempt makes r of job.
FoundFields(job, e, r) ==
    /\ Keeps(r, job, {"findings", "incomplete_lifecycle", "attempts"})
    /\ r.incomplete_lifecycle =
          (job.incomplete_lifecycle \/ MissingBefore(job, AttemptNumber(e)))
    /\ r.findings = IF MissingBefore(job, AttemptNumber(e))
                    THEN [job.findings EXCEPT !["ATTEMPT_SEQUENCE_GAP"] = "active"]
                    ELSE job.findings
    /\ r.attempts = [job.attempts EXCEPT ![AttemptNumber(e)].status =
                        IF @ = "NONE" THEN "UNKNOWN" ELSE @]

LEMMA WithAttemptChanges ==
    ASSUME NEW job, IsView(job), NEW e
    PROVE  FoundFields(job, e, WithAttempt(job, e))
BY DEF IsView, Keeps, Fields, WithAttempt, FindingIf, Finding, FoundFields

LEMMA TerminalConflictChanges == ASSUME NEW job, IsView(job)
  PROVE LET r == TerminalConflict(job) IN
     /\ Keeps(r, job, {"findings", "incomplete_lifecycle"})
     /\ r.incomplete_lifecycle = TRUE
     /\ r.findings = [job.findings EXCEPT !["CONFLICTING_TERMINAL_OUTCOME"] = "active"]
 BY DEF IsView, Keeps, Fields, TerminalConflict, Finding

\* OnItemRetrieved makes r of found, the view with the attempt n.
RetrievedFields(found, n, e, r) ==
    /\ Keeps(r, found, {"attempts", "scheduler_retrieved_at", "recorded_status"})
    /\ r.attempts = [found.attempts EXCEPT ![n] = RetrievedAttempt(@, e)]
    /\ r.scheduler_retrieved_at = Earliest(found.scheduler_retrieved_at, RetrievedTime(e))
    /\ r.recorded_status = IF found.recorded_status \in TERMINAL_STATUSES \cup {"RUNNING"}
                           THEN found.recorded_status ELSE "AWAITING_EXECUTION"

LEMMA OnItemRetrievedChanges ==
    ASSUME NEW job, NEW e, IsView(WithAttempt(job, e))
    PROVE  RetrievedFields(WithAttempt(job, e), AttemptNumber(e), e, OnItemRetrieved(job, e))
BY DEF IsView, Keeps, Fields, OnItemRetrieved, RetrievedFields

\* Backfilled makes r of found.
BackfillFields(found, n, e, r) ==
    /\ Keeps(r, found, {"attempts", "started_at", "incomplete_lifecycle"})
    /\ r.attempts = [found.attempts EXCEPT ![n].started_at = Earliest(@, e.event_time)]
    /\ r.started_at = Earliest(found.started_at, e.event_time)
    /\ r.incomplete_lifecycle =
          (found.incomplete_lifecycle \/ found.attempts[n].retrieved_at = None)

LEMMA BackfilledChanges ==
    ASSUME NEW found, NEW e, IsView(found)
    PROVE  BackfillFields(found, AttemptNumber(e), e, Backfilled(found, e))
BY DEF IsView, Keeps, Fields, Backfilled, BackfillFields

\* OnStarted makes r of found, the view with the attempt, and b, which has the start.
StartFields(found, b, n, r) ==
    IF StartIsLate(found, n) THEN r = b
    ELSE /\ Keeps(r, b, {"attempts", "cancellation_violation", "retries_exhausted_violation",
                         "recorded_status", "findings"})
         /\ r.attempts = [b.attempts EXCEPT ![n].status = "RUNNING"]
         /\ r.recorded_status = "RUNNING"
         /\ r.cancellation_violation =
               (b.cancellation_violation \/ found.recorded_status = "CANCELLED")
         /\ r.retries_exhausted_violation =
               (b.retries_exhausted_violation \/ found.recorded_status = "RETRIES_EXHAUSTED")
         /\ r.findings =
               IF found.recorded_status = "CANCELLED"
               THEN [b.findings EXCEPT !["EXECUTED_AFTER_CANCEL"] = "active"]
               ELSE IF found.recorded_status = "RETRIES_EXHAUSTED"
               THEN [b.findings EXCEPT !["EXECUTION_AFTER_RETRY_EXHAUSTION"] = "active"]
               ELSE b.findings

LEMMA OnStartedChanges ==
    ASSUME NEW job, NEW e, IsView(Backfilled(WithAttempt(job, e), e))
    PROVE  StartFields(WithAttempt(job, e), Backfilled(WithAttempt(job, e), e),
                       AttemptNumber(e), OnStarted(job, e))
<1> DEFINE n == AttemptNumber(e)
           found == WithAttempt(job, e)
           b == Backfilled(found, e)
           r == OnStarted(job, e)
           cancelled == found.recorded_status = "CANCELLED"
           exhausted == found.recorded_status = "RETRIES_EXHAUSTED"
           x == FindingIf(FindingIf(b, cancelled, "EXECUTED_AFTER_CANCEL"),
                          exhausted, "EXECUTION_AFTER_RETRY_EXHAUSTION")
<1>1. r = IF StartIsLate(found, n) THEN b
          ELSE [x EXCEPT !.attempts[n].status = "RUNNING",
                         !.cancellation_violation = @ \/ cancelled,
                         !.retries_exhausted_violation = @ \/ exhausted,
                         !.recorded_status = "RUNNING"]
  BY DEF OnStarted, StartIsLate
<1> HIDE DEF r, n, found, b
<1>2. /\ Keeps(x, b, {"findings"})
      /\ x.findings = IF cancelled
                      THEN [b.findings EXCEPT !["EXECUTED_AFTER_CANCEL"] = "active"]
                      ELSE IF exhausted
                      THEN [b.findings EXCEPT !["EXECUTION_AFTER_RETRY_EXHAUSTION"] = "active"]
                      ELSE b.findings
  BY DEF IsView, Keeps, Fields, FindingIf, Finding, b, found
<1> HIDE DEF x, cancelled, exhausted
<1>3. ~ StartIsLate(found, n) =>
        /\ Keeps(r, x, {"attempts", "cancellation_violation", "retries_exhausted_violation",
                        "recorded_status"})
        /\ r.attempts = [x.attempts EXCEPT ![n].status = "RUNNING"]
        /\ r.recorded_status = "RUNNING"
        /\ r.cancellation_violation = (x.cancellation_violation \/ cancelled)
        /\ r.retries_exhausted_violation = (x.retries_exhausted_violation \/ exhausted)
  BY <1>1, <1>2 DEF IsView, Keeps, Fields
<1>4. StartFields(found, b, n, r)
  <2>1. CASE StartIsLate(found, n)
    BY <1>1, <2>1 DEF StartFields
  <2>2. CASE ~ StartIsLate(found, n)
    <3>1. Keeps(r, b, {"attempts", "cancellation_violation", "retries_exhausted_violation",
                       "recorded_status", "findings"})
      BY <1>2, <1>3, <2>2 DEF Keeps
    <3>2. /\ r.attempts = [b.attempts EXCEPT ![n].status = "RUNNING"]
          /\ r.cancellation_violation = (b.cancellation_violation \/ cancelled)
          /\ r.retries_exhausted_violation = (b.retries_exhausted_violation \/ exhausted)
          /\ r.findings = x.findings
      BY <1>2, <1>3, <2>2 DEF Keeps, Fields
    <3> QED BY <1>2, <1>3, <2>2, <3>1, <3>2 DEF StartFields, cancelled, exhausted
  <2> QED BY <2>1, <2>2
<1> QED BY <1>4 DEF r, n, found, b

\* OnSucceeded makes r of found, the view with the attempt n.
SuccessConflicts(found, n) ==
    \/ found.attempts[n].status = "FAILED"
    \/ found.recorded_status \in {"FAILED", "RETRIES_EXHAUSTED"}

SuccessFields(found, n, e, r) ==
    IF SuccessConflicts(found, n) THEN r = TerminalConflict(found)
    ELSE /\ Keeps(r, found, {"attempts", "incomplete_lifecycle", "recorded_status",
                             "cancellation_violation", "completed_at", "retry_eligible",
                             "next_retry_at", "findings"})
         /\ r.attempts = [found.attempts EXCEPT ![n].status = "SUCCEEDED"]
         /\ r.recorded_status = "SUCCEEDED"
         /\ r.cancellation_violation =
               (found.cancellation_violation \/ found.recorded_status = "CANCELLED")
         /\ r.completed_at = Latest(found.completed_at, e.event_time)
         /\ r.retry_eligible = FALSE
         /\ r.next_retry_at = None
         /\ r.incomplete_lifecycle =
               (found.incomplete_lifecycle \/ found.attempts[n].started_at = None)
         /\ r.findings = IF found.recorded_status = "CANCELLED"
                         THEN [found.findings EXCEPT !["EXECUTED_AFTER_CANCEL"] = "active"]
                         ELSE found.findings

LEMMA OnSucceededChanges ==
    ASSUME NEW job, NEW e, IsView(WithAttempt(job, e))
    PROVE  SuccessFields(WithAttempt(job, e), AttemptNumber(e), e, OnSucceeded(job, e))
<1> DEFINE n == AttemptNumber(e)
           found == WithAttempt(job, e)
           r == OnSucceeded(job, e)
           cancelled == found.recorded_status = "CANCELLED"
           x == FindingIf(found, cancelled, "EXECUTED_AFTER_CANCEL")
<1>1. r = IF SuccessConflicts(found, n) THEN TerminalConflict(found)
          ELSE [x EXCEPT !.incomplete_lifecycle = @ \/ found.attempts[n].started_at = None,
                         !.cancellation_violation = @ \/ cancelled,
                         !.attempts[n].status = "SUCCEEDED",
                         !.completed_at = Latest(@, e.event_time),
                         !.recorded_status = "SUCCEEDED",
                         !.retry_eligible = FALSE,
                         !.next_retry_at = None]
  BY DEF OnSucceeded, SuccessConflicts
<1> HIDE DEF r, n, found
<1>2. /\ Keeps(x, found, {"findings"})
      /\ x.findings = IF cancelled
                      THEN [found.findings EXCEPT !["EXECUTED_AFTER_CANCEL"] = "active"]
                      ELSE found.findings
  BY DEF IsView, Keeps, Fields, FindingIf, Finding, found
<1> HIDE DEF x, cancelled
<1>3. ~ SuccessConflicts(found, n) =>
        /\ Keeps(r, x, {"attempts", "incomplete_lifecycle", "recorded_status",
                        "cancellation_violation", "completed_at", "retry_eligible",
                        "next_retry_at"})
        /\ r.attempts = [x.attempts EXCEPT ![n].status = "SUCCEEDED"]
        /\ r.recorded_status = "SUCCEEDED"
        /\ r.cancellation_violation = (x.cancellation_violation \/ cancelled)
        /\ r.completed_at = Latest(x.completed_at, e.event_time)
        /\ r.retry_eligible = FALSE
        /\ r.next_retry_at = None
        /\ r.incomplete_lifecycle =
              (x.incomplete_lifecycle \/ found.attempts[n].started_at = None)
  BY <1>1, <1>2 DEF IsView, Keeps, Fields
<1>4. SuccessFields(found, n, e, r)
  <2>1. CASE SuccessConflicts(found, n)
    BY <1>1, <2>1 DEF SuccessFields
  <2>2. CASE ~ SuccessConflicts(found, n)
    <3>1. Keeps(r, found, {"attempts", "incomplete_lifecycle", "recorded_status",
                           "cancellation_violation", "completed_at", "retry_eligible",
                           "next_retry_at", "findings"})
      BY <1>2, <1>3, <2>2 DEF Keeps
    <3>2. /\ r.attempts = [found.attempts EXCEPT ![n].status = "SUCCEEDED"]
          /\ r.cancellation_violation = (found.cancellation_violation \/ cancelled)
          /\ r.completed_at = Latest(found.completed_at, e.event_time)
          /\ r.incomplete_lifecycle =
                (found.incomplete_lifecycle \/ found.attempts[n].started_at = None)
          /\ r.findings = x.findings
      BY <1>2, <1>3, <2>2 DEF Keeps, Fields
    <3> QED BY <1>2, <1>3, <2>2, <3>1, <3>2 DEF SuccessFields, cancelled
  <2> QED BY <2>1, <2>2
<1> QED BY <1>4 DEF r, n, found

\* OnFailed makes r of found.
FailureConflicts(found, n) ==
    \/ found.attempts[n].status = "SUCCEEDED"
    \/ found.recorded_status \in TERMINAL_STATUSES \ {"CANCELLED"}

FailureFields(found, n, e, r) ==
    IF FailureConflicts(found, n) THEN r = TerminalConflict(found)
    ELSE /\ Keeps(r, found, {"attempts", "incomplete_lifecycle", "recorded_status",
                             "completed_at", "retry_eligible", "next_retry_at",
                             "retry_requested", "retry_acknowledged"})
         /\ r.attempts = [found.attempts EXCEPT ![n].status = "FAILED"]
         /\ r.recorded_status = IF e.retryable THEN "RETRY_PENDING" ELSE "FAILED"
         /\ r.completed_at = Latest(found.completed_at, e.event_time)
         /\ r.retry_eligible = e.retryable
         /\ r.next_retry_at = None
         /\ r.retry_requested = FALSE
         /\ r.retry_acknowledged = FALSE
         /\ r.incomplete_lifecycle =
               (found.incomplete_lifecycle \/ found.attempts[n].started_at = None)

LEMMA OnFailedChanges ==
    ASSUME NEW job, NEW e, IsView(WithAttempt(job, e))
    PROVE  FailureFields(WithAttempt(job, e), AttemptNumber(e), e, OnFailed(job, e))
BY ZenonT(60) DEF IsView, Keeps, Fields, OnFailed, FailureFields, FailureConflicts

-----------------------------------------------------------------------------
EvidenceTypes == {"JOB_SCHEDULER_ITEM_RETRIEVED", "JOB_EXECUTION_STARTED",
             "JOB_EXECUTION_SUCCEEDED", "JOB_EXECUTION_FAILED"}

StartEffect(job, e, r) ==
    r.started_at = IF e.type = "JOB_EXECUTION_STARTED"
                   THEN Earliest(job.started_at, e.event_time) ELSE job.started_at

AttemptEffect(job, e, r) ==
    \A m \in Attempts :
        IF e.type \in EvidenceTypes /\ m = AttemptNumber(e)
        THEN /\ r.attempts[m].status # "NONE"
             /\ r.attempts[m].status = "SUCCEEDED" =>
                   job.attempts[m].status = "SUCCEEDED" \/ e.type = "JOB_EXECUTION_SUCCEEDED"
             /\ r.attempts[m].status = "FAILED" =>
                   job.attempts[m].status = "FAILED" \/ e.type = "JOB_EXECUTION_FAILED"
        ELSE r.attempts[m].status = job.attempts[m].status

GapEffect(job, e, r) ==
    \/ r.findings["ATTEMPT_SEQUENCE_GAP"] =
          IF e.type \in EvidenceTypes /\ MissingBefore(job, AttemptNumber(e))
          THEN "active" ELSE job.findings["ATTEMPT_SEQUENCE_GAP"]
    \/ /\ job.attempts[AttemptNumber(e)].status # "NONE"
       /\ r.findings["ATTEMPT_SEQUENCE_GAP"] = job.findings["ATTEMPT_SEQUENCE_GAP"]

StatusEffect(job, e, r) ==
    /\ job.recorded_status = "SUCCEEDED" => r.recorded_status = "SUCCEEDED"
    /\ r.recorded_status = "FAILED" =>
          \/ job.recorded_status = "FAILED"
          \/ e.type \in {"JOB_SCHEDULER_SUBMISSION_FAILED", "JOB_RETRY_REJECTED"}
          \/ e.type = "JOB_EXECUTION_FAILED" /\ ~ e.retryable
    /\ r.recorded_status = "RETRIES_EXHAUSTED" =>
          job.recorded_status = "RETRIES_EXHAUSTED" \/ e.type = "JOB_RETRIES_EXHAUSTED"
    /\ r.recorded_status = "PENDING_SUBMISSION" =>
          \/ e.type = "JOB_SCHEDULER_SUBMISSION_REQUESTED"
          \/ /\ job.recorded_status = "PENDING_SUBMISSION"
             /\ e.type # "JOB_SCHEDULER_SUBMISSION_ACKNOWLEDGED"
    /\ e.type = "JOB_EXECUTION_SUCCEEDED" =>
          \/ r.recorded_status = "SUCCEEDED"
          \/ job.attempts[AttemptNumber(e)].status \in {"SUCCEEDED", "FAILED"}
          \/ job.recorded_status \in {"FAILED", "RETRIES_EXHAUSTED"}

AckEffect(job, e, r) ==
    /\ r.findings["SCHEDULER_ACK_TIMEOUT"] = "active" =>
          /\ job.findings["SCHEDULER_ACK_TIMEOUT"] = "active"
          /\ e.type # "JOB_SCHEDULER_SUBMISSION_ACKNOWLEDGED"
    /\ r.findings["RETRY_ACK_TIMEOUT"] = "active" =>
          /\ job.findings["RETRY_ACK_TIMEOUT"] = "active"
          /\ e.type # "JOB_RETRY_ACKNOWLEDGED"
    /\ r.retry_requested /\ ~ r.retry_acknowledged =>
          \/ e.type \in {"JOB_RETRY_REQUESTED", "JOB_RETRY_REJECTED", "JOB_RETRIES_EXHAUSTED"}
          \/ /\ job.retry_requested /\ ~ job.retry_acknowledged
             /\ e.type # "JOB_RETRY_ACKNOWLEDGED"

WaitEffect(job, e, r) ==
    /\ r.scheduler_retrieved_at =
          IF e.type = "JOB_SCHEDULER_ITEM_RETRIEVED"
          THEN Earliest(job.scheduler_retrieved_at, RetrievedTime(e))
          ELSE job.scheduler_retrieved_at
    /\ job.recorded_status = "UNKNOWN" =>
          (e.type = "JOB_CREATED" => r.recorded_status = "CREATED")
    /\ job.recorded_status = "CREATED" =>
          (e.type = "JOB_SCHEDULER_SUBMISSION_ACKNOWLEDGED" =>
              r.recorded_status = "SCHEDULED")
    /\ job.recorded_status = "SCHEDULED" =>
          (e.type = "JOB_SCHEDULER_ITEM_RETRIEVED" =>
              r.recorded_status = "AWAITING_EXECUTION")

\* What the rule for e makes of job.
Effect(job, e, r) ==
    /\ StartEffect(job, e, r)
    /\ AttemptEffect(job, e, r)
    /\ GapEffect(job, e, r)
    /\ StatusEffect(job, e, r)
    /\ AckEffect(job, e, r)
    /\ WaitEffect(job, e, r)

\* A rule leaves the version and scheduled_at to reduce_visibility.
RuleEffect(job, e, r) ==
    Effect(job, e, r) /\ r.version = job.version /\ r.scheduled_at = job.scheduled_at

\* The rules that find no attempt: the type of what they make of a view, and
\* their effect.
LEMMA OnJobCreatedRule ==
    ASSUME NEW job \in JobVisibility, NEW e \in Event,
           e.type = "JOB_CREATED"
    PROVE  /\ OnJobCreated(job, e) \in JobVisibility
           /\ RuleEffect(job, e, OnJobCreated(job, e))
<1>1. e.event_time \in Time /\ e.next_retry_at \in Time /\ None \in Time
  BY DEF Event, Time
<1>2. OnJobCreated(job, e) \in JobVisibility
  BY <1>1, EarliestType, LatestType DEF OnJobCreated, JobVisibility, Status,
         TERMINAL_STATUSES, FindingCode
<1>3. RuleEffect(job, e, OnJobCreated(job, e))
  BY DEF OnJobCreated, RuleEffect, Effect, StartEffect, AttemptEffect, GapEffect,
         StatusEffect, AckEffect, WaitEffect, EvidenceTypes, JobVisibility, FindingCode, TERMINAL_STATUSES
<1> QED BY <1>2, <1>3

LEMMA OnSubmissionRequestedRule ==
    ASSUME NEW job \in JobVisibility, NEW e \in Event,
           e.type = "JOB_SCHEDULER_SUBMISSION_REQUESTED"
    PROVE  /\ OnSubmissionRequested(job, e) \in JobVisibility
           /\ RuleEffect(job, e, OnSubmissionRequested(job, e))
<1>1. e.event_time \in Time /\ e.next_retry_at \in Time /\ None \in Time
  BY DEF Event, Time
<1>2. OnSubmissionRequested(job, e) \in JobVisibility
  BY <1>1, EarliestType, LatestType DEF OnSubmissionRequested, JobVisibility, Status,
         TERMINAL_STATUSES, FindingCode
<1>3. RuleEffect(job, e, OnSubmissionRequested(job, e))
  BY DEF OnSubmissionRequested, RuleEffect, Effect, StartEffect, AttemptEffect, GapEffect,
         StatusEffect, AckEffect, WaitEffect, EvidenceTypes, JobVisibility, FindingCode, TERMINAL_STATUSES
<1> QED BY <1>2, <1>3

LEMMA OnSubmissionFailedRule ==
    ASSUME NEW job \in JobVisibility, NEW e \in Event,
           e.type = "JOB_SCHEDULER_SUBMISSION_FAILED"
    PROVE  /\ OnSubmissionFailed(job, e) \in JobVisibility
           /\ RuleEffect(job, e, OnSubmissionFailed(job, e))
<1>1. e.event_time \in Time /\ e.next_retry_at \in Time /\ None \in Time
  BY DEF Event, Time
<1>2. OnSubmissionFailed(job, e) \in JobVisibility
  BY <1>1, EarliestType, LatestType DEF OnSubmissionFailed, JobVisibility, Status,
         TERMINAL_STATUSES, FindingCode
<1>3. RuleEffect(job, e, OnSubmissionFailed(job, e))
  BY DEF OnSubmissionFailed, RuleEffect, Effect, StartEffect, AttemptEffect, GapEffect,
         StatusEffect, AckEffect, WaitEffect, EvidenceTypes, JobVisibility, FindingCode, TERMINAL_STATUSES
<1> QED BY <1>2, <1>3

LEMMA OnRetryRequestedRule ==
    ASSUME NEW job \in JobVisibility, NEW e \in Event,
           e.type = "JOB_RETRY_REQUESTED"
    PROVE  /\ OnRetryRequested(job, e) \in JobVisibility
           /\ RuleEffect(job, e, OnRetryRequested(job, e))
<1>1. e.event_time \in Time /\ e.next_retry_at \in Time /\ None \in Time
  BY DEF Event, Time
<1>2. OnRetryRequested(job, e) \in JobVisibility
  BY <1>1, EarliestType, LatestType DEF OnRetryRequested, JobVisibility, Status,
         TERMINAL_STATUSES, FindingCode
<1>3. RuleEffect(job, e, OnRetryRequested(job, e))
  BY DEF OnRetryRequested, RuleEffect, Effect, StartEffect, AttemptEffect, GapEffect,
         StatusEffect, AckEffect, WaitEffect, EvidenceTypes, JobVisibility, FindingCode, TERMINAL_STATUSES
<1> QED BY <1>2, <1>3

LEMMA OnRetryRejectedRule ==
    ASSUME NEW job \in JobVisibility, NEW e \in Event,
           e.type = "JOB_RETRY_REJECTED"
    PROVE  /\ OnRetryRejected(job, e) \in JobVisibility
           /\ RuleEffect(job, e, OnRetryRejected(job, e))
<1>1. e.event_time \in Time /\ e.next_retry_at \in Time /\ None \in Time
  BY DEF Event, Time
<1>2. OnRetryRejected(job, e) \in JobVisibility
  BY <1>1, EarliestType, LatestType DEF OnRetryRejected, JobVisibility, Status,
         TERMINAL_STATUSES, FindingCode
<1>3. RuleEffect(job, e, OnRetryRejected(job, e))
  BY DEF OnRetryRejected, RuleEffect, Effect, StartEffect, AttemptEffect, GapEffect,
         StatusEffect, AckEffect, WaitEffect, EvidenceTypes, JobVisibility, FindingCode, TERMINAL_STATUSES
<1> QED BY <1>2, <1>3

LEMMA OnRetriesExhaustedRule ==
    ASSUME NEW job \in JobVisibility, NEW e \in Event,
           e.type = "JOB_RETRIES_EXHAUSTED"
    PROVE  /\ OnRetriesExhausted(job, e) \in JobVisibility
           /\ RuleEffect(job, e, OnRetriesExhausted(job, e))
<1>1. e.event_time \in Time /\ e.next_retry_at \in Time /\ None \in Time
  BY DEF Event, Time
<1>2. OnRetriesExhausted(job, e) \in JobVisibility
  BY <1>1, EarliestType, LatestType DEF OnRetriesExhausted, JobVisibility, Status,
         TERMINAL_STATUSES, FindingCode
<1>3. RuleEffect(job, e, OnRetriesExhausted(job, e))
  BY DEF OnRetriesExhausted, RuleEffect, Effect, StartEffect, AttemptEffect, GapEffect,
         StatusEffect, AckEffect, WaitEffect, EvidenceTypes, JobVisibility, FindingCode, TERMINAL_STATUSES
<1> QED BY <1>2, <1>3

LEMMA OnCancelledRule ==
    ASSUME NEW job \in JobVisibility, NEW e \in Event,
           e.type = "JOB_CANCELLED"
    PROVE  OnCancelled(job, e) \in JobVisibility /\ RuleEffect(job, e, OnCancelled(job, e))
<1>1. e.event_time \in Time /\ e.next_retry_at \in Time /\ None \in Time
  BY DEF Event, Time
<1>2. OnCancelled(job, e) \in JobVisibility
  BY <1>1, EarliestType, LatestType DEF OnCancelled, JobVisibility, Status,
         TERMINAL_STATUSES, FindingCode
<1>3. RuleEffect(job, e, OnCancelled(job, e))
  BY DEF OnCancelled, RuleEffect, Effect, StartEffect, AttemptEffect, GapEffect,
         StatusEffect, AckEffect, WaitEffect, EvidenceTypes, JobVisibility, FindingCode, TERMINAL_STATUSES
<1> QED BY <1>2, <1>3

LEMMA OnSubmissionAcknowledgedRule ==
    ASSUME NEW job \in JobVisibility, NEW e \in Event,
           e.type = "JOB_SCHEDULER_SUBMISSION_ACKNOWLEDGED"
    PROVE  /\ OnSubmissionAcknowledged(job, e) \in JobVisibility
           /\ RuleEffect(job, e, OnSubmissionAcknowledged(job, e))
<1>1. e.event_time \in Time /\ e.next_retry_at \in Time /\ None \in Time
  BY DEF Event, Time
<1>2. OnSubmissionAcknowledged(job, e) \in JobVisibility
  BY <1>1, EarliestType, LatestType DEF OnSubmissionAcknowledged, Resolve, JobVisibility,
         Status, TERMINAL_STATUSES, FindingCode
<1>3. RuleEffect(job, e, OnSubmissionAcknowledged(job, e))
  BY DEF OnSubmissionAcknowledged, Resolve, RuleEffect, Effect, StartEffect, AttemptEffect,
         GapEffect, StatusEffect, AckEffect, WaitEffect, EvidenceTypes, JobVisibility, FindingCode,
         TERMINAL_STATUSES
<1> QED BY <1>2, <1>3

LEMMA OnRetryAcknowledgedRule ==
    ASSUME NEW job \in JobVisibility, NEW e \in Event,
           e.type = "JOB_RETRY_ACKNOWLEDGED"
    PROVE  /\ OnRetryAcknowledged(job, e) \in JobVisibility
           /\ RuleEffect(job, e, OnRetryAcknowledged(job, e))
<1>1. e.event_time \in Time /\ e.next_retry_at \in Time /\ None \in Time
  BY DEF Event, Time
<1>2. OnRetryAcknowledged(job, e) \in JobVisibility
  BY <1>1, EarliestType, LatestType DEF OnRetryAcknowledged, Resolve, JobVisibility,
         Status, TERMINAL_STATUSES, FindingCode
<1>3. RuleEffect(job, e, OnRetryAcknowledged(job, e))
  BY DEF OnRetryAcknowledged, Resolve, RuleEffect, Effect, StartEffect, AttemptEffect,
         GapEffect, StatusEffect, AckEffect, WaitEffect, EvidenceTypes, JobVisibility, FindingCode,
         TERMINAL_STATUSES
<1> QED BY <1>2, <1>3

-----------------------------------------------------------------------------
(* The rules that find the attempt. *)

\* One field of one attempt may be written without leaving the type.
LEMMA AttemptsType ==
    ASSUME NEW attempts \in [Attempts -> Attempt], NEW n \in Attempts
    PROVE  /\ \A status \in {"UNKNOWN", "RETRIEVED", "RUNNING", "SUCCEEDED", "FAILED"} :
                 [attempts EXCEPT ![n].status = status] \in [Attempts -> Attempt]
           /\ \A t \in Time : [attempts EXCEPT ![n].started_at = t] \in [Attempts -> Attempt]
BY DEF Attempt

\* What _attempt finds or creates, and the gap it reports.
LEMMA FoundRule ==
    ASSUME NEW job \in JobVisibility, NEW e \in Event
    PROVE  LET n == AttemptNumber(e)
               found == WithAttempt(job, e)
           IN  /\ found \in JobVisibility
               /\ Keeps(found, job, {"findings", "incomplete_lifecycle", "attempts"})
               /\ \A m \in Attempts : found.attempts[m].status =
                     IF m = n /\ job.attempts[m].status = "NONE"
                     THEN "UNKNOWN" ELSE job.attempts[m].status
               /\ \A code \in FindingCode : found.findings[code] =
                     IF code = "ATTEMPT_SEQUENCE_GAP" /\ MissingBefore(job, n)
                     THEN "active" ELSE job.findings[code]
<1> DEFINE n == AttemptNumber(e)
           found == WithAttempt(job, e)
           gap == MissingBefore(job, n)
<1>1. n \in Attempts /\ IsView(job)
  BY NumberType, ViewShape
<1>2. /\ Keeps(found, job, {"findings", "incomplete_lifecycle", "attempts"})
      /\ found.incomplete_lifecycle = (job.incomplete_lifecycle \/ gap)
      /\ found.findings = IF gap THEN [job.findings EXCEPT !["ATTEMPT_SEQUENCE_GAP"] = "active"]
                                 ELSE job.findings
      /\ found.attempts = [job.attempts EXCEPT ![n].status = IF @ = "NONE" THEN "UNKNOWN" ELSE @]
  BY <1>1, WithAttemptChanges DEF FoundFields
<1>3. /\ job.attempts \in [Attempts -> Attempt]
      /\ job.findings \in [FindingCode -> {"none", "active", "resolved"}]
  BY DEF JobVisibility
<1> HIDE DEF n, found, gap
<1>4. found.attempts \in [Attempts -> Attempt]
  <2> DEFINE status == IF job.attempts[n].status = "NONE" THEN "UNKNOWN"
                       ELSE job.attempts[n].status
  <2>1. status \in {"UNKNOWN", "RETRIEVED", "RUNNING", "SUCCEEDED", "FAILED"}
    BY <1>1, <1>3 DEF Attempt
  <2>2. found.attempts = [job.attempts EXCEPT ![n].status = status]
    BY <1>2
  <2> HIDE DEF status
  <2> QED BY <1>1, <1>3, <2>1, <2>2 DEF Attempt
<1>5. found.findings \in [FindingCode -> {"none", "active", "resolved"}]
  BY <1>2, <1>3
<1>6. found.incomplete_lifecycle \in BOOLEAN
  BY <1>2
<1>7. found \in JobVisibility
  <2>1. \A f \in Fields \ {"findings", "incomplete_lifecycle", "attempts"} : found[f] = job[f]
    BY <1>2 DEF Keeps
  <2>2. IsView(found)
    BY <1>2 DEF Keeps
  <2> QED BY <1>4, <1>5, <1>6, <2>1, <2>2, TypeFromFields DEF Fields, JobVisibility
<1>8. \A m \in Attempts : found.attempts[m].status =
         IF m = n /\ job.attempts[m].status = "NONE" THEN "UNKNOWN" ELSE job.attempts[m].status
  BY <1>1, <1>2, <1>3 DEF Attempt
<1>9. \A code \in FindingCode : found.findings[code] =
         IF code = "ATTEMPT_SEQUENCE_GAP" /\ gap THEN "active" ELSE job.findings[code]
  BY <1>2, <1>3
<1> QED BY <1>2, <1>7, <1>8, <1>9 DEF n, found, gap

\* A conflicting outcome is reported, and nothing else is written.
LEMMA TerminalConflictType ==
    ASSUME NEW job \in JobVisibility
    PROVE  TerminalConflict(job) \in JobVisibility
BY DEF TerminalConflict, Finding, JobVisibility, FindingCode

\* _on_item_retrieved
LEMMA OnItemRetrievedRule ==
    ASSUME NEW job \in JobVisibility, NEW e \in Event, e.type = "JOB_SCHEDULER_ITEM_RETRIEVED"
    PROVE  /\ OnItemRetrieved(job, e) \in JobVisibility
           /\ RuleEffect(job, e, OnItemRetrieved(job, e))
<1> DEFINE n == AttemptNumber(e)
           found == WithAttempt(job, e)
           r == OnItemRetrieved(job, e)
<1>1. /\ n \in Attempts /\ found \in JobVisibility /\ RetrievedTime(e) \in Time
      /\ Keeps(found, job, {"findings", "incomplete_lifecycle", "attempts"})
      /\ \A m \in Attempts : found.attempts[m].status =
            IF m = n /\ job.attempts[m].status = "NONE"
            THEN "UNKNOWN" ELSE job.attempts[m].status
      /\ \A code \in FindingCode : found.findings[code] =
            IF code = "ATTEMPT_SEQUENCE_GAP" /\ MissingBefore(job, n)
            THEN "active" ELSE job.findings[code]
  BY NumberType, FoundRule, RetrievedTimeType DEF Time
<1>2. IsView(found) /\ IsView(WithAttempt(job, e))
  BY <1>1 DEF Keeps
<1> DEFINE attempt == RetrievedAttempt(found.attempts[n], e)
<1>3. /\ Keeps(r, found, {"attempts", "scheduler_retrieved_at", "recorded_status"})
      /\ r.attempts = [found.attempts EXCEPT ![n] = attempt]
      /\ r.scheduler_retrieved_at = Earliest(found.scheduler_retrieved_at, RetrievedTime(e))
      /\ r.recorded_status = IF found.recorded_status \in TERMINAL_STATUSES \cup {"RUNNING"}
                             THEN found.recorded_status ELSE "AWAITING_EXECUTION"
  BY <1>2, OnItemRetrievedChanges DEF RetrievedFields
<1> HIDE DEF n, found, r
<1>4. /\ attempt \in Attempt
      /\ attempt.status = IF found.attempts[n].status = "UNKNOWN" THEN "RETRIEVED"
                          ELSE found.attempts[n].status
  <2>1. found.attempts[n] \in Attempt
    BY <1>1 DEF JobVisibility
  <2>2. Earliest(found.attempts[n].retrieved_at, RetrievedTime(e)) \in Time
    BY <1>1, <2>1, EarliestType DEF Attempt
  <2> QED BY <2>1, <2>2 DEF Attempt, RetrievedAttempt
<1> HIDE DEF attempt
<1>5. r.attempts \in [Attempts -> Attempt] /\ found.attempts \in [Attempts -> Attempt]
  BY <1>1, <1>3, <1>4 DEF JobVisibility
<1>6. r \in JobVisibility
  <2>1. /\ IsView(r)
        /\ \A f \in Fields \ {"attempts", "scheduler_retrieved_at", "recorded_status"} :
              r[f] = found[f]
    BY <1>3 DEF Keeps
  <2>2. r.scheduler_retrieved_at \in Time /\ r.recorded_status \in Status
    BY <1>1, <1>3, EarliestType DEF JobVisibility, Status
  <2> QED BY <1>1, <1>5, <2>1, <2>2, TypeFromFields DEF Fields, JobVisibility
<1>7. \A m \in Attempts : r.attempts[m].status =
         IF m = n THEN attempt.status ELSE found.attempts[m].status
  BY <1>1, <1>3, <1>5
<1>8. AttemptEffect(job, e, r)
  BY <1>1, <1>4, <1>7 DEF AttemptEffect, EvidenceTypes, n
<1>9. RuleEffect(job, e, r)
  BY <1>1, <1>3, <1>8 DEF n, Keeps, Fields, FindingCode, TERMINAL_STATUSES, RuleEffect,
         Effect, StartEffect, GapEffect, StatusEffect, AckEffect, WaitEffect, EvidenceTypes
<1> QED BY <1>6, <1>9 DEF r

\* A rule that answers with a conflict, or leaves the attempt as it found it.
LEMMA TerminalConflictRule ==
    ASSUME NEW job \in JobVisibility, NEW e \in Event,
           e.type \in {"JOB_EXECUTION_SUCCEEDED", "JOB_EXECUTION_FAILED"},
           e.type = "JOB_EXECUTION_SUCCEEDED" =>
              SuccessConflicts(WithAttempt(job, e), AttemptNumber(e))
    PROVE  LET r == TerminalConflict(WithAttempt(job, e))
           IN  r \in JobVisibility /\ RuleEffect(job, e, r)
<1> DEFINE n == AttemptNumber(e)
           found == WithAttempt(job, e)
           r == TerminalConflict(found)
<1>1. /\ n \in Attempts /\ found \in JobVisibility /\ e.event_time \in Time
      /\ Keeps(found, job, {"findings", "incomplete_lifecycle", "attempts"})
      /\ \A m \in Attempts : found.attempts[m].status =
            IF m = n /\ job.attempts[m].status = "NONE"
            THEN "UNKNOWN" ELSE job.attempts[m].status
      /\ \A code \in FindingCode : found.findings[code] =
            IF code = "ATTEMPT_SEQUENCE_GAP" /\ MissingBefore(job, n)
            THEN "active" ELSE job.findings[code]
  BY NumberType, FoundRule DEF Event, Time
<1>2. r \in JobVisibility
  BY <1>1, TerminalConflictType
<1>3. /\ Keeps(r, found, {"findings", "incomplete_lifecycle"})
      /\ r.findings = [found.findings EXCEPT !["CONFLICTING_TERMINAL_OUTCOME"] = "active"]
  BY <1>1, TerminalConflictChanges DEF Keeps
<1> HIDE DEF n, found, r
<1>4. AttemptEffect(job, e, r)
  BY <1>1, <1>3 DEF AttemptEffect, EvidenceTypes, n, Keeps, Fields
<1>5. found.findings \in [FindingCode -> {"none", "active", "resolved"}]
  BY <1>1 DEF JobVisibility
<1>6. e.type = "JOB_EXECUTION_SUCCEEDED" =>
         \/ job.attempts[n].status = "FAILED"
         \/ job.recorded_status \in {"FAILED", "RETRIES_EXHAUSTED"}
  BY <1>1 DEF n, found, Keeps, Fields, SuccessConflicts
<1>7. RuleEffect(job, e, r)
  BY <1>1, <1>3, <1>4, <1>5, <1>6 DEF n, Keeps, Fields, FindingCode, TERMINAL_STATUSES,
         RuleEffect, Effect, StartEffect, GapEffect, StatusEffect, AckEffect, WaitEffect, EvidenceTypes
<1> QED BY <1>2, <1>7 DEF r, found

\* _on_failed
LEMMA OnFailedRule ==
    ASSUME NEW job \in JobVisibility, NEW e \in Event, e.type = "JOB_EXECUTION_FAILED"
    PROVE  OnFailed(job, e) \in JobVisibility /\ RuleEffect(job, e, OnFailed(job, e))
<1> DEFINE n == AttemptNumber(e)
           found == WithAttempt(job, e)
           r == OnFailed(job, e)
           conflict == FailureConflicts(found, n)
<1>1. /\ n \in Attempts /\ found \in JobVisibility /\ e.event_time \in Time
      /\ Keeps(found, job, {"findings", "incomplete_lifecycle", "attempts"})
      /\ \A m \in Attempts : found.attempts[m].status =
            IF m = n /\ job.attempts[m].status = "NONE"
            THEN "UNKNOWN" ELSE job.attempts[m].status
      /\ \A code \in FindingCode : found.findings[code] =
            IF code = "ATTEMPT_SEQUENCE_GAP" /\ MissingBefore(job, n)
            THEN "active" ELSE job.findings[code]
  BY NumberType, FoundRule DEF Event, Time
<1>2. IsView(WithAttempt(job, e))
  BY <1>1 DEF Keeps
<1>3. FailureFields(found, n, e, r)
  BY <1>2, OnFailedChanges
<1>4. CASE conflict
  BY <1>3, <1>4, TerminalConflictRule DEF FailureFields
<1>5. CASE ~ conflict
  <2> HIDE DEF n, found, r
  <2>0. /\ Keeps(r, found, {"attempts", "incomplete_lifecycle", "recorded_status",
                            "completed_at", "retry_eligible", "next_retry_at",
                            "retry_requested", "retry_acknowledged"})
        /\ r.attempts = [found.attempts EXCEPT ![n].status = "FAILED"]
        /\ r.recorded_status = IF e.retryable THEN "RETRY_PENDING" ELSE "FAILED"
        /\ r.completed_at = Latest(found.completed_at, e.event_time)
        /\ r.retry_eligible = e.retryable
        /\ r.next_retry_at = None
        /\ r.retry_requested = FALSE
        /\ r.retry_acknowledged = FALSE
        /\ r.incomplete_lifecycle =
              (found.incomplete_lifecycle \/ found.attempts[n].started_at = None)
    BY <1>3, <1>5 DEF FailureFields
  <2>1. found.attempts \in [Attempts -> Attempt]
    BY <1>1 DEF JobVisibility
  <2>2. \A m \in Attempts : r.attempts[m].status =
           IF m = n THEN "FAILED" ELSE found.attempts[m].status
    BY <1>1, <2>0, <2>1 DEF Attempt
  <2>3. AttemptEffect(job, e, r)
    BY <1>1, <2>2 DEF AttemptEffect, EvidenceTypes, n
  <2>4. found.recorded_status \notin TERMINAL_STATUSES \ {"CANCELLED"}
    BY <1>5 DEF FailureConflicts
  <2>5. RuleEffect(job, e, r)
    BY <1>1, <2>0, <2>3, <2>4 DEF n,  Keeps, Fields, FindingCode, TERMINAL_STATUSES,
           RuleEffect, Effect, StartEffect, GapEffect, StatusEffect, AckEffect, WaitEffect, EvidenceTypes
  <2>6. r \in JobVisibility
    <3>1. /\ IsView(r)
          /\ \A f \in Fields \ {"attempts", "incomplete_lifecycle", "recorded_status",
                                 "completed_at", "retry_eligible", "next_retry_at",
                                 "retry_requested", "retry_acknowledged"} : r[f] = found[f]
      BY <2>0 DEF Keeps
    <3>2. r.completed_at \in Time /\ r.recorded_status \in Status /\ r.next_retry_at \in Time
      <4>1. found.completed_at \in Time /\ None \in Time
        BY <1>1 DEF JobVisibility, Time
      <4> QED BY <1>1, <2>0, <4>1, LatestType DEF Status, TERMINAL_STATUSES
    <3>3. r.attempts \in [Attempts -> Attempt]
      BY <1>1, <2>0, <2>1 DEF Attempt
    <3>4. r.incomplete_lifecycle \in BOOLEAN /\ r.retry_eligible \in BOOLEAN
          /\ r.retry_requested \in BOOLEAN /\ r.retry_acknowledged \in BOOLEAN
      BY <2>0 DEF Event
    <3> QED BY <1>1, <3>1, <3>2, <3>3, <3>4, TypeFromFields DEF Fields, JobVisibility
  <2> QED BY <2>5, <2>6 DEF r
<1> QED BY <1>4, <1>5

\* _on_succeeded
LEMMA OnSucceededRule ==
    ASSUME NEW job \in JobVisibility, NEW e \in Event, e.type = "JOB_EXECUTION_SUCCEEDED"
    PROVE  OnSucceeded(job, e) \in JobVisibility /\ RuleEffect(job, e, OnSucceeded(job, e))
<1> DEFINE n == AttemptNumber(e)
           found == WithAttempt(job, e)
           r == OnSucceeded(job, e)
           conflict == SuccessConflicts(found, n)
<1>1. /\ n \in Attempts /\ found \in JobVisibility /\ e.event_time \in Time
      /\ Keeps(found, job, {"findings", "incomplete_lifecycle", "attempts"})
      /\ \A m \in Attempts : found.attempts[m].status =
            IF m = n /\ job.attempts[m].status = "NONE"
            THEN "UNKNOWN" ELSE job.attempts[m].status
      /\ \A code \in FindingCode : found.findings[code] =
            IF code = "ATTEMPT_SEQUENCE_GAP" /\ MissingBefore(job, n)
            THEN "active" ELSE job.findings[code]
  BY NumberType, FoundRule DEF Event, Time
<1>2. IsView(WithAttempt(job, e))
  BY <1>1 DEF Keeps
<1>3. SuccessFields(found, n, e, r)
  BY <1>2, OnSucceededChanges
<1>4. CASE conflict
  BY <1>3, <1>4, TerminalConflictRule DEF SuccessFields
<1>5. CASE ~ conflict
  <2> HIDE DEF n, found, r
  <2>0. /\ Keeps(r, found, {"attempts", "incomplete_lifecycle", "recorded_status",
                            "cancellation_violation", "completed_at", "retry_eligible",
                            "next_retry_at", "findings"})
        /\ r.attempts = [found.attempts EXCEPT ![n].status = "SUCCEEDED"]
        /\ r.recorded_status = "SUCCEEDED"
        /\ r.cancellation_violation =
              (found.cancellation_violation \/ found.recorded_status = "CANCELLED")
        /\ r.completed_at = Latest(found.completed_at, e.event_time)
        /\ r.retry_eligible = FALSE
        /\ r.next_retry_at = None
        /\ r.incomplete_lifecycle =
              (found.incomplete_lifecycle \/ found.attempts[n].started_at = None)
        /\ r.findings = IF found.recorded_status = "CANCELLED"
                        THEN [found.findings EXCEPT !["EXECUTED_AFTER_CANCEL"] = "active"]
                        ELSE found.findings
    BY <1>3, <1>5 DEF SuccessFields
  <2>1. found.attempts \in [Attempts -> Attempt]
    BY <1>1 DEF JobVisibility
  <2>2. \A m \in Attempts : r.attempts[m].status =
           IF m = n THEN "SUCCEEDED" ELSE found.attempts[m].status
    BY <1>1, <2>0, <2>1 DEF Attempt
  <2>3. AttemptEffect(job, e, r)
    BY <1>1, <2>2 DEF AttemptEffect, EvidenceTypes, n
  <2>4. found.findings \in [FindingCode -> {"none", "active", "resolved"}]
    BY <1>1 DEF JobVisibility
  <2>5. RuleEffect(job, e, r)
    BY <1>1, <2>0, <2>3, <2>4 DEF n,  Keeps, Fields, FindingCode, TERMINAL_STATUSES,
           RuleEffect, Effect, StartEffect, GapEffect, StatusEffect, AckEffect, WaitEffect, EvidenceTypes
  <2>6. r \in JobVisibility
    <3>1. IsView(r) /\ \A f \in Fields \ {"attempts", "incomplete_lifecycle", "recorded_status",
                       "cancellation_violation", "completed_at", "retry_eligible",
                       "next_retry_at", "findings"} : r[f] = found[f]
      BY <2>0 DEF Keeps
    <3>2. r.completed_at \in Time /\ r.recorded_status \in Status /\ r.next_retry_at \in Time
      <4>1. found.completed_at \in Time /\ None \in Time
        BY <1>1 DEF JobVisibility, Time
      <4> QED BY <1>1, <2>0, <4>1, LatestType DEF Status, TERMINAL_STATUSES
    <3>3. r.attempts \in [Attempts -> Attempt]
      BY <1>1, <2>0, <2>1 DEF Attempt
    <3>4. r.incomplete_lifecycle \in BOOLEAN /\ r.retry_eligible \in BOOLEAN
          /\ r.cancellation_violation \in BOOLEAN
      BY <2>0 DEF Event
    <3>5. r.findings \in [FindingCode -> {"none", "active", "resolved"}]
      BY <2>0, <2>4
    <3> QED BY <1>1, <3>1, <3>2, <3>3, <3>4, <3>5, TypeFromFields DEF Fields, JobVisibility
  <2> QED BY <2>5, <2>6 DEF r
<1> QED BY <1>4, <1>5

\* _on_started
LEMMA OnStartedRule ==
    ASSUME NEW job \in JobVisibility, NEW e \in Event, e.type = "JOB_EXECUTION_STARTED"
    PROVE  OnStarted(job, e) \in JobVisibility /\ RuleEffect(job, e, OnStarted(job, e))
<1> DEFINE n == AttemptNumber(e)
           found == WithAttempt(job, e)
           b == Backfilled(found, e)
           r == OnStarted(job, e)
<1>1. /\ n \in Attempts /\ found \in JobVisibility /\ e.event_time \in Time
      /\ Keeps(found, job, {"findings", "incomplete_lifecycle", "attempts"})
      /\ \A m \in Attempts : found.attempts[m].status =
            IF m = n /\ job.attempts[m].status = "NONE"
            THEN "UNKNOWN" ELSE job.attempts[m].status
      /\ \A code \in FindingCode : found.findings[code] =
            IF code = "ATTEMPT_SEQUENCE_GAP" /\ MissingBefore(job, n)
            THEN "active" ELSE job.findings[code]
  BY NumberType, FoundRule DEF Event, Time
<1>2. IsView(found)
  BY <1>1 DEF Keeps
<1>3. /\ Keeps(b, found, {"attempts", "started_at", "incomplete_lifecycle"})
      /\ b.attempts = [found.attempts EXCEPT ![n].started_at = Earliest(@, e.event_time)]
      /\ b.started_at = Earliest(found.started_at, e.event_time)
      /\ b.incomplete_lifecycle =
            (found.incomplete_lifecycle \/ found.attempts[n].retrieved_at = None)
  BY <1>2, BackfilledChanges DEF BackfillFields
<1>4. StartFields(found, b, n, r)
  BY <1>3, OnStartedChanges DEF Keeps
<1> HIDE DEF n, found, b, r
<1>5. found.attempts \in [Attempts -> Attempt]
  BY <1>1 DEF JobVisibility
<1>6. /\ b.attempts \in [Attempts -> Attempt]
      /\ \A m \in Attempts : b.attempts[m].status = found.attempts[m].status
  <2> DEFINE t == Earliest(found.attempts[n].started_at, e.event_time)
  <2>1. t \in Time
    BY <1>1, <1>5, EarliestType DEF Attempt
  <2>2. b.attempts = [found.attempts EXCEPT ![n].started_at = t]
    BY <1>3
  <2> HIDE DEF t
  <2> QED BY <1>1, <1>5, <2>1, <2>2 DEF Attempt
<1>7. b \in JobVisibility
  <2>1. /\ IsView(b)
        /\ \A f \in Fields \ {"attempts", "started_at", "incomplete_lifecycle"} :
              b[f] = found[f]
    BY <1>3 DEF Keeps
  <2>2. b.started_at \in Time /\ b.incomplete_lifecycle \in BOOLEAN
    BY <1>1, <1>3, EarliestType DEF JobVisibility
  <2> QED BY <1>1, <1>6, <2>1, <2>2, TypeFromFields DEF Fields, JobVisibility
<1>8. CASE StartIsLate(found, n)
  <2>1. r = b
    BY <1>4, <1>8 DEF StartFields
  <2>2. AttemptEffect(job, e, r)
    BY <1>1, <1>6, <2>1 DEF AttemptEffect, EvidenceTypes, n
  <2>3. RuleEffect(job, e, r)
    BY <1>1, <1>3, <2>1, <2>2 DEF n, Keeps, Fields, FindingCode, TERMINAL_STATUSES,
           RuleEffect, Effect, StartEffect, GapEffect, StatusEffect, AckEffect, WaitEffect, EvidenceTypes
  <2> QED BY <1>7, <2>1, <2>3 DEF r
<1>9. CASE ~ StartIsLate(found, n)
  <2>1. /\ Keeps(r, b, {"attempts", "cancellation_violation", "retries_exhausted_violation",
                         "recorded_status", "findings"})
        /\ r.attempts = [b.attempts EXCEPT ![n].status = "RUNNING"]
        /\ r.recorded_status = "RUNNING"
        /\ r.cancellation_violation =
               (b.cancellation_violation \/ found.recorded_status = "CANCELLED")
        /\ r.retries_exhausted_violation =
               (b.retries_exhausted_violation \/ found.recorded_status = "RETRIES_EXHAUSTED")
        /\ r.findings =
               IF found.recorded_status = "CANCELLED"
               THEN [b.findings EXCEPT !["EXECUTED_AFTER_CANCEL"] = "active"]
               ELSE IF found.recorded_status = "RETRIES_EXHAUSTED"
               THEN [b.findings EXCEPT !["EXECUTION_AFTER_RETRY_EXHAUSTION"] = "active"]
               ELSE b.findings
    BY <1>4, <1>9 DEF StartFields
  <2>2. \A m \in Attempts : r.attempts[m].status =
           IF m = n THEN "RUNNING" ELSE b.attempts[m].status
    BY <1>1, <1>6, <2>1 DEF Attempt
  <2>3. AttemptEffect(job, e, r)
    BY <1>1, <1>6, <2>2 DEF AttemptEffect, EvidenceTypes, n
  <2>4. b.findings = found.findings
        /\ found.findings \in [FindingCode -> {"none", "active", "resolved"}]
    BY <1>1, <1>3 DEF JobVisibility, Keeps, Fields
  <2>5. /\ r.findings \in [FindingCode -> {"none", "active", "resolved"}]
        /\ \A code \in {"ATTEMPT_SEQUENCE_GAP", "SCHEDULER_ACK_TIMEOUT", "RETRY_ACK_TIMEOUT"} :
              r.findings[code] = found.findings[code]
    BY <2>1, <2>4 DEF FindingCode
  <2>6. found.recorded_status # "SUCCEEDED"
    BY <1>9 DEF StartIsLate
  <2>7. /\ r.started_at = b.started_at /\ r.version = job.version
        /\ found.started_at = job.started_at
        /\ r.retry_requested = job.retry_requested /\ r.retry_acknowledged = job.retry_acknowledged
        /\ found.recorded_status = job.recorded_status
        /\ r.scheduled_at = job.scheduled_at
        /\ r.scheduler_retrieved_at = job.scheduler_retrieved_at
    BY <1>1, <1>3, <2>1 DEF Keeps, Fields
  <2>8. RuleEffect(job, e, r)
    BY <1>1, <1>3, <2>1, <2>3, <2>5, <2>6, <2>7
       DEF n, FindingCode, RuleEffect, Effect, StartEffect, GapEffect, StatusEffect,
           AckEffect, WaitEffect, EvidenceTypes
  <2>9. r \in JobVisibility
    <3>1. IsView(r) /\ \A f \in Fields \
             {"attempts", "cancellation_violation", "retries_exhausted_violation",
                         "recorded_status", "findings"} : r[f] = b[f]
      BY <2>1 DEF Keeps
    <3>2. r.recorded_status \in Status
      BY <2>1 DEF Status
    <3>3. r.attempts \in [Attempts -> Attempt]
      BY <1>1, <1>6, <2>1 DEF Attempt
    <3>4. r.cancellation_violation \in BOOLEAN /\ r.retries_exhausted_violation \in BOOLEAN
      BY <2>1
    <3> QED BY <1>7, <2>5, <3>1, <3>2, <3>3, <3>4, TypeFromFields DEF Fields, JobVisibility
  <2> QED BY <2>8, <2>9 DEF r
<1> QED BY <1>8, <1>9

-----------------------------------------------------------------------------
(* Findings do not influence the rest of a view. *)

\* The rules that find no attempt and answer with a few assignments.
LEMMA PlainRulesSame ==
    ASSUME NEW a, NEW b, IsView(a), IsView(b), Same(a, b), NEW e
    PROVE  /\ Same(OnJobCreated(a, e), OnJobCreated(b, e))
           /\ Same(OnSubmissionRequested(a, e), OnSubmissionRequested(b, e))
           /\ Same(OnSubmissionFailed(a, e), OnSubmissionFailed(b, e))
           /\ Same(OnRetryRequested(a, e), OnRetryRequested(b, e))
           /\ Same(OnRetryRejected(a, e), OnRetryRejected(b, e))
           /\ Same(OnRetriesExhausted(a, e), OnRetriesExhausted(b, e))
           /\ Same(OnCancelled(a, e), OnCancelled(b, e))
           /\ Same(OnSubmissionAcknowledged(a, e), OnSubmissionAcknowledged(b, e))
<1>1. Same(OnJobCreated(a, e), OnJobCreated(b, e))
  BY DEF IsView, Same, Fields, OnJobCreated
<1>2. Same(OnSubmissionRequested(a, e), OnSubmissionRequested(b, e))
  BY DEF IsView, Same, Fields, OnSubmissionRequested
<1>3. Same(OnSubmissionFailed(a, e), OnSubmissionFailed(b, e))
  BY DEF IsView, Same, Fields, OnSubmissionFailed
<1>4. Same(OnRetryRequested(a, e), OnRetryRequested(b, e))
  BY DEF IsView, Same, Fields, OnRetryRequested
<1>5. Same(OnRetryRejected(a, e), OnRetryRejected(b, e))
  BY DEF IsView, Same, Fields, OnRetryRejected
<1>6. Same(OnRetriesExhausted(a, e), OnRetriesExhausted(b, e))
  BY DEF IsView, Same, Fields, OnRetriesExhausted
<1>7. Same(OnCancelled(a, e), OnCancelled(b, e))
  BY DEF IsView, Same, Fields, OnCancelled
<1>8. Same(OnSubmissionAcknowledged(a, e), OnSubmissionAcknowledged(b, e))
  BY DEF IsView, Same, Fields, OnSubmissionAcknowledged, Resolve
<1> QED BY <1>1, <1>2, <1>3, <1>4, <1>5, <1>6, <1>7, <1>8

\* The fields that the rules read and write are those of both views.
LEMMA SameFields ==
    ASSUME NEW a, NEW b, Same(a, b)
    PROVE  /\ a.recorded_status = b.recorded_status /\ a.attempts = b.attempts
           /\ a.scheduler_retrieved_at = b.scheduler_retrieved_at
           /\ a.started_at = b.started_at /\ a.completed_at = b.completed_at
           /\ a.next_retry_at = b.next_retry_at
           /\ a.cancellation_violation = b.cancellation_violation
           /\ a.retries_exhausted_violation = b.retries_exhausted_violation
           /\ a.incomplete_lifecycle = b.incomplete_lifecycle
           /\ a.data_as_of = b.data_as_of /\ a.version = b.version
BY DEF Same, Fields

\* Two steps that change the same fields, and these to the same values.
LEMMA SameChanges ==
    ASSUME NEW a, NEW b, Same(a, b), NEW S, NEW r, NEW q, Keeps(r, a, S), Keeps(q, b, S),
           \A f \in S \ {"findings"} : r[f] = q[f]
    PROVE  Same(r, q)
BY DEF Same, Keeps

\* The rules read no finding but the one they resolve or mark: views that differ
\* in their findings only go on doing so.
LEMMA OnRetryAcknowledgedSame ==
    ASSUME NEW a, NEW b, IsView(a), IsView(b), Same(a, b), NEW e
    PROVE  Same(OnRetryAcknowledged(a, e), OnRetryAcknowledged(b, e))
<1> DEFINE r == OnRetryAcknowledged(a, e)
           q == OnRetryAcknowledged(b, e)
           S == {"findings", "retry_requested", "retry_acknowledged", "next_retry_at",
                 "recorded_status"}
<1>1. AcknowledgedFields(a, e, r) /\ AcknowledgedFields(b, e, q)
  BY OnRetryAcknowledgedChanges
<1> HIDE DEF r, q
<1>2. /\ r.retry_requested = q.retry_requested /\ r.retry_acknowledged = q.retry_acknowledged
      /\ r.next_retry_at = q.next_retry_at /\ r.recorded_status = q.recorded_status
  <2>1. a.next_retry_at = b.next_retry_at /\ a.recorded_status = b.recorded_status
    BY SameFields
  <2> QED BY <1>1, <2>1 DEF AcknowledgedFields
<1>3. Keeps(r, a, S) /\ Keeps(q, b, S) /\ \A f \in S \ {"findings"} : r[f] = q[f]
  BY <1>1, <1>2 DEF AcknowledgedFields
<1>4. Same(r, q)
  BY <1>3, SameChanges
<1> QED BY <1>4 DEF r, q

LEMMA WithAttemptSame ==
    ASSUME NEW a, NEW b, IsView(a), IsView(b), Same(a, b), NEW e
    PROVE  /\ IsView(WithAttempt(a, e)) /\ IsView(WithAttempt(b, e))
           /\ Same(WithAttempt(a, e), WithAttempt(b, e))
<1> DEFINE r == WithAttempt(a, e)
           q == WithAttempt(b, e)
           S == {"findings", "incomplete_lifecycle", "attempts"}
<1>1. FoundFields(a, e, r) /\ FoundFields(b, e, q)
  BY WithAttemptChanges
<1> HIDE DEF r, q
<1>2. MissingBefore(a, AttemptNumber(e)) = MissingBefore(b, AttemptNumber(e))
  BY SameFields DEF MissingBefore
<1>3. r.incomplete_lifecycle = q.incomplete_lifecycle /\ r.attempts = q.attempts
  BY <1>1, <1>2, SameFields DEF FoundFields
<1>4. Keeps(r, a, S) /\ Keeps(q, b, S) /\ \A f \in S \ {"findings"} : r[f] = q[f]
  BY <1>1, <1>3 DEF FoundFields
<1>5. Same(r, q)
  BY <1>4, SameChanges
<1>6. IsView(r) /\ IsView(q)
  BY <1>4 DEF Keeps
<1> QED BY <1>5, <1>6 DEF r, q

LEMMA TerminalConflictSame ==
    ASSUME NEW a, NEW b, IsView(a), IsView(b), Same(a, b)
    PROVE  Same(TerminalConflict(a), TerminalConflict(b))
<1> DEFINE r == TerminalConflict(a)
           q == TerminalConflict(b)
           S == {"findings", "incomplete_lifecycle"}
<1>1. /\ Keeps(r, a, S) /\ r.incomplete_lifecycle = TRUE
      /\ Keeps(q, b, S) /\ q.incomplete_lifecycle = TRUE
  BY TerminalConflictChanges
<1> HIDE DEF r, q
<1>2. \A f \in S \ {"findings"} : r[f] = q[f]
  BY <1>1
<1>3. Same(r, q)
  BY <1>1, <1>2, SameChanges
<1> QED BY <1>3 DEF r, q

LEMMA OnItemRetrievedSame ==
    ASSUME NEW a, NEW b, IsView(a), IsView(b), Same(a, b), NEW e
    PROVE  Same(OnItemRetrieved(a, e), OnItemRetrieved(b, e))
<1> DEFINE n == AttemptNumber(e)
           f == WithAttempt(a, e)
           g == WithAttempt(b, e)
           r == OnItemRetrieved(a, e)
           q == OnItemRetrieved(b, e)
           S == {"attempts", "scheduler_retrieved_at", "recorded_status"}
<1>1. IsView(f) /\ IsView(g) /\ Same(f, g)
  BY WithAttemptSame
<1>2. RetrievedFields(f, n, e, r) /\ RetrievedFields(g, n, e, q)
  BY <1>1, OnItemRetrievedChanges
<1> HIDE DEF n, f, g, r, q
<1>3. /\ r.attempts = q.attempts /\ r.scheduler_retrieved_at = q.scheduler_retrieved_at
      /\ r.recorded_status = q.recorded_status
  BY <1>1, <1>2, SameFields DEF RetrievedFields
<1>4. Keeps(r, f, S) /\ Keeps(q, g, S) /\ \A x \in S \ {"findings"} : r[x] = q[x]
  BY <1>2, <1>3 DEF RetrievedFields
<1>5. Same(r, q)
  BY <1>1, <1>4, SameChanges
<1> QED BY <1>5 DEF r, q

LEMMA OnStartedSame ==
    ASSUME NEW a, NEW b, IsView(a), IsView(b), Same(a, b), NEW e
    PROVE  Same(OnStarted(a, e), OnStarted(b, e))
<1> DEFINE n == AttemptNumber(e)
           f == WithAttempt(a, e)
           g == WithAttempt(b, e)
           c == Backfilled(f, e)
           d == Backfilled(g, e)
           r == OnStarted(a, e)
           q == OnStarted(b, e)
<1>1. IsView(f) /\ IsView(g) /\ Same(f, g)
  BY WithAttemptSame
<1>2. IsView(c) /\ IsView(d) /\ Same(c, d)
  <2> DEFINE S == {"attempts", "started_at", "incomplete_lifecycle"}
  <2>1. BackfillFields(f, n, e, c) /\ BackfillFields(g, n, e, d)
    BY <1>1, BackfilledChanges
  <2> HIDE DEF n, f, g, c, d
  <2>2. /\ c.attempts = d.attempts /\ c.started_at = d.started_at
        /\ c.incomplete_lifecycle = d.incomplete_lifecycle
    BY <1>1, <2>1, SameFields DEF BackfillFields
  <2>3. Keeps(c, f, S) /\ Keeps(d, g, S) /\ \A x \in S \ {"findings"} : c[x] = d[x]
    BY <2>1, <2>2 DEF BackfillFields
  <2>4. Same(c, d)
    BY <1>1, <2>3, SameChanges
  <2>5. IsView(c) /\ IsView(d)
    BY <2>3 DEF Keeps
  <2> QED BY <2>4, <2>5
<1>3. StartFields(f, c, n, r) /\ StartFields(g, d, n, q)
  BY <1>2, OnStartedChanges
<1> HIDE DEF n, f, g, c, d, r, q
<1>4. StartIsLate(f, n) = StartIsLate(g, n)
  BY <1>1 DEF Same, Fields, StartIsLate
<1>5. Same(r, q)
  BY <1>1, <1>2, <1>3, <1>4 DEF StartFields, Same, Fields, Keeps
<1> QED BY <1>5 DEF r, q

LEMMA OnSucceededSame ==
    ASSUME NEW a, NEW b, IsView(a), IsView(b), Same(a, b), NEW e
    PROVE  Same(OnSucceeded(a, e), OnSucceeded(b, e))
<1> DEFINE n == AttemptNumber(e)
           f == WithAttempt(a, e)
           g == WithAttempt(b, e)
           r == OnSucceeded(a, e)
           q == OnSucceeded(b, e)
<1>1. IsView(f) /\ IsView(g) /\ Same(f, g)
  BY WithAttemptSame
<1>2. SuccessFields(f, n, e, r) /\ SuccessFields(g, n, e, q)
  BY <1>1, OnSucceededChanges
<1> HIDE DEF n, f, g, r, q
<1>3. SuccessConflicts(f, n) = SuccessConflicts(g, n)
  BY <1>1 DEF Same, Fields, SuccessConflicts
<1>4. CASE SuccessConflicts(f, n)
  BY <1>1, <1>2, <1>3, <1>4, TerminalConflictSame DEF SuccessFields, r, q
<1>5. CASE ~ SuccessConflicts(f, n)
  <2> DEFINE S == {"attempts", "incomplete_lifecycle", "recorded_status",
                   "cancellation_violation", "completed_at", "retry_eligible",
                   "next_retry_at", "findings"}
  <2>1. Keeps(r, f, S) /\ Keeps(q, g, S)
    BY <1>2, <1>3, <1>5 DEF SuccessFields
  <2>2. /\ r.attempts = q.attempts
        /\ r.incomplete_lifecycle = q.incomplete_lifecycle
        /\ r.recorded_status = q.recorded_status
        /\ r.cancellation_violation = q.cancellation_violation
        /\ r.completed_at = q.completed_at
        /\ r.retry_eligible = q.retry_eligible
        /\ r.next_retry_at = q.next_retry_at
    <3>1. /\ f.attempts = g.attempts /\ f.completed_at = g.completed_at
          /\ f.cancellation_violation = g.cancellation_violation
          /\ f.incomplete_lifecycle = g.incomplete_lifecycle
          /\ f.recorded_status = g.recorded_status
      BY <1>1, SameFields
    <3> QED BY <1>2, <1>3, <1>5, <3>1 DEF SuccessFields
  <2>3. \A x \in S \ {"findings"} : r[x] = q[x]
    BY <2>2
  <2>4. Same(r, q)
    BY <1>1, <2>1, <2>3, SameChanges
  <2> QED BY <2>4 DEF r, q
<1> QED BY <1>4, <1>5

LEMMA OnFailedSame ==
    ASSUME NEW a, NEW b, IsView(a), IsView(b), Same(a, b), NEW e
    PROVE  Same(OnFailed(a, e), OnFailed(b, e))
<1> DEFINE n == AttemptNumber(e)
           f == WithAttempt(a, e)
           g == WithAttempt(b, e)
           r == OnFailed(a, e)
           q == OnFailed(b, e)
<1>1. IsView(f) /\ IsView(g) /\ Same(f, g)
  BY WithAttemptSame
<1>2. FailureFields(f, n, e, r) /\ FailureFields(g, n, e, q)
  BY <1>1, OnFailedChanges
<1> HIDE DEF n, f, g, r, q
<1>3. FailureConflicts(f, n) = FailureConflicts(g, n)
  BY <1>1 DEF Same, Fields, FailureConflicts
<1>4. CASE FailureConflicts(f, n)
  BY <1>1, <1>2, <1>3, <1>4, TerminalConflictSame DEF FailureFields, r, q
<1>5. CASE ~ FailureConflicts(f, n)
  <2> DEFINE S == {"attempts", "incomplete_lifecycle", "recorded_status", "completed_at",
                   "retry_eligible", "next_retry_at", "retry_requested",
                   "retry_acknowledged"}
  <2>1. Keeps(r, f, S) /\ Keeps(q, g, S)
    BY <1>2, <1>3, <1>5 DEF FailureFields
  <2>2. /\ r.attempts = q.attempts
        /\ r.incomplete_lifecycle = q.incomplete_lifecycle
        /\ r.recorded_status = q.recorded_status
        /\ r.completed_at = q.completed_at
        /\ r.retry_eligible = q.retry_eligible
        /\ r.next_retry_at = q.next_retry_at
        /\ r.retry_requested = q.retry_requested
        /\ r.retry_acknowledged = q.retry_acknowledged
    <3>1. /\ f.attempts = g.attempts /\ f.completed_at = g.completed_at
          /\ f.cancellation_violation = g.cancellation_violation
          /\ f.incomplete_lifecycle = g.incomplete_lifecycle
          /\ f.recorded_status = g.recorded_status
      BY <1>1, SameFields
    <3> QED BY <1>2, <1>3, <1>5, <3>1 DEF FailureFields
  <2>3. \A x \in S \ {"findings"} : r[x] = q[x]
    BY <2>2
  <2>4. Same(r, q)
    BY <1>1, <2>1, <2>3, SameChanges
  <2> QED BY <2>4 DEF r, q
<1> QED BY <1>4, <1>5

-----------------------------------------------------------------------------
(* One EDR. *)

\* _project: the rule named after the type of the event, whichever it is.
LEMMA ProjectRule ==
    ASSUME NEW job \in JobVisibility, NEW e \in Event
    PROVE  Project(job, e) \in JobVisibility /\ RuleEffect(job, e, Project(job, e))
<1>0. e.type \in EventType
  BY DEF Event
<1>1. CASE e.type = "JOB_CREATED"
  <2>1. Project(job, e) = OnJobCreated(job, e)
    BY <1>1 DEF Project
  <2> QED BY <1>1, <2>1, OnJobCreatedRule
<1>2. CASE e.type = "JOB_SCHEDULER_SUBMISSION_REQUESTED"
  <2>1. Project(job, e) = OnSubmissionRequested(job, e)
    BY <1>2 DEF Project
  <2> QED BY <1>2, <2>1, OnSubmissionRequestedRule
<1>3. CASE e.type = "JOB_SCHEDULER_SUBMISSION_ACKNOWLEDGED"
  <2>1. Project(job, e) = OnSubmissionAcknowledged(job, e)
    BY <1>3 DEF Project
  <2> QED BY <1>3, <2>1, OnSubmissionAcknowledgedRule
<1>4. CASE e.type = "JOB_SCHEDULER_SUBMISSION_FAILED"
  <2>1. Project(job, e) = OnSubmissionFailed(job, e)
    BY <1>4 DEF Project
  <2> QED BY <1>4, <2>1, OnSubmissionFailedRule
<1>5. CASE e.type = "JOB_SCHEDULER_ITEM_RETRIEVED"
  <2>1. Project(job, e) = OnItemRetrieved(job, e)
    BY <1>5 DEF Project
  <2> QED BY <1>5, <2>1, OnItemRetrievedRule
<1>6. CASE e.type = "JOB_EXECUTION_STARTED"
  <2>1. Project(job, e) = OnStarted(job, e)
    BY <1>6 DEF Project
  <2> QED BY <1>6, <2>1, OnStartedRule
<1>7. CASE e.type = "JOB_EXECUTION_SUCCEEDED"
  <2>1. Project(job, e) = OnSucceeded(job, e)
    BY <1>7 DEF Project
  <2> QED BY <1>7, <2>1, OnSucceededRule
<1>8. CASE e.type = "JOB_EXECUTION_FAILED"
  <2>1. Project(job, e) = OnFailed(job, e)
    BY <1>8 DEF Project
  <2> QED BY <1>8, <2>1, OnFailedRule
<1>9. CASE e.type = "JOB_RETRY_REQUESTED"
  <2>1. Project(job, e) = OnRetryRequested(job, e)
    BY <1>9 DEF Project
  <2> QED BY <1>9, <2>1, OnRetryRequestedRule
<1>10. CASE e.type = "JOB_RETRY_ACKNOWLEDGED"
  <2>1. Project(job, e) = OnRetryAcknowledged(job, e)
    BY <1>10 DEF Project
  <2> QED BY <1>10, <2>1, OnRetryAcknowledgedRule
<1>11. CASE e.type = "JOB_RETRY_REJECTED"
  <2>1. Project(job, e) = OnRetryRejected(job, e)
    BY <1>11 DEF Project
  <2> QED BY <1>11, <2>1, OnRetryRejectedRule
<1>12. CASE e.type = "JOB_RETRIES_EXHAUSTED"
  <2>1. Project(job, e) = OnRetriesExhausted(job, e)
    BY <1>12 DEF Project
  <2> QED BY <1>12, <2>1, OnRetriesExhaustedRule
<1>13. CASE e.type = "JOB_CANCELLED"
  <2>1. Project(job, e) = OnCancelled(job, e)
    BY <1>13 DEF Project
  <2> QED BY <1>13, <2>1, OnCancelledRule
<1> QED BY <1>0, <1>1, <1>2, <1>3, <1>4, <1>5, <1>6, <1>7, <1>8, <1>9, <1>10, <1>11, <1>12,
           <1>13 DEF EventType

\* What a rule makes of the projected fields does not depend on the findings.
LEMMA ProjectSame ==
    ASSUME NEW a \in JobVisibility, NEW b \in JobVisibility, Same(a, b), NEW e \in Event
    PROVE  Same(Project(a, e), Project(b, e))
<1>0. e.type \in EventType /\ IsView(a) /\ IsView(b)
  BY ViewShape DEF Event
<1>1. CASE e.type = "JOB_CREATED"
  <2>1. /\ Project(a, e) = OnJobCreated(a, e)
        /\ Project(b, e) = OnJobCreated(b, e)
    BY <1>1 DEF Project
  <2> QED BY <1>0, <2>1, PlainRulesSame
<1>2. CASE e.type = "JOB_SCHEDULER_SUBMISSION_REQUESTED"
  <2>1. /\ Project(a, e) = OnSubmissionRequested(a, e)
        /\ Project(b, e) = OnSubmissionRequested(b, e)
    BY <1>2 DEF Project
  <2> QED BY <1>0, <2>1, PlainRulesSame
<1>3. CASE e.type = "JOB_SCHEDULER_SUBMISSION_ACKNOWLEDGED"
  <2>1. /\ Project(a, e) = OnSubmissionAcknowledged(a, e)
        /\ Project(b, e) = OnSubmissionAcknowledged(b, e)
    BY <1>3 DEF Project
  <2> QED BY <1>0, <2>1, PlainRulesSame
<1>4. CASE e.type = "JOB_SCHEDULER_SUBMISSION_FAILED"
  <2>1. /\ Project(a, e) = OnSubmissionFailed(a, e)
        /\ Project(b, e) = OnSubmissionFailed(b, e)
    BY <1>4 DEF Project
  <2> QED BY <1>0, <2>1, PlainRulesSame
<1>5. CASE e.type = "JOB_SCHEDULER_ITEM_RETRIEVED"
  <2>1. /\ Project(a, e) = OnItemRetrieved(a, e)
        /\ Project(b, e) = OnItemRetrieved(b, e)
    BY <1>5 DEF Project
  <2> QED BY <1>0, <2>1, OnItemRetrievedSame
<1>6. CASE e.type = "JOB_EXECUTION_STARTED"
  <2>1. /\ Project(a, e) = OnStarted(a, e)
        /\ Project(b, e) = OnStarted(b, e)
    BY <1>6 DEF Project
  <2> QED BY <1>0, <2>1, OnStartedSame
<1>7. CASE e.type = "JOB_EXECUTION_SUCCEEDED"
  <2>1. /\ Project(a, e) = OnSucceeded(a, e)
        /\ Project(b, e) = OnSucceeded(b, e)
    BY <1>7 DEF Project
  <2> QED BY <1>0, <2>1, OnSucceededSame
<1>8. CASE e.type = "JOB_EXECUTION_FAILED"
  <2>1. /\ Project(a, e) = OnFailed(a, e)
        /\ Project(b, e) = OnFailed(b, e)
    BY <1>8 DEF Project
  <2> QED BY <1>0, <2>1, OnFailedSame
<1>9. CASE e.type = "JOB_RETRY_REQUESTED"
  <2>1. /\ Project(a, e) = OnRetryRequested(a, e)
        /\ Project(b, e) = OnRetryRequested(b, e)
    BY <1>9 DEF Project
  <2> QED BY <1>0, <2>1, PlainRulesSame
<1>10. CASE e.type = "JOB_RETRY_ACKNOWLEDGED"
  <2>1. /\ Project(a, e) = OnRetryAcknowledged(a, e)
        /\ Project(b, e) = OnRetryAcknowledged(b, e)
    BY <1>10 DEF Project
  <2> QED BY <1>0, <2>1, OnRetryAcknowledgedSame
<1>11. CASE e.type = "JOB_RETRY_REJECTED"
  <2>1. /\ Project(a, e) = OnRetryRejected(a, e)
        /\ Project(b, e) = OnRetryRejected(b, e)
    BY <1>11 DEF Project
  <2> QED BY <1>0, <2>1, PlainRulesSame
<1>12. CASE e.type = "JOB_RETRIES_EXHAUSTED"
  <2>1. /\ Project(a, e) = OnRetriesExhausted(a, e)
        /\ Project(b, e) = OnRetriesExhausted(b, e)
    BY <1>12 DEF Project
  <2> QED BY <1>0, <2>1, PlainRulesSame
<1>13. CASE e.type = "JOB_CANCELLED"
  <2>1. /\ Project(a, e) = OnCancelled(a, e)
        /\ Project(b, e) = OnCancelled(b, e)
    BY <1>13 DEF Project
  <2> QED BY <1>0, <2>1, PlainRulesSame
<1> QED BY <1>0, <1>1, <1>2, <1>3, <1>4, <1>5, <1>6, <1>7, <1>8, <1>9, <1>10, <1>11, <1>12,
           <1>13 DEF EventType

\* Describing the job writes scheduled_at.
LEMMA DescribedFields ==
    ASSUME NEW job \in JobVisibility, NEW e \in Event
    PROVE  /\ Described(job, e) \in JobVisibility
           /\ Keeps(Described(job, e), job, {"scheduled_at"})
           /\ Described(job, e).scheduled_at =
                 IF job.scheduled_at = None THEN e.scheduled_at ELSE job.scheduled_at
<1>1. IsView(job)
  BY ViewShape
<1>2. /\ Keeps(Described(job, e), job, {"scheduled_at"})
      /\ Described(job, e).scheduled_at =
            IF job.scheduled_at = None THEN e.scheduled_at ELSE job.scheduled_at
  BY <1>1 DEF Described, IsView, Keeps, Fields
<1>3. Described(job, e) \in JobVisibility
  BY DEF Described, JobVisibility, Event
<1> QED BY <1>2, <1>3

\* reduce_visibility: the effect of one EDR on a view, and the version.
LEMMA ReduceRule ==
    ASSUME NEW job \in JobVisibility, NEW e \in Event
    PROVE  /\ Reduce(job, e) \in JobVisibility /\ Effect(job, e, Reduce(job, e))
           /\ Reduce(job, e).version \in {job.version, job.version + 1}
           /\ Reduce(job, e).scheduled_at =
                 IF job.scheduled_at = None /\ ~ IsSemanticDuplicate(job, e)
                 THEN e.scheduled_at ELSE job.scheduled_at
<1> DEFINE d == Described(job, e)
           p == Project(d, e)
           reduced == Reduced(job, e)
           r == Reduce(job, e)
<1>1. /\ d \in JobVisibility /\ Keeps(d, job, {"scheduled_at"})
      /\ d.scheduled_at = IF job.scheduled_at = None THEN e.scheduled_at ELSE job.scheduled_at
      /\ p \in JobVisibility /\ RuleEffect(d, e, p)
  BY DescribedFields, ProjectRule
<1>2. reduced = IF IsSemanticDuplicate(job, e) THEN job
                ELSE [p EXCEPT !.version = IF Ignored(job, e) THEN @ ELSE @ + 1]
  BY DEF Reduced
<1> HIDE DEF d, p, reduced, r
<1>3. reduced \in JobVisibility
  BY <1>1, <1>2 DEF JobVisibility
<1>4. /\ r \in JobVisibility /\ Keeps(r, reduced, {"data_as_of"})
  <2>1. IsView(reduced) /\ Latest(reduced.data_as_of, e.ingestion_time) \in Time
    BY <1>3, ViewShape, LatestType DEF JobVisibility, Event, Time
  <2>2. r = [reduced EXCEPT !.data_as_of = Latest(@, e.ingestion_time)]
    BY DEF r, reduced, Reduce
  <2>3. r \in JobVisibility
    BY <1>3, <2>1, <2>2 DEF JobVisibility
  <2> QED BY <2>1, <2>2, <2>3 DEF Keeps, IsView, Fields
<1>5. /\ Effect(job, e, r) /\ r.version \in {job.version, job.version + 1}
      /\ r.scheduled_at = IF job.scheduled_at = None /\ ~ IsSemanticDuplicate(job, e)
                          THEN e.scheduled_at ELSE job.scheduled_at
  <2>1. CASE IsSemanticDuplicate(job, e)
    <3>1. Keeps(r, job, {"data_as_of"}) /\ AttemptNumber(e) \in Attempts
      BY <1>2, <1>4, <2>1, NumberType
    <3>2. /\ e.type \in {"JOB_EXECUTION_SUCCEEDED", "JOB_EXECUTION_FAILED"}
          /\ job.attempts[AttemptNumber(e)].status \in {"SUCCEEDED", "FAILED"}
      BY <2>1 DEF IsSemanticDuplicate
    <3> QED BY <2>1, <3>1, <3>2 DEF Keeps, Fields, Effect, StartEffect, AttemptEffect,
                              GapEffect, StatusEffect, AckEffect, WaitEffect, EvidenceTypes
  <2>2. CASE ~ IsSemanticDuplicate(job, e)
    <3>1. IsView(p) /\ p.version \in Nat
      BY <1>1, ViewShape DEF JobVisibility
    <3>2. reduced = [p EXCEPT !.version = IF Ignored(job, e) THEN @ ELSE @ + 1]
      BY <1>2, <2>2
    <3>3. Keeps(reduced, p, {"version"}) /\ reduced.version \in {p.version, p.version + 1}
      BY <3>1, <3>2 DEF IsView, Keeps, Fields
    <3>4. /\ r.version \in {p.version, p.version + 1}
          /\ r.started_at = p.started_at /\ r.attempts = p.attempts /\ r.findings = p.findings
          /\ r.recorded_status = p.recorded_status /\ r.retry_requested = p.retry_requested
          /\ r.retry_acknowledged = p.retry_acknowledged
          /\ r.scheduler_retrieved_at = p.scheduler_retrieved_at
          /\ r.scheduled_at = p.scheduled_at
      BY <1>4, <3>3 DEF Keeps, Fields
    <3>5. /\ d.version = job.version
          /\ d.started_at = job.started_at /\ d.attempts = job.attempts /\ d.findings = job.findings
          /\ d.recorded_status = job.recorded_status /\ d.retry_requested = job.retry_requested
          /\ d.retry_acknowledged = job.retry_acknowledged
          /\ d.scheduler_retrieved_at = job.scheduler_retrieved_at
      BY <1>1 DEF Keeps, Fields
    <3>6. MissingBefore(d, AttemptNumber(e)) = MissingBefore(job, AttemptNumber(e))
      BY <3>5 DEF MissingBefore
    <3> QED BY <1>1, <2>2, <3>4, <3>5, <3>6 DEF RuleEffect, Effect, StartEffect, AttemptEffect,
                              GapEffect, StatusEffect, AckEffect, WaitEffect
  <2> QED BY <2>1, <2>2
<1> QED BY <1>4, <1>5 DEF r

\* The findings a reconciliation marked have no effect on what is reduced next.
LEMMA ReduceSame ==
    ASSUME NEW a \in JobVisibility, NEW b \in JobVisibility, Same(a, b), NEW e \in Event
    PROVE  Same(Reduce(a, e), Reduce(b, e))
<1> DEFINE c == Described(a, e)
           d == Described(b, e)
           p == Project(c, e)
           q == Project(d, e)
           x == Reduced(a, e)
           y == Reduced(b, e)
           r == Reduce(a, e)
           t == Reduce(b, e)
<1>1. /\ c \in JobVisibility /\ Keeps(c, a, {"scheduled_at"})
      /\ d \in JobVisibility /\ Keeps(d, b, {"scheduled_at"})
      /\ c.scheduled_at = IF a.scheduled_at = None THEN e.scheduled_at ELSE a.scheduled_at
      /\ d.scheduled_at = IF b.scheduled_at = None THEN e.scheduled_at ELSE b.scheduled_at
  BY DescribedFields
<1>2. /\ x = IF IsSemanticDuplicate(a, e) THEN a
             ELSE [p EXCEPT !.version = IF Ignored(a, e) THEN @ ELSE @ + 1]
      /\ y = IF IsSemanticDuplicate(b, e) THEN b
             ELSE [q EXCEPT !.version = IF Ignored(b, e) THEN @ ELSE @ + 1]
  BY DEF Reduced
<1>3. /\ r = [x EXCEPT !.data_as_of = Latest(@, e.ingestion_time)]
      /\ t = [y EXCEPT !.data_as_of = Latest(@, e.ingestion_time)]
  BY DEF Reduce
<1>4. p \in JobVisibility /\ q \in JobVisibility
  BY <1>1, ProjectRule
<1> HIDE DEF c, d
<1>5. Same(c, d)
  <2>1. a.scheduled_at = b.scheduled_at
    BY DEF Same, Fields
  <2>2. \A f \in {"scheduled_at"} \ {"findings"} : c[f] = d[f]
    BY <1>1, <2>1
  <2> QED BY <1>1, <2>2, SameChanges
<1>6. Same(p, q)
  BY <1>1, <1>5, ProjectSame
<1> HIDE DEF p, q, x, y, r, t
<1>7. /\ IsSemanticDuplicate(a, e) = IsSemanticDuplicate(b, e)
      /\ Ignored(a, e) = Ignored(b, e)
  BY SameFields DEF IsSemanticDuplicate, Ignored
<1>8. Same(x, y) /\ IsView(x) /\ IsView(y)
  <2>1. CASE IsSemanticDuplicate(a, e)
    BY <1>2, <1>7, <2>1, ViewShape
  <2>2. CASE ~ IsSemanticDuplicate(a, e)
    <3>1. IsView(p) /\ IsView(q) /\ p.version = q.version
      BY <1>4, <1>6, ViewShape, SameFields
    <3>2. /\ Keeps(x, p, {"version"}) /\ Keeps(y, q, {"version"})
          /\ x.version = y.version
      BY <1>2, <1>7, <2>2, <3>1 DEF IsView, Keeps, Fields
    <3>3. \A f \in {"version"} \ {"findings"} : x[f] = y[f]
      BY <3>2
    <3>4. Same(x, y)
      BY <1>6, <3>2, <3>3, SameChanges
    <3> QED BY <3>2, <3>4 DEF Keeps
  <2> QED BY <2>1, <2>2
<1>9. Same(r, t)
  <2>1. x.data_as_of = y.data_as_of
    BY <1>8, SameFields
  <2>2. /\ Keeps(r, x, {"data_as_of"}) /\ Keeps(t, y, {"data_as_of"})
        /\ r.data_as_of = t.data_as_of
    BY <1>3, <1>8, <2>1 DEF IsView, Keeps, Fields
  <2>3. \A f \in {"data_as_of"} \ {"findings"} : r[f] = t[f]
    BY <2>2
  <2> QED BY <1>8, <2>2, <2>3, SameChanges
<1> QED BY <1>9 DEF r, t

-----------------------------------------------------------------------------
(* A view moves forward. *)

\* r shows the findings of job, and is as of the same time.
Retains(job, r) ==
    /\ r.data_as_of = job.data_as_of
    /\ \A code \in FindingCode : job.findings[code] # "none" => r.findings[code] # "none"

\* The rules that find no attempt retain what was shown.
LEMMA PlainRulesRetain ==
    ASSUME NEW job \in JobVisibility, NEW e
    PROVE  /\ Retains(job, OnJobCreated(job, e))
           /\ Retains(job, OnSubmissionRequested(job, e))
           /\ Retains(job, OnSubmissionFailed(job, e))
           /\ Retains(job, OnRetryRequested(job, e))
           /\ Retains(job, OnRetryRejected(job, e))
           /\ Retains(job, OnRetriesExhausted(job, e))
           /\ Retains(job, OnCancelled(job, e))
           /\ Retains(job, OnSubmissionAcknowledged(job, e))
           /\ Retains(job, OnRetryAcknowledged(job, e))
<1>1. Retains(job, OnJobCreated(job, e))
  BY DEF JobVisibility, Retains, OnJobCreated
<1>2. Retains(job, OnSubmissionRequested(job, e))
  BY DEF JobVisibility, Retains, OnSubmissionRequested
<1>3. Retains(job, OnSubmissionFailed(job, e))
  BY DEF JobVisibility, Retains, OnSubmissionFailed
<1>4. Retains(job, OnRetryRequested(job, e))
  BY DEF JobVisibility, Retains, OnRetryRequested
<1>5. Retains(job, OnRetryRejected(job, e))
  BY DEF JobVisibility, Retains, OnRetryRejected
<1>6. Retains(job, OnRetriesExhausted(job, e))
  BY DEF JobVisibility, Retains, OnRetriesExhausted
<1>7. Retains(job, OnCancelled(job, e))
  BY DEF JobVisibility, Retains, OnCancelled
<1>8. Retains(job, OnSubmissionAcknowledged(job, e))
  BY DEF JobVisibility, Retains, OnSubmissionAcknowledged, Resolve, FindingCode
<1>9. Retains(job, OnRetryAcknowledged(job, e))
  BY DEF JobVisibility, Retains, OnRetryAcknowledged, Resolve, FindingCode
<1> QED BY <1>1, <1>2, <1>3, <1>4, <1>5, <1>6, <1>7, <1>8, <1>9

\* A step that writes neither field, or marks a finding, retains.
LEMMA KeptIsRetained ==
    ASSUME NEW job \in JobVisibility, NEW r, NEW S, Keeps(r, job, S), "data_as_of" \notin S,
           \/ "findings" \notin S
           \/ r.findings = job.findings
           \/ \E code \in FindingCode : r.findings = [job.findings EXCEPT ![code] = "active"]
    PROVE  Retains(job, r)
<1>1. r.data_as_of = job.data_as_of
  BY DEF Keeps, Fields
<1>2. "findings" \notin S => r.findings = job.findings
  BY DEF Keeps, Fields
<1>3. job.findings \in [FindingCode -> {"none", "active", "resolved"}]
  BY DEF JobVisibility
<1> QED BY <1>1, <1>2, <1>3 DEF Retains

\* The rules that find the attempt retain what was shown.
LEMMA EvidenceRetains ==
    ASSUME NEW job \in JobVisibility, NEW e \in Event
    PROVE  /\ Retains(job, OnItemRetrieved(job, e))
           /\ Retains(job, OnStarted(job, e))
           /\ Retains(job, OnSucceeded(job, e))
           /\ Retains(job, OnFailed(job, e))
<1> DEFINE n == AttemptNumber(e)
           found == WithAttempt(job, e)
           b == Backfilled(found, e)
<1>1. found \in JobVisibility /\ IsView(found) /\ IsView(job)
  BY FoundRule, ViewShape
<1>2. Retains(job, found)
  <2>1. FoundFields(job, e, found)
    BY <1>1, WithAttemptChanges
  <2> HIDE DEF found
  <2>2. "ATTEMPT_SEQUENCE_GAP" \in FindingCode
    BY DEF FindingCode
  <2> QED BY <2>1, <2>2, KeptIsRetained DEF FoundFields
<1>3. ASSUME NEW r, Retains(found, r) PROVE Retains(job, r)
  BY <1>2, <1>3 DEF Retains
<1>4. RetrievedFields(found, n, e, OnItemRetrieved(job, e))
  BY <1>1, OnItemRetrievedChanges
<1>5. SuccessFields(found, n, e, OnSucceeded(job, e))
  BY <1>1, OnSucceededChanges
<1>6. FailureFields(found, n, e, OnFailed(job, e))
  BY <1>1, OnFailedChanges
<1>7. BackfillFields(found, n, e, b)
  BY <1>1, BackfilledChanges
<1>8. IsView(b)
  BY <1>7 DEF BackfillFields, Keeps
<1>9. StartFields(found, b, n, OnStarted(job, e))
  BY <1>8, OnStartedChanges
<1>10. Retains(found, TerminalConflict(found))
  <2>1. "CONFLICTING_TERMINAL_OUTCOME" \in FindingCode
    BY DEF FindingCode
  <2> HIDE DEF found
  <2> QED BY <1>1, <2>1, TerminalConflictChanges, KeptIsRetained
<1> HIDE DEF n, found, b
<1>11. Retains(job, OnItemRetrieved(job, e))
  BY <1>1, <1>3, <1>4, KeptIsRetained DEF RetrievedFields
<1>12. Retains(job, OnFailed(job, e))
  BY <1>1, <1>3, <1>6, <1>10, KeptIsRetained DEF FailureFields
<1>13. Retains(job, OnSucceeded(job, e))
  <2>1. "EXECUTED_AFTER_CANCEL" \in FindingCode
    BY DEF FindingCode
  <2>2. CASE SuccessConflicts(found, n)
    BY <1>3, <1>5, <1>10, <2>2 DEF SuccessFields
  <2>3. CASE ~ SuccessConflicts(found, n)
    BY <1>1, <1>3, <1>5, <2>1, <2>3, KeptIsRetained DEF SuccessFields
  <2> QED BY <2>2, <2>3
<1>14. Retains(job, OnStarted(job, e))
  <2> DEFINE r == OnStarted(job, e)
  <2> HIDE DEF r
  <2>1. /\ "EXECUTED_AFTER_CANCEL" \in FindingCode
        /\ "EXECUTION_AFTER_RETRY_EXHAUSTION" \in FindingCode
    BY DEF FindingCode
  <2>2. b.data_as_of = found.data_as_of /\ b.findings = found.findings
    BY <1>7 DEF BackfillFields, Keeps, Fields
  <2>3. CASE StartIsLate(found, n)
    BY <1>2, <1>9, <2>2, <2>3 DEF StartFields, Retains
  <2>4. CASE ~ StartIsLate(found, n)
    <3>1. /\ Keeps(OnStarted(job, e), b, {"attempts", "cancellation_violation",
                          "retries_exhausted_violation", "recorded_status", "findings"})
          /\ \/ OnStarted(job, e).findings = found.findings
             \/ \E code \in FindingCode :
                   OnStarted(job, e).findings = [found.findings EXCEPT ![code] = "active"]
      BY <1>9, <2>1, <2>2, <2>4 DEF StartFields
    <3>2. OnStarted(job, e).data_as_of = found.data_as_of
      BY <2>2, <3>1 DEF Keeps, Fields
    <3>3. found.findings \in [FindingCode -> {"none", "active", "resolved"}]
      BY <1>1 DEF JobVisibility
    <3>4. Retains(found, OnStarted(job, e))
      BY <3>1, <3>2, <3>3 DEF Retains
    <3> QED BY <1>3, <3>4
  <2> QED BY <2>3, <2>4
<1> QED BY <1>11, <1>12, <1>13, <1>14

\* Every rule retains what was shown.
LEMMA ProjectRetains ==
    ASSUME NEW job \in JobVisibility, NEW e \in Event
    PROVE  Retains(job, Project(job, e))
<1>1. e.type \in EventType
  BY DEF Event
<1>2. Project(job, e) \in
         {OnJobCreated(job, e), OnSubmissionRequested(job, e), OnSubmissionAcknowledged(job, e),
          OnSubmissionFailed(job, e), OnItemRetrieved(job, e), OnStarted(job, e),
          OnSucceeded(job, e), OnFailed(job, e), OnRetryRequested(job, e),
          OnRetryAcknowledged(job, e), OnRetryRejected(job, e), OnRetriesExhausted(job, e),
          OnCancelled(job, e)}
  BY <1>1 DEF Project, EventType
<1> QED BY <1>2, PlainRulesRetain, EvidenceRetains

\* b comes after a: nothing that a shows is gone, and its times and its version
\* are not before those of a.
Advances(a, b) ==
    /\ b.version >= a.version
    /\ a.data_as_of # None => b.data_as_of # None /\ b.data_as_of >= a.data_as_of
    /\ \A n \in Attempts : a.attempts[n].status # "NONE" => b.attempts[n].status # "NONE"
    /\ \A code \in FindingCode : a.findings[code] # "none" => b.findings[code] # "none"
    /\ a.recorded_status = "SUCCEEDED" => b.recorded_status = "SUCCEEDED"

\* Every EDR moves a view forward, and dates it.
LEMMA ReduceAdvances ==
    ASSUME NEW job \in JobVisibility, NEW e \in Event
    PROVE  Advances(job, Reduce(job, e)) /\ Reduce(job, e).data_as_of # None
<1> DEFINE r == Reduce(job, e)
           reduced == Reduced(job, e)
           d == Described(job, e)
           p == Project(d, e)
<1>1. /\ r \in JobVisibility /\ Effect(job, e, r) /\ r.version \in {job.version, job.version + 1}
      /\ job.version \in Nat
  BY ReduceRule DEF JobVisibility
<1>2. Retains(job, reduced) /\ reduced \in JobVisibility
  <2>1. /\ d \in JobVisibility /\ Keeps(d, job, {"scheduled_at"}) /\ p \in JobVisibility
        /\ Retains(d, p)
    BY DescribedFields, ProjectRule, ProjectRetains
  <2>2. reduced = IF IsSemanticDuplicate(job, e) THEN job
                  ELSE [p EXCEPT !.version = IF Ignored(job, e) THEN @ ELSE @ + 1]
    BY DEF Reduced
  <2> HIDE DEF d, p, reduced
  <2>3. CASE IsSemanticDuplicate(job, e)
    BY <2>2, <2>3 DEF Retains
  <2>4. CASE ~ IsSemanticDuplicate(job, e)
    <3>1. reduced = [p EXCEPT !.version = IF Ignored(job, e) THEN @ ELSE @ + 1]
      BY <2>2, <2>4
    <3>2. /\ reduced \in JobVisibility
          /\ reduced.data_as_of = p.data_as_of /\ reduced.findings = p.findings
      BY <2>1, <3>1 DEF JobVisibility
    <3>3. d.data_as_of = job.data_as_of /\ d.findings = job.findings
      BY <2>1 DEF Keeps, Fields
    <3> QED BY <2>1, <3>2, <3>3 DEF Retains
  <2> QED BY <2>3, <2>4
<1>3. /\ r.data_as_of = Latest(reduced.data_as_of, e.ingestion_time)
      /\ r.findings = reduced.findings
  <2>1. r = [reduced EXCEPT !.data_as_of = Latest(@, e.ingestion_time)]
    BY DEF Reduce
  <2> HIDE DEF r, reduced
  <2> QED BY <1>2, <2>1 DEF JobVisibility
<1> HIDE DEF r, reduced, d, p
<1>4. /\ r.data_as_of # None
      /\ job.data_as_of # None => r.data_as_of >= job.data_as_of
  <2>1. /\ reduced.data_as_of = job.data_as_of /\ e.ingestion_time \in Nat
        /\ job.data_as_of \in Nat \cup {None}
    BY <1>2 DEF Retains, Event, JobVisibility, Time
  <2> QED BY <1>3, <2>1, NoTimeAssumption DEF Latest
<1>5. \A code \in FindingCode : job.findings[code] # "none" => r.findings[code] # "none"
  BY <1>2, <1>3 DEF Retains
<1>6. job.recorded_status = "SUCCEEDED" => r.recorded_status = "SUCCEEDED"
  BY <1>1 DEF Effect, StatusEffect
<1>7. \A n \in Attempts : job.attempts[n].status # "NONE" => r.attempts[n].status # "NONE"
  BY <1>1 DEF Effect, AttemptEffect
<1>8. r.version >= job.version
  BY <1>1
<1> QED BY <1>4, <1>5, <1>6, <1>7, <1>8 DEF Advances, r

\* Moving forward twice is moving forward.
LEMMA AdvancesTwice ==
    ASSUME NEW a \in JobVisibility, NEW b \in JobVisibility, NEW c \in JobVisibility,
           Advances(a, b), Advances(b, c)
    PROVE  Advances(a, c)
<1>1. /\ a.version \in Nat /\ b.version \in Nat /\ c.version \in Nat
      /\ a.data_as_of \in Nat \cup {None} /\ b.data_as_of \in Nat \cup {None}
      /\ c.data_as_of \in Nat \cup {None}
  BY DEF JobVisibility, Time
<1> QED BY <1>1, NoTimeAssumption DEF Advances

-----------------------------------------------------------------------------
(* The replay of a journal. *)

\* A non-empty set of natural numbers has a least one.
LEMMA NatMinimum ==
    ASSUME NEW T \in SUBSET Nat, T # {}
    PROVE  \E x \in T : \A y \in T : x <= y
<1> DEFINE R == OpToRel(<, Nat)
<1>1. PICK x \in T : \A y \in T : ~ (<<y, x>> \in R)
  BY NatLessThanWellFounded, WFMin
<1>2. \A y \in T : ~ (y < x)
  BY <1>1 DEF OpToRel
<1> QED BY <1>2

\* views are those that the first n events go through.
Replays(views, events, n) ==
    /\ views \in [0..n -> JobVisibility]
    /\ views[0] = NewJob
    /\ \A i \in 1..n : views[i] = Reduce(views[i - 1], events[i])

\* JobVisibility(job_id) is a view.
LEMMA NewJobType == NewJob \in JobVisibility
BY DEF NewJob, JobVisibility, Time, Status, Attempt

\* A replay of the first n events goes on with the next one.
LEMMA ReplayGrows ==
    ASSUME NEW n \in Nat, NEW events, events[n + 1] \in Event,
           NEW views, Replays(views, events, n)
    PROVE  LET more == [i \in 0..(n + 1) |->
                           IF i = n + 1 THEN Reduce(views[n], events[n + 1]) ELSE views[i]]
           IN  Replays(more, events, n + 1)
<1> DEFINE more == [i \in 0..(n + 1) |->
                       IF i = n + 1 THEN Reduce(views[n], events[n + 1]) ELSE views[i]]
<1>1. views \in [0..n -> JobVisibility] /\ views[n] \in JobVisibility
  BY DEF Replays
<1>2. Reduce(views[n], events[n + 1]) \in JobVisibility
  BY <1>1, ReduceRule
<1>3. more \in [0..(n + 1) -> JobVisibility]
  BY <1>1, <1>2
<1>4. more[0] = NewJob
  BY DEF Replays
<1>5. ASSUME NEW i \in 1..(n + 1)
      PROVE  more[i] = Reduce(more[i - 1], events[i])
  <2>1. CASE i = n + 1
    BY <2>1
  <2>2. CASE i # n + 1
    <3>1. i \in 1..n /\ i - 1 \in 0..n /\ more[i] = views[i] /\ more[i - 1] = views[i - 1]
      BY <2>2
    <3> QED BY <3>1 DEF Replays
  <2> QED BY <2>1, <2>2
<1> QED BY <1>3, <1>4, <1>5 DEF Replays

\* Every journal can be replayed: the shortest prefix that could not would be
\* one event longer than one that can.
LEMMA ReplayExists ==
    ASSUME NEW events \in Seq(Event)
    PROVE  \E views : Replays(views, events, Len(events))
<1> DEFINE T == {n \in 0..Len(events) : ~ \E views : Replays(views, events, n)}
<1>0. Len(events) \in 0..Len(events)
  OBVIOUS
<1>1. SUFFICES ASSUME T # {} PROVE FALSE
  <2>1. ASSUME T = {} PROVE \E views : Replays(views, events, Len(events))
    BY <1>0, <2>1
  <2> HIDE DEF T
  <2> QED BY <2>1
<1>a. T \in SUBSET Nat
  OBVIOUS
<1>2. PICK n \in T : \A m \in T : n <= m
  <2> HIDE DEF T
  <2> QED BY <1>1, <1>a, NatMinimum
<1>3. n # 0
  <2>1. Replays([i \in 0..0 |-> NewJob], events, 0)
    BY NewJobType DEF Replays
  <2> QED BY <1>2, <2>1
<1>4. n - 1 \in 0..Len(events) /\ n - 1 \notin T /\ n - 1 \in Nat /\ (n - 1) + 1 = n
  BY <1>2, <1>3
<1>5. PICK views : Replays(views, events, n - 1)
  BY <1>4
<1>6. events[n] \in Event
  BY <1>2, <1>3
<1>7. \E more : Replays(more, events, n)
  BY <1>4, <1>5, <1>6, ReplayGrows
<1> QED BY <1>2, <1>7

\* There is one replay: the first view in which two differed would follow from
\* views in which they do not.
LEMMA ReplayUnique ==
    ASSUME NEW events, NEW n \in Nat, NEW views, NEW others,
           Replays(views, events, n),
           others[0] = NewJob,
           \A i \in 1..n : others[i] = Reduce(others[i - 1], events[i])
    PROVE  \A i \in 0..n : others[i] = views[i]
<1> DEFINE T == {i \in 0..n : others[i] # views[i]}
<1>1. SUFFICES ASSUME T # {} PROVE FALSE
  OBVIOUS
<1>a. T \in SUBSET Nat
  OBVIOUS
<1>2. PICK i \in T : \A m \in T : i <= m
  <2> HIDE DEF T
  <2> QED BY <1>1, <1>a, NatMinimum
<1>3. i # 0
  BY <1>2 DEF Replays
<1>4. i \in 1..n /\ i - 1 \in 0..n /\ i - 1 \notin T
  BY <1>2, <1>3
<1>5. others[i - 1] = views[i - 1]
  BY <1>4
<1> QED BY <1>2, <1>4, <1>5 DEF Replays

\* The recursive function Replay(events) is what its definition says.
LEMMA ReplayIsReplay ==
    ASSUME NEW events \in Seq(Event)
    PROVE  /\ Replays(Replay(events), events, Len(events))
           /\ Replayed(events) \in JobVisibility
<1> DEFINE Step(f) == [n \in 0..Len(events) |->
                          IF n = 0 THEN NewJob ELSE Reduce(f[n - 1], events[n])]
<1>1. PICK views : Replays(views, events, Len(events))
  BY ReplayExists
<1>2. views = Step(views)
  BY <1>1 DEF Replays
<1>3. Replay(events) = CHOOSE f : f = Step(f)
  BY DEF Replay
<1>4. Replay(events) = Step(Replay(events))
  BY <1>2, <1>3
<1> DEFINE f == Replay(events)
<1> HIDE DEF f
<1>5. /\ f[0] = NewJob
      /\ \A i \in 1..Len(events) : f[i] = Reduce(f[i - 1], events[i])
      /\ f = [i \in 0..Len(events) |-> f[i]]
  BY <1>4 DEF f
<1>6. \A i \in 0..Len(events) : f[i] = views[i]
  <2>1. Len(events) \in Nat
    OBVIOUS
  <2> QED BY <1>1, <1>5, <2>1, ReplayUnique
<1>7. Replays(f, events, Len(events))
  BY <1>1, <1>5, <1>6 DEF Replays
<1>8. f[Len(events)] \in JobVisibility
  BY <1>7 DEF Replays
<1> QED BY <1>7, <1>8 DEF f, Replayed

\* Replaying the empty journal gives the new view.
LEMMA ReplayOfNothing == Replayed(<<>>) = NewJob
<1>a. <<>> \in Seq(Event)
  OBVIOUS
<1>1. Replays(Replay(<<>>), <<>>, Len(<<>>))
  BY <1>a, ReplayIsReplay
<1> QED BY <1>1 DEF Replays, Replayed

\* Replaying one event more is one step of the reducer more.
LEMMA ReplayOfMore ==
    ASSUME NEW events \in Seq(Event), NEW e \in Event
    PROVE  Replayed(Append(events, e)) = Reduce(Replayed(events), e)
<1> DEFINE more == Append(events, e)
           n == Len(events)
           f == Replay(events)
           g == Replay(more)
<1>1. /\ more \in Seq(Event) /\ Len(more) = n + 1 /\ more[n + 1] = e /\ n \in Nat
      /\ \A i \in 1..n : more[i] = events[i]
  OBVIOUS
<1>2. Replays(f, events, n) /\ Replays(g, more, n + 1)
  BY <1>1, ReplayIsReplay
<1> HIDE DEF more, n, f, g
<1>3. \A i \in 0..n : g[i] = f[i]
  <2>1. g[0] = NewJob
    BY <1>2 DEF Replays
  <2>2. ASSUME NEW i \in 1..n
        PROVE  g[i] = Reduce(g[i - 1], events[i])
    <3>1. i \in 1..(n + 1) /\ more[i] = events[i]
      BY <1>1
    <3> QED BY <1>2, <3>1 DEF Replays
  <2> QED BY <1>1, <1>2, <2>1, <2>2, ReplayUnique
<1>4. g[n + 1] = Reduce(g[n], e) /\ g[n] = f[n]
  BY <1>1, <1>2, <1>3 DEF Replays
<1> QED BY <1>1, <1>4 DEF Replayed, more, n, f, g
=============================================================================

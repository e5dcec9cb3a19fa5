--------------------------- MODULE SchedulerViewProofs ---------------------------
(****************************************************************************)
(* That the EDRs of the scheduler tell the visibility reducer the truth,    *)
(* for any number of jobs, workers, attempts and crashes: what each EDR     *)
(* makes of a view that is in step with the rows, what each transaction     *)
(* adds to the outbox, and that the two agree.                              *)
(****************************************************************************)
EXTENDS SchedulerView, SchedulerProofs, ReducerProofs

-----------------------------------------------------------------------------
(* One EDR that arrives in its place. *)

\* A view without a trace of missing or contradictory EDRs, of k EDRs.
Sound(v, k) ==
    /\ v \in JobVisibility /\ v.version = k /\ ~ v.incomplete_lifecycle
    /\ \A code \in FindingCode : v.findings[code] = "none"

\* w has the same attempts as v, apart from the n-th.
OthersShown(v, w, n) == \A m \in Attempts : m # n => w.attempts[m] = v.attempts[m]

\* What reduce_visibility makes of a view is what the rule makes of it, unless
\* the event is a duplicate or ignored.
LEMMA ReduceByRule ==
    ASSUME NEW v, NEW k \in Nat, Sound(v, k), NEW e \in Event,
           ~ IsSemanticDuplicate(v, e), ~ Ignored(v, e)
    PROVE  \E d \in JobVisibility :
              /\ d.recorded_status = v.recorded_status /\ d.attempts = v.attempts
              /\ d.findings = v.findings /\ ~ d.incomplete_lifecycle
              /\ Reduce(v, e) \in JobVisibility /\ Reduce(v, e).version = k + 1
              /\ Reduce(v, e).recorded_status = Project(d, e).recorded_status
              /\ Reduce(v, e).attempts = Project(d, e).attempts
              /\ Reduce(v, e).findings = Project(d, e).findings
              /\ Reduce(v, e).incomplete_lifecycle = Project(d, e).incomplete_lifecycle
<1> DEFINE d == Described(v, e)
           p == Project(d, e)
           reduced == Reduced(v, e)
           r == Reduce(v, e)
<1>1. /\ d \in JobVisibility /\ Keeps(d, v, {"scheduled_at"})
      /\ p \in JobVisibility /\ p.version = d.version
      /\ v \in JobVisibility /\ v.version = k /\ ~ v.incomplete_lifecycle
      /\ r \in JobVisibility
  BY DescribedFields, ProjectRule, ReduceRule DEF Sound, RuleEffect
<1>2. reduced = [p EXCEPT !.version = @ + 1]
  BY DEF Reduced
<1>3. r = [reduced EXCEPT !.data_as_of = Latest(@, e.ingestion_time)]
  BY DEF Reduce
<1> HIDE DEF d, p, reduced, r
<1>4. IsView(p) /\ p.version \in Nat
  BY <1>1, ViewShape DEF JobVisibility
<1>5. Keeps(reduced, p, {"version"}) /\ reduced.version = p.version + 1
  BY <1>2, <1>4 DEF IsView, Keeps, Fields
<1>6. Keeps(r, reduced, {"data_as_of"})
  BY <1>3, <1>5 DEF IsView, Keeps, Fields
<1>7. /\ r.version = p.version + 1 /\ r.recorded_status = p.recorded_status
      /\ r.attempts = p.attempts /\ r.findings = p.findings
      /\ r.incomplete_lifecycle = p.incomplete_lifecycle
  BY <1>5, <1>6 DEF Keeps, Fields
<1>8. /\ d.version = v.version /\ d.recorded_status = v.recorded_status
      /\ d.attempts = v.attempts /\ d.findings = v.findings
      /\ d.incomplete_lifecycle = v.incomplete_lifecycle
  BY <1>1 DEF Keeps, Fields
<1> QED BY <1>1, <1>7, <1>8 DEF d, p, r

\* The events that say nothing of an attempt.
LEMMA PlainEventShown ==
    ASSUME NEW v, NEW k \in Nat, Sound(v, k), NEW e \in Event,
           \/ e.type \in {"JOB_CREATED", "JOB_SCHEDULER_SUBMISSION_REQUESTED"}
           \/ /\ e.type \in {"JOB_RETRY_REQUESTED", "JOB_RETRY_ACKNOWLEDGED",
                             "JOB_RETRIES_EXHAUSTED"}
              /\ v.recorded_status = "RETRY_PENDING"
    PROVE  /\ Sound(Reduce(v, e), k + 1) /\ Reduce(v, e).attempts = v.attempts
           /\ e.type = "JOB_CREATED" /\ v.recorded_status = "UNKNOWN"
                 => Reduce(v, e).recorded_status = "CREATED"
           /\ e.type = "JOB_SCHEDULER_SUBMISSION_REQUESTED" /\ v.recorded_status = "CREATED"
                 => Reduce(v, e).recorded_status = "PENDING_SUBMISSION"
           /\ e.type = "JOB_RETRY_REQUESTED" => Reduce(v, e).recorded_status = "RETRY_PENDING"
           /\ e.type = "JOB_RETRY_ACKNOWLEDGED" => Reduce(v, e).recorded_status = "RETRY_SCHEDULED"
           /\ e.type = "JOB_RETRIES_EXHAUSTED"
                 => Reduce(v, e).recorded_status = "RETRIES_EXHAUSTED"
<1> DEFINE r == Reduce(v, e)
<1>1. ~ IsSemanticDuplicate(v, e) /\ ~ Ignored(v, e)
  BY DEF IsSemanticDuplicate, Ignored, TERMINAL_STATUSES
<1>2. PICK d \in JobVisibility :
         /\ d.recorded_status = v.recorded_status /\ d.attempts = v.attempts
         /\ d.findings = v.findings /\ ~ d.incomplete_lifecycle
         /\ r \in JobVisibility /\ r.version = k + 1
         /\ r.recorded_status = Project(d, e).recorded_status
         /\ r.attempts = Project(d, e).attempts
         /\ r.findings = Project(d, e).findings
         /\ r.incomplete_lifecycle = Project(d, e).incomplete_lifecycle
  BY <1>1, ReduceByRule
<1> HIDE DEF r
<1> DEFINE p == Project(d, e)
<1>3. IsView(d) /\ \A code \in FindingCode : d.findings[code] = "none"
  BY <1>2, ViewShape DEF Sound
<1>4. ASSUME Keeps(p, d, {"recorded_status", "submission_requested_at", "retry_requested",
                          "retry_acknowledged", "retry_requested_at", "next_retry_at",
                          "retry_eligible", "completed_at"})
      PROVE  Sound(r, k + 1) /\ r.attempts = v.attempts
  <2>1. /\ p.attempts = d.attempts /\ p.findings = d.findings
        /\ p.incomplete_lifecycle = d.incomplete_lifecycle
    BY <1>4 DEF Keeps, Fields
  <2> QED BY <1>2, <1>3, <2>1 DEF Sound
<1>5. CASE e.type = "JOB_CREATED"
  <2>1. p = OnJobCreated(d, e)
    BY <1>5 DEF Project
  <2>2. /\ Keeps(p, d, {"recorded_status"})
        /\ d.recorded_status = "UNKNOWN" => p.recorded_status = "CREATED"
    BY <1>3, <2>1 DEF OnJobCreated, Keeps, IsView, Fields
  <2> QED BY <1>2, <1>4, <1>5, <2>2 DEF Keeps, r
<1>6. CASE e.type = "JOB_SCHEDULER_SUBMISSION_REQUESTED"
  <2>1. p = OnSubmissionRequested(d, e)
    BY <1>6 DEF Project
  <2>2. /\ Keeps(p, d, {"recorded_status", "submission_requested_at"})
        /\ d.recorded_status = "CREATED" => p.recorded_status = "PENDING_SUBMISSION"
    BY <1>3, <2>1 DEF OnSubmissionRequested, Keeps, IsView, Fields, TERMINAL_STATUSES
  <2> QED BY <1>2, <1>4, <1>6, <2>2 DEF Keeps, r
<1>7. CASE e.type = "JOB_RETRY_REQUESTED"
  <2>1. p = OnRetryRequested(d, e)
    BY <1>7 DEF Project
  <2>2. d.recorded_status \notin TERMINAL_STATUSES
    BY <1>2, <1>7 DEF TERMINAL_STATUSES
  <2>3. /\ Keeps(p, d, {"retry_requested", "retry_acknowledged", "retry_requested_at",
                        "next_retry_at", "recorded_status"})
        /\ p.recorded_status = "RETRY_PENDING"
    BY <1>3, <2>1, <2>2 DEF OnRetryRequested, Keeps, IsView, Fields
  <2> QED BY <1>2, <1>4, <1>7, <2>3 DEF Keeps, r
<1>8. CASE e.type = "JOB_RETRY_ACKNOWLEDGED"
  <2>1. p = OnRetryAcknowledged(d, e)
    BY <1>8 DEF Project
  <2>2. AcknowledgedFields(d, e, p)
    BY <1>3, <2>1, OnRetryAcknowledgedChanges
  <2>3. p.recorded_status = "RETRY_SCHEDULED"
    BY <1>2, <1>8, <2>2 DEF AcknowledgedFields, TERMINAL_STATUSES
  <2>4. p.findings = d.findings
    <3> DEFINE x == [d EXCEPT !.retry_requested = TRUE, !.retry_acknowledged = TRUE,
                        !.next_retry_at = IF e.next_retry_at = None THEN @ ELSE e.next_retry_at,
                        !.recorded_status = IF @ \in TERMINAL_STATUSES \cup {"RUNNING"}
                                            THEN @ ELSE "RETRY_SCHEDULED"]
    <3>1. p = Resolve(x, "RETRY_ACK_TIMEOUT")
      BY <2>1 DEF OnRetryAcknowledged
    <3>2. x.findings = d.findings
      BY <1>3 DEF IsView, Fields
    <3>3. d.findings["RETRY_ACK_TIMEOUT"] # "active"
      BY <1>3 DEF FindingCode
    <3> HIDE DEF x, p
    <3> QED BY <3>1, <3>2, <3>3 DEF Resolve
  <2>5. p.attempts = d.attempts /\ p.incomplete_lifecycle = d.incomplete_lifecycle
    BY <2>2 DEF AcknowledgedFields, Keeps, Fields
  <2> QED BY <1>2, <1>3, <1>8, <2>3, <2>4, <2>5 DEF Sound, r
<1>9. CASE e.type = "JOB_RETRIES_EXHAUSTED"
  <2>1. p = OnRetriesExhausted(d, e)
    BY <1>9 DEF Project
  <2>2. d.recorded_status # "SUCCEEDED"
    BY <1>2, <1>9
  <2>3. /\ Keeps(p, d, {"recorded_status", "retry_eligible", "retry_acknowledged",
                        "next_retry_at", "completed_at"})
        /\ p.recorded_status = "RETRIES_EXHAUSTED"
    BY <1>3, <2>1, <2>2 DEF OnRetriesExhausted, Keeps, IsView, Fields
  <2> QED BY <1>2, <1>4, <1>9, <2>3 DEF Keeps, r
<1> QED BY <1>5, <1>6, <1>7, <1>8, <1>9

\* The attempt of an event, when it is there or is the next one.
LEMMA FoundShown ==
    ASSUME NEW d \in JobVisibility, NEW e \in Event,
           ~ d.incomplete_lifecycle, \A code \in FindingCode : d.findings[code] = "none",
           \A m \in 1..(AttemptNumber(e) - 1) : d.attempts[m].status # "NONE"
    PROVE  LET n == AttemptNumber(e)
               found == WithAttempt(d, e)
           IN  /\ found \in JobVisibility /\ ~ found.incomplete_lifecycle
               /\ found.findings = d.findings /\ found.recorded_status = d.recorded_status
               /\ OthersShown(d, found, n)
               /\ found.attempts[n].retrieved_at = d.attempts[n].retrieved_at
               /\ found.attempts[n].started_at = d.attempts[n].started_at
               /\ found.attempts[n].status = IF d.attempts[n].status = "NONE" THEN "UNKNOWN"
                                             ELSE d.attempts[n].status
<1> DEFINE n == AttemptNumber(e)
           found == WithAttempt(d, e)
           status == IF d.attempts[n].status = "NONE" THEN "UNKNOWN" ELSE d.attempts[n].status
<1>1. n \in Attempts /\ IsView(d) /\ found \in JobVisibility
  BY NumberType, ViewShape, FoundRule
<1>2. ~ MissingBefore(d, n)
  BY DEF MissingBefore
<1>3. FoundFields(d, e, found)
  BY <1>1, WithAttemptChanges
<1>4. /\ found.attempts = [d.attempts EXCEPT ![n].status = status]
      /\ found.findings = d.findings
      /\ found.incomplete_lifecycle = (d.incomplete_lifecycle \/ MissingBefore(d, n))
      /\ found.recorded_status = d.recorded_status
  BY <1>2, <1>3 DEF FoundFields, Keeps, Fields
<1>5. d.attempts \in [Attempts -> Attempt] /\ d.attempts[n] \in Attempt
  BY <1>1 DEF JobVisibility
<1> HIDE DEF status, found, n
<1>6. /\ OthersShown(d, found, n)
      /\ found.attempts[n].retrieved_at = d.attempts[n].retrieved_at
      /\ found.attempts[n].started_at = d.attempts[n].started_at
      /\ found.attempts[n].status = status
  BY <1>1, <1>4, <1>5 DEF OthersShown, Attempt
<1> QED BY <1>1, <1>2, <1>4, <1>6 DEF found, n, status

\* An event time is a time.
LEMMA EarliestShown ==
    ASSUME NEW a \in Time, NEW b \in Nat
    PROVE  Earliest(a, b) # None /\ Earliest(a, b) \in Time
BY NoTimeAssumption DEF Earliest, Time

\* _on_item_retrieved of the next attempt.
LEMMA RetrievedShown ==
    ASSUME NEW v, NEW k \in Nat, Sound(v, k), NEW e \in Event,
           e.type = "JOB_SCHEDULER_ITEM_RETRIEVED", NEW n, n = AttemptNumber(e),
           \A m \in 1..(n - 1) : v.attempts[m].status # "NONE",
           v.attempts[n].status = "NONE", v.recorded_status \notin TERMINAL_STATUSES
    PROVE  LET r == Reduce(v, e) IN
           /\ Sound(r, k + 1) /\ OthersShown(v, r, n)
           /\ r.attempts[n].status = "RETRIEVED" /\ r.attempts[n].retrieved_at # None
           /\ r.recorded_status = IF v.recorded_status = "RUNNING" THEN "RUNNING"
                                  ELSE "AWAITING_EXECUTION"
<1> DEFINE r == Reduce(v, e)
<1>1. ~ IsSemanticDuplicate(v, e) /\ ~ Ignored(v, e)
  BY DEF IsSemanticDuplicate, Ignored
<1>2. PICK d \in JobVisibility :
         /\ d.recorded_status = v.recorded_status /\ d.attempts = v.attempts
         /\ d.findings = v.findings /\ ~ d.incomplete_lifecycle
         /\ r \in JobVisibility /\ r.version = k + 1
         /\ r.recorded_status = Project(d, e).recorded_status
         /\ r.attempts = Project(d, e).attempts
         /\ r.findings = Project(d, e).findings
         /\ r.incomplete_lifecycle = Project(d, e).incomplete_lifecycle
  BY <1>1, ReduceByRule
<1> DEFINE found == WithAttempt(d, e)
           p == Project(d, e)
<1> HIDE DEF r
<1>3. /\ found \in JobVisibility /\ ~ found.incomplete_lifecycle
      /\ found.findings = d.findings /\ found.recorded_status = d.recorded_status
      /\ OthersShown(d, found, n)
      /\ found.attempts[n].retrieved_at = d.attempts[n].retrieved_at
      /\ found.attempts[n].status = "UNKNOWN"
  BY <1>2, FoundShown DEF Sound
<1>4. n \in Attempts /\ IsView(found)
  BY <1>3, NumberType, ViewShape
<1>5. p = OnItemRetrieved(d, e)
  BY DEF Project
<1>6. RetrievedFields(found, n, e, p)
  BY <1>4, <1>5, OnItemRetrievedChanges
<1> HIDE DEF found, p
<1>7. /\ p.attempts = [found.attempts EXCEPT ![n] = RetrievedAttempt(@, e)]
      /\ p.findings = d.findings /\ ~ p.incomplete_lifecycle
      /\ p.recorded_status = IF v.recorded_status = "RUNNING" THEN "RUNNING"
                             ELSE "AWAITING_EXECUTION"
  BY <1>2, <1>3, <1>6 DEF RetrievedFields, Keeps, Fields
<1>8. /\ found.attempts \in [Attempts -> Attempt] /\ found.attempts[n] \in Attempt
      /\ found.attempts[n].retrieved_at \in Time /\ RetrievedTime(e) \in Nat
  BY <1>3, <1>4, RetrievedTimeType DEF JobVisibility, Attempt
<1> DEFINE x == RetrievedAttempt(found.attempts[n], e)
<1>9. x.status = "RETRIEVED" /\ x.retrieved_at # None
  BY <1>3, <1>8, EarliestShown DEF RetrievedAttempt, Attempt
<1>10. r.attempts[n] = x /\ OthersShown(found, r, n)
  BY <1>2, <1>4, <1>7, <1>8 DEF OthersShown, p
<1> HIDE DEF x
<1>11. Sound(r, k + 1)
  BY <1>2, <1>7 DEF Sound, p
<1>12. OthersShown(v, r, n)
  BY <1>2, <1>3, <1>10 DEF OthersShown
<1> QED BY <1>2, <1>7, <1>9, <1>10, <1>11, <1>12 DEF r, p

\* _on_started of the attempt that was retrieved.
LEMMA StartedShown ==
    ASSUME NEW v, NEW k \in Nat, Sound(v, k), NEW e \in Event,
           e.type = "JOB_EXECUTION_STARTED", NEW n, n = AttemptNumber(e),
           \A m \in 1..n : v.attempts[m].status # "NONE",
           v.attempts[n].status = "RETRIEVED", v.attempts[n].retrieved_at # None,
           v.recorded_status \notin TERMINAL_STATUSES
    PROVE  LET r == Reduce(v, e) IN
           /\ Sound(r, k + 1) /\ OthersShown(v, r, n)
           /\ r.attempts[n].status = "RUNNING" /\ r.attempts[n].retrieved_at # None
           /\ r.attempts[n].started_at # None
           /\ r.recorded_status = "RUNNING"
<1> DEFINE r == Reduce(v, e)
<1>1. ~ IsSemanticDuplicate(v, e) /\ ~ Ignored(v, e)
  BY DEF IsSemanticDuplicate, Ignored
<1>2. PICK d \in JobVisibility :
         /\ d.recorded_status = v.recorded_status /\ d.attempts = v.attempts
         /\ d.findings = v.findings /\ ~ d.incomplete_lifecycle
         /\ r \in JobVisibility /\ r.version = k + 1
         /\ r.recorded_status = Project(d, e).recorded_status
         /\ r.attempts = Project(d, e).attempts
         /\ r.findings = Project(d, e).findings
         /\ r.incomplete_lifecycle = Project(d, e).incomplete_lifecycle
  BY <1>1, ReduceByRule
<1> DEFINE found == WithAttempt(d, e)
           b == Backfilled(found, e)
           p == Project(d, e)
<1> HIDE DEF r
<1>a. n \in Attempts
  BY NumberType
<1>b. \A m \in 1..(n - 1) : v.attempts[m].status # "NONE"
  BY <1>a DEF Attempts
<1>3. /\ found \in JobVisibility /\ ~ found.incomplete_lifecycle
      /\ found.findings = d.findings /\ found.recorded_status = d.recorded_status
      /\ OthersShown(d, found, n)
      /\ found.attempts[n].retrieved_at = v.attempts[n].retrieved_at
      /\ found.attempts[n].status = "RETRIEVED"
  BY <1>2, <1>b, FoundShown DEF Sound
<1>4. IsView(found)
  BY <1>3, ViewShape
<1>5. BackfillFields(found, n, e, b)
  BY <1>4, BackfilledChanges
<1>6. p = OnStarted(d, e)
  BY DEF Project
<1>7. StartFields(found, b, n, p)
  BY <1>5, <1>6, OnStartedChanges DEF BackfillFields, Keeps
<1> HIDE DEF found, b, p
<1>8. /\ b.attempts = [found.attempts EXCEPT ![n].started_at = Earliest(@, e.event_time)]
      /\ b.findings = d.findings /\ ~ b.incomplete_lifecycle
  BY <1>3, <1>5 DEF BackfillFields, Keeps, Fields
<1>9. ~ StartIsLate(found, n)
  BY <1>2, <1>3 DEF StartIsLate, TERMINAL_STATUSES
<1>10. /\ p.attempts = [b.attempts EXCEPT ![n].status = "RUNNING"]
       /\ p.findings = d.findings /\ ~ p.incomplete_lifecycle
       /\ p.recorded_status = "RUNNING"
  BY <1>2, <1>3, <1>7, <1>8, <1>9 DEF StartFields, Keeps, Fields, TERMINAL_STATUSES
<1>11. /\ found.attempts \in [Attempts -> Attempt] /\ found.attempts[n] \in Attempt
       /\ found.attempts[n].started_at \in Time /\ e.event_time \in Nat
  BY <1>3, <1>a DEF JobVisibility, Attempt, Event
<1> DEFINE t == Earliest(found.attempts[n].started_at, e.event_time)
<1>12. t # None /\ t \in Time
  BY <1>11, EarliestShown
<1>13. b.attempts = [found.attempts EXCEPT ![n].started_at = t]
  BY <1>8
<1> HIDE DEF t
<1>14. /\ b.attempts \in [Attempts -> Attempt] /\ OthersShown(found, b, n)
       /\ b.attempts[n].started_at = t
       /\ b.attempts[n].retrieved_at = found.attempts[n].retrieved_at
  BY <1>a, <1>11, <1>12, <1>13 DEF OthersShown, Attempt
<1>15. /\ OthersShown(b, p, n) /\ p.attempts[n].status = "RUNNING"
       /\ p.attempts[n].started_at = t
       /\ p.attempts[n].retrieved_at = b.attempts[n].retrieved_at
  BY <1>a, <1>10, <1>14 DEF OthersShown, Attempt
<1>16. Sound(r, k + 1)
  BY <1>2, <1>10 DEF Sound, p
<1>17. OthersShown(v, r, n)
  BY <1>2, <1>3, <1>14, <1>15 DEF OthersShown, p
<1> QED BY <1>2, <1>3, <1>10, <1>12, <1>14, <1>15, <1>16, <1>17 DEF r, p

\* _on_succeeded and _on_failed of the attempt that is running.
LEMMA OutcomeShown ==
    ASSUME NEW v, NEW k \in Nat, Sound(v, k), NEW e \in Event,
           e.type \in {"JOB_EXECUTION_SUCCEEDED", "JOB_EXECUTION_FAILED"},
           NEW n, n = AttemptNumber(e),
           \A m \in 1..n : v.attempts[m].status # "NONE",
           v.attempts[n].status = "RUNNING", v.attempts[n].retrieved_at # None,
           v.attempts[n].started_at # None,
           v.recorded_status \notin TERMINAL_STATUSES
    PROVE  LET r == Reduce(v, e) IN
           /\ Sound(r, k + 1) /\ OthersShown(v, r, n)
           /\ r.attempts[n].retrieved_at # None /\ r.attempts[n].started_at # None
           /\ e.type = "JOB_EXECUTION_SUCCEEDED" =>
                 r.attempts[n].status = "SUCCEEDED" /\ r.recorded_status = "SUCCEEDED"
           /\ e.type = "JOB_EXECUTION_FAILED" =>
                 /\ r.attempts[n].status = "FAILED"
                 /\ r.recorded_status = IF e.retryable THEN "RETRY_PENDING" ELSE "FAILED"
<1> DEFINE r == Reduce(v, e)
<1>1. ~ IsSemanticDuplicate(v, e) /\ ~ Ignored(v, e)
  BY DEF IsSemanticDuplicate, Ignored
<1>2. PICK d \in JobVisibility :
         /\ d.recorded_status = v.recorded_status /\ d.attempts = v.attempts
         /\ d.findings = v.findings /\ ~ d.incomplete_lifecycle
         /\ r \in JobVisibility /\ r.version = k + 1
         /\ r.recorded_status = Project(d, e).recorded_status
         /\ r.attempts = Project(d, e).attempts
         /\ r.findings = Project(d, e).findings
         /\ r.incomplete_lifecycle = Project(d, e).incomplete_lifecycle
  BY <1>1, ReduceByRule
<1> DEFINE found == WithAttempt(d, e)
           p == Project(d, e)
<1> HIDE DEF r
<1>a. n \in Attempts
  BY NumberType
<1>b. \A m \in 1..(n - 1) : v.attempts[m].status # "NONE"
  BY <1>a DEF Attempts
<1>3. /\ found \in JobVisibility /\ ~ found.incomplete_lifecycle
      /\ found.findings = d.findings /\ found.recorded_status = d.recorded_status
      /\ OthersShown(d, found, n)
      /\ found.attempts[n].retrieved_at = v.attempts[n].retrieved_at
      /\ found.attempts[n].started_at = v.attempts[n].started_at
      /\ found.attempts[n].status = "RUNNING"
  BY <1>2, <1>b, FoundShown DEF Sound
<1>4. IsView(found)
  BY <1>3, ViewShape
<1>5. CASE e.type = "JOB_EXECUTION_SUCCEEDED"
  <2>1. SuccessFields(found, n, e, p)
    BY <1>4, <1>5, OnSucceededChanges DEF Project
  <2> HIDE DEF found, p
  <2>2. ~ SuccessConflicts(found, n)
    BY <1>2, <1>3 DEF SuccessConflicts, TERMINAL_STATUSES
  <2>3. /\ p.attempts = [found.attempts EXCEPT ![n].status = "SUCCEEDED"]
        /\ p.findings = d.findings /\ ~ p.incomplete_lifecycle
        /\ p.recorded_status = "SUCCEEDED"
    BY <1>2, <1>3, <2>1, <2>2 DEF SuccessFields, TERMINAL_STATUSES
  <2> QED BY <1>2, <1>3, <1>5, <1>a, <2>3 DEF Sound, OthersShown, JobVisibility, Attempt, r, p
<1>6. CASE e.type = "JOB_EXECUTION_FAILED"
  <2>1. FailureFields(found, n, e, p)
    BY <1>4, <1>6, OnFailedChanges DEF Project
  <2> HIDE DEF found, p
  <2>2. ~ FailureConflicts(found, n)
    BY <1>2, <1>3 DEF FailureConflicts, TERMINAL_STATUSES
  <2>3. /\ p.attempts = [found.attempts EXCEPT ![n].status = "FAILED"]
        /\ p.findings = d.findings /\ ~ p.incomplete_lifecycle
        /\ p.recorded_status = IF e.retryable THEN "RETRY_PENDING" ELSE "FAILED"
    BY <1>2, <1>3, <2>1, <2>2 DEF FailureFields, Keeps, Fields
  <2> QED BY <1>2, <1>3, <1>6, <1>a, <2>3 DEF Sound, OthersShown, JobVisibility, Attempt, r, p
<1> QED BY <1>5, <1>6

-----------------------------------------------------------------------------
(* The EDRs of an outbox. *)

\* An outbox row whose EDR the reducer can number.
Deliverable == [type : OutboxType, attempt : 0..MaxAttempt, retryable : BOOLEAN]

LEMMA EdrType ==
    ASSUME NEW x \in Deliverable, NEW i \in Nat
    PROVE  /\ EdrOf(x, i) \in Event
           /\ EdrOf(x, i).type = x.type /\ EdrOf(x, i).retryable = x.retryable
           /\ x.attempt > 0 => AttemptNumber(EdrOf(x, i)) = x.attempt
BY DEF Deliverable, EdrOf, Event, OutboxType, EventType, Time, AttemptNumber

LEMMA RowDeliverable ==
    ASSUME NEW type \in OutboxType, NEW n \in 0..MaxAttempt, NEW retryable \in BOOLEAN
    PROVE  /\ Ev(type, n, retryable) \in Deliverable
           /\ Ev(type, n, retryable).type = type /\ Ev(type, n, retryable).attempt = n
           /\ Ev(type, n, retryable).retryable = retryable
BY DEF Ev, Deliverable

\* Before the first EDR there is the new view.
LEMMA ViewOfNothing ==
    ASSUME NEW rows, rows = <<>>
    PROVE  rows \in Seq(Deliverable) /\ Sound(ViewOf(rows), Len(rows)) /\ ViewOf(rows) = NewJob
<1>1. rows \in Seq(Deliverable) /\ Len(rows) = 0
  OBVIOUS
<1>2. [i \in 1..Len(rows) |-> EdrOf(rows[i], i)] = <<>>
  BY <1>1
<1>3. ViewOf(rows) = NewJob
  BY <1>2, ReplayOfNothing DEF ViewOf
<1>4. Sound(NewJob, 0)
  BY NewJobType DEF Sound, NewJob
<1> QED BY <1>1, <1>3, <1>4

\* One row more is one EDR more.
LEMMA ViewOfMore ==
    ASSUME NEW rows \in Seq(Deliverable), NEW x \in Deliverable
    PROVE  /\ Append(rows, x) \in Seq(Deliverable) /\ Len(Append(rows, x)) = Len(rows) + 1
           /\ ViewOf(Append(rows, x)) = Reduce(ViewOf(rows), EdrOf(x, Len(rows) + 1))
<1> DEFINE more == Append(rows, x)
           n == Len(rows)
           e == EdrOf(x, n + 1)
           edrs == [i \in 1..n |-> EdrOf(rows[i], i)]
<1>1. /\ more \in Seq(Deliverable) /\ Len(more) = n + 1 /\ n \in Nat
      /\ more[n + 1] = x /\ \A i \in 1..n : more[i] = rows[i] /\ rows[i] \in Deliverable
  OBVIOUS
<1>2. e \in Event /\ \A i \in 1..n : EdrOf(rows[i], i) \in Event
  BY <1>1, EdrType
<1> HIDE DEF more, n, e
<1>3. edrs \in Seq(Event) /\ Len(edrs) = n
  BY <1>1, <1>2
<1>4. [i \in 1..(n + 1) |-> EdrOf(more[i], i)] = Append(edrs, e)
  <2> DEFINE left == [i \in 1..(n + 1) |-> EdrOf(more[i], i)]
             right == Append(edrs, e)
  <2>1. \A i \in 1..(n + 1) : left[i] = right[i]
    BY <1>1, <1>3 DEF e
  <2>2. left \in Seq(Event) /\ right \in Seq(Event) /\ Len(left) = n + 1 /\ Len(right) = n + 1
    <3>1. \A i \in 1..(n + 1) : EdrOf(more[i], i) \in Event
      BY <1>1, <1>2 DEF e
    <3> QED BY <1>1, <1>2, <1>3, <3>1
  <2> HIDE DEF left, right
  <2>3. left = right
    BY <1>1, <2>1, <2>2, SeqEqual
  <2> QED BY <2>3 DEF left, right
<1>5. Replayed(Append(edrs, e)) = Reduce(Replayed(edrs), e)
  BY <1>2, <1>3, ReplayOfMore
<1>6. ViewOf(more) = Replayed([i \in 1..(n + 1) |-> EdrOf(more[i], i)]) /\ ViewOf(rows) = Replayed(edrs)
  BY <1>1 DEF ViewOf, n
<1> HIDE DEF edrs
<1> QED BY <1>1, <1>4, <1>5, <1>6 DEF more, n, e

-----------------------------------------------------------------------------
(* A view in step with the rows. *)

\* The view v shows the attempts a and no others.
AttemptsShown(a, v) ==
    /\ \A n \in 1..Len(a) :
          /\ v.attempts[n].status = AttemptShown(a[n]) /\ v.attempts[n].retrieved_at # None
          /\ a[n].started => v.attempts[n].started_at # None
    /\ \A n \in Attempts : n > Len(a) => v.attempts[n].status = "NONE"

\* The view v shows the status of the row r, whose attempts are a.
StatusShown(r, a, v) ==
    /\ \A verdict \in {"SUCCEEDED", "FAILED"} :
          v.recorded_status = verdict <=> r.status = verdict
    /\ v.recorded_status = "RETRIES_EXHAUSTED" => r.status = "RETRIES_EXHAUSTED"
    /\ v.recorded_status # "CANCELLED"
    /\ (\A n \in 1..Len(a) : ~ Abandoned(r, a, n)) => v.recorded_status = ShownAs[r.status]

\* The outbox o of a job makes a view that is in step with its row r and its
\* attempts a.
Shown(r, a, o) ==
    IF r.status = "ABSENT" THEN o = <<>>
    ELSE /\ o \in Seq(Deliverable) /\ Sound(ViewOf(o), Len(o))
         /\ AttemptsShown(a, ViewOf(o)) /\ StatusShown(r, a, ViewOf(o))

\* What a step writes of the end of the n-th attempt, in the status of the job, the
\* outcome of the attempt and the outbox.
Ended(n, status, outcome, o, p) ==
    \/ /\ status = "SUCCEEDED" /\ outcome = "SUCCEEDED"
       /\ p = Append(o, Ev("JOB_EXECUTION_SUCCEEDED", n, FALSE))
    \/ /\ status = "FAILED" /\ outcome = "FAILED"
       /\ p = Append(o, Ev("JOB_EXECUTION_FAILED", n, FALSE))
    \/ /\ status = "RETRY_WAIT" /\ outcome = "FAILED"
       /\ p = Append(Append(Append(o, Ev("JOB_EXECUTION_FAILED", n, TRUE)),
                            Ev("JOB_RETRY_REQUESTED", n, TRUE)),
                     Ev("JOB_RETRY_ACKNOWLEDGED", n, TRUE))
    \/ /\ status = "RETRIES_EXHAUSTED" /\ outcome = "FAILED"
       /\ p = Append(Append(o, Ev("JOB_EXECUTION_FAILED", n, TRUE)),
                     Ev("JOB_RETRIES_EXHAUSTED", n, FALSE))

\* What a step makes of the row r, the attempts a and the outbox o: q, b and p.
Turn(r, q, a, b, o, p) ==
    \/ /\ b = a /\ p = o /\ q.attempt_number = r.attempt_number
       /\ \/ q.status = r.status
          \/ r.status \in Held /\ q.status \in {"RETRY_WAIT", "RETRIES_EXHAUSTED"}
    \/ r.status = "ABSENT" /\ q.status = "PENDING" /\ b = a /\ p = o \o Submitted
    \/ /\ r.status \in Waiting /\ q.status = "CLAIMED"
       /\ q.attempt_number = r.attempt_number + 1 /\ b = Append(a, NewAttempt)
       /\ p = Append(o, Ev("JOB_SCHEDULER_ITEM_RETRIEVED", r.attempt_number + 1, FALSE))
    \/ /\ r.status = "CLAIMED" /\ q.status = "RUNNING"
       /\ q.attempt_number = r.attempt_number
       /\ \E x \in AttemptRow :
             /\ x.started /\ x.outcome = Null
             /\ b = [a EXCEPT ![r.attempt_number] = x]
       /\ p = Append(o, Ev("JOB_EXECUTION_STARTED", r.attempt_number, FALSE))
    \/ /\ r.status = "RUNNING" /\ q.attempt_number = r.attempt_number
       /\ \E x \in AttemptRow :
             /\ x.started
             /\ b = [a EXCEPT ![r.attempt_number] = x]
             /\ Ended(r.attempt_number, q.status, x.outcome, o, p)

-----------------------------------------------------------------------------
(* A step keeps the view in step with the rows. *)

\* What the invariants of the scheduler say of a row and its attempts.
Sane(r, a) ==
    /\ r \in JobRow /\ a \in Seq(AttemptRow) /\ Matches(r, a)
    /\ r.attempt_number \in 0..MaxAttempt
    /\ (r.status \in Waiting => r.attempt_number + 1 \in Attempts)
    /\ (r.status \in Held => r.attempt_number \in Attempts)
    /\ (r.status = "ABSENT" => r.attempt_number = 0)

\* Every attempt row is shown as something.
LEMMA SomethingShown ==
    ASSUME NEW x \in AttemptRow
    PROVE  AttemptShown(x) \in {"RETRIEVED", "RUNNING", "SUCCEEDED", "FAILED"}
BY DEF AttemptShown, AttemptRow

\* What the status of a row is shown as.
LEMMA ShownAsFields ==
    /\ ShownAs["PENDING"] = "PENDING_SUBMISSION" /\ ShownAs["CLAIMED"] = "AWAITING_EXECUTION"
    /\ ShownAs["RUNNING"] = "RUNNING" /\ ShownAs["RETRY_WAIT"] = "RETRY_SCHEDULED"
    /\ ShownAs["SUCCEEDED"] = "SUCCEEDED" /\ ShownAs["FAILED"] = "FAILED"
    /\ ShownAs["RETRIES_EXHAUSTED"] = "RETRIES_EXHAUSTED"
BY DEF ShownAs

\* Rewriting the n-th attempt in the rows and in the view.
LEMMA RewriteShown ==
    ASSUME NEW a \in Seq(AttemptRow), NEW n \in 1..Len(a), Len(a) \in 0..MaxAttempt,
           NEW x \in AttemptRow, NEW v, NEW w, AttemptsShown(a, v), OthersShown(v, w, n),
           w.attempts[n].status = AttemptShown(x), w.attempts[n].retrieved_at # None,
           x.started => w.attempts[n].started_at # None
    PROVE  LET b == [a EXCEPT ![n] = x] IN
           /\ AttemptsShown(b, w) /\ Len(b) = Len(a) /\ b[n] = x
           /\ \A m \in 1..Len(a) : m # n => b[m] = a[m]
<1> DEFINE b == [a EXCEPT ![n] = x]
<1>1. /\ Len(b) = Len(a) /\ b[n] = x /\ \A m \in 1..Len(a) : m # n => b[m] = a[m]
  OBVIOUS
<1>2. \A m \in 1..Len(a) : m \in Attempts
  BY MaxAttemptAssumption DEF Attempts
<1> HIDE DEF b
<1>3. \A m \in Attempts : m > Len(b) => w.attempts[m].status = "NONE"
  BY <1>1, <1>2 DEF AttemptsShown, OthersShown, Attempts
<1>4. ASSUME NEW m \in 1..Len(b)
      PROVE  /\ w.attempts[m].status = AttemptShown(b[m]) /\ w.attempts[m].retrieved_at # None
             /\ b[m].started => w.attempts[m].started_at # None
  BY <1>1, <1>2, <1>4 DEF AttemptsShown, OthersShown
<1>5. AttemptsShown(b, w)
  BY <1>3, <1>4 DEF AttemptsShown
<1> QED BY <1>1, <1>5 DEF b

\* A step that writes no EDR: the claim of the job expired, or nothing happened.
LEMMA IdleShown ==
    ASSUME NEW r, NEW q, NEW a, NEW o, Sane(r, a), Shown(r, a, o),
           q.attempt_number = r.attempt_number,
           \/ q.status = r.status
           \/ r.status \in Held /\ q.status \in {"RETRY_WAIT", "RETRIES_EXHAUSTED"}
    PROVE  Shown(q, a, o)
<1>1. CASE q.status = r.status
  BY <1>1 DEF Shown, StatusShown, Abandoned
<1>2. CASE r.status \in Held /\ q.status \in {"RETRY_WAIT", "RETRIES_EXHAUSTED"}
  <2> DEFINE v == ViewOf(o)
             n == r.attempt_number
  <2>1. /\ r.status # "ABSENT" /\ q.status # "ABSENT" /\ q.status \notin Held
        /\ r.status \notin {"SUCCEEDED", "FAILED", "RETRIES_EXHAUSTED"}
        /\ q.status \notin {"SUCCEEDED", "FAILED"}
    BY <1>2 DEF Held
  <2>2. n \in 1..Len(a) /\ a[n].outcome = Null
    BY <1>2 DEF Sane, Matches, Attempts
  <2>3. Abandoned(q, a, n)
    BY <2>1, <2>2 DEF Abandoned
  <2>4. AttemptsShown(a, v) /\ StatusShown(r, a, v) /\ Sound(v, Len(o)) /\ o \in Seq(Deliverable)
    BY <2>1 DEF Shown
  <2> HIDE DEF v
  <2>5. StatusShown(q, a, v)
    BY <2>1, <2>2, <2>3, <2>4 DEF StatusShown
  <2> QED BY <2>1, <2>4, <2>5 DEF Shown, v
<1> QED BY <1>1, <1>2

\* submit_checked.
LEMMA SubmissionShown ==
    ASSUME NEW r, NEW q, NEW a, Sane(r, a), Shown(r, a, <<>>), r.status = "ABSENT",
           q.status = "PENDING",
           NEW p, p = Append(Append(<<>>, Ev("JOB_CREATED", 0, FALSE)),
                             Ev("JOB_SCHEDULER_SUBMISSION_REQUESTED", 0, FALSE))
    PROVE  Shown(q, a, p)
<1> DEFINE o == <<>>
           x == Ev("JOB_CREATED", 0, FALSE)
           y == Ev("JOB_SCHEDULER_SUBMISSION_REQUESTED", 0, FALSE)
           u == Append(o, x)
           e == EdrOf(x, Len(o) + 1)
           f == EdrOf(y, Len(u) + 1)
<1>0. /\ 0 \in 0..MaxAttempt /\ "JOB_CREATED" \in OutboxType
      /\ "JOB_SCHEDULER_SUBMISSION_REQUESTED" \in OutboxType
  BY MaxAttemptAssumption DEF OutboxType
<1>1. x \in Deliverable /\ x.type = "JOB_CREATED"
  BY <1>0 DEF Ev, Deliverable
<1>2. y \in Deliverable /\ y.type = "JOB_SCHEDULER_SUBMISSION_REQUESTED"
  BY <1>0 DEF Ev, Deliverable
<1>3. o \in Seq(Deliverable) /\ Sound(ViewOf(o), Len(o)) /\ ViewOf(o) = NewJob /\ Len(o) = 0
  BY ViewOfNothing
<1> HIDE DEF o, x, y
<1>4. /\ u \in Seq(Deliverable) /\ Len(u) = Len(o) + 1
      /\ ViewOf(u) = Reduce(ViewOf(o), e)
  BY <1>1, <1>3, ViewOfMore
<1>5. e \in Event /\ e.type = "JOB_CREATED"
  BY <1>1, <1>3, EdrType
<1>6. /\ Sound(ViewOf(u), Len(u)) /\ ViewOf(u).attempts = NewJob.attempts
      /\ ViewOf(u).recorded_status = "CREATED"
  <2>1. Len(o) \in Nat /\ ViewOf(o).recorded_status = "UNKNOWN"
    BY <1>3 DEF NewJob
  <2> HIDE DEF e
  <2> QED BY <1>3, <1>4, <1>5, <2>1, PlainEventShown
<1> HIDE DEF u
<1>7. p \in Seq(Deliverable) /\ Len(p) = Len(u) + 1 /\ ViewOf(p) = Reduce(ViewOf(u), f)
  <2>1. p = Append(u, y)
    BY DEF o, x, y, u
  <2> QED BY <1>2, <1>4, <2>1, ViewOfMore
<1>8. f \in Event /\ f.type = "JOB_SCHEDULER_SUBMISSION_REQUESTED" /\ Len(u) \in Nat
  BY <1>2, <1>4, EdrType
<1>9. /\ Sound(ViewOf(p), Len(p)) /\ ViewOf(p).attempts = NewJob.attempts
      /\ ViewOf(p).recorded_status = "PENDING_SUBMISSION"
  <2> DEFINE v == ViewOf(u)
             w == Reduce(v, f)
  <2>1. ViewOf(p) = w /\ Sound(v, Len(u)) /\ v.recorded_status = "CREATED"
        /\ v.attempts = NewJob.attempts
    BY <1>6, <1>7
  <2> HIDE DEF f, v
  <2>2. /\ Sound(w, Len(u) + 1) /\ w.attempts = v.attempts
        /\ w.recorded_status = "PENDING_SUBMISSION"
    BY <1>8, <2>1, PlainEventShown
  <2> QED BY <1>7, <2>1, <2>2
<1>10. Len(a) = 0
  BY DEF Sane, Matches
<1>11. AttemptsShown(a, ViewOf(p))
  <2>1. \A n \in Attempts : NewJob.attempts[n].status = "NONE"
    BY DEF NewJob
  <2>2. \A n \in 1..Len(a) : FALSE
    BY <1>10
  <2> QED BY <1>9, <2>1, <2>2 DEF AttemptsShown
<1>12. StatusShown(q, a, ViewOf(p))
  <2>1. ViewOf(p).recorded_status = ShownAs[q.status]
    BY <1>9, ShownAsFields
  <2>2. \A verdict \in {"SUCCEEDED", "FAILED"} :
           ViewOf(p).recorded_status = verdict <=> q.status = verdict
    BY <1>9
  <2> QED BY <1>9, <2>1, <2>2 DEF StatusShown
<1> QED BY <1>7, <1>9, <1>11, <1>12 DEF Shown

\* The events that the scheduler writes can be delivered.
LEMMA EvDeliverable ==
    ASSUME NEW type \in OutboxType, NEW n \in Attempts
    PROVE  /\ Ev(type, n, FALSE) \in Deliverable /\ Ev(type, n, FALSE).type = type
           /\ Ev(type, n, FALSE).attempt = n /\ Ev(type, n, FALSE).retryable = FALSE
           /\ Ev(type, n, TRUE) \in Deliverable /\ Ev(type, n, TRUE).type = type
           /\ Ev(type, n, TRUE).attempt = n /\ Ev(type, n, TRUE).retryable = TRUE
<1>1. n \in 0..MaxAttempt /\ type \in OutboxType
  BY MaxAttemptAssumption DEF Attempts
<1> QED BY <1>1 DEF Ev, Deliverable

\* What the next EDR of an attempt says, and what it makes of the view.
LEMMA NextEdr ==
    ASSUME NEW o \in Seq(Deliverable), NEW x \in Deliverable, x.attempt \in Attempts
    PROVE  LET p == Append(o, x)
               e == EdrOf(x, Len(o) + 1)
           IN  /\ p \in Seq(Deliverable) /\ Len(p) = Len(o) + 1 /\ Len(o) \in Nat
               /\ e \in Event /\ e.type = x.type /\ e.retryable = x.retryable
               /\ AttemptNumber(e) = x.attempt
               /\ ViewOf(p) = Reduce(ViewOf(o), e)
<1>1. Len(o) \in Nat /\ x.attempt > 0
  BY DEF Attempts
<1>2. ViewOf(Append(o, x)) = Reduce(ViewOf(o), EdrOf(x, Len(o) + 1))
  BY ViewOfMore
<1>3. Append(o, x) \in Seq(Deliverable) /\ Len(Append(o, x)) = Len(o) + 1
  BY ViewOfMore
<1>4. LET e == EdrOf(x, Len(o) + 1) IN
      /\ e \in Event /\ e.type = x.type /\ e.retryable = x.retryable
      /\ AttemptNumber(e) = x.attempt
  BY <1>1, EdrType
<1> QED BY <1>1, <1>2, <1>3, <1>4

\* claim_due.
LEMMA ClaimShown ==
    ASSUME NEW r, NEW q, NEW a, NEW o, Sane(r, a), Shown(r, a, o), r.status \in Waiting,
           q.status = "CLAIMED", q.attempt_number = r.attempt_number + 1
    PROVE  Shown(q, Append(a, NewAttempt),
                 Append(o, Ev("JOB_SCHEDULER_ITEM_RETRIEVED", r.attempt_number + 1, FALSE)))
<1> DEFINE n == r.attempt_number + 1
           x == Ev("JOB_SCHEDULER_ITEM_RETRIEVED", n, FALSE)
           p == Append(o, x)
           b == Append(a, NewAttempt)
           e == EdrOf(x, Len(o) + 1)
           v == ViewOf(o)
           w == Reduce(v, e)
<1>1. /\ n \in Attempts /\ Len(a) = r.attempt_number /\ Len(a) = n - 1
      /\ r.attempt_number \in Nat /\ MaxAttempt \in Nat /\ a \in Seq(AttemptRow)
      /\ r.status # "ABSENT" /\ r.status \notin Terminal /\ r.status \notin Held
  BY MaxAttemptAssumption DEF Sane, Matches, Attempts, Waiting, Terminal, Held
<1>2. /\ o \in Seq(Deliverable) /\ Sound(v, Len(o))
      /\ AttemptsShown(a, v) /\ StatusShown(r, a, v)
  BY <1>1 DEF Shown
<1>3. "JOB_SCHEDULER_ITEM_RETRIEVED" \in OutboxType
  BY DEF OutboxType
<1>4. x \in Deliverable /\ x.type = "JOB_SCHEDULER_ITEM_RETRIEVED" /\ x.attempt = n
  <2> HIDE DEF n
  <2> QED BY <1>1, <1>3, EvDeliverable
<1> HIDE DEF x
<1>5. /\ p \in Seq(Deliverable) /\ Len(p) = Len(o) + 1 /\ Len(o) \in Nat
      /\ e \in Event /\ e.type = x.type /\ AttemptNumber(e) = n
      /\ ViewOf(p) = w
  BY <1>1, <1>2, <1>4, NextEdr
<1>6. /\ v.recorded_status \notin TERMINAL_STATUSES
      /\ (\A m \in 1..Len(a) : ~ Abandoned(r, a, m)) => v.recorded_status = ShownAs[r.status]
  BY <1>1, <1>2 DEF StatusShown, TERMINAL_STATUSES, Terminal
<1>7. \A m \in 1..(n - 1) : v.attempts[m].status # "NONE"
  <2>1. ASSUME NEW m \in 1..Len(a) PROVE v.attempts[m].status # "NONE"
    <3>1. a[m] \in AttemptRow
      BY <1>1
    <3>2. v.attempts[m].status = AttemptShown(a[m])
      BY <1>2 DEF AttemptsShown
    <3> QED BY <3>1, <3>2, SomethingShown
  <2> QED BY <1>1, <2>1
<1>8. v.attempts[n].status = "NONE"
  BY <1>1, <1>2 DEF AttemptsShown, Attempts
<1>9. /\ Sound(w, Len(o) + 1) /\ OthersShown(v, w, n)
      /\ w.attempts[n].status = "RETRIEVED" /\ w.attempts[n].retrieved_at # None
      /\ w.recorded_status = IF v.recorded_status = "RUNNING" THEN "RUNNING"
                             ELSE "AWAITING_EXECUTION"
  <2> HIDE DEF e, v, n
  <2> QED BY <1>2, <1>4, <1>5, <1>6, <1>7, <1>8, RetrievedShown
<1>10. /\ Len(b) = n /\ b[n] = NewAttempt /\ \A m \in 1..Len(a) : b[m] = a[m]
  BY <1>1
<1>11. AttemptShown(NewAttempt) = "RETRIEVED" /\ ~ NewAttempt.started /\ NewAttempt.outcome = Null
  BY DEF AttemptShown, NewAttempt
<1>a. n = Len(a) + 1 /\ Len(b) = n /\ q.attempt_number = n /\ Len(a) \in Nat
  BY <1>1, <1>10
<1> HIDE DEF b, p, e, v, w, n
<1>12. AttemptsShown(b, w)
  <2>1. ASSUME NEW m \in 1..Len(b)
        PROVE  /\ w.attempts[m].status = AttemptShown(b[m]) /\ w.attempts[m].retrieved_at # None
               /\ b[m].started => w.attempts[m].started_at # None
    <3>1. CASE m = n
      BY <1>9, <1>10, <1>11, <3>1
    <3>2. CASE m # n
      <4>1. m \in 1..Len(a) /\ m \in Attempts
        BY <1>1, <1>a, <2>1, <3>2 DEF Attempts
      <4>2. w.attempts[m] = v.attempts[m] /\ b[m] = a[m]
        BY <1>9, <1>10, <3>2, <4>1 DEF OthersShown
      <4> QED BY <1>2, <4>1, <4>2 DEF AttemptsShown
    <3> QED BY <3>1, <3>2
  <2>2. ASSUME NEW m \in Attempts, m > Len(b) PROVE w.attempts[m].status = "NONE"
    <3>1. m # n /\ m > Len(a)
      BY <1>a, <2>2 DEF Attempts
    <3> QED BY <1>2, <1>9, <3>1 DEF OthersShown, AttemptsShown
  <2> QED BY <2>1, <2>2 DEF AttemptsShown
<1>13. StatusShown(q, b, w)
  <2>1. w.recorded_status \in {"RUNNING", "AWAITING_EXECUTION"}
    BY <1>9
  <2>2. ASSUME \A m \in 1..Len(b) : ~ Abandoned(q, b, m)
        PROVE  w.recorded_status = ShownAs[q.status]
    <3>1. ASSUME NEW m \in 1..Len(a) PROVE ~ Abandoned(r, a, m)
      <4>1. m \in 1..Len(b) /\ m # q.attempt_number /\ b[m] = a[m]
        BY <1>10, <1>a, <3>1
      <4>2. ~ Abandoned(q, b, m)
        BY <2>2, <4>1
      <4> QED BY <4>1, <4>2 DEF Abandoned
    <3>2. v.recorded_status = ShownAs[r.status]
      BY <1>6, <3>1
    <3>3. v.recorded_status # "RUNNING"
      BY <3>2, ShownAsFields DEF Waiting
    <3> QED BY <1>9, <3>3, ShownAsFields
  <2>3. \A verdict \in {"SUCCEEDED", "FAILED"} : w.recorded_status = verdict <=> q.status = verdict
    BY <2>1
  <2> QED BY <2>1, <2>2, <2>3 DEF StatusShown
<1> QED BY <1>5, <1>9, <1>12, <1>13 DEF Shown, b, p, x, n

\* A job that is held has an open last attempt, and the view is of that.
LEMMA HeldShown ==
    ASSUME NEW r, NEW a, NEW o, Sane(r, a), Shown(r, a, o), r.status \in Held
    PROVE  LET n == r.attempt_number
               v == ViewOf(o)
           IN  /\ n \in Attempts /\ n \in 1..Len(a) /\ n = Len(a) /\ Len(a) \in 0..MaxAttempt
               /\ a \in Seq(AttemptRow)
               /\ o \in Seq(Deliverable) /\ Sound(v, Len(o)) /\ AttemptsShown(a, v)
               /\ \A m \in 1..n : v.attempts[m].status # "NONE"
               /\ v.recorded_status \notin TERMINAL_STATUSES
               /\ v.attempts[n].retrieved_at # None
               /\ r.status = "CLAIMED" => v.attempts[n].status = "RETRIEVED"
               /\ r.status = "RUNNING" => /\ v.attempts[n].status = "RUNNING"
                                          /\ v.attempts[n].started_at # None
<1> DEFINE n == r.attempt_number
           v == ViewOf(o)
<1>1. /\ n \in Attempts /\ n \in 1..Len(a) /\ n = Len(a) /\ Len(a) \in 0..MaxAttempt
      /\ a \in Seq(AttemptRow) /\ r.status # "ABSENT" /\ r.status \notin Terminal
  BY MaxAttemptAssumption DEF Sane, Matches, Attempts, Held, Terminal
<1>2. a[n].outcome = Null /\ (a[n].started <=> r.status = "RUNNING")
  BY DEF Sane, Matches
<1>3. /\ o \in Seq(Deliverable) /\ Sound(v, Len(o)) /\ AttemptsShown(a, v)
      /\ StatusShown(r, a, v)
  BY <1>1 DEF Shown
<1>4. AttemptShown(a[n]) = IF r.status = "RUNNING" THEN "RUNNING" ELSE "RETRIEVED"
  BY <1>2 DEF AttemptShown
<1> HIDE DEF v, n
<1>5. ASSUME NEW m \in 1..n PROVE v.attempts[m].status # "NONE"
  <2>1. a[m] \in AttemptRow /\ v.attempts[m].status = AttemptShown(a[m])
    BY <1>1, <1>3 DEF AttemptsShown
  <2> QED BY <2>1, SomethingShown
<1>6. v.recorded_status \notin TERMINAL_STATUSES
  BY <1>1, <1>3 DEF StatusShown, TERMINAL_STATUSES, Terminal
<1>7. /\ v.attempts[n].retrieved_at # None /\ v.attempts[n].status = AttemptShown(a[n])
      /\ r.status = "RUNNING" => v.attempts[n].started_at # None
  BY <1>1, <1>2, <1>3 DEF AttemptsShown
<1> QED BY <1>1, <1>3, <1>4, <1>5, <1>6, <1>7 DEF v, n

\* start.
LEMMA StartShown ==
    ASSUME NEW r, NEW q, NEW a, NEW o, Sane(r, a), Shown(r, a, o), r.status = "CLAIMED",
           q.status = "RUNNING", NEW x \in AttemptRow, x.started, x.outcome = Null
    PROVE  Shown(q, [a EXCEPT ![r.attempt_number] = x],
                 Append(o, Ev("JOB_EXECUTION_STARTED", r.attempt_number, FALSE)))
<1> DEFINE n == r.attempt_number
           y == Ev("JOB_EXECUTION_STARTED", n, FALSE)
           p == Append(o, y)
           b == [a EXCEPT ![n] = x]
           e == EdrOf(y, Len(o) + 1)
           v == ViewOf(o)
           w == Reduce(v, e)
<1>1. /\ n \in Attempts /\ n \in 1..Len(a) /\ Len(a) \in 0..MaxAttempt /\ a \in Seq(AttemptRow)
      /\ o \in Seq(Deliverable) /\ Sound(v, Len(o)) /\ AttemptsShown(a, v)
      /\ \A m \in 1..n : v.attempts[m].status # "NONE"
      /\ v.recorded_status \notin TERMINAL_STATUSES
      /\ v.attempts[n].status = "RETRIEVED" /\ v.attempts[n].retrieved_at # None
  BY HeldShown DEF Held
<1>2. "JOB_EXECUTION_STARTED" \in OutboxType
  BY DEF OutboxType
<1>3. y \in Deliverable /\ y.type = "JOB_EXECUTION_STARTED" /\ y.attempt = n
  <2> HIDE DEF n
  <2> QED BY <1>1, <1>2, EvDeliverable
<1> HIDE DEF y
<1>4. /\ p \in Seq(Deliverable) /\ Len(p) = Len(o) + 1 /\ Len(o) \in Nat
      /\ e \in Event /\ e.type = y.type /\ AttemptNumber(e) = n /\ ViewOf(p) = w
  BY <1>1, <1>3, NextEdr
<1>5. /\ Sound(w, Len(o) + 1) /\ OthersShown(v, w, n)
      /\ w.attempts[n].status = "RUNNING" /\ w.attempts[n].retrieved_at # None
      /\ w.attempts[n].started_at # None /\ w.recorded_status = "RUNNING"
  <2> HIDE DEF e, v, n
  <2> QED BY <1>1, <1>3, <1>4, StartedShown
<1> HIDE DEF e, v, w, p
<1>6. AttemptShown(x) = "RUNNING"
  BY DEF AttemptShown
<1>7. AttemptsShown(b, w)
  <2> HIDE DEF n
  <2> QED BY <1>1, <1>5, <1>6, RewriteShown
<1> HIDE DEF b
<1>8. StatusShown(q, b, w)
  <2>1. w.recorded_status = ShownAs[q.status]
    BY <1>5, ShownAsFields
  <2>2. \A verdict \in {"SUCCEEDED", "FAILED"} : w.recorded_status = verdict <=> q.status = verdict
    BY <1>5
  <2> QED BY <1>5, <2>1, <2>2 DEF StatusShown
<1> QED BY <1>4, <1>5, <1>7, <1>8 DEF Shown, b, p, y, n

\* The first EDR of an outcome.
LEMMA VerdictShown ==
    ASSUME NEW r, NEW a, NEW o, Sane(r, a), Shown(r, a, o), r.status = "RUNNING",
           NEW x \in AttemptRow, x.started,
           NEW y \in Deliverable, y.attempt = r.attempt_number,
           \/ y.type = "JOB_EXECUTION_SUCCEEDED" /\ x.outcome = "SUCCEEDED"
           \/ y.type = "JOB_EXECUTION_FAILED" /\ x.outcome = "FAILED"
    PROVE  LET p == Append(o, y) IN
           /\ p \in Seq(Deliverable) /\ Sound(ViewOf(p), Len(p))
           /\ AttemptsShown([a EXCEPT ![r.attempt_number] = x], ViewOf(p))
           /\ ViewOf(p).recorded_status =
                 IF x.outcome = "SUCCEEDED" THEN "SUCCEEDED"
                 ELSE IF y.retryable THEN "RETRY_PENDING" ELSE "FAILED"
<1> DEFINE n == r.attempt_number
           p == Append(o, y)
           b == [a EXCEPT ![n] = x]
           e == EdrOf(y, Len(o) + 1)
           v == ViewOf(o)
           w == Reduce(v, e)
<1>1. /\ n \in Attempts /\ n \in 1..Len(a) /\ Len(a) \in 0..MaxAttempt /\ a \in Seq(AttemptRow)
      /\ o \in Seq(Deliverable) /\ Sound(v, Len(o)) /\ AttemptsShown(a, v)
      /\ \A m \in 1..n : v.attempts[m].status # "NONE"
      /\ v.recorded_status \notin TERMINAL_STATUSES
      /\ v.attempts[n].status = "RUNNING" /\ v.attempts[n].retrieved_at # None
      /\ v.attempts[n].started_at # None
  BY HeldShown DEF Held
<1>2. /\ p \in Seq(Deliverable) /\ Len(p) = Len(o) + 1 /\ Len(o) \in Nat
      /\ e \in Event /\ e.type = y.type /\ e.retryable = y.retryable
      /\ AttemptNumber(e) = n /\ ViewOf(p) = w
  BY <1>1, NextEdr
<1>3. e.type \in {"JOB_EXECUTION_SUCCEEDED", "JOB_EXECUTION_FAILED"}
  BY <1>2
<1>4. /\ Sound(w, Len(o) + 1) /\ OthersShown(v, w, n)
      /\ w.attempts[n].retrieved_at # None /\ w.attempts[n].started_at # None
      /\ e.type = "JOB_EXECUTION_SUCCEEDED" =>
            w.attempts[n].status = "SUCCEEDED" /\ w.recorded_status = "SUCCEEDED"
      /\ e.type = "JOB_EXECUTION_FAILED" =>
            /\ w.attempts[n].status = "FAILED"
            /\ w.recorded_status = IF e.retryable THEN "RETRY_PENDING" ELSE "FAILED"
  <2> HIDE DEF e, v, n
  <2> QED BY <1>1, <1>2, <1>3, OutcomeShown
<1> HIDE DEF e, v, w, p, n
<1>5. w.attempts[n].status = AttemptShown(x)
  BY <1>2, <1>4, OutcomeAssumption DEF AttemptShown
<1>6. AttemptsShown(b, w)
  BY <1>1, <1>4, <1>5, RewriteShown
<1> QED BY <1>2, <1>4, <1>6 DEF p, n

\* An EDR of the retry that follows.
LEMMA RetryEdr ==
    ASSUME NEW u \in Seq(Deliverable), Sound(ViewOf(u), Len(u)),
           ViewOf(u).recorded_status = "RETRY_PENDING",
           NEW z \in Deliverable, z.attempt \in Attempts,
           z.type \in {"JOB_RETRY_REQUESTED", "JOB_RETRY_ACKNOWLEDGED", "JOB_RETRIES_EXHAUSTED"}
    PROVE  LET p == Append(u, z) IN
           /\ p \in Seq(Deliverable) /\ Sound(ViewOf(p), Len(p))
           /\ ViewOf(p).attempts = ViewOf(u).attempts
           /\ z.type = "JOB_RETRY_REQUESTED" => ViewOf(p).recorded_status = "RETRY_PENDING"
           /\ z.type = "JOB_RETRY_ACKNOWLEDGED" => ViewOf(p).recorded_status = "RETRY_SCHEDULED"
           /\ z.type = "JOB_RETRIES_EXHAUSTED" => ViewOf(p).recorded_status = "RETRIES_EXHAUSTED"
<1> DEFINE p == Append(u, z)
           e == EdrOf(z, Len(u) + 1)
           v == ViewOf(u)
           w == Reduce(v, e)
<1>1. /\ p \in Seq(Deliverable) /\ Len(p) = Len(u) + 1 /\ Len(u) \in Nat
      /\ e \in Event /\ e.type = z.type /\ ViewOf(p) = w
  BY NextEdr
<1>2. Sound(v, Len(u)) /\ v.recorded_status = "RETRY_PENDING"
  OBVIOUS
<1> HIDE DEF e, v, p
<1>3. /\ Sound(w, Len(u) + 1) /\ w.attempts = v.attempts
      /\ z.type = "JOB_RETRY_REQUESTED" => w.recorded_status = "RETRY_PENDING"
      /\ z.type = "JOB_RETRY_ACKNOWLEDGED" => w.recorded_status = "RETRY_SCHEDULED"
      /\ z.type = "JOB_RETRIES_EXHAUSTED" => w.recorded_status = "RETRIES_EXHAUSTED"
  BY <1>1, <1>2, PlainEventShown
<1> QED BY <1>1, <1>3 DEF p, v

\* The status of a job when its last attempt is over.
LEMMA EndStatusShown ==
    ASSUME NEW q, NEW b, NEW w,
           \/ w.recorded_status \in {"SUCCEEDED", "FAILED", "RETRIES_EXHAUSTED"}
              /\ q.status = w.recorded_status
           \/ w.recorded_status = "RETRY_SCHEDULED" /\ q.status = "RETRY_WAIT"
    PROVE  StatusShown(q, b, w)
<1>1. w.recorded_status = ShownAs[q.status]
  BY ShownAsFields
<1>2. \A verdict \in {"SUCCEEDED", "FAILED"} : w.recorded_status = verdict <=> q.status = verdict
  OBVIOUS
<1>3. /\ w.recorded_status = "RETRIES_EXHAUSTED" => q.status = "RETRIES_EXHAUSTED"
      /\ w.recorded_status # "CANCELLED"
  OBVIOUS
<1> QED BY <1>1, <1>2, <1>3 DEF StatusShown

\* succeed and fail.
LEMMA EndShown ==
    ASSUME NEW r, NEW q, NEW a, NEW o, NEW p, Sane(r, a), Shown(r, a, o), r.status = "RUNNING",
           NEW x \in AttemptRow, x.started, Ended(r.attempt_number, q.status, x.outcome, o, p)
    PROVE  Shown(q, [a EXCEPT ![r.attempt_number] = x], p)
<1> DEFINE n == r.attempt_number
           b == [a EXCEPT ![n] = x]
           s == Ev("JOB_EXECUTION_SUCCEEDED", n, FALSE)
           f == Ev("JOB_EXECUTION_FAILED", n, FALSE)
           g == Ev("JOB_EXECUTION_FAILED", n, TRUE)
           request == Ev("JOB_RETRY_REQUESTED", n, TRUE)
           ack == Ev("JOB_RETRY_ACKNOWLEDGED", n, TRUE)
           exhausted == Ev("JOB_RETRIES_EXHAUSTED", n, FALSE)
<1>1. n \in Attempts
  BY DEF Sane, Held
<1>2. {"JOB_EXECUTION_SUCCEEDED", "JOB_EXECUTION_FAILED", "JOB_RETRY_REQUESTED",
       "JOB_RETRY_ACKNOWLEDGED", "JOB_RETRIES_EXHAUSTED"} \subseteq OutboxType
  BY DEF OutboxType
<1> HIDE DEF n
<1>a. s \in Deliverable /\ s.type = "JOB_EXECUTION_SUCCEEDED" /\ s.attempt = n
  BY <1>1, <1>2, EvDeliverable
<1>b. /\ f \in Deliverable /\ f.type = "JOB_EXECUTION_FAILED" /\ f.attempt = n
      /\ f.retryable = FALSE
  BY <1>1, <1>2, EvDeliverable
<1>c. /\ g \in Deliverable /\ g.type = "JOB_EXECUTION_FAILED" /\ g.attempt = n
      /\ g.retryable = TRUE
  BY <1>1, <1>2, EvDeliverable
<1>4. /\ request \in Deliverable /\ request.type = "JOB_RETRY_REQUESTED"
      /\ request.attempt = n
      /\ ack \in Deliverable /\ ack.type = "JOB_RETRY_ACKNOWLEDGED" /\ ack.attempt = n
      /\ exhausted \in Deliverable /\ exhausted.type = "JOB_RETRIES_EXHAUSTED"
      /\ exhausted.attempt = n
  BY <1>1, <1>2, EvDeliverable
<1>5. \/ q.status = "SUCCEEDED" /\ x.outcome = "SUCCEEDED" /\ p = Append(o, s)
      \/ q.status = "FAILED" /\ x.outcome = "FAILED" /\ p = Append(o, f)
      \/ q.status = "RETRY_WAIT" /\ x.outcome = "FAILED"
         /\ p = Append(Append(Append(o, g), request), ack)
      \/ q.status = "RETRIES_EXHAUSTED" /\ x.outcome = "FAILED"
         /\ p = Append(Append(o, g), exhausted)
  BY DEF Ended, n
<1> HIDE DEF s, f, g, request, ack, exhausted
<1> SUFFICES /\ p \in Seq(Deliverable) /\ Sound(ViewOf(p), Len(p))
             /\ AttemptsShown(b, ViewOf(p)) /\ StatusShown(q, b, ViewOf(p))
  BY <1>5 DEF Shown, n
<1>6. CASE q.status = "SUCCEEDED"
  <2>1. p = Append(o, s) /\ x.outcome = "SUCCEEDED"
    BY <1>5, <1>6
  <2>2. /\ p \in Seq(Deliverable) /\ Sound(ViewOf(p), Len(p)) /\ AttemptsShown(b, ViewOf(p))
        /\ ViewOf(p).recorded_status = "SUCCEEDED"
    BY <1>a, <1>b, <1>c, <2>1, VerdictShown DEF n
  <2> QED BY <1>6, <2>2, EndStatusShown
<1>7. CASE q.status = "FAILED"
  <2>1. p = Append(o, f) /\ x.outcome = "FAILED"
    BY <1>5, <1>7
  <2>2. /\ p \in Seq(Deliverable) /\ Sound(ViewOf(p), Len(p)) /\ AttemptsShown(b, ViewOf(p))
        /\ ViewOf(p).recorded_status = "FAILED"
    BY <1>a, <1>b, <1>c, <2>1, VerdictShown DEF n
  <2> QED BY <1>7, <2>2, EndStatusShown
<1>8. CASE q.status \in {"RETRY_WAIT", "RETRIES_EXHAUSTED"}
  <2> DEFINE u == Append(o, g)
  <2>1. x.outcome = "FAILED"
    BY <1>5, <1>8
  <2>2. /\ u \in Seq(Deliverable) /\ Sound(ViewOf(u), Len(u)) /\ AttemptsShown(b, ViewOf(u))
        /\ ViewOf(u).recorded_status = "RETRY_PENDING"
    BY <1>a, <1>b, <1>c, <2>1, VerdictShown DEF n
  <2>3. CASE q.status = "RETRIES_EXHAUSTED"
    <3>1. p = Append(u, exhausted)
      BY <1>5, <2>3
    <3> HIDE DEF u
    <3>2. /\ p \in Seq(Deliverable) /\ Sound(ViewOf(p), Len(p))
          /\ ViewOf(p).attempts = ViewOf(u).attempts
          /\ ViewOf(p).recorded_status = "RETRIES_EXHAUSTED"
      BY <1>1, <1>4, <2>2, <3>1, RetryEdr
    <3>3. AttemptsShown(b, ViewOf(p))
      BY <2>2, <3>2 DEF AttemptsShown
    <3> QED BY <2>3, <3>2, <3>3, EndStatusShown
  <2>4. CASE q.status = "RETRY_WAIT"
    <3> DEFINE t == Append(u, request)
    <3>1. p = Append(t, ack)
      BY <1>5, <2>4
    <3> HIDE DEF u
    <3>2. /\ t \in Seq(Deliverable) /\ Sound(ViewOf(t), Len(t))
          /\ ViewOf(t).attempts = ViewOf(u).attempts
          /\ ViewOf(t).recorded_status = "RETRY_PENDING"
      BY <1>1, <1>4, <2>2, RetryEdr
    <3> HIDE DEF t
    <3>3. /\ p \in Seq(Deliverable) /\ Sound(ViewOf(p), Len(p))
          /\ ViewOf(p).attempts = ViewOf(t).attempts
          /\ ViewOf(p).recorded_status = "RETRY_SCHEDULED"
      BY <1>1, <1>4, <3>1, <3>2, RetryEdr
    <3>4. AttemptsShown(b, ViewOf(p))
      BY <2>2, <3>2, <3>3 DEF AttemptsShown
    <3> QED BY <2>4, <3>3, <3>4, EndStatusShown
  <2> QED BY <1>8, <2>3, <2>4
<1> QED BY <1>5, <1>6, <1>7, <1>8

\* Rows written in one statement are written one after the other.
LEMMA RowsInOrder ==
    ASSUME NEW o \in Seq(OutboxEvent), NEW e \in OutboxEvent, NEW f \in OutboxEvent,
           NEW g \in OutboxEvent
    PROVE  /\ o \o <<e>> = Append(o, e) /\ o \o <<e, f>> = Append(Append(o, e), f)
           /\ o \o <<e, f, g>> = Append(Append(Append(o, e), f), g)
<1> DEFINE s == <<e>>
           t == <<f>>
           u == <<g>>
           st == <<e, f>>
           stu == <<e, f, g>>
<1>1. /\ s \in Seq(OutboxEvent) /\ t \in Seq(OutboxEvent) /\ u \in Seq(OutboxEvent)
      /\ st \in Seq(OutboxEvent) /\ stu \in Seq(OutboxEvent)
  BY EventTuples
<1>2. /\ Len(u) = 1 /\ u[1] = g /\ Len(st) = 2 /\ st[1] = e /\ st[2] = f
      /\ Len(stu) = 3 /\ stu[1] = e /\ stu[2] = f /\ stu[3] = g
  OBVIOUS
<1>3. s \o t = st
  BY PairIsConcat
<1>4. \A q \in Seq(OutboxEvent) : q \o s = Append(q, e) /\ q \o t = Append(q, f) /\ q \o u = Append(q, g)
  BY AppendIsConcat
<1> HIDE DEF s, t, u, st, stu
<1>5. st \o u = stu
  <2> DEFINE z == st \o u
  <2>1. /\ z \in Seq(OutboxEvent) /\ Len(z) = 3 /\ z[1] = e /\ z[2] = f /\ z[3] = g
    <3>1. /\ z \in Seq(OutboxEvent) /\ Len(z) = Len(st) + Len(u)
          /\ \A i \in 1..(Len(st) + Len(u)) :
                z[i] = IF i <= Len(st) THEN st[i] ELSE u[i - Len(st)]
      BY <1>1, ConcatProperties
    <3> HIDE DEF z
    <3>2. Len(st) + Len(u) = 3 /\ 3 - Len(st) = 1
      BY <1>2
    <3> QED BY <1>2, <3>1, <3>2
  <2> HIDE DEF z
  <2>2. \A i \in 1..Len(z) : z[i] = stu[i]
    BY <1>2, <2>1
  <2>3. z = stu
    BY <1>1, <1>2, <2>1, <2>2, SeqEqual
  <2> QED BY <2>3 DEF z
<1>6. o \o st = (o \o s) \o t
  BY <1>1, <1>3, EventsAssociate
<1>7. o \o stu = (o \o st) \o u
  BY <1>1, <1>5, EventsAssociate
<1>8. o \o s \in Seq(OutboxEvent) /\ o \o st \in Seq(OutboxEvent)
  BY <1>1, ConcatProperties
<1>9. o \o s = Append(o, e) /\ o \o st = Append(Append(o, e), f)
      /\ o \o stu = Append(Append(Append(o, e), f), g)
  BY <1>4, <1>6, <1>7, <1>8
<1> QED BY <1>9 DEF s, st, stu

\* The events of a submission are the first rows of an outbox.
LEMMA SubmittedRows ==
    <<>> \o Submitted = Append(Append(<<>>, Ev("JOB_CREATED", 0, FALSE)),
                              Ev("JOB_SCHEDULER_SUBMISSION_REQUESTED", 0, FALSE))
<1>1. /\ Ev("JOB_CREATED", 0, FALSE) \in OutboxEvent
      /\ Ev("JOB_SCHEDULER_SUBMISSION_REQUESTED", 0, FALSE) \in OutboxEvent
  BY DEF Ev, OutboxEvent, OutboxType
<1>2. <<>> \in Seq(OutboxEvent)
  OBVIOUS
<1> QED BY <1>1, <1>2, RowsInOrder DEF Submitted

\* Whatever a step writes keeps the view in step with the rows.
LEMMA TurnShown ==
    ASSUME NEW r, NEW q, NEW a, NEW b, NEW o, NEW p,
           Sane(r, a), Shown(r, a, o), Turn(r, q, a, b, o, p)
    PROVE  Shown(q, b, p)
<1>1. CASE /\ b = a /\ p = o /\ q.attempt_number = r.attempt_number
           /\ \/ q.status = r.status
              \/ r.status \in Held /\ q.status \in {"RETRY_WAIT", "RETRIES_EXHAUSTED"}
  BY <1>1, IdleShown
<1>2. CASE r.status = "ABSENT" /\ q.status = "PENDING" /\ b = a /\ p = o \o Submitted
  <2>1. o = <<>> /\ Shown(r, a, <<>>)
    BY <1>2 DEF Shown
  <2>2. p = Append(Append(<<>>, Ev("JOB_CREATED", 0, FALSE)),
                   Ev("JOB_SCHEDULER_SUBMISSION_REQUESTED", 0, FALSE))
    BY <1>2, <2>1, SubmittedRows
  <2> QED BY <1>2, <2>1, <2>2, SubmissionShown
<1>3. CASE /\ r.status \in Waiting /\ q.status = "CLAIMED"
           /\ q.attempt_number = r.attempt_number + 1 /\ b = Append(a, NewAttempt)
           /\ p = Append(o, Ev("JOB_SCHEDULER_ITEM_RETRIEVED", r.attempt_number + 1, FALSE))
  BY <1>3, ClaimShown
<1>4. CASE /\ r.status = "CLAIMED" /\ q.status = "RUNNING"
           /\ q.attempt_number = r.attempt_number
           /\ \E x \in AttemptRow :
                 /\ x.started /\ x.outcome = Null
                 /\ b = [a EXCEPT ![r.attempt_number] = x]
           /\ p = Append(o, Ev("JOB_EXECUTION_STARTED", r.attempt_number, FALSE))
  <2>1. PICK x \in AttemptRow : /\ x.started /\ x.outcome = Null
                                /\ b = [a EXCEPT ![r.attempt_number] = x]
    BY <1>4
  <2> QED BY <1>4, <2>1, StartShown
<1>5. CASE /\ r.status = "RUNNING" /\ q.attempt_number = r.attempt_number
           /\ \E x \in AttemptRow :
                 /\ x.started
                 /\ b = [a EXCEPT ![r.attempt_number] = x]
                 /\ Ended(r.attempt_number, q.status, x.outcome, o, p)
  <2>1. PICK x \in AttemptRow : /\ x.started /\ b = [a EXCEPT ![r.attempt_number] = x]
                                /\ Ended(r.attempt_number, q.status, x.outcome, o, p)
    BY <1>5
  <2> QED BY <1>5, <2>1, EndShown
<1> QED BY <1>1, <1>2, <1>3, <1>4, <1>5 DEF Turn

-----------------------------------------------------------------------------
(* Every step of the scheduler is such a turn. *)

\* The claim a worker runs the handler of, unless it was taken from it, is running.
RunningClaims ==
    \A w \in Worker : pc[w] = "run" =>
        (jobs[current[w].job].claim_token = current[w].claim_token
            => jobs[current[w].job].status = "RUNNING")

\* A step that begins no handler and leaves held rows as they are keeps RunningClaims.
LEMMA RunningKept ==
    ASSUME IndInv', RunningClaims,
           \A w \in Worker : pc'[w] = "run" => pc[w] = "run" /\ current'[w] = current[w],
           \A j \in Job : jobs'[j].status \in Held =>
              jobs'[j].status = jobs[j].status /\ jobs'[j].claim_token = jobs[j].claim_token
    PROVE  RunningClaims'
<1> SUFFICES ASSUME NEW w \in Worker, pc'[w] = "run",
                    jobs'[current'[w].job].claim_token = current'[w].claim_token
             PROVE  jobs'[current'[w].job].status = "RUNNING"
  BY DEF RunningClaims
<1>1. current'[w].job \in Job /\ current'[w].claim_token # 0
  BY DEF IndInv, ClaimInvariant, ClaimedJob
<1>2. jobs'[current'[w].job].status \in Held
  BY <1>1 DEF IndInv, RowInvariant
<1>3. /\ pc[w] = "run" /\ current'[w] = current[w]
      /\ jobs[current[w].job].claim_token = current[w].claim_token
  BY <1>1, <1>2
<1> QED BY <1>1, <1>2, <1>3 DEF RunningClaims

\* start makes the row of the claim running.
LEMMA StartRunning ==
    ASSUME IndInv, RunningClaims, NEW v \in Worker, NEW d \in claimed[v], Start(v, d)
    PROVE  RunningClaims'
<1> SUFFICES ASSUME NEW w \in Worker, pc'[w] = "run",
                    jobs'[current'[w].job].claim_token = current'[w].claim_token
             PROVE  jobs'[current'[w].job].status = "RUNNING"
  BY DEF RunningClaims
<1>1. /\ jobs \in [Job -> JobRow] /\ d.job \in Job /\ jobs[d.job] \in JobRow
      /\ pc \in [Worker -> {"poll", "claim", "batch", "run", "down", "stopped"}]
      /\ current \in [Worker -> ClaimedJob \cup {Null}]
  BY DEF IndInv, TypeOK, ClaimedJob
<1>2. /\ jobs' = [jobs EXCEPT ![d.job].status = "RUNNING"]
      /\ pc' = [pc EXCEPT ![v] = "run"] /\ current' = [current EXCEPT ![v] = d]
  BY DEF Start
<1>3. jobs'[d.job].status = "RUNNING" /\ \A j \in Job : j # d.job => jobs'[j] = jobs[j]
  BY <1>1, <1>2 DEF JobRow
<1>4. CASE w = v
  BY <1>1, <1>2, <1>3, <1>4
<1>5. CASE w # v
  <2>1. pc[w] = "run" /\ current'[w] = current[w]
    BY <1>1, <1>2, <1>5
  <2>2. current[w].job \in Job
    BY <2>1 DEF IndInv, ClaimInvariant, ClaimedJob
  <2> QED BY <1>3, <2>1, <2>2 DEF RunningClaims
<1> QED BY <1>4, <1>5

\* claim_due gives a row a token that no claim in memory has.
LEMMA ClaimDueRunning ==
    ASSUME IndInv, RunningClaims, NEW v \in Worker, ClaimDue(v)
    PROVE  RunningClaims'
<1> SUFFICES ASSUME NEW w \in Worker, pc'[w] = "run",
                    jobs'[current'[w].job].claim_token = current'[w].claim_token
             PROVE  jobs'[current'[w].job].status = "RUNNING"
  BY DEF RunningClaims
<1> DEFINE c == current[w]
           j == c.job
<1>1. pc \in [Worker -> {"poll", "claim", "batch", "run", "down", "stopped"}]
  BY DEF IndInv, TypeOK
<1>2. pc[w] = "run" /\ current' = current
  <2>1. pc' = [pc EXCEPT ![v] = IF ClaimBatch = {} THEN "poll" ELSE "batch"] /\ current' = current
    BY DEF ClaimDue
  <2> QED BY <1>1, <2>1
<1>3. c \in ClaimedJob /\ j \in Job /\ c \in ClaimsOf(w)
  BY <1>2 DEF IndInv, ClaimInvariant, ClaimedJob, ClaimsOf
<1>4. c.claim_token <= jobs[j].attempt_number /\ uuids[j] = jobs[j].attempt_number
      /\ uuids[j] \in Nat /\ c.claim_token \in Nat
  BY <1>3 DEF IndInv, TypeOK, ClaimInvariant, RowInvariant, ClaimedJob
<1>5. jobs[j] \in JobRow /\ Owner[v] \in OwnerName /\ uuids[j] + 1 \in Nat
  BY <1>3, <1>4 DEF OwnerName, IndInv, TypeOK
<1>6. jobs'[j] = IF j \in ClaimBatch THEN Claimed(jobs[j], Owner[v], uuids[j] + 1) ELSE jobs[j]
  BY <1>3 DEF ClaimDue
<1>7. j \notin ClaimBatch
  <2> SUFFICES ASSUME j \in ClaimBatch PROVE FALSE
    OBVIOUS
  <2>1. jobs'[j].claim_token = uuids[j] + 1
    BY <1>5, <1>6, ClaimedRow
  <2> QED BY <1>2, <1>4, <2>1
<1> QED BY <1>2, <1>6, <1>7 DEF RunningClaims

\* Every step keeps RunningClaims.
LEMMA RunningClaimsStep ==
    ASSUME IndInv, RunningClaims, [Next]_vars
    PROVE  RunningClaims'
<1>0. IndInv' /\ pc \in [Worker -> {"poll", "claim", "batch", "run", "down", "stopped"}]
      /\ current \in [Worker -> ClaimedJob \cup {Null}]
  BY NextIndInv DEF IndInv, TypeOK
<1> DEFINE Kept == \A w \in Worker : pc'[w] = "run" => pc[w] = "run" /\ current'[w] = current[w]
<1>1. ASSUME UNCHANGED jobs, Kept PROVE RunningClaims'
  BY <1>0, <1>1, RunningKept
<1>2. ASSUME Kept, \A j \in Job : jobs'[j].status \in Held =>
            jobs'[j].status = jobs[j].status /\ jobs'[j].claim_token = jobs[j].claim_token
      PROVE  RunningClaims'
  BY <1>0, <1>2, RunningKept
<1>3. ASSUME NEW k \in Job, NEW s \in Submission, SubmitNew(k, s) PROVE RunningClaims'
  <2>1. Kept
    BY <1>3 DEF SubmitNew, workerVars
  <2> QED BY <1>2, <1>3, <2>1, HeldRows
<1>4. ASSUME NEW k \in Job, NEW s \in Submission, SubmitExisting(k, s) PROVE RunningClaims'
  BY <1>1, <1>4 DEF SubmitExisting, workerVars
<1>5. ASSUME NEW w \in Worker, RecoverExpired(w) \/ Succeed(w) \/ Heartbeat(w)
      PROVE  RunningClaims'
  <2>1. Kept
    <3>1. CASE Heartbeat(w)
      BY <3>1 DEF Heartbeat, workerVars
    <3>2. CASE RecoverExpired(w)
      BY <1>0, <3>2 DEF RecoverExpired
    <3>3. CASE Succeed(w)
      BY <1>0, <3>3 DEF Succeed, Finish
    <3> QED BY <1>5, <3>1, <3>2, <3>3
  <2> QED BY <1>2, <1>5, <2>1, HeldRows
<1>6. ASSUME NEW w \in Worker, NEW retryable \in BOOLEAN, Fail(w, retryable)
      PROVE  RunningClaims'
  <2>1. Kept
    BY <1>0, <1>6 DEF Fail, Finish
  <2> QED BY <1>2, <1>6, <2>1, HeldRows
<1>7. CASE Tick
  <2>1. Kept
    BY <1>7 DEF Tick, workerVars
  <2> QED BY <1>2, <1>7, <2>1, HeldRows
<1>8. ASSUME NEW w \in Worker, NEW c \in claimed[w], Start(w, c) PROVE RunningClaims'
  BY <1>8, StartRunning
<1>9. ASSUME NEW w \in Worker, ClaimDue(w) PROVE RunningClaims'
  BY <1>9, ClaimDueRunning
<1>10. ASSUME NEW w \in Worker,
              Exit(w) \/ Break(w) \/ StaleClaim(w) \/ Crash(w) \/ Stop(w) \/ Restart(w)
       PROVE  RunningClaims'
  <2>1. UNCHANGED jobs
    BY <1>10 DEF Exit, Break, StaleClaim, Crash, Die, Stop, Restart
  <2>2. \/ pc' = pc
        \/ \E step \in {"poll", "down", "stopped"} : pc' = [pc EXCEPT ![w] = step]
    BY <1>10 DEF Exit, Break, StaleClaim, Crash, Die, Stop, Restart
  <2>3. current' = current \/ (current' = [current EXCEPT ![w] = Null] /\ pc' = [pc EXCEPT ![w] = "down"])
    BY <1>10 DEF Exit, Break, StaleClaim, Crash, Die, Stop, Restart
  <2>4. Kept
    BY <1>0, <2>2, <2>3
  <2> QED BY <1>1, <2>1, <2>4
<1>11. CASE UNCHANGED vars
  BY <1>1, <1>11 DEF vars, workerVars
<1> QED BY <1>3, <1>4, <1>5, <1>6, <1>7, <1>8, <1>9, <1>10, <1>11 DEF Next, WorkerStep

\* start, succeed and fail, at the claim that passes the fence.
LEMMA RewrittenTurn ==
    ASSUME IndInv, NEW c \in ClaimedJob, Fenced(c), NEW q, NEW x \in AttemptRow, NEW p,
           x.started, jobs' = [jobs EXCEPT ![c.job] = q],
           attempts' = [attempts EXCEPT ![c.job] = [attempts[c.job] EXCEPT ![c.attempt_number] = x]],
           outbox' = [outbox EXCEPT ![c.job] = p], q.attempt_number = c.attempt_number,
           \/ /\ jobs[c.job].status = "CLAIMED" /\ q.status = "RUNNING" /\ x.outcome = Null
              /\ p = Append(outbox[c.job], Ev("JOB_EXECUTION_STARTED", c.attempt_number, FALSE))
           \/ /\ jobs[c.job].status = "RUNNING"
              /\ Ended(c.attempt_number, q.status, x.outcome, outbox[c.job], p),
           NEW j \in Job
    PROVE  Turn(jobs[j], jobs'[j], attempts[j], attempts'[j], outbox[j], outbox'[j])
<1>1. c.job \in Job /\ c.attempt_number = jobs[c.job].attempt_number
  BY FencedHeld
<1>2. CASE j # c.job
  <2>1. jobs'[j] = jobs[j] /\ attempts'[j] = attempts[j] /\ outbox'[j] = outbox[j]
    BY <1>2 DEF IndInv, TypeOK
  <2> QED BY <2>1 DEF Turn
<1>3. CASE j = c.job
  <2> DEFINE n == jobs[j].attempt_number
             b == [attempts[j] EXCEPT ![n] = x]
  <2>1. jobs'[j] = q /\ attempts'[j] = b /\ outbox'[j] = p /\ q.attempt_number = n
    BY <1>1, <1>3 DEF IndInv, TypeOK
  <2>2. \E y \in AttemptRow : y = x /\ b = [attempts[j] EXCEPT ![n] = y]
    OBVIOUS
  <2>3. CASE /\ jobs[j].status = "CLAIMED" /\ q.status = "RUNNING" /\ x.outcome = Null
             /\ p = Append(outbox[j], Ev("JOB_EXECUTION_STARTED", n, FALSE))
    BY <2>1, <2>2, <2>3 DEF Turn
  <2>4. CASE jobs[j].status = "RUNNING" /\ Ended(n, q.status, x.outcome, outbox[j], p)
    BY <2>1, <2>2, <2>4 DEF Turn
  <2> QED BY <1>1, <1>3, <2>3, <2>4
<1> QED BY <1>2, <1>3

\* A step that writes neither an attempt nor an EDR.
LEMMA IdleTurn ==
    ASSUME NEW j \in Job, attempts'[j] = attempts[j], outbox'[j] = outbox[j],
           jobs'[j].attempt_number = jobs[j].attempt_number,
           \/ jobs'[j].status = jobs[j].status
           \/ jobs[j].status \in Held /\ jobs'[j].status \in {"RETRY_WAIT", "RETRIES_EXHAUSTED"}
    PROVE  Turn(jobs[j], jobs'[j], attempts[j], attempts'[j], outbox[j], outbox'[j])
BY DEF Turn

\* submit_checked.
LEMMA SubmitTurn ==
    ASSUME IndInv, NEW k \in Job, NEW s \in Submission, SubmitNew(k, s), NEW j \in Job
    PROVE  Turn(jobs[j], jobs'[j], attempts[j], attempts'[j], outbox[j], outbox'[j])
<1>1. /\ jobs' = [jobs EXCEPT ![k] = NewRow(s)] /\ attempts' = attempts
      /\ outbox' = [outbox EXCEPT ![k] = @ \o Submitted] /\ jobs[k].status = "ABSENT"
  BY DEF SubmitNew, Submitted, Emit
<1>2. CASE j # k
  <2>1. jobs'[j] = jobs[j] /\ attempts'[j] = attempts[j] /\ outbox'[j] = outbox[j]
    BY <1>1, <1>2 DEF IndInv, TypeOK
  <2> QED BY <2>1, IdleTurn
<1>3. CASE j = k
  <2>1. jobs'[j] = NewRow(s) /\ attempts'[j] = attempts[j] /\ outbox'[j] = outbox[j] \o Submitted
    BY <1>1, <1>3 DEF IndInv, TypeOK
  <2>2. jobs'[j].status = "PENDING"
    BY <2>1, NewRowType
  <2> QED BY <1>1, <1>3, <2>1, <2>2 DEF Turn
<1> QED BY <1>2, <1>3

\* recover_expired_claims.
LEMMA RecoverTurn ==
    ASSUME IndInv, NEW w \in Worker, RecoverExpired(w), NEW j \in Job
    PROVE  Turn(jobs[j], jobs'[j], attempts[j], attempts'[j], outbox[j], outbox'[j])
<1>1. attempts'[j] = attempts[j] /\ outbox'[j] = outbox[j]
  BY DEF RecoverExpired
<1>2. PICK B \in RecoveryBatches :
         jobs' = [k \in Job |-> IF k \in B THEN Recovered(jobs[k]) ELSE jobs[k]]
  BY DEF RecoverExpired
<1>3. CASE j \notin B
  BY <1>1, <1>2, <1>3, IdleTurn
<1>4. CASE j \in B
  <2>1. jobs'[j] = Recovered(jobs[j]) /\ jobs[j].status \in Held /\ jobs[j] \in JobRow
    BY <1>2, <1>4 DEF RecoveryBatches, Expired, IndInv, TypeOK
  <2>2. /\ jobs'[j].status \in {"RETRY_WAIT", "RETRIES_EXHAUSTED"}
        /\ jobs'[j].attempt_number = jobs[j].attempt_number
    BY <2>1, RecoveredRow
  <2> QED BY <1>1, <2>1, <2>2, IdleTurn
<1> QED BY <1>3, <1>4

\* claim_due.
LEMMA ClaimTurn ==
    ASSUME IndInv, NEW w \in Worker, ClaimDue(w), NEW j \in Job
    PROVE  Turn(jobs[j], jobs'[j], attempts[j], attempts'[j], outbox[j], outbox'[j])
<1>1. /\ jobs'[j] = IF j \in ClaimBatch THEN Claimed(jobs[j], Owner[w], uuids[j] + 1) ELSE jobs[j]
      /\ attempts'[j] = IF j \in ClaimBatch THEN Append(attempts[j], NewAttempt) ELSE attempts[j]
      /\ outbox'[j] = IF j \in ClaimBatch
                      THEN Append(outbox[j], Ev("JOB_SCHEDULER_ITEM_RETRIEVED",
                                                jobs[j].attempt_number + 1, FALSE))
                      ELSE outbox[j]
  BY DEF ClaimDue
<1>2. CASE j \notin ClaimBatch
  BY <1>1, <1>2, IdleTurn
<1>3. CASE j \in ClaimBatch
  <2>1. jobs[j].status \in Waiting /\ jobs[j] \in JobRow
    BY <1>3 DEF ClaimBatch, Due, IndInv, TypeOK
  <2>2. Owner[w] \in OwnerName /\ uuids[j] + 1 \in Nat
    BY DEF OwnerName, IndInv, TypeOK
  <2>3. jobs'[j].status = "CLAIMED" /\ jobs'[j].attempt_number = jobs[j].attempt_number + 1
    BY <1>1, <1>3, <2>1, <2>2, ClaimedRow
  <2> QED BY <1>1, <1>3, <2>1, <2>3 DEF Turn
<1> QED BY <1>2, <1>3

\* start.
LEMMA StartTurn ==
    ASSUME IndInv, OpenClaims, NEW w \in Worker, NEW c \in claimed[w], Start(w, c),
           \A k \in Job : Matches(jobs[k], attempts[k]), NEW j \in Job
    PROVE  Turn(jobs[j], jobs'[j], attempts[j], attempts'[j], outbox[j], outbox'[j])
<1> DEFINE n == c.attempt_number
           q == [jobs[c.job] EXCEPT !.status = "RUNNING"]
           old == attempts[c.job][n]
           x == [old EXCEPT !.started = TRUE]
           e == Ev("JOB_EXECUTION_STARTED", n, FALSE)
           p == Append(outbox[c.job], e)
<1>1. c \in ClaimedJob /\ Fenced(c) /\ n \in Nat /\ c.job \in Job
  BY DEF Start, IndInv, TypeOK, ClaimedJob
<1>2. old \in AttemptRow /\ old.outcome = Null /\ jobs[c.job].status = "CLAIMED"
  BY <1>1, FencedHeld, FencedOpen DEF OpenClaims, Fenced
<1>3. x \in AttemptRow /\ x.started /\ x.outcome = Null
  BY <1>2 DEF AttemptRow
<1>4. q.status = "RUNNING" /\ q.attempt_number = n
  BY <1>1, FencedHeld DEF JobRow
<1>5. /\ jobs' = [jobs EXCEPT ![c.job] = q]
      /\ outbox' = [outbox EXCEPT ![c.job] = outbox[c.job] \o <<e>>]
  BY DEF Start, Emit
<1>6. attempts' = [attempts EXCEPT ![c.job] = [attempts[c.job] EXCEPT ![n] = x]]
  BY DEF Start
<1>7. outbox[c.job] \o <<e>> = Append(outbox[c.job], e)
  <2>1. e \in OutboxEvent /\ outbox[c.job] \in Seq(OutboxEvent)
    BY <1>1 DEF Ev, OutboxEvent, OutboxType, IndInv, TypeOK
  <2> QED BY <2>1, RowsInOrder
<1>8. outbox' = [outbox EXCEPT ![c.job] = p]
  <2> HIDE DEF p
  <2> QED BY <1>5, <1>7 DEF p
<1>9. /\ jobs[c.job].status = "CLAIMED" /\ q.status = "RUNNING" /\ x.outcome = Null
      /\ p = Append(outbox[c.job], Ev("JOB_EXECUTION_STARTED", c.attempt_number, FALSE))
  BY <1>2, <1>3, <1>4
<1>10. jobs' = [jobs EXCEPT ![c.job] = q]
  BY <1>5
<1> HIDE DEF q, x, p
<1> QED BY <1>1, <1>3, <1>4, <1>6, <1>8, <1>9, <1>10, RewrittenTurn

\* The handler of a fenced claim runs, and its attempt is open.
LEMMA FencedRunning ==
    ASSUME IndInv, RunningClaims, NEW w \in Worker, pc[w] = "run", Fenced(current[w]),
           \A k \in Job : Matches(jobs[k], attempts[k])
    PROVE  LET c == current[w]
               old == attempts[c.job][c.attempt_number]
           IN  /\ c \in ClaimedJob /\ c.job \in Job /\ c.attempt_number \in Nat
               /\ jobs[c.job] \in JobRow /\ jobs[c.job].status = "RUNNING"
               /\ jobs[c.job].attempt_number = c.attempt_number
               /\ outbox[c.job] \in Seq(OutboxEvent)
               /\ old \in AttemptRow /\ old.started
<1> DEFINE c == current[w]
<1>1. c \in ClaimedJob /\ c.job \in Job /\ c.attempt_number \in Nat
  BY DEF IndInv, ClaimInvariant, ClaimedJob
<1>2. jobs[c.job].status = "RUNNING"
  BY DEF RunningClaims, Fenced
<1>3. outbox[c.job] \in Seq(OutboxEvent)
  BY <1>1 DEF IndInv, TypeOK
<1> QED BY <1>1, <1>2, <1>3, FencedHeld, FencedOpen

\* succeed.
LEMMA SucceedTurn ==
    ASSUME IndInv, RunningClaims, NEW w \in Worker, Succeed(w),
           \A k \in Job : Matches(jobs[k], attempts[k]), NEW j \in Job
    PROVE  Turn(jobs[j], jobs'[j], attempts[j], attempts'[j], outbox[j], outbox'[j])
<1> DEFINE c == current[w]
           n == c.attempt_number
           q == Released(jobs[c.job], "SUCCEEDED", jobs[c.job].available_in)
           old == attempts[c.job][n]
           x == [old EXCEPT !.outcome = "SUCCEEDED"]
           e == Ev("JOB_EXECUTION_SUCCEEDED", n, FALSE)
           p == Append(outbox[c.job], e)
<1>1. /\ c \in ClaimedJob /\ c.job \in Job /\ n \in Nat /\ Fenced(c)
      /\ jobs[c.job] \in JobRow /\ jobs[c.job].status = "RUNNING"
      /\ jobs[c.job].attempt_number = n /\ outbox[c.job] \in Seq(OutboxEvent)
      /\ old \in AttemptRow /\ old.started
  BY FencedRunning DEF Succeed
<1>2. x \in AttemptRow /\ x.started /\ x.outcome = "SUCCEEDED"
  BY <1>1 DEF AttemptRow
<1>3. q.status = "SUCCEEDED" /\ q.attempt_number = n
  <2>1. jobs[c.job].available_in \in Int /\ "SUCCEEDED" \in RowStatus
    BY <1>1 DEF JobRow, RowStatus, Terminal
  <2> QED BY <1>1, <2>1, ReleasedRow
<1>4. jobs' = [jobs EXCEPT ![c.job] = q]
  BY DEF Succeed
<1>5. attempts' = [attempts EXCEPT ![c.job] = [attempts[c.job] EXCEPT ![n] = x]]
  BY DEF Succeed
<1>6. outbox' = [outbox EXCEPT ![c.job] = p]
  <2>1. outbox' = [outbox EXCEPT ![c.job] = outbox[c.job] \o <<e>>]
    BY DEF Succeed, Emit
  <2>2. e \in OutboxEvent
    BY <1>1 DEF Ev, OutboxEvent, OutboxType
  <2>3. outbox[c.job] \o <<e>> = p
    BY <1>1, <2>2, RowsInOrder
  <2> HIDE DEF p, e
  <2> QED BY <2>1, <2>3
<1>7. Ended(n, q.status, x.outcome, outbox[c.job], p)
  BY <1>2, <1>3 DEF Ended
<1> HIDE DEF c, q, x, p
<1> QED BY <1>1, <1>2, <1>3, <1>4, <1>5, <1>6, <1>7, RewrittenTurn

\* fail.
LEMMA FailTurn ==
    ASSUME IndInv, RunningClaims, NEW w \in Worker, NEW retryable \in BOOLEAN, Fail(w, retryable),
           \A k \in Job : Matches(jobs[k], attempts[k]), NEW j \in Job
    PROVE  Turn(jobs[j], jobs'[j], attempts[j], attempts'[j], outbox[j], outbox'[j])
<1> DEFINE c == current[w]
           n == c.attempt_number
           st == FailureStatus(c, retryable)
           t == IF st = "RETRY_WAIT" THEN RetryDelay(n) ELSE 0
           q == Released(jobs[c.job], st, t)
           old == attempts[c.job][n]
           x == [old EXCEPT !.outcome = "FAILED", !.retryable = retryable]
           events == FailureEvents(c, retryable)
           o == outbox[c.job]
           p == o \o events
<1>1. /\ c \in ClaimedJob /\ c.job \in Job /\ n \in Nat /\ Fenced(c)
      /\ jobs[c.job] \in JobRow /\ jobs[c.job].status = "RUNNING"
      /\ jobs[c.job].attempt_number = n /\ o \in Seq(OutboxEvent)
      /\ old \in AttemptRow /\ old.started
  BY FencedRunning DEF Fail
<1>2. x \in AttemptRow /\ x.started /\ x.outcome = "FAILED"
  BY <1>1 DEF AttemptRow
<1>3. q.status = st /\ q.attempt_number = n
  <2>1. t \in Int /\ st \in RowStatus
    BY <1>1, FailureStatusType, RetryDelayType DEF FailureStatus, RowStatus, Terminal, Waiting
  <2> HIDE DEF st, t
  <2> QED BY <1>1, <2>1, ReleasedRow
<1>4. jobs' = [jobs EXCEPT ![c.job] = q]
  BY DEF Fail
<1>5. attempts' = [attempts EXCEPT ![c.job] = [attempts[c.job] EXCEPT ![n] = x]]
  BY FailRewrites
<1>6. outbox' = [outbox EXCEPT ![c.job] = p]
  BY DEF Fail, Emit
<1>7. Ended(n, st, "FAILED", o, p)
  <2> DEFINE f == Ev("JOB_EXECUTION_FAILED", n, FALSE)
             g == Ev("JOB_EXECUTION_FAILED", n, TRUE)
             request == Ev("JOB_RETRY_REQUESTED", n, TRUE)
             ack == Ev("JOB_RETRY_ACKNOWLEDGED", n, TRUE)
             exhausted == Ev("JOB_RETRIES_EXHAUSTED", n, FALSE)
  <2>1. /\ f \in OutboxEvent /\ g \in OutboxEvent /\ request \in OutboxEvent
        /\ ack \in OutboxEvent /\ exhausted \in OutboxEvent
    BY <1>1 DEF Ev, OutboxEvent, OutboxType
  <2>2. \/ st = "FAILED" /\ events = <<f>>
        \/ st = "RETRY_WAIT" /\ events = <<g, request, ack>>
        \/ st = "RETRIES_EXHAUSTED" /\ events = <<g, exhausted>>
    <3>1. CASE retryable = FALSE
      <4>1. st = "FAILED"
        BY <3>1 DEF FailureStatus
      <4> QED BY <3>1, <4>1 DEF FailureEvents
    <3>2. CASE retryable = TRUE
      <4>1. st \in {"RETRY_WAIT", "RETRIES_EXHAUSTED"}
        BY <3>2 DEF FailureStatus
      <4> QED BY <3>2, <4>1 DEF FailureEvents
    <3> QED BY <3>1, <3>2
  <2> HIDE DEF f, g, request, ack, exhausted, st, events, o
  <2>3. CASE st = "FAILED"
    <3>1. p = Append(o, f)
      <4>1. o \o <<f>> = Append(o, f)
        BY <1>1, <2>1, RowsInOrder
      <4>2. events = <<f>>
        BY <2>2, <2>3
      <4> QED BY <4>1, <4>2
    <3> QED BY <2>3, <3>1 DEF Ended, f
  <2>4. CASE st = "RETRY_WAIT"
    <3>1. p = Append(Append(Append(o, g), request), ack)
      <4>1. o \o <<g, request, ack>> = Append(Append(Append(o, g), request), ack)
        BY <1>1, <2>1, RowsInOrder
      <4>2. events = <<g, request, ack>>
        BY <2>2, <2>4
      <4> QED BY <4>1, <4>2
    <3> QED BY <2>4, <3>1 DEF Ended, g, request, ack
  <2>5. CASE st = "RETRIES_EXHAUSTED"
    <3>1. p = Append(Append(o, g), exhausted)
      <4>1. o \o <<g, exhausted>> = Append(Append(o, g), exhausted)
        BY <1>1, <2>1, RowsInOrder
      <4>2. events = <<g, exhausted>>
        BY <2>2, <2>5
      <4> QED BY <4>1, <4>2
    <3> QED BY <2>5, <3>1 DEF Ended, g, exhausted
  <2> QED BY <2>2, <2>3, <2>4, <2>5
<1>8. Ended(n, q.status, x.outcome, o, p)
  BY ONLY <1>2, <1>3, <1>7
<1> HIDE DEF c, q, x, p
<1> QED BY <1>1, <1>2, <1>3, <1>4, <1>5, <1>6, <1>8, RewrittenTurn

\* Every step is a turn of every job.
LEMMA StepTurn ==
    ASSUME IndInv, OpenClaims, RunningClaims, \A k \in Job : Matches(jobs[k], attempts[k]),
           [Next]_vars, NEW j \in Job
    PROVE  Turn(jobs[j], jobs'[j], attempts[j], attempts'[j], outbox[j], outbox'[j])
<1> DEFINE Goal == Turn(jobs[j], jobs'[j], attempts[j], attempts'[j], outbox[j], outbox'[j])
<1> SUFFICES Goal
  OBVIOUS
<1>0. jobs[j] \in JobRow /\ jobs \in [Job -> JobRow]
  BY DEF IndInv, TypeOK
<1>1. CASE UNCHANGED <<jobs, attempts, outbox>>
  BY <1>1, IdleTurn
<1>2. ASSUME NEW k \in Job, NEW s \in Submission, SubmitNew(k, s) \/ SubmitExisting(k, s)
      PROVE  Goal
  BY <1>1, <1>2, SubmitTurn DEF SubmitExisting
<1>3. ASSUME NEW w \in Worker, RecoverExpired(w) PROVE Goal
  BY <1>3, RecoverTurn
<1>4. ASSUME NEW w \in Worker, ClaimDue(w) PROVE Goal
  BY <1>4, ClaimTurn
<1>5. ASSUME NEW w \in Worker, NEW c \in claimed[w], Start(w, c) PROVE Goal
  BY <1>5, StartTurn
<1>6. ASSUME NEW w \in Worker, Succeed(w) PROVE Goal
  BY <1>6, SucceedTurn
<1>7. ASSUME NEW w \in Worker, NEW retryable \in BOOLEAN, Fail(w, retryable) PROVE Goal
  BY <1>7, FailTurn
<1>8. ASSUME NEW w \in Worker, Heartbeat(w) PROVE Goal
  <2>1. jobs'[j] = jobs[j] \/ jobs'[j] = [jobs[j] EXCEPT !.lease = ClaimLease]
    BY <1>0, <1>8 DEF Heartbeat
  <2>2. /\ jobs'[j].attempt_number = jobs[j].attempt_number
        /\ jobs'[j].status = jobs[j].status
    BY <1>0, <2>1 DEF JobRow
  <2>3. attempts'[j] = attempts[j] /\ outbox'[j] = outbox[j]
    BY <1>8 DEF Heartbeat
  <2> QED BY <2>2, <2>3, IdleTurn
<1>9. CASE Tick
  <2>1. /\ jobs'[j] = Aged(jobs[j])
        /\ attempts'[j] = attempts[j] /\ outbox'[j] = outbox[j]
    BY <1>9 DEF Tick
  <2>2. /\ jobs'[j].attempt_number = jobs[j].attempt_number
        /\ jobs'[j].status = jobs[j].status
    BY <1>0, <2>1, AgedRow
  <2> QED BY <2>1, <2>2, IdleTurn
<1>10. ASSUME NEW w \in Worker,
              Exit(w) \/ Break(w) \/ StaleClaim(w) \/ Crash(w) \/ Stop(w) \/ Restart(w)
       PROVE  Goal
  BY <1>1, <1>10 DEF Exit, Break, StaleClaim, Crash, Die, Stop, Restart
<1>11. CASE UNCHANGED vars
  BY <1>1, <1>11 DEF vars
<1> HIDE DEF Goal
<1> QED BY <1>2, <1>3, <1>4, <1>5, <1>6, <1>7, <1>8, <1>9, <1>10, <1>11 DEF Next, WorkerStep

\* The invariants of the scheduler give what a turn needs.
LEMMA RowsAreSane ==
    ASSUME IndInv, \A k \in Job : Matches(jobs[k], attempts[k]), NEW j \in Job
    PROVE  Sane(jobs[j], attempts[j])
<1> DEFINE r == jobs[j]
<1>1. /\ r \in JobRow /\ attempts[j] \in Seq(AttemptRow) /\ Matches(r, attempts[j])
      /\ r.attempt_number \in Nat
  BY DEF IndInv, TypeOK, JobRow
<1>2. /\ r.status = "ABSENT" => r.attempt_number = 0
      /\ r.status # "ABSENT" => r.max_attempts \in Budgets
      /\ r.status \in Held => r.attempt_number > 0
      /\ r.attempt_number <= r.max_attempts
      /\ r.status \in Waiting => r.attempt_number < r.max_attempts
  BY DEF IndInv, RowInvariant, AttemptsWithinBudget
<1> HIDE DEF r
<1>3. CASE r.status = "ABSENT"
  <2>1. r.status \notin Waiting /\ r.status \notin Held /\ r.attempt_number \in 0..MaxAttempt
    BY <1>2, <1>3, MaxAttemptAssumption DEF Waiting, Held
  <2> QED BY <1>1, <1>2, <1>3, <2>1 DEF Sane, r
<1>4. CASE r.status # "ABSENT"
  <2>1. r.max_attempts \in 1..MaxAttempt /\ MaxAttempt \in Nat
    BY <1>2, <1>4, BudgetAssumption, MaxAttemptAssumption DEF Attempts
  <2>2. /\ r.attempt_number \in 0..MaxAttempt
        /\ r.status \in Waiting => r.attempt_number + 1 \in 1..MaxAttempt
        /\ r.status \in Held => r.attempt_number \in 1..MaxAttempt
    BY <1>1, <1>2, <2>1
  <2> QED BY <1>1, <1>4, <2>2 DEF Sane, Attempts, r
<1> QED BY <1>3, <1>4

\* Whatever workers crash, claim again and report late, the EDRs that the scheduler
\* writes tell the reducer the truth of every row.
THEOREM ScheduleIsShown == Spec => []ViewFollowsRow
<1> DEFINE Agree == \A j \in Job : Matches(jobs[j], attempts[j])
           AllShown == \A j \in Job : Shown(jobs[j], attempts[j], outbox[j])
<1>1. Init => OpenClaims /\ RunningClaims /\ AllShown
  <2> SUFFICES ASSUME Init PROVE OpenClaims /\ RunningClaims /\ AllShown
    OBVIOUS
  <2>1. OpenClaims /\ RunningClaims
    BY DEF Init, OpenClaims, RunningClaims
  <2>2. \A j \in Job : jobs[j].status = "ABSENT" /\ outbox[j] = <<>>
    BY DEF Init, NoRow
  <2> QED BY <2>1, <2>2 DEF Shown
<1>2. IndInv /\ StatusMatchesAttempts /\ OpenClaims /\ RunningClaims /\ AllShown /\ [Next]_vars
         => OpenClaims' /\ RunningClaims' /\ AllShown'
  <2> SUFFICES ASSUME IndInv, StatusMatchesAttempts, OpenClaims, RunningClaims, AllShown,
                      [Next]_vars
               PROVE  OpenClaims' /\ RunningClaims' /\ AllShown'
    OBVIOUS
  <2>1. OpenClaims' /\ RunningClaims'
    BY OpenClaimsStep, RunningClaimsStep
  <2>2. Agree
    BY DEF StatusMatchesAttempts, Matches
  <2>3. ASSUME NEW j \in Job PROVE Shown(jobs'[j], attempts'[j], outbox'[j])
    <3>1. Sane(jobs[j], attempts[j]) /\ Shown(jobs[j], attempts[j], outbox[j])
      BY <2>2, RowsAreSane
    <3>2. Turn(jobs[j], jobs'[j], attempts[j], attempts'[j], outbox[j], outbox'[j])
      BY <2>2, StepTurn
    <3> QED BY <3>1, <3>2, TurnShown
  <2> QED BY <2>1, <2>3
<1>3. AllShown => ViewFollowsRow
  <2> SUFFICES ASSUME AllShown, NEW j \in Job, jobs[j].status # "ABSENT"
               PROVE  LET view == ViewOf(outbox[j]) IN
                      /\ \A n \in 1..Len(attempts[j]) :
                            view.attempts[n].status = AttemptShown(attempts[j][n])
                      /\ \A verdict \in {"SUCCEEDED", "FAILED"} :
                            view.recorded_status = verdict <=> jobs[j].status = verdict
                      /\ view.recorded_status = "RETRIES_EXHAUSTED"
                            => jobs[j].status = "RETRIES_EXHAUSTED"
                      /\ view.version = Len(outbox[j])
                      /\ ~ view.incomplete_lifecycle
                      /\ \A code \in FindingCode : view.findings[code] = "none"
                      /\ (\A n \in 1..Len(attempts[j]) : ~ Abandoned(jobs[j], attempts[j], n))
                            => view.recorded_status = ShownAs[jobs[j].status]
    BY DEF ViewFollowsRow
  <2>1. Shown(jobs[j], attempts[j], outbox[j])
    OBVIOUS
  <2> QED BY <2>1 DEF Shown, Sound, AttemptsShown, StatusShown
<1> QED BY <1>1, <1>2, <1>3, Invariance, TablesAgree, PTL DEF Spec
=============================================================================

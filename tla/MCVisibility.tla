---------------------------- MODULE MCVisibility -----------------------------
(* Instances of Visibility for TLC. *)
EXTENDS Visibility

CONSTANTS w1, w2

MCSymmetry == Permutations(Writers)

MCConfig == [submission_acknowledgement_timeout |-> 1, running_timeout |-> 2,
             retry_acknowledgement_timeout |-> 0, grace_period |-> 1]

EDR(id, type, attempt, time, retryable) ==
    [event_id |-> id, type |-> type, attempt_number |-> attempt, event_time |-> time,
     ingestion_time |-> time,
     scheduled_at |-> 1, retryable |-> retryable,
     next_retry_at |-> IF type = "JOB_RETRY_ACKNOWLEDGED" THEN 4 ELSE None,
     poll_time |-> IF type = "JOB_SCHEDULER_ITEM_RETRIEVED" THEN time - 1 ELSE None]

\* A job that succeeds at its second attempt.
RetriedHistory ==
    {EDR(1, "JOB_EXECUTION_FAILED", 1, 3, TRUE),
     EDR(2, "JOB_RETRY_REQUESTED", 1, 3, FALSE),
     EDR(3, "JOB_RETRY_ACKNOWLEDGED", 1, 3, FALSE),
     EDR(4, "JOB_EXECUTION_STARTED", 2, 4, FALSE),
     EDR(5, "JOB_EXECUTION_SUCCEEDED", 2, 5, FALSE)}

\* A submission that is slow to be acknowledged, then cancelled.
SlowHistory ==
    {EDR(1, "JOB_SCHEDULER_SUBMISSION_REQUESTED", 0, 0, FALSE),
     EDR(2, "JOB_SCHEDULER_SUBMISSION_ACKNOWLEDGED", 0, 1, FALSE),
     EDR(3, "JOB_SCHEDULER_ITEM_RETRIEVED", 1, 2, FALSE),
     EDR(4, "JOB_CANCELLED", 0, 3, FALSE)}

\* A submission that fails although the job is executed.
FailedHistory ==
    {EDR(1, "JOB_CREATED", 0, 0, FALSE),
     EDR(2, "JOB_SCHEDULER_SUBMISSION_FAILED", 0, 1, FALSE),
     EDR(3, "JOB_SCHEDULER_ITEM_RETRIEVED", 1, 2, FALSE),
     EDR(4, "JOB_EXECUTION_STARTED", 1, 3, FALSE)}

\* A retry that is refused, and a job whose retries are exhausted.
RejectedHistory ==
    {EDR(1, "JOB_EXECUTION_FAILED", 1, 1, TRUE),
     EDR(2, "JOB_RETRY_REJECTED", 1, 3, FALSE),
     EDR(3, "JOB_RETRIES_EXHAUSTED", 2, 4, FALSE),
     EDR(4, "JOB_EXECUTION_FAILED", 2, 4, FALSE)}

\* An execution that goes on after the job was cancelled.
CancelledHistory ==
    {EDR(1, "JOB_CANCELLED", 0, 2, FALSE),
     EDR(2, "JOB_EXECUTION_STARTED", 1, 1, FALSE),
     EDR(3, "JOB_EXECUTION_SUCCEEDED", 1, 3, FALSE),
     EDR(4, "JOB_EXECUTION_SUCCEEDED", 1, 3, FALSE)}

\* Three attempts, of which the first two never report an outcome.
ThreeAttempts ==
    {EDR(1, "JOB_EXECUTION_STARTED", 1, 1, FALSE),
     EDR(2, "JOB_EXECUTION_STARTED", 2, 3, FALSE),
     EDR(3, "JOB_EXECUTION_STARTED", 3, 4, FALSE),
     EDR(4, "JOB_EXECUTION_SUCCEEDED", 3, 5, FALSE)}

\* One attempt reported both failed and successful.
TwoOutcomes ==
    {EDR(1, "JOB_EXECUTION_STARTED", 1, 1, FALSE),
     EDR(2, "JOB_EXECUTION_FAILED", 1, 2, TRUE),
     EDR(3, "JOB_EXECUTION_SUCCEEDED", 1, 3, FALSE)}

\* Another source reports the cancellation, and the exhaustion, in local times.
MCNaive == {e \in SlowHistory : e.type = "JOB_CANCELLED"}
           \cup {e \in RejectedHistory : e.type = "JOB_RETRIES_EXHAUSTED"}

MCHistories == {RetriedHistory, SlowHistory, FailedHistory, RejectedHistory,
                CancelledHistory, ThreeAttempts, TwoOutcomes}

MCSlow == {SlowHistory}

MCPermanentFailure ==
    {{EDR(1, "JOB_EXECUTION_STARTED", 1, 1, FALSE),
      EDR(2, "JOB_EXECUTION_FAILED", 1, 2, TRUE),
      EDR(3, "JOB_EXECUTION_STARTED", 2, 3, FALSE),
      EDR(4, "JOB_EXECUTION_FAILED", 2, 4, FALSE)}}
=============================================================================

---------------------------- MODULE SchedulerView ----------------------------
(****************************************************************************)
(* The scheduler and the visibility reducer put together: what a query says *)
(* of a job when the EDRs of its outbox have been reduced in the order they *)
(* were written, and how far that is what the tables say.                   *)
(****************************************************************************)
EXTENDS Scheduler, LifecycleRules

\* MaxAttempt bounds the numbers of the attempts that any submission allows.
ASSUME BudgetAssumption == Budgets \subseteq Attempts

\* The EDR that canonical_edr writes and event_from_wire reads for the i-th
\* outbox row; ingestion_time is event_time, and rows are written in time order.
EdrOf(row, i) ==
    [event_id |-> i, type |-> row.type, attempt_number |-> row.attempt,
     event_time |-> i, ingestion_time |-> i, scheduled_at |-> 0,
     retryable |-> row.retryable, next_retry_at |-> None, poll_time |-> None]

\* The view of a job whose EDRs are delivered in order.
ViewOf(rows) == Replayed([i \in 1..Len(rows) |-> EdrOf(rows[i], i)])

-----------------------------------------------------------------------------
\* An attempt whose claim expired: no EDR says that it is over.
Abandoned(r, rows, n) ==
    rows[n].outcome = Null /\ ~ (n = r.attempt_number /\ r.status \in Held)

ShownAs == [PENDING |-> "PENDING_SUBMISSION", CLAIMED |-> "AWAITING_EXECUTION",
            RUNNING |-> "RUNNING", RETRY_WAIT |-> "RETRY_SCHEDULED",
            SUCCEEDED |-> "SUCCEEDED", FAILED |-> "FAILED",
            RETRIES_EXHAUSTED |-> "RETRIES_EXHAUSTED"]

AttemptShown(row) ==
    IF row.outcome # Null THEN row.outcome
    ELSE IF row.started THEN "RUNNING" ELSE "RETRIEVED"

\* Whatever workers crash, claim again and report late, the EDRs the scheduler
\* writes tell the reducer the truth: every attempt is shown as its row has it,
\* a verdict is shown exactly when it was reached, nothing is ignored, taken for a
\* duplicate or found inconsistent, and until a claim expires the recorded status
\* is that of the row.
ViewFollowsRow ==
    \A j \in Job : jobs[j].status # "ABSENT" =>
        LET view == ViewOf(outbox[j]) IN
        /\ \A n \in 1..Len(attempts[j]) :
              view.attempts[n].status = AttemptShown(attempts[j][n])
        /\ \A verdict \in {"SUCCEEDED", "FAILED"} :
              view.recorded_status = verdict <=> jobs[j].status = verdict
        /\ view.recorded_status = "RETRIES_EXHAUSTED" => jobs[j].status = "RETRIES_EXHAUSTED"
        /\ view.version = Len(outbox[j])
        /\ ~ view.incomplete_lifecycle
        /\ \A code \in FindingCode : view.findings[code] = "none"
        /\ (\A n \in 1..Len(attempts[j]) : ~ Abandoned(jobs[j], attempts[j], n))
              => view.recorded_status = ShownAs[jobs[j].status]
=============================================================================

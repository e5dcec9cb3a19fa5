--------------------------- MODULE MCDurableView ----------------------------
(* Instances of Projection and DurableView for TLC. *)
EXTENDS DurableView

CONSTANTS j1, j2

\* The rows of the two jobs are mixed in the journal.
MCJobOf == [e \in EventId |-> IF e = 2 THEN j2 ELSE j1]

MCConfig == [poll_interval |-> 1, grace_period |-> 1]

EDR(id, type, attempt, time) ==
    [event_id |-> id, type |-> type, attempt_number |-> attempt, event_time |-> time,
     ingestion_time |-> time, scheduled_at |-> 1, retryable |-> FALSE, next_retry_at |-> None,
     poll_time |-> None]

\* The success of j1's second attempt arrives before the start of its first, and
\* after that a row that cannot be read; j2 is acknowledged by its scheduler, and
\* nothing more is heard of it.
MCEdr == [e \in EventId |->
             CASE e = 1 -> EDR(1, "JOB_EXECUTION_SUCCEEDED", 2, 2)
               [] e = 2 -> EDR(2, "JOB_SCHEDULER_SUBMISSION_ACKNOWLEDGED", 0, 0)
               [] e = 3 -> EDR(3, "JOB_EXECUTION_STARTED", 1, 1)
               [] e = 4 -> EDR(4, "JOB_CANCELLED", 0, 2)]
=============================================================================

----------------------------- MODULE QueryRules ------------------------------
(****************************************************************************)
(* The query side of engine.py: what an answer says of a job at the time of *)
(* the query.  The view does not change when time passes; OVERDUE and the   *)
(* classification of a delay are derived when it is read.                   *)
(****************************************************************************)
EXTENDS LifecycleRules

CONSTANT config     \* VisibilityConfig, in units of the model's clock

ASSUME QueryConfigAssumption ==
    /\ {"poll_interval", "grace_period"} \subseteq DOMAIN config
    /\ config.poll_interval \in Nat /\ config.grace_period \in Nat

\* None is not a classification.
ASSUME NoWordAssumption ==
    None \notin {"NOT_YET_ELIGIBLE", "EXECUTION_OVERDUE", "RETRIEVED_AWAITING_WORKER",
                 "AWAITING_POLL_WINDOW", "POSSIBLE_BATCH_BACKLOG"}

Monus(a, b) == IF a >= b THEN a - b ELSE 0

DerivedStatus(job, now) ==
    IF job.recorded_status \notin {"SCHEDULED", "AWAITING_EXECUTION"} \/ job.scheduled_at = None
    THEN job.recorded_status
    ELSE IF IsOverdue(job, now, config.grace_period) THEN "OVERDUE"
    ELSE IF now >= job.scheduled_at THEN "AWAITING_EXECUTION"
    ELSE job.recorded_status

\* Mutant: the poll window is looked at before the evidence of a retrieval.
DelayClassification_WindowFirst(job, now, status) ==
    IF job.scheduled_at = None \/ job.started_at # None THEN None
    ELSE IF now < job.scheduled_at THEN "NOT_YET_ELIGIBLE"
    ELSE IF status = "OVERDUE" THEN "EXECUTION_OVERDUE"
    ELSE IF now < job.scheduled_at + config.poll_interval THEN "AWAITING_POLL_WINDOW"
    ELSE IF job.scheduler_retrieved_at # None THEN "RETRIEVED_AWAITING_WORKER"
    ELSE "POSSIBLE_BATCH_BACKLOG"

DelayClassification(job, now, status) ==
    IF job.scheduled_at = None \/ job.started_at # None THEN None
    ELSE IF now < job.scheduled_at THEN "NOT_YET_ELIGIBLE"
    ELSE IF status = "OVERDUE" THEN "EXECUTION_OVERDUE"
    ELSE IF job.scheduler_retrieved_at # None THEN "RETRIEVED_AWAITING_WORKER"
    ELSE IF now < job.scheduled_at + config.poll_interval THEN "AWAITING_POLL_WINDOW"
    ELSE "POSSIBLE_BATCH_BACKLOG"

OverdueDuration(job, now) ==
    IF IsOverdue(job, now, config.grace_period)
    THEN Monus(now, job.scheduled_at + config.grace_period)
    ELSE 0

\* Seconds from an observed time to the start, or to the query without one.
DelaySince(job, since, now) ==
    IF since = None THEN None
    ELSE Monus(IF job.started_at = None THEN now ELSE job.started_at, since)

\* _response, without the fields that repeat the view.
Response(job, now) ==
    LET status == DerivedStatus(job, now) IN
    [status |-> status,
     classification |-> DelayClassification(job, now, status),
     start_delay |-> DelaySince(job, job.scheduled_at, now),
     post_retrieval_delay |-> DelaySince(job, job.scheduler_retrieved_at, now),
     overdue_duration |-> OverdueDuration(job, now)]
=============================================================================

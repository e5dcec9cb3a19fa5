----------------------------- MODULE DurableView -----------------------------
(****************************************************************************)
(* What the durable deployment answers.  _project_job writes the rows that  *)
(* DurableVisibilityReader of edr_store/repository.py returns as they are;  *)
(* HealthService of observability/health.py watches the projectors' queue.  *)
(* The projectors run as in Projection, and a stored view is the replay of  *)
(* the journal rows it was reduced from.                                    *)
(****************************************************************************)
EXTENDS Projection, QueryRules

CONSTANTS
    Edr,            \* [EventId -> the EDR in canonical_payload]
    Threshold,      \* oldest_unprojected_seconds
    Clock           \* bound: the times at which the API is asked

ASSUME EdrAssumption == Edr \in [EventId -> Event]
ASSUME ClockAssumption ==
    /\ Threshold \in Nat /\ Clock \subseteq Nat
    /\ \A now \in Clock, e \in EventId : e <= now

\* The number of the last of these rows.
Last(rows) == IF rows = {} THEN 0 ELSE CHOOSE e \in rows : \A f \in rows : f <= e

\* The views the engine of _project_job goes through as it applies the rows in
\* persisted order: the n-th has those numbered up to n.
ViewsOf(rows) ==
    LET views[n \in 0..Last(rows)] ==
            IF n = 0 THEN NewJob
            ELSE IF n \in rows THEN Reduce(views[n - 1], Edr[n]) ELSE views[n - 1]
    IN  views

ReplayOf(rows) == ViewsOf(rows)[Last(rows)]

Stored(j) == ReplayOf(job_visibility[j])

\* get raises JobNotFoundError without a row.
Found(j) == job_visibility[j] # {}

\* get: engine.get(job_id, snapshot.data_as_of), computed when the row was
\* projected; the time of the query plays no part.
Get(j) == Response(Stored(j), Stored(j).data_as_of)

\* attempts: the rows of job_attempts.
AttemptsOf(j) == {n \in 1..MaxAttempt : Stored(j).attempts[n].status # "NONE"}

\* search(status=...): WHERE recorded_status=:status
Search(status) == {j \in Job : Found(j) /\ Stored(j).recorded_status = status}

\* findings: the rows of reconciliation_findings.  A projection inserts those of
\* the rows it read, as it inserts their decisions, and none is ever deleted.
FindingsOf(j) ==
    {code \in FindingCode :
        ReplayOf({e \in decisions : JobOf[e] = j}).findings[code] # "none"}

Unprojected == edr_events \ projected_events

\* Mutant: max(e.persisted_at)
Healthy_Newest(now) ==
    Unprojected = {} \/ \E e \in Unprojected : now <= e + Threshold

\* The "projection" check: the age of min(e.persisted_at) of the rows without a
\* mark; an event's number is its persisted_at.
Healthy(now) == \A e \in Unprojected : now <= e + Threshold

-----------------------------------------------------------------------------
(* Properties. *)

\* A ready probe means something to the reader: when the projection check is
\* healthy, every journal row older than the threshold is in the answers about
\* its job, whatever projectors, crashes and rebuilds are under way; only a job
\* that two transactions projected at once is excepted.
ReadyMeansFresh ==
    \A now \in Clock : Healthy(now) =>
        \A e \in edr_events :
            now > e + Threshold /\ JobOf[e] \notin overlapped => e \in job_visibility[JobOf[e]]

\* The answers about a job move forward through batches, crashes, rebuilds and
\* late EDRs: data_as_of and the version never go back, an attempt or a finding
\* that was shown stays, and a job that was shown SUCCEEDED is SUCCEEDED ever after.
AnswersMoveForward ==
    [][\A j \in Job :
          (/\ Found(j) /\ job_visibility'[j] # job_visibility[j]
           /\ j \notin overlapped') =>
          /\ Stored(j)'.data_as_of >= Stored(j).data_as_of
          /\ Stored(j)'.version >= Stored(j).version
          /\ AttemptsOf(j) \subseteq AttemptsOf(j)'
          /\ FindingsOf(j) \subseteq FindingsOf(j)'
          /\ Stored(j).recorded_status = "SUCCEEDED"
                => Stored(j)'.recorded_status = "SUCCEEDED"]_vars

\* Specification 001: a job whose grace period has passed without a start is
\* OVERDUE when it is asked for, and is found by a search for OVERDUE.
OverdueIsShown ==
    \A j \in Job, now \in Clock :
        Found(j) /\ IsOverdue(Stored(j), now, config.grace_period)
            => Get(j).status = "OVERDUE" /\ j \in Search("OVERDUE")
=============================================================================

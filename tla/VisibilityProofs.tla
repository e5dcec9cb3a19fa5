-------------------------- MODULE VisibilityProofs ---------------------------
(****************************************************************************)
(* What the in-memory engine guarantees for one job, for any number of      *)
(* threads, any history of EDRs, any order, repetition and loss of them,    *)
(* any reduction that raises and any reconciliation run beside them.        *)
(*                                                                          *)
(* A view agrees with the EDRs it was reduced from, which one event more    *)
(* preserves; the invariant of the threads places that agreement, with the  *)
(* journal less the EDRs whose reduction raised, in the stored view while   *)
(* the lock is free and in the copy of the thread that is about to store    *)
(* it; while a thread copies, the stored view agrees with what came before. *)
(****************************************************************************)
EXTENDS Visibility, ReducerProofs, FiniteSetTheorems

-----------------------------------------------------------------------------
(* The findings that only EDRs make. *)

\* Two views with the same findings of EDRs.
SameMarks(a, b) == \A code \in EdrFinding : a.findings[code] = b.findings[code]

\* Projected forgets the findings of reconcile and nothing else.
LEMMA ProjectedSame ==
    ASSUME NEW a \in JobVisibility, NEW b \in JobVisibility
    PROVE  Projected(a) = Projected(b) <=> Same(a, b) /\ SameMarks(a, b)
<1> DEFINE Part(job) == [code \in EdrFinding |-> job.findings[code]]
<1>1. IsView(a) /\ IsView(b)
  BY ViewShape
<1>2. ASSUME NEW job, IsView(job)
      PROVE  Projected(job) = [f \in Fields |-> IF f = "findings" THEN Part(job) ELSE job[f]]
  BY <1>2 DEF IsView, Fields, Projected
<1>3. Part(a) = Part(b) <=> SameMarks(a, b)
  <2>1. ASSUME Part(a) = Part(b), NEW code \in EdrFinding
        PROVE  a.findings[code] = b.findings[code]
    <3>1. Part(a)[code] = a.findings[code] /\ Part(b)[code] = b.findings[code]
      OBVIOUS
    <3> QED BY <2>1, <3>1
  <2> QED BY <2>1 DEF SameMarks
<1> HIDE DEF Part
<1> DEFINE p == Projected(a)
           q == Projected(b)
<1>4. /\ p = [f \in Fields |-> IF f = "findings" THEN Part(a) ELSE a[f]]
      /\ q = [f \in Fields |-> IF f = "findings" THEN Part(b) ELSE b[f]]
  BY <1>1, <1>2
<1> HIDE DEF p, q
<1>5. ASSUME p = q PROVE Same(a, b) /\ SameMarks(a, b)
  <2>1. \A f \in Fields : p[f] = q[f]
    BY <1>5
  <2>2. \A f \in Fields \ {"findings"} : p[f] = a[f] /\ q[f] = b[f]
    BY <1>4
  <2>3. "findings" \in Fields /\ p["findings"] = Part(a) /\ q["findings"] = Part(b)
    BY <1>4 DEF Fields
  <2> QED BY <1>3, <2>1, <2>2, <2>3 DEF Same
<1>6. ASSUME Same(a, b), SameMarks(a, b) PROVE p = q
  BY <1>3, <1>4, <1>6 DEF Same
<1> QED BY <1>5, <1>6 DEF p, q

\* The rules that find no attempt make no such finding.
LEMMA PlainRulesMarks ==
    ASSUME NEW job \in JobVisibility, NEW e
    PROVE  /\ SameMarks(OnJobCreated(job, e), job)
           /\ SameMarks(OnSubmissionRequested(job, e), job)
           /\ SameMarks(OnSubmissionFailed(job, e), job)
           /\ SameMarks(OnRetryRequested(job, e), job)
           /\ SameMarks(OnRetryRejected(job, e), job)
           /\ SameMarks(OnRetriesExhausted(job, e), job)
           /\ SameMarks(OnCancelled(job, e), job)
           /\ SameMarks(OnSubmissionAcknowledged(job, e), job)
           /\ SameMarks(OnRetryAcknowledged(job, e), job)
<1>1. SameMarks(OnJobCreated(job, e), job)
  BY DEF JobVisibility, SameMarks, OnJobCreated
<1>2. SameMarks(OnSubmissionRequested(job, e), job)
  BY DEF JobVisibility, SameMarks, OnSubmissionRequested
<1>3. SameMarks(OnSubmissionFailed(job, e), job)
  BY DEF JobVisibility, SameMarks, OnSubmissionFailed
<1>4. SameMarks(OnRetryRequested(job, e), job)
  BY DEF JobVisibility, SameMarks, OnRetryRequested
<1>5. SameMarks(OnRetryRejected(job, e), job)
  BY DEF JobVisibility, SameMarks, OnRetryRejected
<1>6. SameMarks(OnRetriesExhausted(job, e), job)
  BY DEF JobVisibility, SameMarks, OnRetriesExhausted
<1>7. SameMarks(OnCancelled(job, e), job)
  BY DEF JobVisibility, SameMarks, OnCancelled
<1>8. SameMarks(OnSubmissionAcknowledged(job, e), job)
  BY DEF JobVisibility, SameMarks, OnSubmissionAcknowledged, Resolve, FindingCode, EdrFinding
<1>9. SameMarks(OnRetryAcknowledged(job, e), job)
  BY DEF JobVisibility, SameMarks, OnRetryAcknowledged, Resolve, FindingCode, EdrFinding
<1> QED BY <1>1, <1>2, <1>3, <1>4, <1>5, <1>6, <1>7, <1>8, <1>9

\* Finding an attempt makes none either, whatever gap is before it.
LEMMA FoundMarks ==
    ASSUME NEW job \in JobVisibility, NEW e \in Event
    PROVE  SameMarks(WithAttempt(job, e), job)
<1> DEFINE found == WithAttempt(job, e)
<1>1. FoundFields(job, e, found)
  BY ViewShape, WithAttemptChanges
<1> HIDE DEF found
<1>2. /\ job.findings \in [FindingCode -> {"none", "active", "resolved"}]
      /\ EdrFinding \subseteq FindingCode \ {"ATTEMPT_SEQUENCE_GAP"}
  BY DEF JobVisibility, EdrFinding, FindingCode
<1>3. SameMarks(found, job)
  BY <1>1, <1>2 DEF FoundFields, SameMarks
<1> QED BY <1>3 DEF found

\* Marking the same finding in two views leaves them with the same.
LEMMA MarkedAlike ==
    ASSUME NEW f \in JobVisibility, NEW g \in JobVisibility, SameMarks(f, g), NEW r, NEW q,
           NEW code \in FindingCode,
           r.findings = [f.findings EXCEPT ![code] = "active"],
           q.findings = [g.findings EXCEPT ![code] = "active"]
    PROVE  SameMarks(r, q)
<1>1. /\ f.findings \in [FindingCode -> {"none", "active", "resolved"}]
      /\ g.findings \in [FindingCode -> {"none", "active", "resolved"}]
      /\ EdrFinding \subseteq FindingCode
  BY DEF JobVisibility, EdrFinding, FindingCode
<1> QED BY <1>1 DEF SameMarks

\* The rules that find the attempt decide on what two views have in common.
LEMMA EvidenceMarks ==
    ASSUME NEW a \in JobVisibility, NEW b \in JobVisibility, Same(a, b), SameMarks(a, b),
           NEW e \in Event
    PROVE  /\ SameMarks(OnItemRetrieved(a, e), OnItemRetrieved(b, e))
           /\ SameMarks(OnStarted(a, e), OnStarted(b, e))
           /\ SameMarks(OnSucceeded(a, e), OnSucceeded(b, e))
           /\ SameMarks(OnFailed(a, e), OnFailed(b, e))
<1> DEFINE n == AttemptNumber(e)
           f == WithAttempt(a, e)
           g == WithAttempt(b, e)
           c == Backfilled(f, e)
           d == Backfilled(g, e)
<1>1. /\ f \in JobVisibility /\ IsView(f) /\ g \in JobVisibility /\ IsView(g)
      /\ Same(f, g)
  BY FoundRule, ViewShape, WithAttemptSame
<1>2. SameMarks(f, g)
  BY FoundMarks DEF SameMarks
<1>3. /\ RetrievedFields(f, n, e, OnItemRetrieved(a, e))
      /\ RetrievedFields(g, n, e, OnItemRetrieved(b, e))
  BY <1>1, OnItemRetrievedChanges
<1>4. /\ SuccessFields(f, n, e, OnSucceeded(a, e))
      /\ SuccessFields(g, n, e, OnSucceeded(b, e))
  BY <1>1, OnSucceededChanges
<1>5. /\ FailureFields(f, n, e, OnFailed(a, e))
      /\ FailureFields(g, n, e, OnFailed(b, e))
  BY <1>1, OnFailedChanges
<1>6. /\ BackfillFields(f, n, e, c) /\ IsView(c)
      /\ BackfillFields(g, n, e, d) /\ IsView(d)
  <2>1. BackfillFields(f, n, e, c) /\ BackfillFields(g, n, e, d)
    BY <1>1, BackfilledChanges
  <2> QED BY <2>1 DEF BackfillFields, Keeps
<1>7. StartFields(f, c, n, OnStarted(a, e)) /\ StartFields(g, d, n, OnStarted(b, e))
  BY <1>6, OnStartedChanges
<1> HIDE DEF n, f, g, c, d
<1>8. /\ StartIsLate(f, n) = StartIsLate(g, n)
      /\ SuccessConflicts(f, n) = SuccessConflicts(g, n)
      /\ FailureConflicts(f, n) = FailureConflicts(g, n)
      /\ f.recorded_status = g.recorded_status
  BY <1>1, SameFields DEF StartIsLate, SuccessConflicts, FailureConflicts
<1>9. SameMarks(TerminalConflict(f), TerminalConflict(g))
  <2> DEFINE x == TerminalConflict(f)
             y == TerminalConflict(g)
  <2>1. /\ x.findings = [f.findings EXCEPT !["CONFLICTING_TERMINAL_OUTCOME"] = "active"]
        /\ y.findings = [g.findings EXCEPT !["CONFLICTING_TERMINAL_OUTCOME"] = "active"]
        /\ "CONFLICTING_TERMINAL_OUTCOME" \in FindingCode
    BY <1>1, TerminalConflictChanges DEF FindingCode
  <2> HIDE DEF x, y
  <2>2. SameMarks(x, y)
    BY <1>1, <1>2, <2>1, MarkedAlike
  <2> QED BY <2>2 DEF x, y
<1>10. /\ "EXECUTED_AFTER_CANCEL" \in FindingCode
       /\ "EXECUTION_AFTER_RETRY_EXHAUSTION" \in FindingCode
  BY DEF FindingCode
<1>11. SameMarks(OnItemRetrieved(a, e), OnItemRetrieved(b, e))
  <2>1. /\ OnItemRetrieved(a, e).findings = f.findings
        /\ OnItemRetrieved(b, e).findings = g.findings
    BY <1>3 DEF RetrievedFields, Keeps, Fields
  <2> QED BY <1>2, <2>1 DEF SameMarks
<1>12. SameMarks(OnFailed(a, e), OnFailed(b, e))
  <2>1. CASE FailureConflicts(f, n)
    BY <1>5, <1>8, <1>9, <2>1 DEF FailureFields
  <2>2. CASE ~ FailureConflicts(f, n)
    <3>1. OnFailed(a, e).findings = f.findings /\ OnFailed(b, e).findings = g.findings
      BY <1>5, <1>8, <2>2 DEF FailureFields, Keeps, Fields
    <3> QED BY <1>2, <3>1 DEF SameMarks
  <2> QED BY <2>1, <2>2
<1>13. SameMarks(OnSucceeded(a, e), OnSucceeded(b, e))
  <2>1. CASE SuccessConflicts(f, n)
    BY <1>4, <1>8, <1>9, <2>1 DEF SuccessFields
  <2>2. CASE ~ SuccessConflicts(f, n)
    <3> DEFINE x == OnSucceeded(a, e)
               y == OnSucceeded(b, e)
    <3> HIDE DEF x, y
    <3>1. SuccessFields(f, n, e, x) /\ SuccessFields(g, n, e, y)
      BY <1>4 DEF x, y
    <3>2. CASE f.recorded_status = "CANCELLED"
      <4>1. /\ x.findings = [f.findings EXCEPT !["EXECUTED_AFTER_CANCEL"] = "active"]
            /\ y.findings = [g.findings EXCEPT !["EXECUTED_AFTER_CANCEL"] = "active"]
        BY <1>8, <2>2, <3>1, <3>2 DEF SuccessFields
      <4>2. SameMarks(x, y)
        BY <1>1, <1>2, <1>10, <4>1, MarkedAlike
      <4> QED BY <4>2 DEF x, y
    <3>3. CASE f.recorded_status # "CANCELLED"
      <4>1. x.findings = f.findings /\ y.findings = g.findings
        BY <1>8, <2>2, <3>1, <3>3 DEF SuccessFields
      <4> QED BY <1>2, <4>1 DEF SameMarks, x, y
    <3> QED BY <3>2, <3>3
  <2> QED BY <2>1, <2>2
<1>14. SameMarks(OnStarted(a, e), OnStarted(b, e))
  <2>1. c.findings = f.findings /\ d.findings = g.findings
    BY <1>6 DEF BackfillFields, Keeps, Fields
  <2>2. CASE StartIsLate(f, n)
    <3>1. OnStarted(a, e) = c /\ OnStarted(b, e) = d
      BY <1>7, <1>8, <2>2 DEF StartFields
    <3> QED BY <1>2, <2>1, <3>1 DEF SameMarks
  <2>3. CASE ~ StartIsLate(f, n)
    <3> DEFINE x == OnStarted(a, e)
               y == OnStarted(b, e)
    <3> HIDE DEF x, y
    <3>1. StartFields(f, c, n, x) /\ StartFields(g, d, n, y)
      BY <1>7 DEF x, y
    <3>2. CASE f.recorded_status = "CANCELLED"
      <4>1. /\ x.findings = [f.findings EXCEPT !["EXECUTED_AFTER_CANCEL"] = "active"]
            /\ y.findings = [g.findings EXCEPT !["EXECUTED_AFTER_CANCEL"] = "active"]
        BY <1>8, <2>1, <2>3, <3>1, <3>2 DEF StartFields
      <4>2. SameMarks(x, y)
        BY <1>1, <1>2, <1>10, <4>1, MarkedAlike
      <4> QED BY <4>2 DEF x, y
    <3>3. CASE f.recorded_status = "RETRIES_EXHAUSTED"
      <4>1. /\ x.findings =
                  [f.findings EXCEPT !["EXECUTION_AFTER_RETRY_EXHAUSTION"] = "active"]
            /\ y.findings =
                  [g.findings EXCEPT !["EXECUTION_AFTER_RETRY_EXHAUSTION"] = "active"]
        BY <1>8, <2>1, <2>3, <3>1, <3>3 DEF StartFields
      <4>2. SameMarks(x, y)
        BY <1>1, <1>2, <1>10, <4>1, MarkedAlike
      <4> QED BY <4>2 DEF x, y
    <3>4. CASE f.recorded_status \notin {"CANCELLED", "RETRIES_EXHAUSTED"}
      <4>1. x.findings = f.findings /\ y.findings = g.findings
        BY <1>8, <2>1, <2>3, <3>1, <3>4 DEF StartFields
      <4> QED BY <1>2, <4>1 DEF SameMarks, x, y
    <3> QED BY <3>2, <3>3, <3>4
  <2> QED BY <2>2, <2>3
<1> QED BY <1>11, <1>12, <1>13, <1>14

\* So does every rule.
LEMMA ProjectMarks ==
    ASSUME NEW a \in JobVisibility, NEW b \in JobVisibility, Same(a, b), SameMarks(a, b),
           NEW e \in Event
    PROVE  SameMarks(Project(a, e), Project(b, e))
<1>0. e.type \in EventType
  BY DEF Event
<1>1. CASE e.type = "JOB_SCHEDULER_ITEM_RETRIEVED"
  <2>1. /\ Project(a, e) = OnItemRetrieved(a, e)
        /\ Project(b, e) = OnItemRetrieved(b, e)
    BY <1>1 DEF Project
  <2> QED BY <2>1, EvidenceMarks
<1>2. CASE e.type = "JOB_EXECUTION_STARTED"
  <2>1. Project(a, e) = OnStarted(a, e) /\ Project(b, e) = OnStarted(b, e)
    BY <1>2 DEF Project
  <2> QED BY <2>1, EvidenceMarks
<1>3. CASE e.type = "JOB_EXECUTION_SUCCEEDED"
  <2>1. Project(a, e) = OnSucceeded(a, e) /\ Project(b, e) = OnSucceeded(b, e)
    BY <1>3 DEF Project
  <2> QED BY <2>1, EvidenceMarks
<1>4. CASE e.type = "JOB_EXECUTION_FAILED"
  <2>1. Project(a, e) = OnFailed(a, e) /\ Project(b, e) = OnFailed(b, e)
    BY <1>4 DEF Project
  <2> QED BY <2>1, EvidenceMarks
<1>5. CASE e.type \notin EvidenceTypes
  <2>1. ASSUME NEW job \in JobVisibility
        PROVE  SameMarks(Project(job, e), job)
    <3>1. Project(job, e) \in
             {OnJobCreated(job, e), OnSubmissionRequested(job, e),
              OnSubmissionAcknowledged(job, e), OnSubmissionFailed(job, e),
              OnRetryRequested(job, e), OnRetryAcknowledged(job, e), OnRetryRejected(job, e),
              OnRetriesExhausted(job, e), OnCancelled(job, e)}
      BY <1>0, <1>5 DEF Project, EventType, EvidenceTypes
    <3> QED BY <3>1, PlainRulesMarks
  <2> QED BY <2>1 DEF SameMarks
<1> QED BY <1>1, <1>2, <1>3, <1>4, <1>5 DEF EvidenceTypes

\* What reduce_visibility makes of these findings does not depend on the others.
LEMMA ReduceMarks ==
    ASSUME NEW a \in JobVisibility, NEW b \in JobVisibility, Same(a, b), SameMarks(a, b),
           NEW e \in Event
    PROVE  SameMarks(Reduce(a, e), Reduce(b, e))
<1> DEFINE c == Described(a, e)
           d == Described(b, e)
<1>1. /\ c \in JobVisibility /\ Keeps(c, a, {"scheduled_at"})
      /\ d \in JobVisibility /\ Keeps(d, b, {"scheduled_at"})
      /\ c.scheduled_at = IF a.scheduled_at = None THEN e.scheduled_at ELSE a.scheduled_at
      /\ d.scheduled_at = IF b.scheduled_at = None THEN e.scheduled_at ELSE b.scheduled_at
  BY DescribedFields
<1>2. Project(c, e) \in JobVisibility /\ Project(d, e) \in JobVisibility
  BY <1>1, ProjectRule
<1>3. ASSUME NEW job \in JobVisibility, Project(Described(job, e), e) \in JobVisibility
      PROVE  Reduce(job, e).findings =
                IF IsSemanticDuplicate(job, e) THEN job.findings
                ELSE Project(Described(job, e), e).findings
  <2> DEFINE p == Project(Described(job, e), e)
             x == Reduced(job, e)
  <2>1. x = IF IsSemanticDuplicate(job, e) THEN job
            ELSE [p EXCEPT !.version = IF Ignored(job, e) THEN @ ELSE @ + 1]
    BY DEF Reduced
  <2>2. IsView(p) /\ IsView(job)
    BY <1>3, ViewShape
  <2>3. Reduce(job, e) = [x EXCEPT !.data_as_of = Latest(@, e.ingestion_time)]
    BY DEF Reduce
  <2> HIDE DEF p, x
  <2>4. /\ IsView(x)
        /\ x.findings = IF IsSemanticDuplicate(job, e) THEN job.findings ELSE p.findings
    BY <2>1, <2>2 DEF IsView, Fields
  <2>5. Reduce(job, e).findings = x.findings
    BY <2>3, <2>4 DEF IsView, Fields
  <2> QED BY <2>4, <2>5 DEF p
<1> HIDE DEF c, d
<1>4. Same(c, d) /\ SameMarks(c, d)
  <2>1. a.scheduled_at = b.scheduled_at
    BY DEF Same, Fields
  <2>2. \A f \in {"scheduled_at"} \ {"findings"} : c[f] = d[f]
    BY <1>1, <2>1
  <2>3. Same(c, d)
    BY <1>1, <2>2, SameChanges
  <2>4. c.findings = a.findings /\ d.findings = b.findings
    BY <1>1 DEF Keeps, Fields
  <2> QED BY <2>3, <2>4 DEF SameMarks
<1>5. SameMarks(Project(c, e), Project(d, e))
  BY <1>1, <1>4, ProjectMarks
<1>6. IsSemanticDuplicate(a, e) = IsSemanticDuplicate(b, e)
  BY SameFields DEF IsSemanticDuplicate
<1>7. /\ Reduce(a, e).findings = IF IsSemanticDuplicate(a, e) THEN a.findings
                                 ELSE Project(c, e).findings
      /\ Reduce(b, e).findings = IF IsSemanticDuplicate(b, e) THEN b.findings
                                 ELSE Project(d, e).findings
  BY <1>2, <1>3 DEF c, d
<1> QED BY <1>5, <1>6, <1>7 DEF SameMarks

-----------------------------------------------------------------------------
(* What the events say of the view they were reduced into. *)

\* A view agrees with the events that were reduced into it.
StartAgrees(job, events) ==
    /\ job.started_at # None =>
          \E i \in DOMAIN events : /\ events[i].type = "JOB_EXECUTION_STARTED"
                                   /\ job.started_at = events[i].event_time
    /\ \A i \in DOMAIN events :
          events[i].type = "JOB_EXECUTION_STARTED" =>
             job.started_at # None /\ job.started_at <= events[i].event_time

Attempted(events, types, n) ==
    \E i \in DOMAIN events : events[i].type \in types /\ AttemptNumber(events[i]) = n

AttemptsAgree(job, events) ==
    \A n \in Attempts :
        /\ job.attempts[n].status # "NONE" <=> Attempted(events, EvidenceTypes, n)
        /\ job.attempts[n].status = "SUCCEEDED" =>
              Attempted(events, {"JOB_EXECUTION_SUCCEEDED"}, n)
        /\ job.attempts[n].status = "FAILED" =>
              Attempted(events, {"JOB_EXECUTION_FAILED"}, n)

GapAt(events, i) ==
    /\ events[i].type \in EvidenceTypes
    /\ \E m \in 1..(AttemptNumber(events[i]) - 1) :
          \A k \in 1..(i - 1) : events[k].type \in EvidenceTypes => AttemptNumber(events[k]) # m

GapAgrees(job, events) ==
    job.findings["ATTEMPT_SEQUENCE_GAP"] # "none" <=> \E i \in DOMAIN events : GapAt(events, i)

\* The event, or the failure of attempt n, ends the job otherwise.
Otherwise(e, n) ==
    \/ e.type \in {"JOB_SCHEDULER_SUBMISSION_FAILED", "JOB_RETRY_REJECTED",
                   "JOB_RETRIES_EXHAUSTED"}
    \/ e.type = "JOB_EXECUTION_FAILED" /\ (~ e.retryable \/ AttemptNumber(e) = n)

OutcomeAgrees(job, events) ==
    /\ job.recorded_status \in {"FAILED", "RETRIES_EXHAUSTED"} =>
          \E i \in DOMAIN events : \A n \in Attempts : Otherwise(events[i], n)
    /\ \A i \in DOMAIN events :
          events[i].type = "JOB_EXECUTION_SUCCEEDED" =>
             \/ job.recorded_status = "SUCCEEDED"
             \/ \E k \in DOMAIN events : Otherwise(events[k], AttemptNumber(events[i]))

\* One of the events came after every acknowledgement.
Open(events, acknowledgement, types) ==
    \E i \in DOMAIN events :
        /\ events[i].type \in types
        /\ \A k \in DOMAIN events : events[k].type = acknowledgement => k < i

SubmissionOpen(events) ==
    Open(events, "JOB_SCHEDULER_SUBMISSION_ACKNOWLEDGED",
         {"JOB_SCHEDULER_SUBMISSION_REQUESTED"})

RetryOpen(events) ==
    Open(events, "JOB_RETRY_ACKNOWLEDGED",
         {"JOB_RETRY_REQUESTED", "JOB_RETRY_REJECTED", "JOB_RETRIES_EXHAUSTED"})

AcksAgree(job, events) ==
    /\ \/ job.recorded_status = "PENDING_SUBMISSION"
       \/ job.findings["SCHEDULER_ACK_TIMEOUT"] = "active"
       => SubmissionOpen(events)
    /\ \/ job.retry_requested /\ ~ job.retry_acknowledged
       \/ job.findings["RETRY_ACK_TIMEOUT"] = "active"
       => RetryOpen(events)

Agrees(job, events) ==
    /\ StartAgrees(job, events)
    /\ AttemptsAgree(job, events)
    /\ GapAgrees(job, events)
    /\ OutcomeAgrees(job, events)
    /\ AcksAgree(job, events)
    /\ Same(job, Replayed(events)) /\ SameMarks(job, Replayed(events))

-----------------------------------------------------------------------------
\* The events with one more at their end.
More(more, events, e) ==
    /\ Len(events) \in Nat
    /\ DOMAIN events = 1..Len(events)
    /\ DOMAIN more = 1..(Len(events) + 1)
    /\ more[Len(events) + 1] = e
    /\ e \in Event
    /\ \A i \in DOMAIN events : events[i] \in Event /\ more[i] = events[i]

\* Appending to the journal is such a step.
LEMMA AppendMore ==
    ASSUME NEW events \in Seq(Event), NEW e \in Event
    PROVE  More(Append(events, e), events, e)
BY DEF More

\* What is said of the events goes on, and the new one may add to it.
LEMMA MoreSome ==
    ASSUME NEW more, NEW events, NEW e, More(more, events, e)
    PROVE  /\ \A i \in DOMAIN more : i \in DOMAIN events \/ i = Len(events) + 1
           /\ \A i \in DOMAIN events : i \in DOMAIN more /\ i < Len(events) + 1
           /\ Len(events) + 1 \in DOMAIN more
BY DEF More

\* Each part of the agreement after one event more.
LEMMA StartMore ==
    ASSUME NEW more, NEW events, NEW e, More(more, events, e),
           NEW job \in JobVisibility, NEW r \in JobVisibility,
           StartAgrees(job, events), StartEffect(job, e, r)
    PROVE  StartAgrees(r, more)
<1>1. /\ job.started_at \in Time /\ e.event_time \in Nat /\ None \notin Nat
      /\ \A i \in DOMAIN events : events[i].event_time \in Nat
  BY NoTimeAssumption DEF More, JobVisibility, Event
<1>2. CASE e.type = "JOB_EXECUTION_STARTED"
  <2>1. r.started_at = Earliest(job.started_at, e.event_time)
    BY <1>2 DEF StartEffect
  <2>2. /\ r.started_at \in Nat /\ r.started_at <= e.event_time
        /\ r.started_at \in {job.started_at, e.event_time}
        /\ job.started_at # None => r.started_at <= job.started_at
    BY <1>1, <2>1 DEF Earliest, Time
  <2>3. \E i \in DOMAIN more : /\ more[i].type = "JOB_EXECUTION_STARTED"
                               /\ r.started_at = more[i].event_time
    <3>1. CASE r.started_at = e.event_time
      BY <1>2, <3>1, MoreSome DEF More
    <3>2. CASE r.started_at = job.started_at
      <4>1. PICK i \in DOMAIN events : /\ events[i].type = "JOB_EXECUTION_STARTED"
                                       /\ job.started_at = events[i].event_time
        BY <1>1, <2>2, <3>2 DEF StartAgrees
      <4> QED BY <3>2, <4>1, MoreSome DEF More
    <3> QED BY <2>2, <3>1, <3>2
  <2>4. ASSUME NEW i \in DOMAIN more, more[i].type = "JOB_EXECUTION_STARTED"
        PROVE  r.started_at # None /\ r.started_at <= more[i].event_time
    <3>1. CASE i = Len(events) + 1
      BY <1>1, <2>2, <3>1 DEF More
    <3>2. CASE i \in DOMAIN events
      <4>1. job.started_at # None /\ job.started_at <= events[i].event_time
        BY <2>4, <3>2 DEF StartAgrees, More
      <4> QED BY <1>1, <2>2, <3>2, <4>1 DEF Time, More
    <3> QED BY <3>1, <3>2, MoreSome
  <2> QED BY <2>3, <2>4 DEF StartAgrees
<1>3. CASE e.type # "JOB_EXECUTION_STARTED"
  <2>1. r.started_at = job.started_at
    BY <1>3 DEF StartEffect
  <2>2. ASSUME NEW i \in DOMAIN more, more[i].type = "JOB_EXECUTION_STARTED"
        PROVE  i \in DOMAIN events /\ more[i] = events[i]
    BY <1>3, <2>2, MoreSome DEF More
  <2> QED BY <2>1, <2>2, MoreSome DEF StartAgrees, More
<1> QED BY <1>2, <1>3

\* An attempt has evidence if it had some or the new event is some.
LEMMA AttemptedMore ==
    ASSUME NEW more, NEW events, NEW e, More(more, events, e), NEW types, NEW n
    PROVE  Attempted(more, types, n)
              <=> Attempted(events, types, n) \/ (e.type \in types /\ AttemptNumber(e) = n)
<1>1. /\ \A i \in DOMAIN more : i \in DOMAIN events \/ i = Len(events) + 1
      /\ \A i \in DOMAIN events : i \in DOMAIN more /\ more[i] = events[i]
      /\ Len(events) + 1 \in DOMAIN more /\ more[Len(events) + 1] = e
  BY MoreSome DEF More
<1> QED BY <1>1 DEF Attempted

\* An attempt is known exactly when its evidence is journalled.
LEMMA AttemptsMore ==
    ASSUME NEW more, NEW events, NEW e, More(more, events, e), NEW job, NEW r,
           AttemptsAgree(job, events), AttemptEffect(job, e, r)
    PROVE  AttemptsAgree(r, more)
<1> SUFFICES ASSUME NEW n \in Attempts
             PROVE  /\ r.attempts[n].status # "NONE" <=> Attempted(more, EvidenceTypes, n)
                    /\ r.attempts[n].status = "SUCCEEDED" =>
                          Attempted(more, {"JOB_EXECUTION_SUCCEEDED"}, n)
                    /\ r.attempts[n].status = "FAILED" =>
                          Attempted(more, {"JOB_EXECUTION_FAILED"}, n)
  BY DEF AttemptsAgree
<1>1. /\ job.attempts[n].status # "NONE" <=> Attempted(events, EvidenceTypes, n)
      /\ job.attempts[n].status = "SUCCEEDED" =>
            Attempted(events, {"JOB_EXECUTION_SUCCEEDED"}, n)
      /\ job.attempts[n].status = "FAILED" =>
            Attempted(events, {"JOB_EXECUTION_FAILED"}, n)
  BY DEF AttemptsAgree
<1>2. CASE e.type \in EvidenceTypes /\ n = AttemptNumber(e)
  BY <1>1, <1>2, AttemptedMore DEF AttemptEffect
<1>3. CASE ~ (e.type \in EvidenceTypes /\ n = AttemptNumber(e))
  <2>1. r.attempts[n].status = job.attempts[n].status
    BY <1>3 DEF AttemptEffect
  <2>2. /\ Attempted(more, EvidenceTypes, n) <=> Attempted(events, EvidenceTypes, n)
        /\ Attempted(events, {"JOB_EXECUTION_SUCCEEDED"}, n) =>
              Attempted(more, {"JOB_EXECUTION_SUCCEEDED"}, n)
        /\ Attempted(events, {"JOB_EXECUTION_FAILED"}, n) =>
              Attempted(more, {"JOB_EXECUTION_FAILED"}, n)
    BY <1>3, AttemptedMore
  <2> QED BY <1>1, <2>1, <2>2
<1> QED BY <1>2, <1>3

\* An attempt with evidence and an earlier one without make a gap.
LEMMA GapIsReal ==
    ASSUME NEW events, Len(events) \in Nat, DOMAIN events = 1..Len(events),
           NEW job, AttemptsAgree(job, events),
           NEW n \in Attempts, job.attempts[n].status # "NONE", MissingBefore(job, n)
    PROVE  \E i \in DOMAIN events : GapAt(events, i)
<1>1. PICK m \in 1..(n - 1) : job.attempts[m].status = "NONE"
  BY DEF MissingBefore
<1>2. m \in Attempts
  BY MaxAttemptAssumption DEF Attempts
<1>3. \A k \in DOMAIN events : events[k].type \in EvidenceTypes => AttemptNumber(events[k]) # m
  BY <1>1, <1>2 DEF AttemptsAgree, Attempted
<1>4. PICK i \in DOMAIN events : events[i].type \in EvidenceTypes /\ AttemptNumber(events[i]) = n
  BY DEF AttemptsAgree, Attempted
<1>5. \A k \in 1..(i - 1) : k \in DOMAIN events
  OBVIOUS
<1> QED BY <1>1, <1>3, <1>4, <1>5 DEF GapAt

\* A gap is found when its evidence arrives, and only then.
LEMMA GapMore ==
    ASSUME NEW more, NEW events, NEW e, More(more, events, e), NEW job, NEW r,
           AttemptsAgree(job, events), GapAgrees(job, events), GapEffect(job, e, r)
    PROVE  GapAgrees(r, more)
<1> DEFINE n == AttemptNumber(e)
<1>1. n \in Attempts /\ n \in Nat
  BY NumberType, MaxAttemptAssumption DEF More, Attempts
<1>2. \A i \in DOMAIN events : GapAt(more, i) <=> GapAt(events, i)
  <2> SUFFICES ASSUME NEW i \in DOMAIN events
               PROVE  GapAt(more, i) <=> GapAt(events, i)
    OBVIOUS
  <2>1. more[i] = events[i] /\ \A k \in 1..(i - 1) : more[k] = events[k]
    BY DEF More
  <2> QED BY <2>1 DEF GapAt
<1>3. ASSUME NEW m \in Attempts
      PROVE  job.attempts[m].status = "NONE"
                <=> \A k \in DOMAIN events :
                       events[k].type \in EvidenceTypes => AttemptNumber(events[k]) # m
  BY DEF AttemptsAgree, Attempted
<1>4. GapAt(more, Len(events) + 1) <=> e.type \in EvidenceTypes /\ MissingBefore(job, n)
  <2>1. /\ more[Len(events) + 1] = e
        /\ 1..((Len(events) + 1) - 1) = DOMAIN events
        /\ \A k \in DOMAIN events : more[k] = events[k]
    BY DEF More
  <2>2. \A m \in 1..(n - 1) : m \in Attempts
    BY <1>1, MaxAttemptAssumption DEF Attempts
  <2> HIDE DEF n
  <2>3. GapAt(more, Len(events) + 1)
           <=> /\ e.type \in EvidenceTypes
               /\ \E m \in 1..(n - 1) : \A k \in DOMAIN events :
                     events[k].type \in EvidenceTypes => AttemptNumber(events[k]) # m
    BY <2>1 DEF GapAt, n
  <2> QED BY <1>3, <2>2, <2>3 DEF MissingBefore
<1>5. (\E i \in DOMAIN more : GapAt(more, i))
         <=> \/ \E i \in DOMAIN events : GapAt(events, i)
             \/ e.type \in EvidenceTypes /\ MissingBefore(job, n)
  BY <1>2, <1>4, MoreSome
<1>6. ASSUME job.attempts[n].status # "NONE", MissingBefore(job, n)
      PROVE  \E i \in DOMAIN events : GapAt(events, i)
  BY <1>1, <1>6, GapIsReal DEF More
<1>7. CASE r.findings["ATTEMPT_SEQUENCE_GAP"] =
              IF e.type \in EvidenceTypes /\ MissingBefore(job, n)
              THEN "active" ELSE job.findings["ATTEMPT_SEQUENCE_GAP"]
  BY <1>5, <1>7 DEF GapAgrees
<1>8. CASE /\ job.attempts[n].status # "NONE"
           /\ r.findings["ATTEMPT_SEQUENCE_GAP"] = job.findings["ATTEMPT_SEQUENCE_GAP"]
  BY <1>5, <1>6, <1>8 DEF GapAgrees
<1> QED BY <1>7, <1>8 DEF GapEffect

\* A success is recorded unless something in the journal says otherwise.
LEMMA OutcomeMore ==
    ASSUME NEW more, NEW events, NEW e, More(more, events, e), NEW job, NEW r,
           AttemptsAgree(job, events), OutcomeAgrees(job, events), StatusEffect(job, e, r)
    PROVE  OutcomeAgrees(r, more)
<1>1. /\ \A i \in DOMAIN more : i \in DOMAIN events \/ i = Len(events) + 1
      /\ \A i \in DOMAIN events : i \in DOMAIN more /\ more[i] = events[i]
      /\ Len(events) + 1 \in DOMAIN more /\ more[Len(events) + 1] = e
  BY MoreSome DEF More
<1>2. ASSUME r.recorded_status \in {"FAILED", "RETRIES_EXHAUSTED"}
      PROVE  \E i \in DOMAIN more : \A n \in Attempts : Otherwise(more[i], n)
  <2>1. CASE job.recorded_status \in {"FAILED", "RETRIES_EXHAUSTED"}
    BY <1>1, <2>1 DEF OutcomeAgrees
  <2>2. CASE job.recorded_status \notin {"FAILED", "RETRIES_EXHAUSTED"}
    <3>1. \A n \in Attempts : Otherwise(e, n)
      BY <1>2, <2>2 DEF StatusEffect, Otherwise
    <3> QED BY <1>1, <3>1
  <2> QED BY <2>1, <2>2
<1>3. ASSUME NEW i \in DOMAIN events, events[i].type = "JOB_EXECUTION_SUCCEEDED"
      PROVE  \/ r.recorded_status = "SUCCEEDED"
             \/ \E k \in DOMAIN events : Otherwise(events[k], AttemptNumber(events[i]))
  BY <1>3 DEF OutcomeAgrees, StatusEffect
<1>4. ASSUME e.type = "JOB_EXECUTION_SUCCEEDED"
      PROVE  \/ r.recorded_status = "SUCCEEDED"
             \/ \E k \in DOMAIN events : Otherwise(events[k], AttemptNumber(e))
  <2> DEFINE n == AttemptNumber(e)
  <2>1. n \in Attempts
    BY NumberType DEF More
  <2> HIDE DEF n
  <2>2. CASE r.recorded_status = "SUCCEEDED"
    BY <2>2
  <2>3. CASE job.attempts[n].status = "SUCCEEDED"
    <3>1. PICK i \in DOMAIN events : /\ events[i].type = "JOB_EXECUTION_SUCCEEDED"
                                     /\ AttemptNumber(events[i]) = n
      BY <2>1, <2>3 DEF AttemptsAgree, Attempted
    <3> QED BY <1>3, <3>1 DEF n
  <2>4. CASE job.attempts[n].status = "FAILED"
    <3>1. PICK i \in DOMAIN events : /\ events[i].type = "JOB_EXECUTION_FAILED"
                                     /\ AttemptNumber(events[i]) = n
      BY <2>1, <2>4 DEF AttemptsAgree, Attempted
    <3>2. Otherwise(events[i], n)
      BY <3>1 DEF Otherwise
    <3> QED BY <3>2 DEF n
  <2>5. CASE job.recorded_status \in {"FAILED", "RETRIES_EXHAUSTED"}
    BY <2>1, <2>5 DEF OutcomeAgrees, n
  <2> QED BY <1>4, <2>2, <2>3, <2>4, <2>5 DEF StatusEffect, n
<1>5. ASSUME NEW i \in DOMAIN more, more[i].type = "JOB_EXECUTION_SUCCEEDED"
      PROVE  \/ r.recorded_status = "SUCCEEDED"
             \/ \E k \in DOMAIN more : Otherwise(more[k], AttemptNumber(more[i]))
  <2>1. CASE i \in DOMAIN events
    BY <1>1, <1>3, <1>5, <2>1
  <2>2. CASE i = Len(events) + 1
    BY <1>1, <1>4, <1>5, <2>2
  <2> QED BY <1>1, <2>1, <2>2
<1> QED BY <1>2, <1>5 DEF OutcomeAgrees

\* An open request stays open until its acknowledgement.
LEMMA OpenMore ==
    ASSUME NEW more, NEW events, NEW e, More(more, events, e), NEW ack, NEW types
    PROVE  /\ e.type \in types /\ e.type # ack => Open(more, ack, types)
           /\ Open(events, ack, types) /\ e.type # ack => Open(more, ack, types)
<1>1. /\ \A i \in DOMAIN more : i \in DOMAIN events \/ i = Len(events) + 1
      /\ \A i \in DOMAIN events : /\ i \in DOMAIN more /\ more[i] = events[i]
                                  /\ i < Len(events) + 1
      /\ Len(events) + 1 \in DOMAIN more /\ more[Len(events) + 1] = e
  BY MoreSome DEF More
<1> QED BY <1>1 DEF Open

\* A timeout stays reported only while the request is open.
LEMMA AcksMore ==
    ASSUME NEW more, NEW events, NEW e, More(more, events, e), NEW job, NEW r,
           AcksAgree(job, events), StatusEffect(job, e, r), AckEffect(job, e, r)
    PROVE  AcksAgree(r, more)
<1>1. /\ e.type = "JOB_SCHEDULER_SUBMISSION_REQUESTED" => SubmissionOpen(more)
      /\ SubmissionOpen(events) /\ e.type # "JOB_SCHEDULER_SUBMISSION_ACKNOWLEDGED" =>
            SubmissionOpen(more)
  BY OpenMore DEF SubmissionOpen
<1>2. /\ e.type \in {"JOB_RETRY_REQUESTED", "JOB_RETRY_REJECTED", "JOB_RETRIES_EXHAUSTED"} =>
            RetryOpen(more)
      /\ RetryOpen(events) /\ e.type # "JOB_RETRY_ACKNOWLEDGED" => RetryOpen(more)
  BY OpenMore DEF RetryOpen
<1>3. \/ r.recorded_status = "PENDING_SUBMISSION"
      \/ r.findings["SCHEDULER_ACK_TIMEOUT"] = "active"
      => SubmissionOpen(more)
  BY <1>1 DEF StatusEffect, AckEffect, AcksAgree
<1>4. \/ r.retry_requested /\ ~ r.retry_acknowledged
      \/ r.findings["RETRY_ACK_TIMEOUT"] = "active"
      => RetryOpen(more)
  BY <1>2 DEF AckEffect, AcksAgree
<1> QED BY <1>3, <1>4 DEF AcksAgree

\* One event reduced and journalled: the view still agrees with the journal.
LEMMA ReduceAgrees ==
    ASSUME NEW job \in JobVisibility, NEW events \in Seq(Event), NEW e \in Event,
           Agrees(job, events)
    PROVE  Agrees(Reduce(job, e), Append(events, e))
<1> DEFINE more == Append(events, e)
           r == Reduce(job, e)
<1>1. More(more, events, e)
  BY AppendMore
<1>2. r \in JobVisibility /\ Effect(job, e, r)
  BY ReduceRule
<1>3. Same(r, Replayed(more)) /\ SameMarks(r, Replayed(more))
  <2>1. Replayed(events) \in JobVisibility
    BY ReplayIsReplay
  <2>2. Same(r, Reduce(Replayed(events), e)) /\ SameMarks(r, Reduce(Replayed(events), e))
    BY <2>1, ReduceSame, ReduceMarks DEF Agrees
  <2> QED BY <2>2, ReplayOfMore
<1> HIDE DEF more, r
<1>4. StartAgrees(r, more)
  BY <1>1, <1>2, StartMore DEF Agrees, Effect
<1>5. AttemptsAgree(r, more)
  BY <1>1, <1>2, AttemptsMore DEF Agrees, Effect
<1>6. GapAgrees(r, more)
  BY <1>1, <1>2, GapMore DEF Agrees, Effect
<1>7. OutcomeAgrees(r, more)
  BY <1>1, <1>2, OutcomeMore DEF Agrees, Effect
<1>8. AcksAgree(r, more)
  BY <1>1, <1>2, AcksMore DEF Agrees, Effect
<1> QED BY <1>3, <1>4, <1>5, <1>6, <1>7, <1>8 DEF Agrees, more, r

-----------------------------------------------------------------------------
\* Views that differ in findings of reconcile only: what it marked is true of the
\* events, and it hides no gap.
LEMMA RemarkedAgrees ==
    ASSUME NEW job, NEW events, Agrees(job, events), NEW r, Same(r, job), SameMarks(r, job),
           job.findings["ATTEMPT_SEQUENCE_GAP"] # "none" =>
              r.findings["ATTEMPT_SEQUENCE_GAP"] # "none",
           r.findings["ATTEMPT_SEQUENCE_GAP"] # "none" =>
              \/ job.findings["ATTEMPT_SEQUENCE_GAP"] # "none"
              \/ \E i \in DOMAIN events : GapAt(events, i),
           r.findings["SCHEDULER_ACK_TIMEOUT"] = "active" =>
              \/ job.findings["SCHEDULER_ACK_TIMEOUT"] = "active"
              \/ job.recorded_status = "PENDING_SUBMISSION",
           r.findings["RETRY_ACK_TIMEOUT"] = "active" =>
              \/ job.findings["RETRY_ACK_TIMEOUT"] = "active"
              \/ job.retry_requested /\ ~ job.retry_acknowledged
    PROVE  Agrees(r, events)
<1>1. /\ r.started_at = job.started_at
      /\ r.attempts = job.attempts
      /\ r.recorded_status = job.recorded_status
      /\ r.retry_requested = job.retry_requested
      /\ r.retry_acknowledged = job.retry_acknowledged
  BY DEF Same, Fields
<1>2. StartAgrees(r, events)
  BY <1>1 DEF Agrees, StartAgrees
<1>3. AttemptsAgree(r, events)
  BY <1>1 DEF Agrees, AttemptsAgree
<1>4. GapAgrees(r, events)
  BY DEF Agrees, GapAgrees
<1>5. OutcomeAgrees(r, events)
  BY <1>1 DEF Agrees, OutcomeAgrees
<1>6. AcksAgree(r, events)
  BY <1>1 DEF Agrees, AcksAgree
<1>7. Same(r, Replayed(events)) /\ SameMarks(r, Replayed(events))
  BY DEF Agrees, Same, SameMarks
<1> QED BY <1>2, <1>3, <1>4, <1>5, <1>6, <1>7 DEF Agrees

\* _finding writes the findings and nothing else.
LEMMA MarkedFields ==
    ASSUME NEW job \in JobVisibility, NEW code \in FindingCode
    PROVE  /\ Finding(job, code) \in JobVisibility
           /\ Same(Finding(job, code), job)
           /\ Finding(job, code).findings = [job.findings EXCEPT ![code] = "active"]
<1> DEFINE marks == [job.findings EXCEPT ![code] = "active"]
           r == [job EXCEPT !.findings = marks]
<1>1. Finding(job, code) = r
  BY DEF Finding
<1>2. marks \in [FindingCode -> {"none", "active", "resolved"}]
  BY DEF JobVisibility
<1> HIDE DEF marks
<1>3. r \in JobVisibility /\ r.findings = marks
  BY <1>2 DEF JobVisibility
<1>4. Same(r, job)
  BY ViewShape DEF Same, IsView, Fields
<1> QED BY <1>1, <1>3, <1>4 DEF marks

\* The findings a reconciliation marks are not those of EDRs.
LEMMA ObservedCodes ==
    ASSUME NEW job, NEW time
    PROVE  Observed(job, time) \subseteq FindingCode \ EdrFinding
BY DEF Observed, FindingCode, EdrFinding

\* The mark a reconciliation makes is true of the events.
LEMMA MarkedAgrees ==
    ASSUME NEW job \in JobVisibility, NEW events \in Seq(Event), NEW time,
           NEW code \in Observed(job, time), Agrees(job, events)
    PROVE  Agrees(Finding(job, code), events)
<1> DEFINE r == Finding(job, code)
<1>1. code \in FindingCode /\ code \notin EdrFinding
  BY ObservedCodes
<1>2. Same(r, job) /\ r.findings = [job.findings EXCEPT ![code] = "active"]
  BY <1>1, MarkedFields
<1>3. job.findings \in [FindingCode -> {"none", "active", "resolved"}]
  BY DEF JobVisibility
<1> HIDE DEF r
<1>4. \A other \in FindingCode :
         r.findings[other] = IF other = code THEN "active" ELSE job.findings[other]
  BY <1>2, <1>3
<1>5. SameMarks(r, job)
  BY <1>1, <1>4 DEF SameMarks, EdrFinding, FindingCode
<1>6. code = "ATTEMPT_SEQUENCE_GAP" => \E i \in DOMAIN events : GapAt(events, i)
  BY GapIsReal DEF Observed, HasGap, Agrees
<1>7. code = "SCHEDULER_ACK_TIMEOUT" => job.recorded_status = "PENDING_SUBMISSION"
  BY DEF Observed
<1>8. code = "RETRY_ACK_TIMEOUT" => job.retry_requested /\ ~ job.retry_acknowledged
  BY DEF Observed
<1>9. {"ATTEMPT_SEQUENCE_GAP", "SCHEDULER_ACK_TIMEOUT", "RETRY_ACK_TIMEOUT"}
         \subseteq FindingCode
  BY DEF FindingCode
<1>10. /\ job.findings["ATTEMPT_SEQUENCE_GAP"] # "none" =>
              r.findings["ATTEMPT_SEQUENCE_GAP"] # "none"
       /\ r.findings["ATTEMPT_SEQUENCE_GAP"] # "none" =>
              \/ job.findings["ATTEMPT_SEQUENCE_GAP"] # "none"
              \/ \E i \in DOMAIN events : GapAt(events, i)
       /\ r.findings["SCHEDULER_ACK_TIMEOUT"] = "active" =>
              \/ job.findings["SCHEDULER_ACK_TIMEOUT"] = "active"
              \/ job.recorded_status = "PENDING_SUBMISSION"
       /\ r.findings["RETRY_ACK_TIMEOUT"] = "active" =>
              \/ job.findings["RETRY_ACK_TIMEOUT"] = "active"
              \/ job.retry_requested /\ ~ job.retry_acknowledged
  BY <1>4, <1>6, <1>7, <1>8, <1>9
<1>11. Agrees(r, events)
  BY <1>2, <1>5, <1>10, RemarkedAgrees
<1> QED BY <1>11 DEF r

\* A deepcopy beside reconcile: the copy has old marks of findings that the view
\* had resolved, and that were marked again.
LEMMA CopiedAgrees ==
    ASSUME NEW w \in Writers, NEW before \in SUBSET Touched(w), view \in JobVisibility,
           writer[w].known \in [FindingCode -> {"none", "active", "resolved"}],
           \A code \in FindingCode :
              /\ view.findings[code] \in {writer[w].known[code], "active"}
              /\ code \in EdrFinding => view.findings[code] = writer[w].known[code],
           NEW events, Agrees(view, events)
    PROVE  /\ Copied(w, before) \in JobVisibility
           /\ Same(Copied(w, before), view)
           /\ Agrees(Copied(w, before), events)
<1> DEFINE marks == [code \in FindingCode |->
                       IF code \in before THEN writer[w].known[code] ELSE view.findings[code]]
           r == [view EXCEPT !.findings = marks]
<1>1. Copied(w, before) = r
  BY DEF Copied
<1>2. /\ marks \in [FindingCode -> {"none", "active", "resolved"}]
      /\ \A code \in FindingCode :
            \/ marks[code] = view.findings[code]
            \/ marks[code] = "resolved" /\ view.findings[code] = "active"
               /\ code \notin EdrFinding
  BY DEF JobVisibility, Touched
<1> HIDE DEF marks
<1>3. r \in JobVisibility /\ r.findings = marks
  BY <1>2 DEF JobVisibility
<1>4. Same(r, view)
  BY ViewShape DEF Same, IsView, Fields
<1> HIDE DEF r
<1>5. SameMarks(r, view)
  BY <1>2, <1>3 DEF SameMarks, EdrFinding, FindingCode
<1>6. {"ATTEMPT_SEQUENCE_GAP", "SCHEDULER_ACK_TIMEOUT", "RETRY_ACK_TIMEOUT"}
         \subseteq FindingCode
  BY DEF FindingCode
<1>7. /\ view.findings["ATTEMPT_SEQUENCE_GAP"] # "none"
            <=> r.findings["ATTEMPT_SEQUENCE_GAP"] # "none"
      /\ r.findings["SCHEDULER_ACK_TIMEOUT"] = "active" =>
            view.findings["SCHEDULER_ACK_TIMEOUT"] = "active"
      /\ r.findings["RETRY_ACK_TIMEOUT"] = "active" =>
            view.findings["RETRY_ACK_TIMEOUT"] = "active"
  BY <1>2, <1>3, <1>6
<1>8. Agrees(r, events)
  BY <1>4, <1>5, <1>7, RemarkedAgrees
<1> QED BY <1>1, <1>3, <1>4, <1>8

\* Before any event.
LEMMA NothingAgrees == Agrees(NewJob, <<>>)
<1>1. DOMAIN <<>> = {}
  OBVIOUS
<1>2. StartAgrees(NewJob, <<>>)
  BY <1>1 DEF StartAgrees, NewJob
<1>3. AttemptsAgree(NewJob, <<>>)
  BY <1>1 DEF AttemptsAgree, Attempted, NewJob
<1>4. GapAgrees(NewJob, <<>>)
  BY <1>1 DEF GapAgrees, NewJob, FindingCode
<1>5. OutcomeAgrees(NewJob, <<>>)
  BY <1>1 DEF OutcomeAgrees, NewJob
<1>6. AcksAgree(NewJob, <<>>)
  BY DEF AcksAgree, NewJob, FindingCode
<1>7. Same(NewJob, Replayed(<<>>)) /\ SameMarks(NewJob, Replayed(<<>>))
  BY ReplayOfNothing DEF Same, SameMarks
<1> QED BY <1>2, <1>3, <1>4, <1>5, <1>6, <1>7 DEF Agrees

-----------------------------------------------------------------------------
(* The journal without the EDRs whose reduction raised. *)

\* kept[i] is what the first i events leave without those of S.
Kept(kept, events, S, n) ==
    /\ kept[0] = <<>>
    /\ \A i \in 1..n : kept[i] = IF events[i] \in S THEN kept[i - 1]
                                 ELSE Append(kept[i - 1], events[i])

\* What is kept of the first n events depends on these and on which are in the set:
\* the first difference would follow from none before it.
LEMMA KeptAlike ==
    ASSUME NEW n \in Nat, NEW events, NEW others, NEW S, NEW T, NEW f, NEW g,
           Kept(f, events, S, n), Kept(g, others, T, n),
           \A i \in 1..n : others[i] = events[i] /\ (events[i] \in S <=> events[i] \in T)
    PROVE  f[n] = g[n]
<1> DEFINE D == {i \in 0..n : f[i] # g[i]}
<1>1. SUFFICES ASSUME D # {} PROVE FALSE
  OBVIOUS
<1>2. D \in SUBSET Nat
  OBVIOUS
<1>3. PICK i \in D : \A m \in D : i <= m
  <2> HIDE DEF D
  <2> QED BY <1>1, <1>2, NatMinimum
<1>4. i # 0
  BY <1>3 DEF Kept
<1>5. i \in 1..n /\ i - 1 \in 0..n /\ i - 1 \notin D
  BY <1>3, <1>4
<1>6. f[i - 1] = g[i - 1]
  BY <1>5
<1> QED BY <1>3, <1>5, <1>6 DEF Kept

\* Every sequence of events has what is kept of it: the shortest prefix that had
\* not would be one event longer than one that has.
LEMMA KeptExists ==
    ASSUME NEW events \in Seq(Event), NEW S
    PROVE  \E kept \in [0..Len(events) -> Seq(Event)] : Kept(kept, events, S, Len(events))
<1> DEFINE Has(n) == \E kept \in [0..n -> Seq(Event)] : Kept(kept, events, S, n)
           T == {n \in 0..Len(events) : ~ Has(n)}
<1>0. Len(events) \in 0..Len(events) /\ Len(events) \in Nat
  OBVIOUS
<1>1. SUFFICES ASSUME T # {} PROVE FALSE
  <2>1. ASSUME T = {} PROVE Has(Len(events))
    <3> HIDE DEF Has
    <3> QED BY <1>0, <2>1
  <2> HIDE DEF T
  <2> QED BY <2>1
<1>2. T \in SUBSET Nat
  OBVIOUS
<1>3. PICK n \in T : \A m \in T : n <= m
  <2> HIDE DEF T
  <2> QED BY <1>1, <1>2, NatMinimum
<1>4. n \in 0..Len(events) /\ ~ Has(n)
  BY <1>3
<1>5. n # 0
  <2>1. Has(0)
    <3> DEFINE kept == [i \in 0..0 |-> <<>>]
    <3>1. kept \in [0..0 -> Seq(Event)] /\ Kept(kept, events, S, 0)
      BY DEF Kept
    <3> QED BY <3>1
  <2> QED BY <1>4, <2>1
<1>6. n - 1 \in 0..Len(events) /\ n - 1 \notin T
  BY <1>3, <1>4, <1>5
<1>7. PICK kept \in [0..(n - 1) -> Seq(Event)] : Kept(kept, events, S, n - 1)
  BY <1>6
<1> DEFINE last == IF events[n] \in S THEN kept[n - 1] ELSE Append(kept[n - 1], events[n])
           more == [i \in 0..n |-> IF i = n THEN last ELSE kept[i]]
<1>8. kept[n - 1] \in Seq(Event) /\ events[n] \in Event
  BY <1>4, <1>5
<1>9. last \in Seq(Event)
  BY <1>8
<1> HIDE DEF last
<1>10. more \in [0..n -> Seq(Event)]
  BY <1>9
<1>11. Kept(more, events, S, n)
  <2>1. more[0] = <<>>
    BY <1>4, <1>5, <1>7 DEF Kept
  <2>2. ASSUME NEW i \in 1..n
        PROVE  more[i] = IF events[i] \in S THEN more[i - 1]
                         ELSE Append(more[i - 1], events[i])
    <3>1. i - 1 \in 0..n /\ i - 1 # n /\ more[i - 1] = kept[i - 1]
      BY <1>4
    <3>2. CASE i = n
      BY <3>1, <3>2 DEF last
    <3>3. CASE i # n
      <4>1. i \in 1..(n - 1) /\ more[i] = kept[i]
        BY <1>4, <3>3
      <4> QED BY <1>7, <3>1, <4>1 DEF Kept
    <3> QED BY <3>2, <3>3
  <2> QED BY <2>1, <2>2 DEF Kept
<1> HIDE DEF more
<1> QED BY <1>4, <1>10, <1>11

\* The recursive function of Without is what its definition says.
LEMMA WithoutIsKept ==
    ASSUME NEW events \in Seq(Event), NEW S
    PROVE  /\ Without(events, S) \in Seq(Event)
           /\ \E kept : /\ Kept(kept, events, S, Len(events))
                        /\ Without(events, S) = kept[Len(events)]
<1> DEFINE Step(f) == [n \in 0..Len(events) |->
                          IF n = 0 THEN <<>>
                          ELSE IF events[n] \in S THEN f[n - 1]
                          ELSE Append(f[n - 1], events[n])]
           kept == CHOOSE f : f = Step(f)
<1>0. Len(events) \in Nat
  OBVIOUS
<1>1. PICK some \in [0..Len(events) -> Seq(Event)] : Kept(some, events, S, Len(events))
  BY KeptExists
<1>2. some = Step(some)
  <2>1. some = [i \in 0..Len(events) |-> some[i]]
    BY <1>1
  <2>2. ASSUME NEW i \in 0..Len(events)
        PROVE  some[i] = IF i = 0 THEN <<>>
                         ELSE IF events[i] \in S THEN some[i - 1]
                         ELSE Append(some[i - 1], events[i])
    <3>1. i = 0 \/ i \in 1..Len(events)
      BY <1>0
    <3> QED BY <1>1, <3>1 DEF Kept
  <2> QED BY <2>1, <2>2
<1>3. kept = Step(kept)
  BY <1>2
<1>4. Without(events, S) = kept[Len(events)]
  BY DEF Without
<1> HIDE DEF kept
<1>5. Kept(kept, events, S, Len(events))
  <2>1. ASSUME NEW i \in 0..Len(events)
        PROVE  kept[i] = IF i = 0 THEN <<>>
                         ELSE IF events[i] \in S THEN kept[i - 1]
                         ELSE Append(kept[i - 1], events[i])
    BY <1>3
  <2>2. kept[0] = <<>>
    BY <1>0, <2>1
  <2>3. ASSUME NEW i \in 1..Len(events)
        PROVE  kept[i] = IF events[i] \in S THEN kept[i - 1]
                         ELSE Append(kept[i - 1], events[i])
    <3>1. i \in 0..Len(events) /\ i # 0
      OBVIOUS
    <3> HIDE DEF Step
    <3> QED BY <2>1, <3>1
  <2> QED BY <2>2, <2>3 DEF Kept
<1>6. kept[Len(events)] = some[Len(events)]
  BY <1>0, <1>1, <1>5, KeptAlike
<1>7. some[Len(events)] \in Seq(Event)
  BY <1>0, <1>1
<1> QED BY <1>4, <1>5, <1>6, <1>7

\* One event more is kept, or is not.
LEMMA WithoutMore ==
    ASSUME NEW events \in Seq(Event), NEW e \in Event, NEW S
    PROVE  Without(Append(events, e), S) =
              IF e \in S THEN Without(events, S) ELSE Append(Without(events, S), e)
<1> DEFINE more == Append(events, e)
           n == Len(events)
<1>1. /\ more \in Seq(Event) /\ Len(more) = n + 1 /\ more[n + 1] = e /\ n \in Nat
      /\ \A i \in 1..n : more[i] = events[i]
  OBVIOUS
<1>2. PICK f : Kept(f, events, S, n) /\ Without(events, S) = f[n]
  BY WithoutIsKept
<1> HIDE DEF more
<1>3. PICK g : Kept(g, more, S, n + 1) /\ Without(more, S) = g[n + 1]
  BY <1>1, WithoutIsKept
<1> HIDE DEF n
<1>4. Kept(g, more, S, n)
  BY <1>1, <1>3 DEF Kept
<1>5. f[n] = g[n]
  BY <1>1, <1>2, <1>4, KeptAlike
<1>6. g[n + 1] = IF e \in S THEN g[n] ELSE Append(g[n], e)
  BY <1>1, <1>3 DEF Kept
<1> QED BY <1>2, <1>3, <1>5, <1>6 DEF more

\* An event that is not there need not be taken out.
LEMMA WithoutUnknown ==
    ASSUME NEW events \in Seq(Event), NEW e, e \notin ToSet(events), NEW S
    PROVE  Without(events, S \cup {e}) = Without(events, S)
<1> DEFINE n == Len(events)
<1>1. n \in Nat /\ \A i \in 1..n : events[i] # e
  BY DEF ToSet
<1>2. PICK f : Kept(f, events, S, n) /\ Without(events, S) = f[n]
  BY WithoutIsKept
<1>3. PICK g : Kept(g, events, S \cup {e}, n) /\ Without(events, S \cup {e}) = g[n]
  BY WithoutIsKept
<1> HIDE DEF n
<1>4. \A i \in 1..n : events[i] \in S <=> events[i] \in S \cup {e}
  BY <1>1
<1> QED BY <1>1, <1>2, <1>3, <1>4, KeptAlike

\* Without nothing, everything is kept.
LEMMA WithoutNothing ==
    ASSUME NEW events \in Seq(Event)
    PROVE  Without(events, {}) = events
<1> DEFINE n == Len(events)
           f == [i \in 0..n |-> SubSeq(events, 1, i)]
<1>1. n \in Nat
  OBVIOUS
<1>2. Kept(f, events, {}, n)
  <2>1. f[0] = <<>>
    OBVIOUS
  <2>2. ASSUME NEW i \in 1..n
        PROVE  f[i] = Append(f[i - 1], events[i])
    <3>1. SubSeq(events, 1, i) = Append(SubSeq(events, 1, i - 1), events[i])
      OBVIOUS
    <3> QED BY <3>1
  <2> QED BY <2>1, <2>2 DEF Kept
<1>3. f[n] = events
  OBVIOUS
<1>4. PICK g : Kept(g, events, {}, n) /\ Without(events, {}) = g[n]
  BY WithoutIsKept
<1> HIDE DEF n, f
<1>5. f[n] = g[n]
  BY <1>1, <1>2, <1>4, KeptAlike
<1> QED BY <1>3, <1>4, <1>5

\* Of no events nothing is kept.
LEMMA WithoutStart == Without(<<>>, {}) = <<>>
<1>1. <<>> \in Seq(Event)
  OBVIOUS
<1> QED BY <1>1, WithoutNothing

-----------------------------------------------------------------------------
(* The invariant. *)

\* The copy in the lock is never behind the view it will replace.
Forward(job) ==
    /\ view.version <= job.version
    /\ view.recorded_status = "SUCCEEDED" => job.recorded_status = "SUCCEEDED"

Holds(w) == writer[w].pc \in {"copy", "store"}

\* What was applied before the EDR that thread w is reducing.
Before(w) == Without(journal, dropped \cup {writer[w].event})

\* While a thread copies, the view has all but its EDR; reconcile only adds marks.
CopyInv(w) ==
    /\ writer[w].event \in ToSet(journal)
    /\ applied = Append(Before(w), writer[w].event)
    /\ Agrees(view, Before(w))
    /\ view.version < Len(journal)
    /\ \A code \in FindingCode :
          /\ view.findings[code] \in {writer[w].known[code], "active"}
          /\ code \in EdrFinding => view.findings[code] = writer[w].known[code]

StoreInv(w) ==
    /\ Agrees(writer[w].job, applied)
    /\ Forward(writer[w].job)
    /\ writer[w].job.version <= Len(journal)

LockInv ==
    \A w \in Writers :
        /\ \A v \in Writers : Holds(w) /\ Holds(v) => v = w
        /\ writer[w].pc = "copy" => CopyInv(w)
        /\ writer[w].pc = "store" => StoreInv(w)

JournalInv ==
    /\ Cardinality(ToSet(journal)) = Len(journal)
    /\ view.version <= Len(journal)
    /\ LockFree => Agrees(view, applied)

RetryInv ==
    \A w \in Writers :
        /\ writer[w].pc = "apply" /\ writer[w].optimistic =>
              writer[w].number <= writer[w].expected_version
              /\ writer[w].expected_version <= view.version
        /\ writer[w].pc = "reload" =>
              writer[w].number < view.version /\ writer[w].number < Retries

IInv == TypeOK /\ LockInv /\ JournalInv /\ RetryInv /\ WritersGetThrough

Kinds == {Idle, [pc |-> "raised"]} \cup Request \cup Reducing \cup Storing

\* The EDRs produced for a job are finitely many events with their own ids.
LEMMA HistoryEvents ==
    ASSUME TypeOK
    PROVE  /\ history \subseteq Event
           /\ IsFiniteSet(history)
           /\ \A e, f \in history : e.event_id = f.event_id => e = f
           /\ Seq(history) \subseteq Seq(Event)
BY HistoriesAssumption DEF TypeOK

\* What a thread holds at each pc.
LEMMA WriterKinds ==
    ASSUME TypeOK, NEW w \in Writers
    PROVE  /\ writer[w].pc \in {"idle", "raised", "apply", "reload", "copy", "store"}
           /\ Holds(w) => writer[w].event \in history
           /\ writer[w].pc = "copy" =>
                 writer[w].known \in [FindingCode -> {"none", "active", "resolved"}]
           /\ writer[w].pc = "store" => writer[w].job \in JobVisibility
           /\ writer[w].pc \in {"apply", "reload"} =>
                 /\ writer[w] \in Request
                 /\ writer[w].event \in history
                 /\ writer[w].optimistic \in BOOLEAN
                 /\ writer[w].expected_version \in Nat
                 /\ writer[w].number \in 0..Retries
<1>1. writer[w] \in Kinds
  BY DEF TypeOK, Kinds
<1>2. CASE writer[w] \in {Idle, [pc |-> "raised"]}
  BY <1>2 DEF Idle, Holds
<1>3. CASE writer[w] \in Request
  BY <1>3 DEF Request, Holds
<1>4. CASE writer[w] \in Reducing
  BY <1>4 DEF Reducing, Holds
<1>5. CASE writer[w] \in Storing
  BY <1>5 DEF Storing, Holds
<1> QED BY <1>1, <1>2, <1>3, <1>4, <1>5 DEF Kinds

\* One thread takes a step: what it becomes is of a known kind.
LEMMA WriterStep ==
    ASSUME TypeOK, NEW w \in Writers, NEW value,
           value \in Kinds, writer' = [writer EXCEPT ![w] = value]
    PROVE  /\ writer' \in [Writers -> Kinds]
           /\ writer'[w] = value
           /\ \A v \in Writers \ {w} : writer'[v] = writer[v]
BY DEF TypeOK, Kinds

\* The invariant holds at the start.
LEMMA InitIInv == ASSUME Init PROVE IInv
<1>1. TypeOK
  <2>1. view \in JobVisibility
    BY NewJobType DEF Init
  <2> QED BY <2>1 DEF Init, TypeOK
<1>2. \A w \in Writers : writer[w].pc = "idle"
  BY DEF Init, Idle
<1>3. LockInv
  BY <1>2 DEF LockInv, Holds
<1>4. JournalInv
  <2>1. Cardinality(ToSet(journal)) = Len(journal)
    BY FS_EmptySet DEF Init, ToSet
  <2>2. view.version = 0 /\ Len(journal) = 0
    BY DEF Init, NewJob
  <2>3. Agrees(view, applied)
    BY NothingAgrees, WithoutStart DEF Init, applied
  <2> QED BY <2>1, <2>2, <2>3 DEF JournalInv
<1>5. RetryInv /\ WritersGetThrough
  BY <1>2 DEF RetryInv, WritersGetThrough
<1> QED BY <1>1, <1>3, <1>4, <1>5 DEF IInv

\* A thread outside the lock goes on, and touches nothing but its own request.
LEMMA QuietStep ==
    ASSUME IInv, NEW w \in Writers, NEW value,
           value \in {Idle, [pc |-> "raised"]} \cup Request,
           writer' = [writer EXCEPT ![w] = value],
           ~ Holds(w),
           UNCHANGED <<history, stored, journal, event_ids, now, dropped>>,
           value.pc = "apply" /\ value.optimistic =>
              value.number <= value.expected_version /\ value.expected_version <= view.version,
           value.pc = "reload" => value.number < view.version /\ value.number < Retries,
           value.pc = "raised" /\ writer[w].pc # "raised" =>
              ~ (Cardinality(history) <= Retries + 1)
    PROVE  IInv'
<1>1. TypeOK /\ value \in Kinds
  BY DEF IInv, Kinds
<1>2. /\ writer' \in [Writers -> Kinds]
      /\ writer'[w] = value
      /\ \A v \in Writers \ {w} : writer'[v] = writer[v]
  BY <1>1, WriterStep
<1>3. value.pc \notin {"copy", "store"}
  BY DEF Idle, Request
<1>a. UNCHANGED <<history, view, zone, journal, event_ids, now, dropped, applied>>
  BY DEF stored, applied
<1>4. TypeOK'
  BY <1>1, <1>2, <1>a DEF TypeOK, Request, Reducing, Storing, Kinds
<1>5. \A v \in Writers : \/ writer'[v] = writer[v]
                         \/ ~ Holds(v) /\ writer'[v].pc \notin {"copy", "store"}
  BY <1>2, <1>3
<1>6. LockInv'
  <2>1. ASSUME NEW v \in Writers, writer'[v].pc \in {"copy", "store"}
        PROVE  writer'[v] = writer[v] /\ Holds(v)
    BY <1>5, <2>1 DEF Holds
  <2>2. ASSUME NEW v \in Writers, CopyInv(v), writer'[v] = writer[v]
        PROVE  CopyInv(v)'
    BY <1>a, <2>2 DEF CopyInv, Before
  <2>3. ASSUME NEW v \in Writers, StoreInv(v), writer'[v] = writer[v]
        PROVE  StoreInv(v)'
    BY <1>a, <2>3 DEF StoreInv, Forward
  <2> QED BY <2>1, <2>2, <2>3 DEF IInv, LockInv, Holds
<1>7. JournalInv'
  BY <1>5, <1>a DEF IInv, JournalInv, LockFree, Holds
<1>8. RetryInv'
  BY <1>2, <1>a DEF IInv, RetryInv
<1>9. WritersGetThrough'
  BY <1>2, <1>a DEF IInv, WritersGetThrough
<1> QED BY <1>4, <1>6, <1>7, <1>8, <1>9 DEF IInv

\* A request starts with the version it has read.
LEMMA ReceiveStep ==
    ASSUME IInv, NEW w \in Writers, Receive(w)
    PROVE  IInv'
<1>1. PICK e \in history, optimistic \in Optimistic :
         writer' = [writer EXCEPT ![w] =
             [pc |-> "apply", event |-> e, optimistic |-> optimistic,
              expected_version |-> IF optimistic THEN view.version ELSE 0, number |-> 0]]
  BY DEF Receive
<1> DEFINE value == [pc |-> "apply", event |-> e, optimistic |-> optimistic,
                     expected_version |-> IF optimistic THEN view.version ELSE 0,
                     number |-> 0]
<1>2. view.version \in Nat /\ optimistic \in BOOLEAN /\ 0 \in 0..Retries
  BY ConfigAssumption DEF IInv, TypeOK, JobVisibility
<1>3. /\ value \in Request /\ value.pc = "apply"
      /\ value.optimistic =>
            value.number <= value.expected_version /\ value.expected_version <= view.version
  BY <1>2 DEF Request
<1>4. writer' = [writer EXCEPT ![w] = value] /\ ~ Holds(w)
  BY <1>1 DEF Receive, Holds
<1> HIDE DEF value
<1> QED BY <1>3, <1>4, QuietStep DEF Receive

\* An EDR that is delivered again is dropped.
LEMMA ExactDuplicateStep ==
    ASSUME IInv, NEW w \in Writers, ExactDuplicate(w)
    PROVE  IInv'
<1>1. Idle.pc = "idle"
  BY DEF Idle
<1> QED BY <1>1, QuietStep DEF ExactDuplicate, Holds

\* A writer that conflicts has not been beaten more often than the journal holds
\* other events of the job.
LEMMA ConflictStep ==
    ASSUME IInv, NEW w \in Writers, Conflict(w)
    PROVE  IInv'
<1>1. /\ writer[w] \in Request /\ writer[w].event \in history
      /\ writer[w].expected_version \in Nat /\ writer[w].number \in 0..Retries
      /\ view.version \in Nat /\ Len(journal) \in Nat /\ Retries \in Nat
  <2>1. TypeOK /\ writer[w].pc = "apply"
    BY DEF IInv, Conflict
  <2>2. view.version \in Nat /\ Len(journal) \in Nat
    BY <2>1 DEF TypeOK, JobVisibility
  <2> QED BY <2>1, <2>2, WriterKinds, ConfigAssumption
<1>2. writer[w].number < view.version
  BY <1>1 DEF IInv, RetryInv, Conflict, VersionConflicts
<1>3. Len(journal) + 1 <= Cardinality(history)
  <2>1. /\ IsFiniteSet(history) /\ ToSet(journal) \subseteq history
        /\ writer[w].event \notin ToSet(journal)
    BY HistoryEvents DEF IInv, TypeOK, Conflict, Seen, ToSet
  <2>2. /\ IsFiniteSet(ToSet(journal))
        /\ Cardinality(ToSet(journal) \cup {writer[w].event}) = Len(journal) + 1
    BY <2>1, FS_Subset, FS_AddElement DEF IInv, JournalInv
  <2> QED BY <1>1, <2>1, <2>2, FS_Subset
<1>4. view.version <= Len(journal)
  BY DEF IInv, JournalInv
<1>5. CASE OutOfRetries(w)
  <2>1. Cardinality(history) \in Nat
    BY HistoryEvents, FS_CardinalityType DEF IInv
  <2>2. ~ (Cardinality(history) <= Retries + 1)
    BY <1>1, <1>2, <1>3, <1>4, <1>5, <2>1 DEF OutOfRetries
  <2> QED BY <1>5, <2>2, QuietStep DEF Conflict, Holds
<1>6. CASE ~ OutOfRetries(w)
  <2> DEFINE value == [writer[w] EXCEPT !.pc = "reload"]
  <2>1. /\ value \in Request /\ value.pc = "reload" /\ value.number = writer[w].number
    BY <1>1 DEF Request
  <2>2. value.number < view.version /\ value.number < Retries
    BY <1>1, <1>2, <1>6, <2>1 DEF OutOfRetries
  <2>3. writer' = [writer EXCEPT ![w] = value]
    BY <1>6 DEF Conflict
  <2> HIDE DEF value
  <2> QED BY <2>1, <2>2, <2>3, QuietStep DEF Conflict, Holds
<1> QED BY <1>5, <1>6

\* A writer that tries again has lost one more race to a version it now has.
LEMMA ReloadStep ==
    ASSUME IInv, NEW w \in Writers, Reload(w)
    PROVE  IInv'
<1>1. /\ writer[w] \in Request /\ writer[w].number \in 0..Retries
      /\ view.version \in Nat /\ Retries \in Nat
      /\ writer[w].number < view.version /\ writer[w].number < Retries
  <2>1. TypeOK /\ writer[w].pc = "reload"
    BY DEF IInv, Reload
  <2>2. view.version \in Nat
    BY <2>1 DEF TypeOK, JobVisibility
  <2> QED BY <2>1, <2>2, WriterKinds, ConfigAssumption DEF IInv, RetryInv
<1> DEFINE value == [writer[w] EXCEPT !.pc = "apply", !.number = writer[w].number + 1,
                                      !.expected_version = view.version]
<1>2. writer[w].number + 1 \in 0..Retries
  BY <1>1
<1>3. value \in Request
  BY <1>1, <1>2 DEF Request
<1>4. /\ value.pc = "apply" /\ value.number = writer[w].number + 1
      /\ value.expected_version = view.version
  BY <1>1 DEF Request
<1>5. value.number <= value.expected_version /\ value.expected_version <= view.version
  BY <1>1, <1>4
<1>6. writer' = [writer EXCEPT ![w] = value]
  BY DEF Reload, IInv, TypeOK
<1> HIDE DEF value
<1> QED BY <1>3, <1>4, <1>5, <1>6, QuietStep DEF Reload, Holds

\* A step of the thread in the lock, or of one that takes it, is none of the
\* others' business: the version they have read is not ahead of the view.
LEMMA WaitersStep ==
    ASSUME IInv, NEW w \in Writers,
           writer'[w].pc \notin {"apply", "reload", "raised"},
           \A v \in Writers \ {w} : writer'[v] = writer[v],
           history' = history, view'.version \in Nat, view.version <= view'.version
    PROVE  RetryInv' /\ WritersGetThrough'
<1>1. TypeOK /\ view.version \in Nat
  BY DEF IInv, TypeOK, JobVisibility
<1>2. ASSUME NEW v \in Writers
      PROVE  /\ writer'[v].pc = "apply" /\ writer'[v].optimistic =>
                   /\ writer'[v].number <= writer'[v].expected_version
                   /\ writer'[v].expected_version <= view'.version
             /\ writer'[v].pc = "reload" =>
                   writer'[v].number < view'.version /\ writer'[v].number < Retries
  <2>1. CASE v = w
    BY <2>1
  <2>2. CASE v # w
    <3>1. writer'[v] = writer[v]
      BY <2>2
    <3>2. writer[v].pc \in {"apply", "reload"} =>
             writer[v].expected_version \in Nat /\ writer[v].number \in Nat
      BY <1>1, WriterKinds
    <3> QED BY <1>1, <3>1, <3>2 DEF IInv, RetryInv
  <2> QED BY <2>1, <2>2
<1>3. RetryInv'
  BY <1>2 DEF RetryInv
<1>4. WritersGetThrough'
  BY DEF IInv, WritersGetThrough
<1> QED BY <1>3, <1>4

\* The journal grows by the EDR, which the view does not have yet.
LEMMA ApplyStep ==
    ASSUME IInv, NEW w \in Writers, Apply(w)
    PROVE  IInv'
<1> DEFINE e == writer[w].event
           value == [pc |-> "copy", event |-> e, known |-> view.findings]
<1>1. /\ TypeOK /\ LockFree /\ writer[w].pc = "apply"
      /\ e \in history /\ e.event_id \notin event_ids
      /\ journal' = Append(journal, e)
      /\ event_ids' = event_ids \cup {e.event_id}
      /\ writer' = [writer EXCEPT ![w] = value]
      /\ UNCHANGED <<history, view, zone, now, dropped>>
  BY WriterKinds DEF IInv, Apply, Seen, stored
<1>2. /\ e \in Event /\ journal \in Seq(history) /\ journal \in Seq(Event)
      /\ view \in JobVisibility /\ dropped \subseteq ToSet(journal)
  BY <1>1, HistoryEvents DEF TypeOK
<1>3. view.findings \in [FindingCode -> {"none", "active", "resolved"}]
      /\ view.version \in Nat
  BY <1>2 DEF JobVisibility
<1>4. Agrees(view, applied) /\ view.version <= Len(journal)
  BY <1>1 DEF IInv, JournalInv
<1> HIDE DEF e
<1>5. value \in Kinds /\ value.pc = "copy" /\ value.event = e /\ value.known = view.findings
  BY <1>1, <1>3 DEF Kinds, Reducing
<1> HIDE DEF value
<1>6. /\ writer' \in [Writers -> Kinds]
      /\ writer'[w] = value
      /\ \A v \in Writers \ {w} : writer'[v] = writer[v]
  BY <1>1, <1>5, WriterStep
<1>7. /\ Len(journal) \in Nat /\ Len(journal') = Len(journal) + 1
      /\ journal' \in Seq(history)
      /\ DOMAIN journal = 1..Len(journal) /\ DOMAIN journal' = 1..(Len(journal) + 1)
      /\ journal'[Len(journal) + 1] = e
      /\ \A i \in 1..Len(journal) : journal'[i] = journal[i]
  BY <1>1, <1>2
<1>8. ToSet(journal') = ToSet(journal) \cup {e} /\ e \notin ToSet(journal)
  <2>1. ToSet(journal') = ToSet(journal) \cup {e}
    BY <1>7 DEF ToSet
  <2>2. e \notin ToSet(journal)
    BY <1>1 DEF TypeOK, ToSet
  <2> QED BY <2>1, <2>2
<1>9. TypeOK'
  <2>1. event_ids' = {journal'[i].event_id : i \in DOMAIN journal'}
    BY <1>1, <1>7 DEF TypeOK
  <2>2. dropped' \subseteq ToSet(journal')
    BY <1>1, <1>2, <1>8
  <2> QED BY <1>1, <1>6, <1>7, <2>1, <2>2 DEF TypeOK, Kinds, Request, Reducing, Storing
<1>10. /\ applied' = Append(applied, e)
       /\ Without(journal', dropped' \cup {e}) = applied
  <2>1. Without(journal', dropped) = Append(Without(journal, dropped), e)
    BY <1>1, <1>2, <1>8, WithoutMore
  <2>2. Without(journal', dropped \cup {e}) = Without(journal, dropped \cup {e})
    BY <1>1, <1>2, WithoutMore
  <2>3. Without(journal, dropped \cup {e}) = Without(journal, dropped)
    BY <1>2, <1>8, WithoutUnknown
  <2> QED BY <1>1, <2>1, <2>2, <2>3 DEF applied
<1>11. \A v \in Writers : writer'[v].pc \in {"copy", "store"} => v = w
  BY <1>1, <1>6 DEF LockFree
<1>12. CopyInv(w)'
  <2>1. writer'[w].event = e /\ writer'[w].known = view.findings
    BY <1>5, <1>6
  <2>2. e \in ToSet(journal') /\ Before(w)' = applied
    BY <1>8, <1>10, <2>1 DEF Before
  <2>3. applied' = Append(Before(w)', e)
    BY <1>10, <2>2
  <2>4. Agrees(view', Before(w)')
    BY <1>1, <1>4, <2>2
  <2>5. view'.version < Len(journal')
    BY <1>1, <1>3, <1>4, <1>7
  <2>6. \A code \in FindingCode :
           /\ view'.findings[code] \in {writer'[w].known[code], "active"}
           /\ code \in EdrFinding => view'.findings[code] = writer'[w].known[code]
    BY <1>1, <2>1
  <2> QED BY <2>1, <2>2, <2>3, <2>4, <2>5, <2>6 DEF CopyInv
<1>13. LockInv'
  BY <1>5, <1>6, <1>11, <1>12 DEF LockInv, Holds
<1>14. JournalInv'
  <2>1. Cardinality(ToSet(journal')) = Len(journal')
    <3>1. ToSet(journal) \subseteq history
      BY <1>1, <1>2 DEF TypeOK, ToSet
    <3>2. IsFiniteSet(ToSet(journal))
      BY <1>1, <3>1, HistoryEvents, FS_Subset
    <3>3. Cardinality(ToSet(journal)) = Len(journal)
      BY DEF IInv, JournalInv
    <3>4. Cardinality(ToSet(journal) \cup {e}) = Cardinality(ToSet(journal)) + 1
      BY <1>8, <3>2, FS_AddElement
    <3> QED BY <1>7, <1>8, <3>3, <3>4
  <2>2. view'.version <= Len(journal')
    BY <1>1, <1>3, <1>4, <1>7
  <2>3. ~ LockFree'
    BY <1>5, <1>6 DEF LockFree
  <2> QED BY <2>1, <2>2, <2>3 DEF JournalInv
<1>15. RetryInv' /\ WritersGetThrough'
  BY <1>1, <1>3, <1>5, <1>6, WaitersStep
<1> QED BY <1>9, <1>13, <1>14, <1>15 DEF IInv

\* The reduced copy has the EDR and all that the view has.
LEMMA CopyStep ==
    ASSUME IInv, NEW w \in Writers, Copy(w)
    PROVE  IInv'
<1> DEFINE e == writer[w].event
<1>1. PICK before \in SUBSET Touched(w) :
         writer' = [writer EXCEPT ![w] =
             [pc |-> "store", event |-> e, job |-> Reduce(Copied(w, before), e)]]
  BY DEF Copy
<1> DEFINE copy == Copied(w, before)
           job == Reduce(copy, e)
           value == [pc |-> "store", event |-> e, job |-> job]
<1>2. /\ TypeOK /\ writer[w].pc = "copy" /\ Holds(w)
      /\ UNCHANGED <<history, view, zone, journal, event_ids, now, dropped, applied>>
  BY DEF IInv, Copy, stored, applied, Holds
<1>3. /\ e \in history /\ e \in Event /\ journal \in Seq(Event) /\ view \in JobVisibility
      /\ writer[w].known \in [FindingCode -> {"none", "active", "resolved"}]
  BY <1>2, HistoryEvents, WriterKinds DEF TypeOK
<1>4. CopyInv(w) /\ \A v \in Writers : Holds(v) => v = w
  BY <1>2 DEF IInv, LockInv
<1>5. copy \in JobVisibility /\ Same(copy, view) /\ Agrees(copy, Before(w))
  BY <1>3, <1>4, CopiedAgrees DEF CopyInv
<1>6. /\ copy.version = view.version /\ copy.recorded_status = view.recorded_status
      /\ view.version \in Nat
  BY <1>3, <1>5, SameFields DEF JobVisibility
<1> HIDE DEF copy
<1>7. /\ job \in JobVisibility /\ Effect(copy, e, job)
      /\ job.version \in {copy.version, copy.version + 1}
  BY <1>3, <1>5, ReduceRule
<1>8. Before(w) \in Seq(Event)
  BY <1>3, WithoutIsKept DEF Before
<1>9. Agrees(job, applied)
  <2>1. applied = Append(Before(w), e)
    BY <1>4 DEF CopyInv
  <2> QED BY <1>3, <1>5, <1>8, <2>1, ReduceAgrees
<1>10. Forward(job)
  BY <1>6, <1>7 DEF Forward, Effect, StatusEffect
<1>11. Len(journal) \in Nat /\ job.version <= Len(journal)
  <2>1. Len(journal) \in Nat /\ view.version < Len(journal)
    BY <1>3, <1>4 DEF CopyInv
  <2> QED BY <1>6, <1>7, <2>1
<1> HIDE DEF job, e
<1>12. value \in Kinds /\ value.pc = "store" /\ value.job = job
  BY <1>3, <1>7 DEF Kinds, Storing
<1>13. writer' = [writer EXCEPT ![w] = value]
  BY <1>1 DEF job, copy
<1> HIDE DEF value
<1>14. /\ writer' \in [Writers -> Kinds]
       /\ writer'[w] = value
       /\ \A v \in Writers \ {w} : writer'[v] = writer[v]
  BY <1>2, <1>12, <1>13, WriterStep
<1>15. TypeOK'
  BY <1>2, <1>14 DEF TypeOK, Kinds, Request, Reducing, Storing
<1>16. \A v \in Writers : writer'[v].pc \in {"copy", "store"} => v = w
  BY <1>4, <1>14 DEF Holds
<1>17. StoreInv(w)'
  BY <1>2, <1>9, <1>10, <1>11, <1>12, <1>14 DEF StoreInv, Forward
<1>18. LockInv'
  BY <1>12, <1>14, <1>16, <1>17 DEF LockInv, Holds
<1>19. JournalInv'
  <2>1. ~ LockFree'
    BY <1>12, <1>14 DEF LockFree
  <2> QED BY <1>2, <2>1 DEF IInv, JournalInv
<1>20. RetryInv' /\ WritersGetThrough'
  BY <1>2, <1>6, <1>12, <1>14, WaitersStep
<1> QED BY <1>15, <1>18, <1>19, <1>20 DEF IInv

\* The reduction raises: the view still agrees with all that was applied.
LEMMA RaiseStep ==
    ASSUME IInv, NEW w \in Writers, Raise(w)
    PROVE  IInv'
<1>1. /\ TypeOK /\ writer[w].pc = "copy" /\ Holds(w)
      /\ writer' = [writer EXCEPT ![w] = Idle]
      /\ dropped' = dropped \cup {writer[w].event}
      /\ UNCHANGED <<history, view, zone, journal, event_ids, now>>
  BY DEF IInv, Raise, stored, Holds
<1>2. CopyInv(w) /\ \A v \in Writers : Holds(v) => v = w
  BY <1>1 DEF IInv, LockInv
<1>3. Idle \in Kinds /\ Idle.pc = "idle"
  BY DEF Idle, Kinds
<1>4. /\ writer' \in [Writers -> Kinds]
      /\ writer'[w] = Idle
      /\ \A v \in Writers \ {w} : writer'[v] = writer[v]
  BY <1>1, <1>3, WriterStep
<1>5. TypeOK'
  <2>1. dropped' \subseteq ToSet(journal')
    BY <1>1, <1>2 DEF TypeOK, CopyInv
  <2> QED BY <1>1, <1>4, <2>1 DEF TypeOK, Kinds, Request, Reducing, Storing
<1>6. \A v \in Writers : writer'[v].pc \notin {"copy", "store"}
  BY <1>2, <1>3, <1>4 DEF Holds
<1>7. LockInv'
  BY <1>6 DEF LockInv, Holds
<1>8. JournalInv'
  <2>1. applied' = Before(w)
    BY <1>1 DEF applied, Before
  <2> QED BY <1>1, <1>2, <2>1 DEF IInv, JournalInv, CopyInv
<1>9. view.version \in Nat
  BY <1>1 DEF TypeOK, JobVisibility
<1>10. RetryInv' /\ WritersGetThrough'
  BY <1>1, <1>3, <1>4, <1>9, WaitersStep
<1> QED BY <1>5, <1>7, <1>8, <1>10 DEF IInv

\* The copy replaces a view that is not ahead of it.
LEMMA StoreStep ==
    ASSUME IInv, NEW w \in Writers, Store(w)
    PROVE  IInv'
<1>1. /\ TypeOK /\ writer[w].pc = "store" /\ Holds(w) /\ view' = writer[w].job
      /\ zone' \in {"none", "aware", "naive"}
      /\ writer' = [writer EXCEPT ![w] = Idle]
      /\ UNCHANGED <<history, journal, event_ids, now, dropped, applied>>
  BY DEF IInv, Store, Holds, Zone, applied
<1>2. /\ view \in JobVisibility /\ view' \in JobVisibility
      /\ view.version \in Nat /\ view'.version \in Nat
  BY <1>1, WriterKinds DEF TypeOK, JobVisibility
<1>3. /\ StoreInv(w)
      /\ \A v \in Writers : Holds(v) => v = w
  BY <1>1 DEF IInv, LockInv
<1>4. Idle \in Kinds /\ Idle.pc = "idle"
  BY DEF Idle, Kinds
<1>5. /\ writer' \in [Writers -> Kinds]
      /\ writer'[w] = Idle
      /\ \A v \in Writers \ {w} : writer'[v] = writer[v]
  BY <1>1, <1>4, WriterStep
<1>6. TypeOK'
  BY <1>1, <1>2, <1>5 DEF TypeOK, Kinds, Request, Reducing, Storing
<1>7. \A v \in Writers : writer'[v].pc \notin {"copy", "store"}
  BY <1>3, <1>4, <1>5 DEF Holds
<1>8. LockInv'
  BY <1>7 DEF LockInv, Holds
<1>9. JournalInv'
  BY <1>1, <1>3 DEF IInv, JournalInv, StoreInv
<1>10. view.version <= view'.version
  BY <1>1, <1>3 DEF StoreInv, Forward
<1>11. RetryInv' /\ WritersGetThrough'
  BY <1>1, <1>2, <1>4, <1>5, <1>10, WaitersStep
<1> QED BY <1>6, <1>8, <1>9, <1>11 DEF IInv

\* A reconciliation beside the lock: its mark is true of what the view has, whether
\* or not a thread is copying it, and a copy that is stored overwrites it.
LEMMA ReconcileStep ==
    ASSUME IInv, Reconcile
    PROVE  IInv'
<1>1. PICK time \in Clock, i \in DOMAIN ReconcileOrder :
         /\ now' = time /\ Due(time, i)
         /\ view' = Finding(view, ReconcileOrder[i])
         /\ UNCHANGED <<history, zone, journal, event_ids, writer, dropped>>
  BY DEF Reconcile
<1> DEFINE code == ReconcileOrder[i]
<1>2. TypeOK /\ view \in JobVisibility /\ journal \in Seq(Event)
  BY HistoryEvents DEF IInv, TypeOK
<1>3. code \in Observed(view, time)
  BY <1>1 DEF Due
<1> HIDE DEF code
<1>4. code \in FindingCode /\ code \notin EdrFinding
  BY <1>3, ObservedCodes
<1>5. view' = Finding(view, code) /\ applied' = applied
  BY <1>1 DEF code, applied
<1>6. /\ view' \in JobVisibility /\ Same(view', view)
      /\ view'.findings = [view.findings EXCEPT ![code] = "active"]
  BY <1>2, <1>4, <1>5, MarkedFields
<1>7. view'.version = view.version /\ view'.recorded_status = view.recorded_status
  BY <1>6, SameFields
<1>8. TypeOK'
  BY <1>1, <1>2, <1>6 DEF TypeOK, Request, Reducing, Storing
<1>9. ASSUME NEW events \in Seq(Event), Agrees(view, events)
      PROVE  Agrees(view', events)
  BY <1>2, <1>3, <1>5, <1>9, MarkedAgrees
<1>10. \A other \in FindingCode :
          view'.findings[other] = IF other = code THEN "active" ELSE view.findings[other]
  BY <1>2, <1>4, <1>6 DEF JobVisibility
<1>11. \A w \in Writers : StoreInv(w) => StoreInv(w)'
  BY <1>1, <1>5, <1>7 DEF StoreInv, Forward
<1>12. ASSUME NEW w \in Writers, CopyInv(w)
       PROVE  CopyInv(w)'
  <2>1. Before(w) \in Seq(Event) /\ Before(w)' = Before(w) /\ writer'[w] = writer[w]
    BY <1>1, <1>2, WithoutIsKept DEF Before
  <2>2. Agrees(view', Before(w)')
    BY <1>9, <1>12, <2>1 DEF CopyInv
  <2>3. \A other \in FindingCode :
           /\ view'.findings[other] \in {writer'[w].known[other], "active"}
           /\ other \in EdrFinding => view'.findings[other] = writer'[w].known[other]
    BY <1>4, <1>10, <1>12, <2>1 DEF CopyInv
  <2> QED BY <1>1, <1>5, <1>7, <1>12, <2>1, <2>2, <2>3 DEF CopyInv
<1>13. LockInv'
  <2>1. UNCHANGED writer
    BY <1>1
  <2> QED BY <1>11, <1>12, <2>1 DEF IInv, LockInv, Holds
<1>14. JournalInv'
  <2>1. applied \in Seq(Event)
    BY <1>2, WithoutIsKept DEF applied
  <2> QED BY <1>1, <1>5, <1>7, <1>9, <2>1 DEF IInv, JournalInv, LockFree
<1>15. RetryInv' /\ WritersGetThrough'
  BY <1>1, <1>7 DEF IInv, RetryInv, WritersGetThrough
<1> QED BY <1>8, <1>13, <1>14, <1>15 DEF IInv

\* Every step of a thread or of a reconciliation keeps the invariant.
LEMMA IInvStep == ASSUME IInv, [Next]_vars PROVE IInv'
<1>1. ASSUME NEW w \in Writers, Receive(w) PROVE IInv'
  BY <1>1, ReceiveStep
<1>2. ASSUME NEW w \in Writers, ExactDuplicate(w) PROVE IInv'
  BY <1>2, ExactDuplicateStep
<1>3. ASSUME NEW w \in Writers, Apply(w) PROVE IInv'
  BY <1>3, ApplyStep
<1>4. ASSUME NEW w \in Writers, Copy(w) PROVE IInv'
  BY <1>4, CopyStep
<1>5. ASSUME NEW w \in Writers, Raise(w) PROVE IInv'
  BY <1>5, RaiseStep
<1>6. ASSUME NEW w \in Writers, Store(w) PROVE IInv'
  BY <1>6, StoreStep
<1>7. ASSUME NEW w \in Writers, Conflict(w) PROVE IInv'
  BY <1>7, ConflictStep
<1>8. ASSUME NEW w \in Writers, Reload(w) PROVE IInv'
  BY <1>8, ReloadStep
<1>9. CASE Reconcile
  BY <1>9, ReconcileStep
<1>10. CASE UNCHANGED vars
  <2>1. UNCHANGED <<history, view, zone, journal, event_ids, writer, now, dropped, applied>>
    BY <1>10 DEF vars, applied
  <2>2. TypeOK' /\ RetryInv' /\ WritersGetThrough'
    BY <2>1 DEF IInv, TypeOK, Request, Reducing, Storing, RetryInv, WritersGetThrough
  <2>3. \A w \in Writers : (CopyInv(w) => CopyInv(w)') /\ (StoreInv(w) => StoreInv(w)')
    BY <2>1 DEF CopyInv, Before, StoreInv, Forward
  <2>4. LockInv'
    BY <2>1, <2>3 DEF IInv, LockInv, Holds
  <2>5. JournalInv'
    BY <2>1 DEF IInv, JournalInv, LockFree
  <2> QED BY <2>2, <2>4, <2>5 DEF IInv
<1> QED BY <1>1, <1>2, <1>3, <1>4, <1>5, <1>6, <1>7, <1>8, <1>9, <1>10 DEF Next

\* The journal, the stored view and the copy in the lock agree in every state.
THEOREM Invariance == Spec => []IInv
<1>1. Init => IInv
  BY InitIInv
<1>2. IInv /\ [Next]_vars => IInv'
  BY IInvStep
<1> QED BY <1>1, <1>2, PTL DEF Spec

-----------------------------------------------------------------------------
\* The engine and its threads never leave their types.
THEOREM TypeCorrect == Spec => []TypeOK
<1>1. IInv => TypeOK
  BY DEF IInv
<1> QED BY <1>1, Invariance, PTL

\* VisibilityEngine._apply: an event is journalled once, however often the
\* transport repeats it, and the version never counts more than the journal holds.
THEOREM DuplicatesAbsorbed == Spec => []DuplicatesAreAbsorbed
<1>1. IInv => DuplicatesAreAbsorbed
  BY DEF IInv, JournalInv, DuplicatesAreAbsorbed
<1> QED BY <1>1, Invariance, PTL

\* apply_with_retry: a writer with as many retries as the job has other EDRs
\* never gives up with a VersionConflictError, whatever the others do.
THEOREM WritersAreNotStarved == Spec => []WritersGetThrough
<1>1. IInv => WritersGetThrough
  BY DEF IInv
<1> QED BY <1>1, Invariance, PTL

\* reduce_visibility and _jobs[job_id] = updated: the stored view is what the EDRs
\* whose reduction did not raise are reduced to, in the order of the journal, the
\* findings of EDRs with it.  Neither a thread nor a reconciliation beside a copy
\* undoes an EDR, and one that raises leaves nothing half done.
THEOREM ViewIsRebuilt == Spec => []ViewIsReplay
<1>1. IInv => ViewIsReplay
  <2> SUFFICES ASSUME IInv, LockFree
               PROVE  Projected(view) = Projected(Replayed(applied))
    BY DEF ViewIsReplay, Settled
  <2>1. view \in JobVisibility /\ journal \in Seq(Event)
    BY HistoryEvents DEF IInv, TypeOK
  <2>2. Replayed(applied) \in JobVisibility
    BY <2>1, WithoutIsKept, ReplayIsReplay DEF applied
  <2>3. Same(view, Replayed(applied)) /\ SameMarks(view, Replayed(applied))
    BY DEF IInv, JournalInv, Agrees
  <2> QED BY <2>1, <2>2, <2>3, ProjectedSame
<1> QED BY <1>1, Invariance, PTL

\* The journal holds an EDR that the view lacks only because a reduction raised: were
\* all times of one kind, and did no reconciliation add a finding beside a copy, then
\* rebuild would give back the stored view.
THEOREM OnlyRaisesDropEvents ==
    ASSUME Naive = {}, MaxRaises = 0
    PROVE  Spec => []NoEventIsDropped
<1> DEFINE NothingRaised == dropped = {} /\ zone \in {"none", "aware"}
<1>1. Init => NothingRaised
  BY DEF Init
<1>2. NothingRaised /\ [Next]_vars => NothingRaised'
  <2> SUFFICES ASSUME NothingRaised, [Next]_vars PROVE NothingRaised'
    OBVIOUS
  <2>1. ASSUME NEW w \in Writers, Raise(w) PROVE FALSE
    <3>1. Cardinality(dropped) = 0
      BY FS_EmptySet
    <3> QED BY <2>1, <3>1 DEF Raise, Comparable, Zone
  <2>2. ASSUME NEW w \in Writers, Store(w) PROVE NothingRaised'
    BY <2>2 DEF Store, Zone
  <2>3. ASSUME NEW w \in Writers, Receive(w) \/ ExactDuplicate(w) \/ Apply(w) \/ Copy(w)
                                  \/ Conflict(w) \/ Reload(w)
        PROVE  NothingRaised'
    BY <2>3 DEF Receive, ExactDuplicate, Apply, Copy, Conflict, Reload, stored
  <2>4. CASE Reconcile
    BY <2>4 DEF Reconcile
  <2>5. CASE UNCHANGED vars
    BY <2>5 DEF vars
  <2> QED BY <2>1, <2>2, <2>3, <2>4, <2>5 DEF Next
<1>3. IInv /\ NothingRaised /\ ViewIsReplay => NoEventIsDropped
  <2> SUFFICES ASSUME IInv, NothingRaised, ViewIsReplay PROVE NoEventIsDropped
    OBVIOUS
  <2>1. journal \in Seq(Event)
    BY HistoryEvents DEF IInv, TypeOK
  <2>2. applied = journal
    BY <2>1, WithoutNothing DEF applied
  <2> QED BY <2>2 DEF ViewIsReplay, NoEventIsDropped
<1> QED BY <1>1, <1>2, <1>3, Invariance, ViewIsRebuilt, PTL DEF Spec

\* _on_started: started_at is the earliest start applied, in whatever order
\* the starts of the attempts arrive.
THEOREM StartTimesAreExact == Spec => []StartTimeExact
<1>1. IInv => StartTimeExact
  <2> SUFFICES ASSUME IInv, LockFree PROVE StartTimeExact
    BY DEF StartTimeExact, Settled
  <2> DEFINE starts == {e.event_time : e \in Applied("JOB_EXECUTION_STARTED")}
  <2>1. StartAgrees(view, applied)
    BY DEF IInv, JournalInv, Agrees
  <2>2. \A t : t \in starts <=> \E i \in DOMAIN applied :
                                  /\ applied[i].type = "JOB_EXECUTION_STARTED"
                                  /\ t = applied[i].event_time
    BY DEF Applied, ToSet
  <2> HIDE DEF starts
  <2>3. starts = {} => view.started_at = None
    BY <2>1, <2>2 DEF StartAgrees
  <2>4. \A t \in starts : view.started_at # None /\ view.started_at <= t
    BY <2>1, <2>2 DEF StartAgrees
  <2>5. view.started_at # None => view.started_at \in starts
    BY <2>1, <2>2 DEF StartAgrees
  <2> QED BY <2>3, <2>4, <2>5 DEF StartTimeExact, starts
<1> QED BY <1>1, Invariance, PTL

\* _attempt and reconcile report an attempt gap exactly when the order of arrival
\* has one.
THEOREM GapsAreReported == Spec => []GapIsReported
<1>1. IInv => GapIsReported
  <2> SUFFICES ASSUME IInv, LockFree PROVE GapIsReported
    BY DEF GapIsReported, Settled
  <2>1. GapAgrees(view, applied)
    BY DEF IInv, JournalInv, Agrees
  <2>2. ASSUME NEW i \in DOMAIN applied
        PROVE  GapAt(applied, i) <=> \E m \in 1..(AttemptNumber(applied[i]) - 1) :
                                        OpensGap(applied, i, m)
    BY DEF GapAt, OpensGap, AttemptEvidence, EvidenceTypes
  <2> QED BY <2>1, <2>2 DEF GapAgrees, GapIsReported
<1> QED BY <1>1, Invariance, PTL

\* _on_succeeded: a success EDR makes the job SUCCEEDED unless another one says
\* that the job or the attempt ended otherwise.
THEOREM SuccessIsRecorded == Spec => []SuccessConverges
<1>1. IInv => SuccessConverges
  <2> SUFFICES ASSUME IInv, LockFree, NEW e \in Applied("JOB_EXECUTION_SUCCEEDED"),
                      view.recorded_status # "SUCCEEDED"
               PROVE  \E k \in DOMAIN applied : Otherwise(applied[k], AttemptNumber(e))
    BY DEF SuccessConverges, Settled, ToSet, Otherwise
  <2>1. PICK i \in DOMAIN applied : e = applied[i] /\ e.type = "JOB_EXECUTION_SUCCEEDED"
    BY DEF Applied, ToSet
  <2>2. OutcomeAgrees(view, applied)
    BY DEF IInv, JournalInv, Agrees
  <2> QED BY <2>1, <2>2 DEF OutcomeAgrees
<1> QED BY <1>1, Invariance, PTL

\* reconcile: an acknowledgement timeout stands only while a request arrived after
\* every acknowledgement.
THEOREM AckTimeoutsAreJustified == Spec => []AckTimeoutIsJustified
<1>1. IInv => AckTimeoutIsJustified
  BY DEF IInv, JournalInv, Agrees, AcksAgree, AckTimeoutIsJustified, Settled,
         SubmissionOpen,
         RetryOpen, Open, Unanswered
<1> QED BY <1>1, Invariance, PTL

\* No action moves recorded_status away from SUCCEEDED.
THEOREM SuccessIsFinal == Spec => SuccessIsAbsorbing
<1> DEFINE Absorbs == view.recorded_status = "SUCCEEDED" => view'.recorded_status = "SUCCEEDED"
<1>1. IInv /\ [Next]_vars => [Absorbs]_vars
  <2> SUFFICES ASSUME IInv, Next PROVE Absorbs
    OBVIOUS
  <2>1. ASSUME NEW w \in Writers, Store(w)
        PROVE  Absorbs
    BY <2>1 DEF IInv, LockInv, StoreInv, Forward, Store
  <2>2. CASE Reconcile
    <3>1. PICK time \in Clock, i \in DOMAIN ReconcileOrder :
             Due(time, i) /\ view' = Finding(view, ReconcileOrder[i])
      BY <2>2 DEF Reconcile
    <3>2. ReconcileOrder[i] \in FindingCode /\ view \in JobVisibility
      BY <3>1, ObservedCodes DEF Due, IInv, TypeOK
    <3>3. Same(view', view)
      BY <3>1, <3>2, MarkedFields
    <3> QED BY <3>3, SameFields
  <2>3. ASSUME NEW w \in Writers, Receive(w) \/ ExactDuplicate(w) \/ Apply(w) \/ Copy(w)
                                  \/ Raise(w) \/ Conflict(w) \/ Reload(w)
        PROVE  Absorbs
    BY <2>3 DEF Receive, ExactDuplicate, Apply, Copy, Raise, Conflict, Reload, stored
  <2> QED BY <2>1, <2>2, <2>3 DEF Next
<1> HIDE DEF Absorbs
<1>2. Spec => [][Absorbs]_vars
  BY <1>1, Invariance, PTL DEF Spec
<1> QED BY <1>2 DEF Absorbs, SuccessIsAbsorbing
=============================================================================

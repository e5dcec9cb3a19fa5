--------------------------- MODULE SchedulerProofs ---------------------------
(****************************************************************************)
(* What holds of the scheduler for any number of jobs and workers, any      *)
(* owner names, batch sizes, leases and retry policies; that it implements  *)
(* the job contract, which follows from what one step may do to one job     *)
(* row; and that the rows of a job in different tables, its outbox events   *)
(* among them, agree.                                                       *)
(****************************************************************************)
EXTENDS Scheduler, SequenceTheorems, WellFoundedInduction, TLAPS

\* A row of a table can be replaced in place.
LEMMA ReplaceRow ==
    ASSUME NEW S, NEW q \in Seq(S), NEW i \in 1..Len(q), NEW x \in S
    PROVE  /\ [q EXCEPT ![i] = x] \in Seq(S)
           /\ Len([q EXCEPT ![i] = x]) = Len(q)
  OBVIOUS

\* Every row of a table has the table's type.
LEMMA RowType ==
    ASSUME NEW S, NEW q \in Seq(S), NEW i \in 1..Len(q)
    PROVE  q[i] \in S
  OBVIOUS

\* Setting one column keeps the row a row.
LEMMA ColumnSet ==
    ASSUME NEW r \in JobRow
    PROVE  /\ \A x \in RowStatus : [r EXCEPT !.status = x] \in JobRow
           /\ \A x \in Submission : [r EXCEPT !.submission = x] \in JobRow
           /\ \A x \in Nat : [r EXCEPT !.attempt_number = x] \in JobRow
           /\ \A x \in Budgets : [r EXCEPT !.max_attempts = x] \in JobRow
           /\ \A x \in OwnerName \cup {Null} : [r EXCEPT !.claimed_by = x] \in JobRow
           /\ \A x \in Nat : [r EXCEPT !.claim_token = x] \in JobRow
           /\ \A x \in Int : [r EXCEPT !.available_in = x] \in JobRow
           /\ \A x \in Int : [r EXCEPT !.lease = x] \in JobRow
  BY DEF JobRow

\* What succeed, fail and recover_expired_claims leave of a row.
LEMMA ReleasedRow ==
    ASSUME NEW r \in JobRow, NEW st \in RowStatus, NEW t \in Int
    PROVE  /\ Released(r, st, t) \in JobRow
           /\ Released(r, st, t).status = st
           /\ Released(r, st, t).submission = r.submission
           /\ Released(r, st, t).attempt_number = r.attempt_number
           /\ Released(r, st, t).max_attempts = r.max_attempts
           /\ Released(r, st, t).claim_token = 0
  <1> DEFINE r1 == [r EXCEPT !.status = st]
             r2 == [r1 EXCEPT !.available_in = t]
             r3 == [r2 EXCEPT !.claimed_by = Null]
             r4 == [r3 EXCEPT !.claim_token = 0]
             r5 == [r4 EXCEPT !.lease = 0]
  <1>1. Released(r, st, t) = r5
    BY DEF Released, JobRow
  <1>2. /\ r5.status = st
        /\ r5.submission = r.submission
        /\ r5.attempt_number = r.attempt_number
        /\ r5.max_attempts = r.max_attempts
        /\ r5.claim_token = 0
    BY DEF JobRow
  <1>3. r5 \in JobRow
    <2>1. r1 \in JobRow
      BY ColumnSet
    <2>2. r2 \in JobRow
      BY <2>1, ColumnSet
    <2> HIDE DEF r2
    <2>3. r3 \in JobRow
      BY <2>2, ColumnSet
    <2> HIDE DEF r3
    <2>4. r4 \in JobRow
      BY <2>3, ColumnSet
    <2> HIDE DEF r4
    <2> QED
      BY <2>4, ColumnSet
  <1> QED
    BY <1>1, <1>2, <1>3

\* What recover_expired_claims leaves of a row.
LEMMA RecoveredRow ==
    ASSUME NEW r \in JobRow
    PROVE  /\ Recovered(r) \in JobRow
           /\ Recovered(r).status = IF r.attempt_number < r.max_attempts
                                    THEN "RETRY_WAIT" ELSE "RETRIES_EXHAUSTED"
           /\ Recovered(r).submission = r.submission
           /\ Recovered(r).attempt_number = r.attempt_number
           /\ Recovered(r).max_attempts = r.max_attempts
           /\ Recovered(r).claim_token = 0
  BY ReleasedRow DEF Recovered, RowStatus, Waiting, Terminal

\* What claim_due makes of a row.
LEMMA ClaimedRow ==
    ASSUME NEW r \in JobRow, NEW o \in OwnerName, NEW t \in Nat
    PROVE  /\ Claimed(r, o, t) \in JobRow
           /\ Claimed(r, o, t).status = "CLAIMED"
           /\ Claimed(r, o, t).submission = r.submission
           /\ Claimed(r, o, t).attempt_number = r.attempt_number + 1
           /\ Claimed(r, o, t).max_attempts = r.max_attempts
           /\ Claimed(r, o, t).claim_token = t
  <1> DEFINE r1 == [r EXCEPT !.status = "CLAIMED"]
             r2 == [r1 EXCEPT !.attempt_number = r.attempt_number + 1]
             r3 == [r2 EXCEPT !.claimed_by = o]
             r4 == [r3 EXCEPT !.claim_token = t]
             r5 == [r4 EXCEPT !.lease = ClaimLease]
  <1>1. Claimed(r, o, t) = r5
    BY DEF Claimed, JobRow
  <1>2. /\ r5.status = "CLAIMED"
        /\ r5.submission = r.submission
        /\ r5.attempt_number = r.attempt_number + 1
        /\ r5.max_attempts = r.max_attempts
        /\ r5.claim_token = t
    BY DEF JobRow
  <1>3. r5 \in JobRow
    <2>1. r1 \in JobRow
      BY ColumnSet DEF RowStatus, Held
    <2>2. r.attempt_number + 1 \in Nat
      BY DEF JobRow
    <2> HIDE DEF r1
    <2>3. r2 \in JobRow
      BY <2>1, <2>2, ColumnSet
    <2> HIDE DEF r2
    <2>4. r3 \in JobRow
      BY <2>3, ColumnSet
    <2> HIDE DEF r3
    <2>5. r4 \in JobRow
      BY <2>4, ColumnSet
    <2> HIDE DEF r4
    <2> QED
      BY <2>5, ColumnSet, TimingAssumption
  <1> QED
    BY <1>1, <1>2, <1>3

\* What the passing of time makes of a row.
LEMMA AgedRow ==
    ASSUME NEW r \in JobRow
    PROVE  /\ Aged(r) \in JobRow
           /\ Aged(r).status = r.status
           /\ Aged(r).submission = r.submission
           /\ Aged(r).attempt_number = r.attempt_number
           /\ Aged(r).max_attempts = r.max_attempts
           /\ Aged(r).claim_token = r.claim_token
  <1>1. \A t \in Int : Earlier(t) \in Int
    BY TimingAssumption DEF Earlier
  <1> DEFINE a == IF r.status = "ABSENT" THEN r.available_in ELSE Earlier(r.available_in)
             l == IF r.claim_token = 0 THEN r.lease ELSE Earlier(r.lease)
             q == [r EXCEPT !.available_in = a]
  <1>2. a \in Int /\ l \in Int
    BY <1>1 DEF JobRow
  <1>3. Aged(r) = [q EXCEPT !.lease = l]
    BY DEF Aged, JobRow
  <1> HIDE DEF a, l
  <1>4. q \in JobRow
    BY <1>2, ColumnSet
  <1>5. [q EXCEPT !.lease = l] \in JobRow
    BY <1>2, <1>4, ColumnSet
  <1> QED
    BY <1>3, <1>5 DEF JobRow

\* What submit inserts.
LEMMA NewRowType ==
    ASSUME NEW s \in Submission
    PROVE  /\ NewRow(s) \in JobRow
           /\ NewRow(s).status = "PENDING"
           /\ NewRow(s).submission = s
           /\ NewRow(s).attempt_number = 0
           /\ NewRow(s).max_attempts = s.max_attempts
           /\ NewRow(s).claim_token = 0
  <1> DEFINE r1 == [NoRow EXCEPT !.status = "PENDING"]
             r2 == [r1 EXCEPT !.submission = s]
             r3 == [r2 EXCEPT !.max_attempts = s.max_attempts]
             r4 == [r3 EXCEPT !.available_in = s.scheduled_in]
  <1>0. NoRow \in JobRow
    BY DEF NoRow, JobRow, RowStatus
  <1>1. r1 \in JobRow
    BY <1>0, ColumnSet DEF RowStatus, Waiting
  <1>2. r2 \in JobRow
    BY <1>1, ColumnSet
  <1>3. r3 \in JobRow
    BY <1>2, ColumnSet DEF Budgets
  <1>4. r4 \in JobRow
    BY <1>3, ColumnSet, SubmissionAssumption
  <1>5. NewRow(s) = r4
    BY DEF NewRow, NoRow
  <1>6. /\ NewRow(s).status = "PENDING"
        /\ NewRow(s).submission = s
        /\ NewRow(s).attempt_number = 0
        /\ NewRow(s).max_attempts = s.max_attempts
        /\ NewRow(s).claim_token = 0
    BY DEF NewRow, NoRow
  <1> QED
    BY <1>4, <1>5, <1>6

\* The events that one transaction writes are a sequence of events.
LEMMA EventTuples ==
    \A e, f, g \in OutboxEvent : /\ <<e, f, g>> \in Seq(OutboxEvent)
                           /\ <<e, f>> \in Seq(OutboxEvent)
                           /\ <<e>> \in Seq(OutboxEvent)
  OBVIOUS

\* fail leaves one of three statuses.
LEMMA FailureStatusType ==
    ASSUME NEW c, NEW retryable
    PROVE  FailureStatus(c, retryable) \in {"FAILED", "RETRY_WAIT", "RETRIES_EXHAUSTED"}
  BY DEF FailureStatus

\* A failure is followed by one to three events of its attempt.
LEMMA FailureEventsType ==
    ASSUME NEW c \in ClaimedJob, NEW retryable \in BOOLEAN
    PROVE  FailureEvents(c, retryable) \in Seq(OutboxEvent)
  <1> DEFINE n == c.attempt_number
  <1>1. n \in Nat
    BY DEF ClaimedJob
  <1>2. /\ Ev("JOB_EXECUTION_FAILED", n, retryable) \in OutboxEvent
        /\ Ev("JOB_RETRY_REQUESTED", n, TRUE) \in OutboxEvent
        /\ Ev("JOB_RETRY_ACKNOWLEDGED", n, TRUE) \in OutboxEvent
        /\ Ev("JOB_RETRIES_EXHAUSTED", n, FALSE) \in OutboxEvent
    BY <1>1 DEF Ev, OutboxEvent, OutboxType
  <1>3. FailureEvents(c, retryable) \in
            {<<Ev("JOB_EXECUTION_FAILED", n, retryable), Ev("JOB_RETRY_REQUESTED", n, TRUE),
               Ev("JOB_RETRY_ACKNOWLEDGED", n, TRUE)>>,
             <<Ev("JOB_EXECUTION_FAILED", n, retryable), Ev("JOB_RETRIES_EXHAUSTED", n, FALSE)>>,
             <<Ev("JOB_EXECUTION_FAILED", n, retryable)>>}
    BY FailureStatusType DEF FailureEvents
  <1> QED
    BY <1>2, <1>3, EventTuples

\* The retry delay is only asked for attempts the policy knows.
LEMMA RetryDelayType ==
    ASSUME NEW c \in ClaimedJob, NEW retryable \in BOOLEAN,
           FailureStatus(c, retryable) = "RETRY_WAIT"
    PROVE  RetryDelay(c.attempt_number) \in Nat
  <1>1. PICK s \in Submission : c.max_attempts = s.max_attempts
    BY DEF ClaimedJob, Budgets
  <1>2. c.attempt_number < c.max_attempts
    BY DEF FailureStatus
  <1>3. c.attempt_number \in 1..s.max_attempts
    BY <1>1, <1>2, SubmissionAssumption DEF ClaimedJob
  <1> QED
    BY <1>3, TimingAssumption

-----------------------------------------------------------------------------
(* The inductive invariant. *)

\* Writing events keeps the outbox an outbox.
LEMMA EmitType ==
    ASSUME TypeOK, NEW j \in Job, NEW events \in Seq(OutboxEvent), Emit(j, events)
    PROVE  outbox' \in [Job -> Seq(OutboxEvent)]
  <1>1. outbox[j] \o events \in Seq(OutboxEvent)
    BY DEF TypeOK
  <1> QED
    BY <1>1 DEF Emit, TypeOK

\* The invariant holds of the empty tables.
THEOREM InitIndInv == Init => IndInv
  <1> SUFFICES ASSUME Init PROVE IndInv
    OBVIOUS
  <1>1. NoRow \in JobRow
    BY DEF NoRow, JobRow, RowStatus
  <1>2. TypeOK
    BY <1>1, SizeAssumption DEF Init, TypeOK
  <1>3. RowInvariant
    BY DEF Init, RowInvariant, NoRow, Held
  <1>4. AttemptsWithinBudget
    BY DEF Init, AttemptsWithinBudget, NoRow, Waiting
  <1>5. ClaimInvariant
    BY DEF Init, ClaimInvariant, ClaimsOf
  <1> QED
    BY <1>2, <1>3, <1>4, <1>5 DEF IndInv

\* A step that takes no claim and leaves the attempt numbers alone keeps what
\* the claims in memory say of the rows.
LEMMA ClaimsShrink ==
    ASSUME IndInv,
           \A w \in Worker : ClaimsOf(w)' \subseteq ClaimsOf(w),
           \A w \in Worker : pc'[w] = "run" => current'[w] \in ClaimedJob,
           \A j \in Job : /\ jobs'[j].attempt_number = jobs[j].attempt_number
                          /\ jobs[j].status # "ABSENT" =>
                                jobs'[j].max_attempts = jobs[j].max_attempts
    PROVE  ClaimInvariant'
  <1>1. \A w \in Worker : \A c \in ClaimsOf(w) : c \in ClaimedJob
    BY DEF IndInv, TypeOK, ClaimInvariant, ClaimsOf
  <1>2. ASSUME NEW w \in Worker, NEW c \in ClaimsOf(w)'
        PROVE  /\ c.claim_token = c.attempt_number
               /\ c.attempt_number <= jobs'[c.job].attempt_number
               /\ c.max_attempts = jobs'[c.job].max_attempts
    <2>1. c \in ClaimsOf(w) /\ c \in ClaimedJob
      BY <1>1, <1>2
    <2>2. c.job \in Job /\ c.attempt_number \in Nat \ {0}
      BY <2>1 DEF ClaimedJob
    <2>3. /\ c.claim_token = c.attempt_number
          /\ c.attempt_number <= jobs[c.job].attempt_number
          /\ c.max_attempts = jobs[c.job].max_attempts
      BY <2>1 DEF IndInv, ClaimInvariant
    <2>4. jobs[c.job].status # "ABSENT"
      BY <2>2, <2>3 DEF IndInv, RowInvariant
    <2> QED
      BY <2>2, <2>3, <2>4
  <1>3. ASSUME NEW v \in Worker, NEW w \in Worker,
               NEW c \in ClaimsOf(v)', NEW d \in ClaimsOf(w)',
               c.job = d.job, c.attempt_number = d.attempt_number
        PROVE  v = w /\ c = d
    BY <1>3 DEF IndInv, ClaimInvariant
  <1> QED
    BY <1>2, <1>3 DEF ClaimInvariant

\* A step that leaves the tables alone, or only accepts a submission that is
\* already stored, keeps the row invariants.
LEMMA RowsUntouched ==
    ASSUME IndInv, UNCHANGED <<jobs, attempts, uuids, accepted>>
    PROVE  RowInvariant' /\ AttemptsWithinBudget'
  BY DEF IndInv, RowInvariant, AttemptsWithinBudget

\* SubmitNew keeps the invariant.
LEMMA SubmitNewIndInv ==
    ASSUME IndInv, NEW j \in Job, NEW s \in Submission, SubmitNew(j, s)
    PROVE  IndInv'
  <1> USE DEF IndInv
  <1>1. \A k \in Job : jobs'[k] = IF k = j THEN NewRow(s) ELSE jobs[k]
    BY DEF SubmitNew, TypeOK
  <1>2. /\ Ev("JOB_CREATED", 0, FALSE) \in OutboxEvent
        /\ Ev("JOB_SCHEDULER_SUBMISSION_REQUESTED", 0, FALSE) \in OutboxEvent
    BY DEF Ev, OutboxEvent, OutboxType
  <1>3. outbox' \in [Job -> Seq(OutboxEvent)]
    <2>1. <<Ev("JOB_CREATED", 0, FALSE),
            Ev("JOB_SCHEDULER_SUBMISSION_REQUESTED", 0, FALSE)>> \in Seq(OutboxEvent)
      BY <1>2, EventTuples
    <2> QED
      BY <2>1, EmitType DEF SubmitNew
  <1>4. accepted' \in [Job -> SUBSET Submission]
    <2>1. accepted[j] \cup {s} \in SUBSET Submission
      BY DEF TypeOK
    <2> QED
      BY <2>1 DEF SubmitNew, TypeOK
  <1>5. faults' \in 0..MaxFaults
    BY SizeAssumption DEF SubmitNew, TypeOK
  <1>6. TypeOK'
    BY <1>3, <1>4, <1>5, NewRowType DEF SubmitNew, TypeOK, workerVars
  <1>7. jobs[j].attempt_number = 0 /\ jobs[j].status = "ABSENT"
    BY DEF SubmitNew, RowInvariant
  <1>8. RowInvariant'
    <2> SUFFICES ASSUME NEW k \in Job PROVE RowInvariant!(k)'
      BY DEF RowInvariant
    <2>1. CASE k = j
      BY <2>1, <1>1, <1>7, NewRowType DEF SubmitNew, RowInvariant, Held, Budgets
    <2>2. CASE k # j
      BY <2>2, <1>1 DEF SubmitNew, RowInvariant, TypeOK
    <2> QED
      BY <2>1, <2>2
  <1>9. AttemptsWithinBudget'
    BY <1>1, NewRowType, SubmissionAssumption DEF AttemptsWithinBudget
  <1>10. ClaimInvariant'
    <2>1. \A w \in Worker : ClaimsOf(w)' = ClaimsOf(w)
      BY DEF SubmitNew, workerVars, ClaimsOf
    <2>2. \A w \in Worker : pc'[w] = "run" => current'[w] \in ClaimedJob
      BY DEF SubmitNew, workerVars, ClaimInvariant
    <2>3. \A k \in Job : /\ jobs'[k].attempt_number = jobs[k].attempt_number
                         /\ jobs[k].status # "ABSENT" =>
                               jobs'[k].max_attempts = jobs[k].max_attempts
      BY <1>1, <1>7, NewRowType
    <2> QED
      BY <2>1, <2>2, <2>3, ClaimsShrink
  <1> QED
    BY <1>6, <1>8, <1>9, <1>10

\* SubmitExisting keeps the invariant.
LEMMA SubmitExistingIndInv ==
    ASSUME IndInv, NEW j \in Job, NEW s \in Submission, SubmitExisting(j, s)
    PROVE  IndInv'
  <1> USE DEF IndInv
  <1>1. accepted[j] \cup {s} \in SUBSET Submission
    BY DEF TypeOK
  <1>2. accepted' \in [Job -> SUBSET Submission]
    BY <1>1 DEF SubmitExisting, TypeOK
  <1>3. TypeOK'
    BY <1>2 DEF SubmitExisting, TypeOK, workerVars
  <1>4. RowInvariant'
    BY DEF SubmitExisting, RowInvariant, TypeOK
  <1>5. AttemptsWithinBudget'
    BY DEF SubmitExisting, AttemptsWithinBudget
  <1>6. ClaimInvariant'
    BY DEF SubmitExisting, ClaimInvariant, ClaimsOf, workerVars
  <1> QED
    BY <1>3, <1>4, <1>5, <1>6

\* Exit keeps the invariant.
LEMMA ExitIndInv ==
    ASSUME IndInv, NEW w \in Worker, Exit(w)
    PROVE  IndInv'
  <1> USE DEF IndInv
  <1>1. TypeOK'
    BY DEF Exit, TypeOK
  <1>2. RowInvariant' /\ AttemptsWithinBudget'
    BY RowsUntouched DEF Exit
  <1>3. ClaimInvariant'
    <2>1. \A v \in Worker : ClaimsOf(v)' \subseteq ClaimsOf(v)
      BY DEF Exit, ClaimsOf, TypeOK
    <2>2. \A v \in Worker : pc'[v] = "run" => current'[v] \in ClaimedJob
      BY DEF Exit, ClaimInvariant, TypeOK
    <2> QED
      BY <2>1, <2>2, ClaimsShrink DEF Exit
  <1> QED
    BY <1>1, <1>2, <1>3

\* Break keeps the invariant.
LEMMA BreakIndInv ==
    ASSUME IndInv, NEW w \in Worker, Break(w)
    PROVE  IndInv'
  <1> USE DEF IndInv
  <1>1. TypeOK'
    BY DEF Break, TypeOK
  <1>2. RowInvariant' /\ AttemptsWithinBudget'
    BY RowsUntouched DEF Break
  <1>3. ClaimInvariant'
    <2>1. \A v \in Worker : ClaimsOf(v)' \subseteq ClaimsOf(v)
      BY DEF Break, ClaimsOf, TypeOK
    <2>2. \A v \in Worker : pc'[v] = "run" => current'[v] \in ClaimedJob
      BY DEF Break, ClaimInvariant, TypeOK
    <2> QED
      BY <2>1, <2>2, ClaimsShrink DEF Break
  <1> QED
    BY <1>1, <1>2, <1>3

\* Die keeps the invariant.
LEMMA DieIndInv ==
    ASSUME IndInv, NEW w \in Worker, Die(w), faults' \in 0..MaxFaults
    PROVE  IndInv'
  <1> USE DEF IndInv
  <1>1. TypeOK'
    BY DEF Die, TypeOK
  <1>2. RowInvariant' /\ AttemptsWithinBudget'
    BY RowsUntouched DEF Die
  <1>3. ClaimInvariant'
    <2>1. \A v \in Worker : ClaimsOf(v)' \subseteq ClaimsOf(v)
      BY DEF Die, ClaimsOf, TypeOK
    <2>2. \A v \in Worker : pc'[v] = "run" => current'[v] \in ClaimedJob
      BY DEF Die, ClaimInvariant, TypeOK
    <2> QED
      BY <2>1, <2>2, ClaimsShrink DEF Die
  <1> QED
    BY <1>1, <1>2, <1>3

\* StopRestart keeps the invariant.
LEMMA StopRestartIndInv ==
    ASSUME IndInv, NEW w \in Worker, Stop(w) \/ Restart(w)
    PROVE  IndInv'
  <1> USE DEF IndInv
  <1>1. TypeOK'
    <2>1. CASE Stop(w)
      <3>1. faults' \in 0..MaxFaults
        BY <2>1, SizeAssumption DEF Stop, TypeOK
      <3> QED
        BY <2>1, <3>1 DEF Stop, TypeOK
    <2>2. CASE Restart(w)
      BY <2>2 DEF Restart, TypeOK
    <2> QED
      BY <2>1, <2>2
  <1>2. RowInvariant' /\ AttemptsWithinBudget'
    BY RowsUntouched DEF Stop, Restart
  <1>3. ClaimInvariant'
    <2>1. \A v \in Worker : ClaimsOf(v)' \subseteq ClaimsOf(v)
      BY DEF Stop, Restart, ClaimsOf, TypeOK
    <2>2. \A v \in Worker : pc'[v] = "run" => current'[v] \in ClaimedJob
      BY DEF Stop, Restart, ClaimInvariant, TypeOK
    <2> QED
      BY <2>1, <2>2, ClaimsShrink DEF Stop, Restart
  <1> QED
    BY <1>1, <1>2, <1>3

\* A step that takes no claim and changes rows, keeping what the attempt
\* numbers, budgets and tables say of each other, keeps the invariant.
LEMMA RowsRewritten ==
    ASSUME IndInv, TypeOK',
           \A w \in Worker : ClaimsOf(w)' \subseteq ClaimsOf(w),
           \A w \in Worker : pc'[w] = "run" => current'[w] \in ClaimedJob,
           UNCHANGED <<uuids, accepted>>,
           \A j \in Job :
              /\ Len(attempts'[j]) = Len(attempts[j])
              /\ jobs'[j].attempt_number = jobs[j].attempt_number
              /\ jobs'[j].max_attempts = jobs[j].max_attempts
              /\ jobs'[j].status = "ABSENT" <=> jobs[j].status = "ABSENT"
              /\ jobs'[j].status \in Held => jobs[j].status \in Held
              /\ jobs'[j].claim_token =
                    IF jobs'[j].status \in Held THEN jobs[j].claim_token ELSE 0
              /\ jobs'[j].status \in Waiting =>
                    jobs[j].status \in Waiting \/ jobs[j].attempt_number < jobs[j].max_attempts
    PROVE  IndInv'
  <1>1. RowInvariant'
    BY DEF IndInv, RowInvariant
  <1>2. AttemptsWithinBudget'
    BY DEF IndInv, AttemptsWithinBudget
  <1>3. ClaimInvariant'
    BY ClaimsShrink
  <1> QED
    BY <1>1, <1>2, <1>3 DEF IndInv

\* RecoverExpired keeps the invariant.
LEMMA RecoverExpiredIndInv ==
    ASSUME IndInv, NEW w \in Worker, RecoverExpired(w)
    PROVE  IndInv'
  <1> USE DEF IndInv
  <1>1. PICK B \in RecoveryBatches :
           jobs' = [j \in Job |-> IF j \in B THEN Recovered(jobs[j]) ELSE jobs[j]]
    BY DEF RecoverExpired
  <1>2. \A j \in B : j \in Job /\ jobs[j].status \in Held
    BY DEF RecoveryBatches, Expired
  <1>3. TypeOK'
    <2>1. jobs' \in [Job -> JobRow]
      BY <1>1, RecoveredRow DEF TypeOK
    <2> QED
      BY <2>1 DEF RecoverExpired, TypeOK
  <1>4. \A v \in Worker : ClaimsOf(v)' \subseteq ClaimsOf(v)
    BY DEF RecoverExpired, ClaimsOf, TypeOK
  <1>5. \A v \in Worker : pc'[v] = "run" => current'[v] \in ClaimedJob
    BY DEF RecoverExpired, ClaimInvariant, TypeOK
  <1>6. ASSUME NEW j \in Job
        PROVE  /\ Len(attempts'[j]) = Len(attempts[j])
               /\ jobs'[j].attempt_number = jobs[j].attempt_number
               /\ jobs'[j].max_attempts = jobs[j].max_attempts
               /\ jobs'[j].status = "ABSENT" <=> jobs[j].status = "ABSENT"
               /\ jobs'[j].status \in Held => jobs[j].status \in Held
               /\ jobs'[j].claim_token =
                     IF jobs'[j].status \in Held THEN jobs[j].claim_token ELSE 0
               /\ jobs'[j].status \in Waiting =>
                     jobs[j].status \in Waiting \/ jobs[j].attempt_number < jobs[j].max_attempts
    <2>1. jobs[j] \in JobRow
      BY DEF TypeOK
    <2>2. CASE j \in B
      <3>1. jobs'[j] = Recovered(jobs[j])
        BY <1>1, <2>2
      <3> QED
        BY <1>2, <2>1, <2>2, <3>1, RecoveredRow DEF RecoverExpired, Held, Waiting
    <2>3. CASE j \notin B
      BY <1>1, <2>3 DEF RecoverExpired, RowInvariant
    <2> QED
      BY <2>2, <2>3
  <1> QED
    BY <1>3, <1>4, <1>5, <1>6, RowsRewritten DEF RecoverExpired

\* Tick keeps the invariant.
LEMMA TickIndInv ==
    ASSUME IndInv, Tick
    PROVE  IndInv'
  <1> USE DEF IndInv
  <1>1. \A j \in Job : jobs[j] \in JobRow /\ jobs'[j] = Aged(jobs[j])
    BY DEF Tick, TypeOK
  <1>2. TypeOK'
    <2>1. jobs' \in [Job -> JobRow]
      BY <1>1, AgedRow DEF Tick
    <2> QED
      BY <2>1 DEF Tick, TypeOK, workerVars
  <1>3. \A v \in Worker : ClaimsOf(v)' \subseteq ClaimsOf(v)
    BY DEF Tick, ClaimsOf, workerVars
  <1>4. \A v \in Worker : pc'[v] = "run" => current'[v] \in ClaimedJob
    BY DEF Tick, ClaimInvariant, workerVars
  <1>5. \A j \in Job : /\ jobs'[j].status = jobs[j].status
                       /\ jobs'[j].attempt_number = jobs[j].attempt_number
                       /\ jobs'[j].max_attempts = jobs[j].max_attempts
                       /\ jobs'[j].claim_token = jobs[j].claim_token
    BY <1>1, AgedRow
  <1>6. \A j \in Job : jobs[j].claim_token =
                           IF jobs[j].status \in Held THEN jobs[j].claim_token ELSE 0
    BY DEF RowInvariant
  <1> QED
    BY <1>2, <1>3, <1>4, <1>5, <1>6, RowsRewritten DEF Tick

\* A claim that passes the fence is of a held row, at its last attempt.
LEMMA FencedHeld ==
    ASSUME IndInv, NEW c \in ClaimedJob, Fenced(c)
    PROVE  /\ c.job \in Job
           /\ jobs[c.job] \in JobRow
           /\ jobs[c.job].status \in Held
           /\ c.attempt_number = jobs[c.job].attempt_number
           /\ attempts[c.job] \in Seq(AttemptRow)
           /\ c.attempt_number \in 1..Len(attempts[c.job])
           /\ attempts[c.job][c.attempt_number] \in AttemptRow
  <1>1. c.job \in Job /\ c.claim_token \in Nat \ {0} /\ c.attempt_number \in Nat \ {0}
    BY DEF ClaimedJob
  <1>2. jobs[c.job] \in JobRow /\ attempts[c.job] \in Seq(AttemptRow)
    BY <1>1 DEF IndInv, TypeOK
  <1>3. jobs[c.job].status \in Held
    BY <1>1 DEF Fenced, IndInv, RowInvariant
  <1>4. c.attempt_number \in 1..Len(attempts[c.job])
    BY <1>1, <1>2 DEF Fenced, IndInv, RowInvariant
  <1>5. attempts[c.job][c.attempt_number] \in AttemptRow
    BY <1>2, <1>4, RowType
  <1> QED
    BY <1>1, <1>2, <1>3, <1>4, <1>5 DEF Fenced

\* Rewriting one attempt row keeps the attempts table's type and sizes.
LEMMA AttemptRewritten ==
    ASSUME IndInv, NEW c \in ClaimedJob, Fenced(c), NEW row \in AttemptRow,
           attempts' = [attempts EXCEPT ![c.job] =
                           [attempts[c.job] EXCEPT ![c.attempt_number] = row]]
    PROVE  /\ attempts' \in [Job -> Seq(AttemptRow)]
           /\ \A j \in Job : Len(attempts'[j]) = Len(attempts[j])
  <1> DEFINE q == [attempts[c.job] EXCEPT ![c.attempt_number] = row]
  <1>1. q \in Seq(AttemptRow) /\ Len(q) = Len(attempts[c.job])
    BY FencedHeld, ReplaceRow
  <1>2. attempts' = [attempts EXCEPT ![c.job] = q]
    OBVIOUS
  <1> HIDE DEF q
  <1> QED
    BY <1>1, <1>2 DEF IndInv, TypeOK

\* Start keeps the invariant.
LEMMA StartIndInv ==
    ASSUME IndInv, NEW w \in Worker, NEW c \in claimed[w], Start(w, c)
    PROVE  IndInv'
  <1> USE DEF IndInv
  <1>1. c \in ClaimedJob /\ Fenced(c)
    BY DEF Start, TypeOK
  <1>2. jobs' = [jobs EXCEPT ![c.job] = [jobs[c.job] EXCEPT !.status = "RUNNING"]]
    BY DEF Start
  <1>3. jobs' \in [Job -> JobRow]
    <2>1. [jobs[c.job] EXCEPT !.status = "RUNNING"] \in JobRow
      BY <1>1, FencedHeld, ColumnSet DEF RowStatus, Held
    <2> QED
      BY <1>2, <2>1 DEF TypeOK
  <1>4. /\ attempts' \in [Job -> Seq(AttemptRow)]
        /\ \A j \in Job : Len(attempts'[j]) = Len(attempts[j])
    <2> DEFINE row == [attempts[c.job][c.attempt_number] EXCEPT !.started = TRUE]
    <2>1. row \in AttemptRow
      BY <1>1, FencedHeld DEF AttemptRow
    <2>2. attempts' = [attempts EXCEPT ![c.job] =
                          [attempts[c.job] EXCEPT ![c.attempt_number] = row]]
      BY DEF Start
    <2> QED
      BY <1>1, <2>1, <2>2, AttemptRewritten
  <1>5. outbox' \in [Job -> Seq(OutboxEvent)]
    <2>1. Ev("JOB_EXECUTION_STARTED", c.attempt_number, FALSE) \in OutboxEvent
      BY <1>1 DEF Ev, OutboxEvent, OutboxType, ClaimedJob
    <2> QED
      BY <1>1, <2>1, EventTuples, EmitType, FencedHeld DEF Start
  <1>6. TypeOK'
    BY <1>1, <1>3, <1>4, <1>5 DEF Start, TypeOK
  <1>7. \A v \in Worker : ClaimsOf(v)' \subseteq ClaimsOf(v)
    BY DEF Start, ClaimsOf, TypeOK
  <1>8. \A v \in Worker : pc'[v] = "run" => current'[v] \in ClaimedJob
    BY <1>1 DEF Start, ClaimInvariant, TypeOK
  <1>9. ASSUME NEW j \in Job
        PROVE  /\ jobs'[j].attempt_number = jobs[j].attempt_number
               /\ jobs'[j].max_attempts = jobs[j].max_attempts
               /\ jobs'[j].status = "ABSENT" <=> jobs[j].status = "ABSENT"
               /\ jobs'[j].status \in Held => jobs[j].status \in Held
               /\ jobs'[j].claim_token =
                     IF jobs'[j].status \in Held THEN jobs[j].claim_token ELSE 0
               /\ jobs'[j].status \in Waiting =>
                     jobs[j].status \in Waiting \/ jobs[j].attempt_number < jobs[j].max_attempts
    <2>1. CASE j = c.job
      BY <1>1, <1>2, <2>1, FencedHeld DEF Held, Waiting, JobRow, TypeOK
    <2>2. CASE j # c.job
      BY <1>2, <2>2 DEF RowInvariant, TypeOK
    <2> QED
      BY <2>1, <2>2
  <1> QED
    BY <1>4, <1>6, <1>7, <1>8, <1>9, RowsRewritten DEF Start

\* What a step leaves when it commits the outcome of the attempt a worker runs.
LEMMA OutcomeIndInv ==
    ASSUME IndInv, NEW w \in Worker, pc[w] = "run", Fenced(current[w]),
           NEW st \in RowStatus \ (Held \cup {"ABSENT"}), NEW t \in Int,
           st \in Waiting => current[w].attempt_number < current[w].max_attempts,
           NEW row \in AttemptRow, NEW events \in Seq(OutboxEvent),
           jobs' = [jobs EXCEPT ![current[w].job] = Released(jobs[current[w].job], st, t)],
           attempts' = [attempts EXCEPT ![current[w].job] =
                           [attempts[current[w].job] EXCEPT ![current[w].attempt_number] = row]],
           Emit(current[w].job, events),
           Finish(w)
    PROVE  IndInv'
  <1> DEFINE c == current[w]
  <1> USE DEF IndInv
  <1>1. c \in ClaimedJob /\ c \in ClaimsOf(w)
    BY DEF ClaimInvariant, ClaimsOf
  <1>2. /\ c.job \in Job
        /\ jobs[c.job] \in JobRow
        /\ jobs[c.job].status \in Held
        /\ c.attempt_number = jobs[c.job].attempt_number
        /\ c.max_attempts = jobs[c.job].max_attempts
    BY <1>1, FencedHeld DEF ClaimInvariant
  <1>3. jobs' \in [Job -> JobRow]
    BY <1>2, ReleasedRow DEF TypeOK
  <1>4. /\ attempts' \in [Job -> Seq(AttemptRow)]
        /\ \A j \in Job : Len(attempts'[j]) = Len(attempts[j])
    BY <1>1, AttemptRewritten
  <1>5. outbox' \in [Job -> Seq(OutboxEvent)]
    BY <1>2, EmitType
  <1>6. TypeOK'
    BY <1>3, <1>4, <1>5 DEF Finish, TypeOK
  <1>7. \A v \in Worker : ClaimsOf(v)' \subseteq ClaimsOf(v)
    BY DEF Finish, ClaimsOf, TypeOK
  <1>8. \A v \in Worker : pc'[v] = "run" => current'[v] \in ClaimedJob
    BY DEF Finish, ClaimInvariant, TypeOK
  <1>9. ASSUME NEW j \in Job
        PROVE  /\ jobs'[j].attempt_number = jobs[j].attempt_number
               /\ jobs'[j].max_attempts = jobs[j].max_attempts
               /\ jobs'[j].status = "ABSENT" <=> jobs[j].status = "ABSENT"
               /\ jobs'[j].status \in Held => jobs[j].status \in Held
               /\ jobs'[j].claim_token =
                     IF jobs'[j].status \in Held THEN jobs[j].claim_token ELSE 0
               /\ jobs'[j].status \in Waiting =>
                     jobs[j].status \in Waiting \/ jobs[j].attempt_number < jobs[j].max_attempts
    <2>1. CASE j = c.job
      <3>1. jobs'[j] = Released(jobs[j], st, t)
        BY <2>1 DEF TypeOK
      <3> QED
        BY <1>2, <2>1, <3>1, ReleasedRow DEF Held
    <2>2. CASE j # c.job
      BY <2>2 DEF RowInvariant, TypeOK
    <2> QED
      BY <2>1, <2>2
  <1> QED
    BY <1>4, <1>6, <1>7, <1>8, <1>9, RowsRewritten DEF Finish

\* Succeed keeps the invariant.
LEMMA SucceedIndInv ==
    ASSUME IndInv, NEW w \in Worker, Succeed(w)
    PROVE  IndInv'
  <1> DEFINE c == current[w]
             row == [attempts[c.job][c.attempt_number] EXCEPT !.outcome = "SUCCEEDED"]
             events == <<Ev("JOB_EXECUTION_SUCCEEDED", c.attempt_number, FALSE)>>
  <1>1. pc[w] = "run" /\ Fenced(c) /\ c \in ClaimedJob
    BY DEF Succeed, IndInv, ClaimInvariant
  <1>2. row \in AttemptRow
    BY <1>1, FencedHeld DEF AttemptRow
  <1>3. events \in Seq(OutboxEvent)
    <2>1. Ev("JOB_EXECUTION_SUCCEEDED", c.attempt_number, FALSE) \in OutboxEvent
      BY <1>1 DEF Ev, OutboxEvent, OutboxType, ClaimedJob
    <2> QED
      BY <2>1, EventTuples
  <1>4. jobs[c.job].available_in \in Int
    BY <1>1, FencedHeld DEF JobRow
  <1>5. "SUCCEEDED" \in RowStatus \ (Held \cup {"ABSENT"}) /\ "SUCCEEDED" \notin Waiting
    BY DEF RowStatus, Held, Terminal, Waiting
  <1>6. jobs' = [jobs EXCEPT ![c.job] =
                    Released(jobs[c.job], "SUCCEEDED", jobs[c.job].available_in)]
    BY DEF Succeed
  <1>7. attempts' = [attempts EXCEPT ![c.job] =
                        [attempts[c.job] EXCEPT ![c.attempt_number] = row]]
    BY DEF Succeed
  <1>8. Emit(c.job, events) /\ Finish(w)
    BY DEF Succeed
  <1> HIDE DEF row, events
  <1> QED
    BY <1>1, <1>2, <1>3, <1>4, <1>5, <1>6, <1>7, <1>8, OutcomeIndInv

\* Fail keeps the invariant.
LEMMA FailIndInv ==
    ASSUME IndInv, NEW w \in Worker, NEW retryable \in BOOLEAN, Fail(w, retryable)
    PROVE  IndInv'
  <1> DEFINE c == current[w]
             st == FailureStatus(c, retryable)
             t == IF st = "RETRY_WAIT" THEN RetryDelay(c.attempt_number) ELSE 0
             row == [attempts[c.job][c.attempt_number] EXCEPT !.outcome = "FAILED",
                                                              !.retryable = retryable]
  <1>1. pc[w] = "run" /\ Fenced(c) /\ c \in ClaimedJob
    BY DEF Fail, IndInv, ClaimInvariant
  <1>2. row \in AttemptRow
    BY <1>1, FencedHeld DEF AttemptRow
  <1>3. FailureEvents(c, retryable) \in Seq(OutboxEvent)
    BY <1>1, FailureEventsType
  <1>4. t \in Int
    BY <1>1, RetryDelayType
  <1>5. /\ st \in RowStatus \ (Held \cup {"ABSENT"})
        /\ st \in Waiting => c.attempt_number < c.max_attempts
    BY DEF FailureStatus, RowStatus, Held, Terminal, Waiting
  <1>6. jobs' = [jobs EXCEPT ![c.job] = Released(jobs[c.job], st, t)]
    BY DEF Fail
  <1>7. attempts' = [attempts EXCEPT ![c.job] =
                        [attempts[c.job] EXCEPT ![c.attempt_number] = row]]
    <2>1. attempts' = [attempts EXCEPT
             ![c.job][c.attempt_number].outcome = "FAILED",
             ![c.job][c.attempt_number].retryable = retryable]
      BY DEF Fail
    <2>2. /\ attempts \in [Job -> Seq(AttemptRow)]
          /\ c.job \in Job
          /\ c.attempt_number \in 1..Len(attempts[c.job])
          /\ attempts[c.job] \in Seq(AttemptRow)
          /\ attempts[c.job][c.attempt_number] \in AttemptRow
      BY <1>1, FencedHeld DEF IndInv, TypeOK
    <2> QED
      BY <2>1, <2>2 DEF AttemptRow
  <1>8. Emit(c.job, FailureEvents(c, retryable)) /\ Finish(w)
    BY DEF Fail
  <1> HIDE DEF row, st, t
  <1> QED
    BY <1>1, <1>2, <1>3, <1>4, <1>5, <1>6, <1>7, <1>8, OutcomeIndInv

\* Heartbeat keeps the invariant.
LEMMA HeartbeatIndInv ==
    ASSUME IndInv, NEW w \in Worker, Heartbeat(w)
    PROVE  IndInv'
  <1> DEFINE c == current[w]
  <1> USE DEF IndInv
  <1>1. Fenced(c) /\ c \in ClaimedJob
    BY DEF Heartbeat, ClaimInvariant
  <1>2. jobs' = [jobs EXCEPT ![c.job] = [jobs[c.job] EXCEPT !.lease = ClaimLease]]
    BY DEF Heartbeat
  <1>3. jobs' \in [Job -> JobRow]
    <2>1. [jobs[c.job] EXCEPT !.lease = ClaimLease] \in JobRow
      BY <1>1, FencedHeld, ColumnSet, TimingAssumption
    <2> QED
      BY <1>2, <2>1 DEF TypeOK
  <1>4. TypeOK'
    BY <1>3 DEF Heartbeat, TypeOK, workerVars
  <1>5. \A v \in Worker : ClaimsOf(v)' \subseteq ClaimsOf(v)
    BY DEF Heartbeat, ClaimsOf, workerVars
  <1>6. \A v \in Worker : pc'[v] = "run" => current'[v] \in ClaimedJob
    BY DEF Heartbeat, ClaimInvariant, workerVars
  <1>7. \A j \in Job : /\ jobs'[j].status = jobs[j].status
                       /\ jobs'[j].attempt_number = jobs[j].attempt_number
                       /\ jobs'[j].max_attempts = jobs[j].max_attempts
                       /\ jobs'[j].claim_token = jobs[j].claim_token
    <2> SUFFICES ASSUME NEW j \in Job
                 PROVE  /\ jobs'[j].status = jobs[j].status
                        /\ jobs'[j].attempt_number = jobs[j].attempt_number
                        /\ jobs'[j].max_attempts = jobs[j].max_attempts
                        /\ jobs'[j].claim_token = jobs[j].claim_token
      OBVIOUS
    <2>1. jobs[j] \in JobRow
      BY DEF TypeOK
    <2>2. jobs'[j] = jobs[j] \/ jobs'[j] = [jobs[j] EXCEPT !.lease = ClaimLease]
      BY <1>2 DEF TypeOK
    <2> HIDE DEF IndInv
    <2> QED
      BY <2>1, <2>2 DEF JobRow
  <1>8. \A j \in Job : jobs[j].claim_token =
                           IF jobs[j].status \in Held THEN jobs[j].claim_token ELSE 0
    BY DEF RowInvariant
  <1>9. UNCHANGED <<uuids, accepted, attempts>>
    BY DEF Heartbeat
  <1>10. \A j \in Job :
            /\ Len(attempts'[j]) = Len(attempts[j])
            /\ jobs'[j].attempt_number = jobs[j].attempt_number
            /\ jobs'[j].max_attempts = jobs[j].max_attempts
            /\ jobs'[j].status = "ABSENT" <=> jobs[j].status = "ABSENT"
            /\ jobs'[j].status \in Held => jobs[j].status \in Held
            /\ jobs'[j].claim_token =
                  IF jobs'[j].status \in Held THEN jobs[j].claim_token ELSE 0
            /\ jobs'[j].status \in Waiting =>
                  jobs[j].status \in Waiting \/ jobs[j].attempt_number < jobs[j].max_attempts
    BY <1>7, <1>8, <1>9
  <1> HIDE DEF IndInv
  <1> QED
    BY <1>4, <1>5, <1>6, <1>9, <1>10, RowsRewritten

\* ClaimDue keeps the invariant.
LEMMA ClaimDueIndInv ==
    ASSUME IndInv, NEW w \in Worker, ClaimDue(w)
    PROVE  IndInv'
  <1> DEFINE B == ClaimBatch
             n(j) == jobs[j].attempt_number + 1
  <1> USE DEF IndInv
  <1>1. \A j \in B : /\ j \in Job
                     /\ jobs[j].status \in Waiting
                     /\ jobs[j].attempt_number < jobs[j].max_attempts
                     /\ jobs[j].max_attempts \in Budgets
    BY DEF ClaimBatch, Due, AttemptsWithinBudget, RowInvariant, Waiting
  <1>2. Owner[w] \in OwnerName
    BY DEF OwnerName
  <1>3. /\ \A j \in Job : jobs[j] \in JobRow /\ uuids[j] + 1 \in Nat /\ uuids[j] + 1 # 0
        /\ \A j \in Job : jobs'[j] = IF j \in B THEN Claimed(jobs[j], Owner[w], uuids[j] + 1)
                                                  ELSE jobs[j]
    BY DEF ClaimDue, TypeOK
  <1>4. \A j \in B : ClaimOf(j, w) \in ClaimedJob
    <2> SUFFICES ASSUME NEW j \in B PROVE ClaimOf(j, w) \in ClaimedJob
      OBVIOUS
    <2>1. jobs[j].attempt_number + 1 \in Nat \ {0}
      BY <1>1, <1>3 DEF JobRow
    <2> QED
      BY <1>1, <1>2, <1>3, <2>1 DEF ClaimOf, ClaimedJob
  <1>5. TypeOK'
    <2>1. jobs' \in [Job -> JobRow]
      BY <1>2, <1>3, ClaimedRow DEF ClaimDue
    <2>2. attempts' \in [Job -> Seq(AttemptRow)]
      <3>1. NewAttempt \in AttemptRow
        BY DEF NewAttempt, AttemptRow
      <3>2. \A q \in Seq(AttemptRow) : Append(q, NewAttempt) \in Seq(AttemptRow)
        BY <3>1
      <3> QED
        BY <3>2 DEF ClaimDue, TypeOK
    <2>3. outbox' \in [Job -> Seq(OutboxEvent)]
      <3>1. \A j \in Job : Ev("JOB_SCHEDULER_ITEM_RETRIEVED", n(j), FALSE) \in OutboxEvent
        BY <1>3 DEF Ev, OutboxEvent, OutboxType, JobRow
      <3>2. \A q \in Seq(OutboxEvent), e \in OutboxEvent : Append(q, e) \in Seq(OutboxEvent)
        OBVIOUS
      <3> QED
        BY <3>1, <3>2 DEF ClaimDue, TypeOK
    <2>4. uuids' \in [Job -> Nat]
      BY DEF ClaimDue, TypeOK
    <2>5. claimed' \in [Worker -> SUBSET ClaimedJob]
      BY <1>4 DEF ClaimDue, TypeOK
    <2> QED
      BY <2>1, <2>2, <2>3, <2>4, <2>5 DEF ClaimDue, TypeOK
  <1>6. ASSUME NEW j \in Job, j \in B
        PROVE  /\ jobs'[j].status = "CLAIMED"
               /\ jobs'[j].attempt_number = jobs[j].attempt_number + 1
               /\ jobs'[j].max_attempts = jobs[j].max_attempts
               /\ jobs'[j].claim_token = uuids[j] + 1
    <2>1. jobs'[j] = Claimed(jobs[j], Owner[w], uuids[j] + 1)
      BY <1>3, <1>6
    <2>2. jobs[j] \in JobRow /\ uuids[j] + 1 \in Nat
      BY <1>3
    <2> QED
      BY <1>2, <2>1, <2>2, ClaimedRow
  <1>7. RowInvariant'
    <2> SUFFICES ASSUME NEW j \in Job PROVE RowInvariant!(j)'
      BY DEF RowInvariant
    <2>1. CASE j \in B
      <3>1. uuids'[j] = uuids[j] + 1
        BY <2>1 DEF ClaimDue
      <3>2. Len(attempts'[j]) = Len(attempts[j]) + 1
        BY <2>1 DEF ClaimDue, TypeOK
      <3>3. uuids[j] = jobs[j].attempt_number /\ Len(attempts[j]) = jobs[j].attempt_number
        BY DEF RowInvariant
      <3> QED
        BY <1>1, <1>3, <1>6, <2>1, <3>1, <3>2, <3>3 DEF Held, JobRow
    <2>2. CASE j \notin B
      BY <1>3, <2>2 DEF ClaimDue, RowInvariant
    <2> QED
      BY <2>1, <2>2
  <1>8. AttemptsWithinBudget'
    <2> SUFFICES ASSUME NEW j \in Job PROVE AttemptsWithinBudget!(j)'
      BY DEF AttemptsWithinBudget
    <2>1. CASE j \in B
      <3>1. jobs[j].attempt_number \in Nat /\ jobs[j].max_attempts \in Nat
        BY <1>1, <1>3, <2>1, SubmissionAssumption DEF JobRow, Budgets
      <3> QED
        BY <1>1, <1>6, <2>1, <3>1 DEF Waiting
    <2>2. CASE j \notin B
      BY <1>3, <2>2 DEF AttemptsWithinBudget
    <2> QED
      BY <2>1, <2>2
  <1>9. ClaimInvariant'
    <2>1. \A v \in Worker : pc'[v] = "run" => current'[v] \in ClaimedJob
      BY DEF ClaimDue, ClaimInvariant, TypeOK
    <2>2. /\ ClaimsOf(w)' = {ClaimOf(j, w) : j \in B}
          /\ \A v \in Worker \ {w} : ClaimsOf(v)' = ClaimsOf(v)
      BY DEF ClaimDue, ClaimsOf, TypeOK
    <2>3. \A v \in Worker : \A c \in ClaimsOf(v) : c \in ClaimedJob /\ c.job \in Job
      BY DEF TypeOK, ClaimInvariant, ClaimsOf, ClaimedJob
    <2>4. \A j \in B : /\ ClaimOf(j, w).job = j
                       /\ ClaimOf(j, w).attempt_number = jobs'[j].attempt_number
                       /\ ClaimOf(j, w).attempt_number > jobs[j].attempt_number
                       /\ ClaimOf(j, w).claim_token = ClaimOf(j, w).attempt_number
                       /\ ClaimOf(j, w).max_attempts = jobs'[j].max_attempts
      BY <1>1, <1>3, <1>6 DEF ClaimOf, RowInvariant, JobRow
    <2>5. ASSUME NEW v \in Worker, NEW c \in ClaimsOf(v)'
          PROVE  /\ c.claim_token = c.attempt_number
                 /\ c.attempt_number <= jobs'[c.job].attempt_number
                 /\ c.max_attempts = jobs'[c.job].max_attempts
      <3>1. CASE v = w
        <4>1. PICK j \in B : c = ClaimOf(j, w)
          BY <2>2, <3>1
        <4>2. jobs'[j].attempt_number \in Nat
          BY <1>1, <1>3, <1>6 DEF JobRow
        <4> QED
          BY <2>4, <4>1, <4>2
      <3>2. CASE v # w
        <4>1. c \in ClaimsOf(v) /\ c \in ClaimedJob /\ c.job \in Job
          BY <2>2, <2>3, <3>2
        <4>2. /\ c.claim_token = c.attempt_number
              /\ c.attempt_number <= jobs[c.job].attempt_number
              /\ c.max_attempts = jobs[c.job].max_attempts
          BY <4>1 DEF ClaimInvariant
        <4>3. /\ jobs'[c.job].max_attempts = jobs[c.job].max_attempts
              /\ jobs'[c.job].attempt_number >= jobs[c.job].attempt_number
          BY <1>3, <1>6, <4>1 DEF JobRow
        <4>4. /\ c.attempt_number \in Nat
              /\ jobs[c.job].attempt_number \in Nat
              /\ jobs'[c.job].attempt_number \in Nat
          BY <1>3, <1>5, <4>1 DEF ClaimedJob, JobRow, TypeOK
        <4> QED
          BY <4>2, <4>3, <4>4
      <3> QED
        BY <3>1, <3>2
    <2>6. \A v \in Worker \ {w} : \A c \in ClaimsOf(v), j \in B :
             c.job = j => c.attempt_number # ClaimOf(j, w).attempt_number
      <3> SUFFICES ASSUME NEW v \in Worker \ {w}, NEW c \in ClaimsOf(v), c.job \in B
                   PROVE  c.attempt_number # ClaimOf(c.job, w).attempt_number
        OBVIOUS
      <3>1. c \in ClaimedJob /\ c.attempt_number <= jobs[c.job].attempt_number
        BY <2>3 DEF ClaimInvariant
      <3>2. c.attempt_number \in Nat /\ jobs[c.job].attempt_number \in Nat
        BY <1>3, <2>3, <3>1 DEF ClaimedJob, JobRow
      <3>3. ClaimOf(c.job, w).attempt_number = jobs[c.job].attempt_number + 1
        BY DEF ClaimOf
      <3> QED
        BY <3>1, <3>2, <3>3
    <2>7. ASSUME NEW u \in Worker, NEW v \in Worker,
                 NEW c \in ClaimsOf(u)', NEW d \in ClaimsOf(v)',
                 c.job = d.job, c.attempt_number = d.attempt_number
          PROVE  u = v /\ c = d
      <3>1. CASE u = w /\ v = w
        BY <2>2, <2>4, <2>7, <3>1
      <3>2. CASE u = w /\ v # w
        BY <2>2, <2>4, <2>6, <2>7, <3>2
      <3>3. CASE u # w /\ v = w
        BY <2>2, <2>4, <2>6, <2>7, <3>3
      <3>4. CASE u # w /\ v # w
        BY <2>2, <2>7, <3>4 DEF ClaimInvariant
      <3> QED
        BY <3>1, <3>2, <3>3, <3>4
    <2> QED
      BY <2>1, <2>5, <2>7 DEF ClaimInvariant
  <1> QED
    BY <1>5, <1>7, <1>8, <1>9

\* Every step of the scheduler, its workers, its clients and the clock keeps
\* the inductive invariant.
THEOREM NextIndInv == IndInv /\ [Next]_vars => IndInv'
  <1> SUFFICES ASSUME IndInv, [Next]_vars PROVE IndInv'
    OBVIOUS
  <1>1. ASSUME NEW j \in Job, NEW s \in Submission, SubmitNew(j, s) PROVE IndInv'
    BY <1>1, SubmitNewIndInv
  <1>2. ASSUME NEW j \in Job, NEW s \in Submission, SubmitExisting(j, s) PROVE IndInv'
    BY <1>2, SubmitExistingIndInv
  <1>3. ASSUME NEW w \in Worker, WorkerStep(w) PROVE IndInv'
    <2>1. CASE Exit(w)
      BY <2>1, ExitIndInv
    <2>2. CASE RecoverExpired(w)
      BY <2>2, RecoverExpiredIndInv
    <2>3. CASE ClaimDue(w)
      BY <2>3, ClaimDueIndInv
    <2>4. CASE Break(w)
      BY <2>4, BreakIndInv
    <2>5. ASSUME NEW c \in claimed[w], Start(w, c) PROVE IndInv'
      BY <2>5, StartIndInv
    <2>6. CASE Succeed(w)
      BY <2>6, SucceedIndInv
    <2>7. ASSUME NEW retryable \in BOOLEAN, Fail(w, retryable) PROVE IndInv'
      BY <2>7, FailIndInv
    <2>8. CASE StaleClaim(w)
      BY <2>8, DieIndInv DEF StaleClaim, IndInv, TypeOK
    <2> QED
      BY <1>3, <2>1, <2>2, <2>3, <2>4, <2>5, <2>6, <2>7, <2>8 DEF WorkerStep
  <1>4. ASSUME NEW w \in Worker, Heartbeat(w) PROVE IndInv'
    BY <1>4, HeartbeatIndInv
  <1>5. ASSUME NEW w \in Worker, Crash(w) PROVE IndInv'
    <2>1. faults' \in 0..MaxFaults
      BY <1>5, SizeAssumption DEF Crash, IndInv, TypeOK
    <2> QED
      BY <1>5, <2>1, DieIndInv DEF Crash
  <1>6. ASSUME NEW w \in Worker, Stop(w) \/ Restart(w) PROVE IndInv'
    BY <1>6, StopRestartIndInv
  <1>7. CASE Tick
    BY <1>7, TickIndInv
  <1>8. CASE UNCHANGED vars
    BY <1>8 DEF vars, workerVars, IndInv, TypeOK, RowInvariant, AttemptsWithinBudget,
                ClaimInvariant, ClaimsOf
  <1> QED
    BY <1>1, <1>2, <1>3, <1>4, <1>5, <1>6, <1>7, <1>8 DEF Next

\* The tables and the processes' memory always satisfy the inductive invariant.
THEOREM Invariance == Spec => []IndInv
  BY InitIndInv, NextIndInv, PTL DEF Spec

\* No transaction writes a row, an event or a claim of the wrong shape.
THEOREM TypeCorrect == Spec => []TypeOK
  <1>1. IndInv => TypeOK
    BY DEF IndInv
  <1> QED
    BY <1>1, Invariance, PTL

\* No failure, expiry, recovery or restart starts more attempts of a job than
\* its submission allows.
THEOREM BudgetKept == Spec => []AttemptsWithinBudget
  <1>1. IndInv => AttemptsWithinBudget
    BY DEF IndInv
  <1> QED
    BY <1>1, Invariance, PTL

\* The fence of _fenced_update lets at most one process through per job,
\* whatever owner names the processes were given.
THEOREM FenceExcludes == Spec => []OneLiveHolder
  <1>1. IndInv => OneLiveHolder
    BY DEF IndInv, ClaimInvariant, OneLiveHolder, Fenced
  <1> QED
    BY <1>1, Invariance, PTL

-----------------------------------------------------------------------------
(* The job contract. *)

\* The moves of a row r to a row q, by the columns the contract shows.
SameCounts(r, q) == q.attempt_number = r.attempt_number /\ q.max_attempts = r.max_attempts

Move(r, q) ==
    \/ SameCounts(r, q) /\ q.status = r.status
    \/ r.status = "CLAIMED" /\ q.status = "RUNNING" /\ SameCounts(r, q)
    \/ /\ r.status = "ABSENT" /\ q.status = "PENDING"
       /\ q.attempt_number = 0 /\ q.max_attempts \in Budgets
    \/ /\ r.status \in Waiting /\ q.status = "CLAIMED"
       /\ q.attempt_number = r.attempt_number + 1 /\ q.max_attempts = r.max_attempts
    \/ /\ r.status \in Held /\ SameCounts(r, q)
       /\ \/ q.status = "RETRY_WAIT" /\ r.attempt_number < r.max_attempts
          \/ q.status \in {"SUCCEEDED", "FAILED"}
          \/ q.status = "RETRIES_EXHAUSTED" /\ ~(r.attempt_number < r.max_attempts)

\* A step that commits an outcome moves one held row and no other.
LEMMA OutcomeMove ==
    ASSUME IndInv, NEW w \in Worker, pc[w] = "run", Fenced(current[w]),
           NEW st \in RowStatus, NEW t \in Int,
           \/ st = "RETRY_WAIT" /\ current[w].attempt_number < current[w].max_attempts
           \/ st \in {"SUCCEEDED", "FAILED"}
           \/ st = "RETRIES_EXHAUSTED" /\ ~(current[w].attempt_number < current[w].max_attempts),
           jobs' = [jobs EXCEPT ![current[w].job] = Released(jobs[current[w].job], st, t)]
    PROVE  \A j \in Job : Move(jobs[j], jobs'[j])
  <1> DEFINE c == current[w]
  <1>1. c \in ClaimedJob /\ c \in ClaimsOf(w)
    BY DEF IndInv, ClaimInvariant, ClaimsOf
  <1>2. /\ c.job \in Job
        /\ jobs[c.job] \in JobRow
        /\ jobs[c.job].status \in Held
        /\ c.attempt_number = jobs[c.job].attempt_number
        /\ c.max_attempts = jobs[c.job].max_attempts
    BY <1>1, FencedHeld DEF IndInv, ClaimInvariant
  <1> SUFFICES ASSUME NEW j \in Job PROVE Move(jobs[j], jobs'[j])
    OBVIOUS
  <1>3. CASE j = c.job
    <2>1. jobs'[j] = Released(jobs[j], st, t)
      BY <1>3 DEF IndInv, TypeOK
    <2> QED
      BY <1>2, <1>3, <2>1, ReleasedRow DEF Move, SameCounts
  <1>4. CASE j # c.job
    BY <1>4 DEF IndInv, TypeOK, Move, SameCounts
  <1> QED
    BY <1>3, <1>4

\* Every step moves every row along the contract, and leaves the attempts and
\* the evidence of a finished job alone.
LEMMA JobMoves ==
    ASSUME IndInv, [Next]_vars, NEW j \in Job
    PROVE  /\ Move(jobs[j], jobs'[j])
           /\ jobs[j].status \in Terminal =>
                 attempts'[j] = attempts[j] /\ outbox'[j] = outbox[j]
  <1> DEFINE Goal == /\ Move(jobs[j], jobs'[j])
                     /\ jobs[j].status \in Terminal =>
                           attempts'[j] = attempts[j] /\ outbox'[j] = outbox[j]
  <1> SUFFICES Goal
    OBVIOUS
  <1>0. jobs[j] \in JobRow
    BY DEF IndInv, TypeOK
  <1>1. CASE UNCHANGED <<jobs, attempts, outbox>>
    BY <1>1 DEF Move, SameCounts
  <1>2. ASSUME NEW k \in Job, NEW s \in Submission, SubmitNew(k, s) PROVE Goal
    <2>1. CASE j = k
      <3>1. jobs'[j] = NewRow(s) /\ jobs[j].status = "ABSENT"
        BY <1>2, <2>1 DEF SubmitNew, IndInv, TypeOK
      <3> QED
        BY <3>1, NewRowType DEF Move, Budgets, Terminal
    <2>2. CASE j # k
      BY <1>2, <2>2 DEF SubmitNew, Emit, IndInv, TypeOK, Move, SameCounts
    <2> QED
      BY <2>1, <2>2
  <1>3. ASSUME NEW w \in Worker, RecoverExpired(w) PROVE Goal
    <2>1. PICK B \in RecoveryBatches :
             jobs' = [k \in Job |-> IF k \in B THEN Recovered(jobs[k]) ELSE jobs[k]]
      BY <1>3 DEF RecoverExpired
    <2>2. CASE j \in B
      <3>1. jobs'[j] = Recovered(jobs[j]) /\ jobs[j].status \in Held
        BY <2>1, <2>2 DEF RecoveryBatches, Expired
      <3>2. Move(jobs[j], jobs'[j])
        BY <1>0, <3>1, RecoveredRow DEF Move, SameCounts
      <3> QED
        BY <1>3, <3>2 DEF RecoverExpired
    <2>3. CASE j \notin B
      BY <1>3, <2>1, <2>3 DEF RecoverExpired, Move, SameCounts
    <2> QED
      BY <2>2, <2>3
  <1>4. ASSUME NEW w \in Worker, ClaimDue(w) PROVE Goal
    <2>1. CASE j \in ClaimBatch
      <3>1. jobs'[j] = Claimed(jobs[j], Owner[w], uuids[j] + 1) /\ jobs[j].status \in Waiting
        BY <1>4, <2>1 DEF ClaimDue, ClaimBatch, Due
      <3>2. Owner[w] \in OwnerName /\ uuids[j] + 1 \in Nat
        BY DEF OwnerName, IndInv, TypeOK
      <3> QED
        BY <1>0, <3>1, <3>2, ClaimedRow DEF Move, Waiting, Terminal
    <2>2. CASE j \notin ClaimBatch
      BY <1>4, <2>2 DEF ClaimDue, Move, SameCounts
    <2> QED
      BY <2>1, <2>2
  <1>5. ASSUME NEW w \in Worker, NEW c \in claimed[w], Start(w, c) PROVE Goal
    <2>1. c \in ClaimedJob /\ Fenced(c)
      BY <1>5 DEF Start, IndInv, TypeOK
    <2>2. CASE j = c.job
      <3>1. jobs[j].status \in Held
        BY <2>1, <2>2, FencedHeld
      <3>2. jobs'[j] = [jobs[j] EXCEPT !.status = "RUNNING"]
        BY <1>5, <2>2 DEF Start, IndInv, TypeOK
      <3> QED
        BY <1>0, <3>1, <3>2 DEF Move, SameCounts, JobRow, Held, Terminal
    <2>3. CASE j # c.job
      BY <1>5, <2>3 DEF Start, Emit, IndInv, TypeOK, Move, SameCounts
    <2> QED
      BY <2>2, <2>3
  <1>6. ASSUME NEW w \in Worker, Succeed(w) PROVE Goal
    <2> DEFINE c == current[w]
    <2>1. c \in ClaimedJob /\ Fenced(c) /\ pc[w] = "run"
      BY <1>6 DEF Succeed, IndInv, ClaimInvariant
    <2>2. Move(jobs[j], jobs'[j])
      <3>1. jobs' = [jobs EXCEPT ![c.job] =
                        Released(jobs[c.job], "SUCCEEDED", jobs[c.job].available_in)]
        BY <1>6 DEF Succeed
      <3>2. jobs[c.job].available_in \in Int
        BY <2>1, FencedHeld DEF JobRow
      <3> QED
        BY <2>1, <3>1, <3>2, OutcomeMove DEF RowStatus, Terminal
    <2>3. jobs[c.job].status \notin Terminal
      BY <2>1, FencedHeld DEF Held, Terminal
    <2>4. j # c.job => attempts'[j] = attempts[j] /\ outbox'[j] = outbox[j]
      BY <1>6 DEF Succeed, Emit, IndInv, TypeOK
    <2> QED
      BY <2>2, <2>3, <2>4
  <1>7. ASSUME NEW w \in Worker, NEW retryable \in BOOLEAN, Fail(w, retryable) PROVE Goal
    <2> DEFINE c == current[w]
               st == FailureStatus(c, retryable)
               t == IF st = "RETRY_WAIT" THEN RetryDelay(c.attempt_number) ELSE 0
    <2>1. c \in ClaimedJob /\ Fenced(c) /\ pc[w] = "run"
      BY <1>7 DEF Fail, IndInv, ClaimInvariant
    <2>2. Move(jobs[j], jobs'[j])
      <3>1. jobs' = [jobs EXCEPT ![c.job] = Released(jobs[c.job], st, t)]
        BY <1>7 DEF Fail
      <3>2. t \in Int
        BY <2>1, RetryDelayType
      <3>3. st \in RowStatus
        BY DEF FailureStatus, RowStatus, Terminal, Waiting
      <3>4. \/ st = "RETRY_WAIT" /\ c.attempt_number < c.max_attempts
            \/ st \in {"SUCCEEDED", "FAILED"}
            \/ st = "RETRIES_EXHAUSTED" /\ ~(c.attempt_number < c.max_attempts)
        BY DEF FailureStatus
      <3> HIDE DEF st, t
      <3> QED
        BY <2>1, <3>1, <3>2, <3>3, <3>4, OutcomeMove
    <2>3. jobs[c.job].status \notin Terminal
      BY <2>1, FencedHeld DEF Held, Terminal
    <2>4. j # c.job => attempts'[j] = attempts[j] /\ outbox'[j] = outbox[j]
      BY <1>7 DEF Fail, Emit, IndInv, TypeOK
    <2> QED
      BY <2>2, <2>3, <2>4
  <1>8. ASSUME NEW w \in Worker, Heartbeat(w) PROVE Goal
    <2>1. \/ jobs'[j] = jobs[j]
          \/ jobs'[j] = [jobs[j] EXCEPT !.lease = ClaimLease]
      BY <1>8 DEF Heartbeat, IndInv, TypeOK
    <2>2. SameCounts(jobs[j], jobs'[j]) /\ jobs'[j].status = jobs[j].status
      BY <1>0, <2>1 DEF JobRow, SameCounts
    <2>3. attempts' = attempts /\ outbox' = outbox
      BY <1>8 DEF Heartbeat
    <2> QED
      BY <2>2, <2>3 DEF Move
  <1>9. CASE Tick
    <2>1. jobs'[j] = Aged(jobs[j])
      BY <1>9 DEF Tick
    <2> QED
      BY <1>0, <1>9, <2>1, AgedRow DEF Tick, Move, SameCounts
  <1>10. CASE UNCHANGED vars
    BY <1>1, <1>10 DEF vars
  <1>11. ASSUME NEW w \in Worker,
                Exit(w) \/ Break(w) \/ StaleClaim(w) \/ Crash(w) \/ Stop(w) \/ Restart(w)
         PROVE  Goal
    BY <1>1, <1>11 DEF Exit, Break, StaleClaim, Crash, Die, Stop, Restart
  <1>12. ASSUME NEW k \in Job, NEW s \in Submission, SubmitExisting(k, s) PROVE Goal
    BY <1>1, <1>12 DEF SubmitExisting
  <1> HIDE DEF Goal
  <1> QED
    BY <1>2, <1>3, <1>4, <1>5, <1>6, <1>7, <1>8, <1>9, <1>10, <1>11, <1>12
       DEF Next, WorkerStep

-----------------------------------------------------------------------------
\* Late workers, recoveries and repeated submissions never change the status,
\* the attempts or the evidence of a finished job.
THEOREM FinishedStaysFinished == Spec => TerminalIsFinal
  <1> DEFINE Final == \A j \in Job : jobs[j].status \in Terminal =>
                         /\ jobs'[j].status = jobs[j].status
                         /\ jobs'[j].attempt_number = jobs[j].attempt_number
                         /\ attempts'[j] = attempts[j]
                         /\ outbox'[j] = outbox[j]
  <1>1. IndInv /\ [Next]_vars => [Final]_vars
    <2> SUFFICES ASSUME IndInv, [Next]_vars, NEW j \in Job, jobs[j].status \in Terminal
                 PROVE  /\ jobs'[j].status = jobs[j].status
                        /\ jobs'[j].attempt_number = jobs[j].attempt_number
                        /\ attempts'[j] = attempts[j]
                        /\ outbox'[j] = outbox[j]
      OBVIOUS
    <2> QED
      BY JobMoves DEF Move, SameCounts, Terminal, Waiting, Held
  <1> QED
    BY <1>1, Invariance, PTL DEF Spec, TerminalIsFinal

\* A move of a row is a step of the contract, or none.
LEMMA MoveIsContractStep ==
    ASSUME NEW r \in JobRow, NEW q \in JobRow, Move(r, q),
           r.status = "ABSENT" => r.attempt_number = 0 /\ r.max_attempts = 0,
           r.status # "ABSENT" => r.max_attempts \in Budgets
    PROVE  View(q) = View(r) \/ Contract!JobStep(View(r), View(q))
  <1> DEFINE Goal == View(q) = View(r) \/ Contract!JobStep(View(r), View(q))
  <1> SUFFICES Goal
    OBVIOUS
  <1>0. /\ r.attempt_number \in Nat
        /\ r.max_attempts \in Nat
    BY SubmissionAssumption DEF JobRow, Budgets
  <1>1. CASE SameCounts(r, q) /\ q.status = r.status
    BY <1>1 DEF View, SameCounts
  <1>7. CASE r.status = "CLAIMED" /\ q.status = "RUNNING" /\ SameCounts(r, q)
    BY <1>7 DEF View, SameCounts, Phase, Held, Waiting
  <1>2. CASE r.status = "ABSENT" /\ q.status = "PENDING"
    BY <1>2 DEF View, Contract!JobStep, Contract!Submitted, Move, SameCounts, Phase, Waiting, Held
  <1>3. CASE r.status \in Waiting /\ q.status = "CLAIMED"
    <2>1. q.attempt_number = r.attempt_number + 1 /\ q.max_attempts = r.max_attempts
      BY <1>3 DEF Move, Waiting, Held
    <2>2. View(r).phase = "waiting"
      BY <1>3 DEF View, Phase, Waiting
    <2>3. View(q) = [phase |-> "held", tries |-> r.attempt_number + 1,
                     budget |-> r.max_attempts]
      BY <1>3, <2>1 DEF View, Phase, Waiting, Held
    <2> QED
      BY <2>2, <2>3 DEF View, Contract!JobStep
  <1>4. CASE r.status \in Held /\ SameCounts(r, q) /\ q.status = "RETRY_WAIT"
                /\ r.attempt_number < r.max_attempts
    BY <1>4 DEF View, Contract!JobStep, SameCounts, Phase, Waiting, Held
  <1>5. CASE r.status \in Held /\ SameCounts(r, q) /\ q.status \in {"SUCCEEDED", "FAILED"}
    BY <1>0, <1>5 DEF View, Contract!JobStep, SameCounts, Phase, Waiting, Held
  <1>6. CASE r.status \in Held /\ SameCounts(r, q) /\ q.status = "RETRIES_EXHAUSTED"
                /\ ~(r.attempt_number < r.max_attempts)
    <2>1. View(r).phase = "held" /\ View(r).tries >= View(r).budget
      BY <1>0, <1>6 DEF View, Phase, Waiting, Held
    <2>2. View(q) = [View(r) EXCEPT !.phase = "RETRIES_EXHAUSTED"]
      BY <1>6 DEF View, Contract!JobStep, SameCounts, Phase, Waiting, Held
    <2> QED
      BY <2>1, <2>2 DEF Contract!JobStep
  <1> HIDE DEF Goal
  <1> QED
    BY <1>1, <1>2, <1>3, <1>4, <1>5, <1>6, <1>7 DEF Move

\* The tables, fences, leases and processes implement the job contract.
THEOREM ContractImplemented == Spec => ImplementsContract
  <1>1. Init => Contract!Init
    BY DEF Init, Contract!Init, Contract!Absent, ContractView, View, NoRow, Phase
  <1>2. IndInv /\ [Next]_vars => [Contract!Next]_ContractView
    <2> SUFFICES ASSUME IndInv, [Next]_vars PROVE Contract!Next
      OBVIOUS
    <2>1. IndInv'
      BY NextIndInv
    <2>2. ASSUME NEW j \in Job
          PROVE  \/ ContractView'[j] = ContractView[j]
                 \/ Contract!JobStep(ContractView[j], ContractView'[j])
      <3>1. /\ jobs[j] \in JobRow
            /\ jobs'[j] \in JobRow
            /\ jobs[j].status = "ABSENT" =>
                  jobs[j].attempt_number = 0 /\ jobs[j].max_attempts = 0
            /\ jobs[j].status # "ABSENT" => jobs[j].max_attempts \in Budgets
        BY <2>1 DEF IndInv, TypeOK, RowInvariant
      <3>2. Move(jobs[j], jobs'[j])
        BY JobMoves
      <3> QED
        BY <3>1, <3>2, MoveIsContractStep DEF ContractView
    <2>3. ContractView' = [j \in Job |-> ContractView'[j]]
      BY DEF ContractView
    <2> QED
      BY <2>2, <2>3 DEF Contract!Next
  <1> QED
    BY <1>1, <1>2, Invariance, PTL DEF Spec, ImplementsContract, Contract!Spec

-----------------------------------------------------------------------------
(* The rows of a job in different tables. *)

\* The row r of a job and its attempt rows a agree.
Matches(r, a) ==
    LET n == r.attempt_number IN
    /\ Len(a) = n
    /\ \A i \in 1..n : (a[i].outcome = "SUCCEEDED" <=> i = n /\ r.status = "SUCCEEDED")
    /\ (r.status \in Held => a[n].outcome = Null)
    /\ (r.status \in Held => (a[n].started <=> r.status = "RUNNING"))
    /\ (r.status = "FAILED" => a[n].outcome = "FAILED" /\ ~ a[n].retryable)

\* The last attempt row, where a step has rewritten it to x while the job goes
\* from the status s to t.
Rewritten(s, t, old, x) ==
    \/ /\ t = "RUNNING" /\ x.started /\ x.outcome = old.outcome
    \/ /\ t = "SUCCEEDED" /\ x.outcome = "SUCCEEDED"
    \/ /\ t \in {"FAILED", "RETRY_WAIT", "RETRIES_EXHAUSTED"} /\ x.outcome = "FAILED"
       /\ (t = "FAILED" => ~ x.retryable)

\* What a step makes of a row r and its attempts a: q and b.
Recorded(r, q, a, b) ==
    \/ /\ b = a /\ q.attempt_number = r.attempt_number
       /\ \/ q.status = r.status
          \/ r.status = "ABSENT" /\ q.status = "PENDING"
          \/ r.status \in Held /\ q.status \in {"RETRY_WAIT", "RETRIES_EXHAUSTED"}
    \/ /\ r.status \in Waiting /\ q.status = "CLAIMED"
       /\ q.attempt_number = r.attempt_number + 1
       /\ b = Append(a, NewAttempt)
    \/ /\ r.status \in Held /\ q.attempt_number = r.attempt_number
       /\ r.attempt_number \in 1..Len(a)
       /\ \E x \in AttemptRow :
             /\ b = [a EXCEPT ![r.attempt_number] = x]
             /\ Rewritten(r.status, q.status, a[r.attempt_number], x)

\* Such a step keeps them in agreement.
LEMMA RecordedMatches ==
    ASSUME NEW r \in JobRow, NEW q \in JobRow,
           NEW a \in Seq(AttemptRow), NEW b, Matches(r, a), Recorded(r, q, a, b)
    PROVE  Matches(q, b)
  <1> DEFINE n == r.attempt_number
  <1>0. n \in Nat /\ q.attempt_number \in Nat /\ Len(a) = n
    BY DEF JobRow, Matches
  <1>1. CASE b = a /\ q.attempt_number = n /\ q.status = r.status
    BY <1>1 DEF Matches
  <1>2. CASE b = a /\ q.attempt_number = n /\ r.status = "ABSENT" /\ q.status = "PENDING"
    BY <1>2 DEF Matches, Held
  <1>3. CASE /\ b = a /\ q.attempt_number = n /\ r.status \in Held
             /\ q.status \in {"RETRY_WAIT", "RETRIES_EXHAUSTED"}
    BY <1>3 DEF Matches, Held
  <1>4. CASE /\ r.status \in Waiting /\ q.status = "CLAIMED"
             /\ q.attempt_number = n + 1 /\ b = Append(a, NewAttempt)
    <2>1. NewAttempt.outcome = Null /\ NewAttempt.started = FALSE /\ Null # "SUCCEEDED"
      BY OutcomeAssumption DEF NewAttempt
    <2>2. Len(b) = n + 1 /\ b[n + 1] = NewAttempt /\ \A i \in 1..n : b[i] = a[i]
      BY <1>4, <1>0
    <2>3. \A i \in 1..n : a[i].outcome # "SUCCEEDED"
      BY <1>4 DEF Matches, Waiting
    <2> HIDE DEF n
    <2> QED
      BY <1>4, <1>0, <2>1, <2>2, <2>3 DEF Matches, Held
  <1>5. CASE /\ r.status \in Held /\ q.attempt_number = n /\ n \in 1..Len(a)
             /\ \E x \in AttemptRow : /\ b = [a EXCEPT ![n] = x]
                                      /\ Rewritten(r.status, q.status, a[n], x)
    <2>1. PICK x \in AttemptRow : /\ b = [a EXCEPT ![n] = x]
                                  /\ Rewritten(r.status, q.status, a[n], x)
      BY <1>5
    <2>2. Len(b) = n /\ b[n] = x /\ \A i \in 1..n : (i # n => b[i] = a[i])
      BY <1>0, <1>5, <2>1
    <2>3. \A i \in 1..n : a[i].outcome # "SUCCEEDED"
      BY <1>5 DEF Matches, Held
    <2>4. a[n].outcome = Null
      BY <1>5 DEF Matches
    <2>5. Null # "SUCCEEDED"
      BY OutcomeAssumption
    <2>6. x.outcome = "SUCCEEDED" <=> q.status = "SUCCEEDED"
      BY <2>1, <2>4, <2>5 DEF Rewritten
    <2>7. q.status \in Held => x.outcome = Null /\ x.started /\ q.status = "RUNNING"
      BY <2>1, <2>4 DEF Rewritten, Held
    <2>8. q.status = "FAILED" => x.outcome = "FAILED" /\ ~ x.retryable
      BY <2>1 DEF Rewritten
    <2> HIDE DEF n
    <2> QED
      BY <1>0, <1>5, <2>2, <2>3, <2>6, <2>7, <2>8 DEF Matches
  <1> HIDE DEF n
  <1> QED
    BY <1>1, <1>2, <1>3, <1>4, <1>5 DEF Recorded, n

\* What a client was told of a job, next to its row.
Stored(r, q, told, heard) ==
    /\ heard \subseteq told \cup {q.submission}
    /\ (r.status # "ABSENT" => q.submission = r.submission)

\* A step that leaves the tables and the clients alone.
LEMMA NothingRecorded ==
    ASSUME NEW j \in Job, jobs'[j] = jobs[j], attempts'[j] = attempts[j], accepted'[j] = accepted[j]
    PROVE  /\ Recorded(jobs[j], jobs'[j], attempts[j], attempts'[j])
           /\ Stored(jobs[j], jobs'[j], accepted[j], accepted'[j])
  BY DEF Recorded, Stored

\* submit_checked inserts a row without attempts, or finds one and leaves it.
LEMMA SubmitRecorded ==
    ASSUME IndInv, NEW k \in Job, NEW s \in Submission,
           SubmitNew(k, s) \/ SubmitExisting(k, s), NEW j \in Job
    PROVE  /\ Recorded(jobs[j], jobs'[j], attempts[j], attempts'[j])
           /\ Stored(jobs[j], jobs'[j], accepted[j], accepted'[j])
  <1>1. CASE SubmitExisting(k, s)
    <2>1. jobs' = jobs /\ attempts' = attempts
      BY <1>1 DEF SubmitExisting
    <2>2. Stored(jobs[j], jobs'[j], accepted[j], accepted'[j])
      BY <1>1, <2>1 DEF SubmitExisting, Stored, IndInv, TypeOK
    <2> QED
      BY <2>1, <2>2 DEF Recorded
  <1>2. CASE SubmitNew(k, s)
    <2>1. attempts' = attempts /\ jobs[k].status = "ABSENT" /\ jobs[k].attempt_number = 0
      BY <1>2 DEF SubmitNew, IndInv, RowInvariant
    <2>2. jobs' = [jobs EXCEPT ![k] = NewRow(s)]
      BY <1>2 DEF SubmitNew
    <2>3. CASE j # k
      <3>1. accepted'[j] = accepted[j]
        BY <1>2, <2>3 DEF SubmitNew, IndInv, TypeOK
      <3>2. jobs'[j] = jobs[j]
        BY <2>2, <2>3 DEF IndInv, TypeOK
      <3> QED
        BY <3>1, <3>2, <2>1, NothingRecorded
    <2>4. CASE j = k
      <3>1. jobs'[j] = NewRow(s)
        BY <2>2, <2>4 DEF IndInv, TypeOK
      <3>2. /\ NewRow(s).status = "PENDING" /\ NewRow(s).attempt_number = 0
            /\ NewRow(s).submission = s
        BY NewRowType
      <3>3. accepted'[j] \subseteq accepted[j] \cup {s}
        BY <1>2, <2>4 DEF SubmitNew, IndInv, TypeOK
      <3> QED
        BY <3>1, <3>2, <3>3, <2>1, <2>4 DEF Recorded, Stored
    <2> QED
      BY <2>3, <2>4
  <1> QED
    BY <1>1, <1>2

\* recover_expired_claims gives a row back and touches no attempt.
LEMMA RecoverRecorded ==
    ASSUME IndInv, NEW w \in Worker, RecoverExpired(w), NEW j \in Job
    PROVE  /\ Recorded(jobs[j], jobs'[j], attempts[j], attempts'[j])
           /\ Stored(jobs[j], jobs'[j], accepted[j], accepted'[j])
  <1>1. attempts' = attempts /\ accepted' = accepted
    BY DEF RecoverExpired
  <1>2. PICK B \in RecoveryBatches :
           jobs' = [k \in Job |-> IF k \in B THEN Recovered(jobs[k]) ELSE jobs[k]]
    BY DEF RecoverExpired
  <1>3. CASE j \notin B
    BY <1>1, <1>2, <1>3, NothingRecorded
  <1>4. CASE j \in B
    <2>1. jobs'[j] = Recovered(jobs[j]) /\ jobs[j].status \in Held /\ jobs[j] \in JobRow
      BY <1>2, <1>4 DEF RecoveryBatches, Expired, IndInv, TypeOK
    <2>2. /\ jobs'[j].status \in {"RETRY_WAIT", "RETRIES_EXHAUSTED"}
          /\ jobs'[j].attempt_number = jobs[j].attempt_number
          /\ jobs'[j].submission = jobs[j].submission
      BY <2>1, RecoveredRow
    <2> QED
      BY <1>1, <2>1, <2>2 DEF Recorded, Stored
  <1> QED
    BY <1>3, <1>4

\* claim_due inserts one attempt row per claim.
LEMMA ClaimRecorded ==
    ASSUME IndInv, NEW w \in Worker, ClaimDue(w), NEW j \in Job
    PROVE  /\ Recorded(jobs[j], jobs'[j], attempts[j], attempts'[j])
           /\ Stored(jobs[j], jobs'[j], accepted[j], accepted'[j])
  <1>1. accepted' = accepted
    BY DEF ClaimDue
  <1>2. /\ jobs'[j] = IF j \in ClaimBatch THEN Claimed(jobs[j], Owner[w], uuids[j] + 1) ELSE jobs[j]
        /\ attempts'[j] = IF j \in ClaimBatch THEN Append(attempts[j], NewAttempt) ELSE attempts[j]
    BY DEF ClaimDue
  <1>3. CASE j \notin ClaimBatch
    BY <1>1, <1>2, <1>3, NothingRecorded
  <1>4. CASE j \in ClaimBatch
    <2>1. jobs[j].status \in Waiting /\ jobs[j] \in JobRow
      BY <1>4 DEF ClaimBatch, Due, IndInv, TypeOK
    <2>2. Owner[w] \in OwnerName /\ uuids[j] + 1 \in Nat
      BY DEF OwnerName, IndInv, TypeOK
    <2>3. /\ jobs'[j].status = "CLAIMED" /\ jobs'[j].submission = jobs[j].submission
          /\ jobs'[j].attempt_number = jobs[j].attempt_number + 1
      BY <1>2, <1>4, <2>1, <2>2, ClaimedRow
    <2> QED
      BY <1>1, <1>2, <1>4, <2>1, <2>3 DEF Recorded, Stored
  <1> QED
    BY <1>3, <1>4

\* start, succeed and fail rewrite the row and the attempt of a fenced claim.
LEMMA ClaimRewritten ==
    ASSUME IndInv, NEW c \in ClaimedJob, Fenced(c), NEW q, NEW x \in AttemptRow,
           jobs' = [jobs EXCEPT ![c.job] = q],
           attempts' = [attempts EXCEPT ![c.job] = [attempts[c.job] EXCEPT ![c.attempt_number] = x]],
           accepted' = accepted,
           q.attempt_number = jobs[c.job].attempt_number,
           q.submission = jobs[c.job].submission,
           Rewritten(jobs[c.job].status, q.status, attempts[c.job][c.attempt_number], x),
           NEW j \in Job
    PROVE  /\ Recorded(jobs[j], jobs'[j], attempts[j], attempts'[j])
           /\ Stored(jobs[j], jobs'[j], accepted[j], accepted'[j])
  <1>1. /\ c.job \in Job /\ jobs[c.job].status \in Held
        /\ c.attempt_number = jobs[c.job].attempt_number
        /\ c.attempt_number \in 1..Len(attempts[c.job])
    BY FencedHeld
  <1>2. CASE j # c.job
    <2>1. jobs'[j] = jobs[j] /\ attempts'[j] = attempts[j]
      BY <1>2 DEF IndInv, TypeOK
    <2> QED
      BY <2>1, NothingRecorded
  <1>3. CASE j = c.job
    <2>1. jobs'[j] = q /\ attempts'[j] = [attempts[j] EXCEPT ![c.attempt_number] = x]
      BY <1>3 DEF IndInv, TypeOK
    <2>2. \E y \in AttemptRow :
             /\ attempts'[j] = [attempts[j] EXCEPT ![jobs[j].attempt_number] = y]
             /\ Rewritten(jobs[j].status, jobs'[j].status, attempts[j][jobs[j].attempt_number], y)
      BY <1>1, <1>3, <2>1
    <2>3. Recorded(jobs[j], jobs'[j], attempts[j], attempts'[j])
      BY <1>1, <1>3, <2>1, <2>2 DEF Recorded
    <2>4. Stored(jobs[j], jobs'[j], accepted[j], accepted'[j])
      BY <1>3, <2>1 DEF Stored
    <2> QED
      BY <2>3, <2>4
  <1> QED
    BY <1>2, <1>3

\* mark_started is recorded in both tables.
LEMMA StartRecorded ==
    ASSUME IndInv, NEW w \in Worker, NEW c \in claimed[w], Start(w, c), NEW j \in Job
    PROVE  /\ Recorded(jobs[j], jobs'[j], attempts[j], attempts'[j])
           /\ Stored(jobs[j], jobs'[j], accepted[j], accepted'[j])
  <1> DEFINE q == [jobs[c.job] EXCEPT !.status = "RUNNING"]
             old == attempts[c.job][c.attempt_number]
             x == [old EXCEPT !.started = TRUE]
  <1>1. c \in ClaimedJob /\ Fenced(c)
    BY DEF Start, IndInv, TypeOK
  <1>2. x \in AttemptRow /\ x.started /\ x.outcome = old.outcome
    BY <1>1, FencedHeld DEF AttemptRow
  <1>3. /\ q.status = "RUNNING" /\ q.attempt_number = jobs[c.job].attempt_number
        /\ q.submission = jobs[c.job].submission
    BY <1>1, FencedHeld DEF JobRow
  <1>4. jobs' = [jobs EXCEPT ![c.job] = q] /\ accepted' = accepted
    BY DEF Start
  <1>5. attempts' = [attempts EXCEPT ![c.job] = [attempts[c.job] EXCEPT ![c.attempt_number] = x]]
    BY DEF Start
  <1>6. Rewritten(jobs[c.job].status, q.status, old, x)
    BY <1>2, <1>3 DEF Rewritten
  <1> HIDE DEF q, x
  <1> QED
    BY <1>1, <1>2, <1>3, <1>4, <1>5, <1>6, ClaimRewritten

\* succeed is recorded in both tables.
LEMMA SucceedRecorded ==
    ASSUME IndInv, NEW w \in Worker, Succeed(w), NEW j \in Job
    PROVE  /\ Recorded(jobs[j], jobs'[j], attempts[j], attempts'[j])
           /\ Stored(jobs[j], jobs'[j], accepted[j], accepted'[j])
  <1> DEFINE c == current[w]
             q == Released(jobs[c.job], "SUCCEEDED", jobs[c.job].available_in)
             old == attempts[c.job][c.attempt_number]
             x == [old EXCEPT !.outcome = "SUCCEEDED"]
  <1>1. c \in ClaimedJob /\ Fenced(c)
    BY DEF Succeed, IndInv, ClaimInvariant
  <1>2. x \in AttemptRow /\ x.outcome = "SUCCEEDED"
    BY <1>1, FencedHeld DEF AttemptRow
  <1>3. /\ q.status = "SUCCEEDED" /\ q.attempt_number = jobs[c.job].attempt_number
        /\ q.submission = jobs[c.job].submission
    <2>1. jobs[c.job] \in JobRow /\ jobs[c.job].available_in \in Int /\ "SUCCEEDED" \in RowStatus
      BY <1>1, FencedHeld DEF JobRow, RowStatus, Terminal
    <2> QED
      BY <2>1, ReleasedRow
  <1>4. jobs' = [jobs EXCEPT ![c.job] = q] /\ accepted' = accepted
    BY DEF Succeed, Finish
  <1>5. attempts' = [attempts EXCEPT ![c.job] = [attempts[c.job] EXCEPT ![c.attempt_number] = x]]
    BY DEF Succeed
  <1>6. Rewritten(jobs[c.job].status, q.status, old, x)
    BY <1>2, <1>3 DEF Rewritten
  <1> HIDE DEF c, q, x
  <1> QED
    BY <1>1, <1>2, <1>3, <1>4, <1>5, <1>6, ClaimRewritten

\* The two columns of an attempt row that Fail writes, one after the other, and
\* in one rewriting of the row.
OneByOne(f, j, n, y) ==
    [f EXCEPT ![j][n].outcome = "FAILED", ![j][n].retryable = y]

AtOnce(f, j, n, y) ==
    [f EXCEPT ![j] = [f[j] EXCEPT ![n] = [f[j][n] EXCEPT !.outcome = "FAILED", !.retryable = y]]]

\* Both give the same table.
LEMMA TwoColumns ==
    ASSUME NEW f \in [Job -> Seq(AttemptRow)], NEW j \in Job, NEW n \in 1..Len(f[j]), NEW y
    PROVE  OneByOne(f, j, n, y) = AtOnce(f, j, n, y)
  <1> DEFINE r == [f[j][n] EXCEPT !.outcome = "FAILED"]
             a == [f[j] EXCEPT ![n] = r]
             g == [f EXCEPT ![j] = a]
  <1>1. f = [k \in Job |-> f[k]] /\ f[j] = [i \in 1..Len(f[j]) |-> f[j][i]]
    OBVIOUS
  <1>2. g[j] = a /\ a[n] = r
    BY <1>1
  <1>3. [g EXCEPT ![j][n].retryable = y] = [g EXCEPT ![j] = [a EXCEPT ![n] = [r EXCEPT !.retryable = y]]]
    BY <1>2
  <1>4. [a EXCEPT ![n] = [r EXCEPT !.retryable = y]] = [f[j] EXCEPT ![n] = [r EXCEPT !.retryable = y]]
    BY <1>1
  <1>5. \A z : [g EXCEPT ![j] = z] = [f EXCEPT ![j] = z]
    BY <1>1
  <1>6. [f EXCEPT ![j][n].outcome = "FAILED", ![j][n].retryable = y] = [g EXCEPT ![j][n].retryable = y]
    OBVIOUS
  <1>7. [f[j][n] EXCEPT !.outcome = "FAILED", !.retryable = y] = [r EXCEPT !.retryable = y]
    OBVIOUS
  <1> HIDE DEF r, a, g
  <1> QED
    BY <1>3, <1>4, <1>5, <1>6, <1>7 DEF OneByOne, AtOnce

\* Fail writes the outcome of the attempt its claim holds, in one row of the table.
LEMMA FailRewrites ==
    ASSUME IndInv, NEW w \in Worker, NEW retryable \in BOOLEAN, Fail(w, retryable)
    PROVE  LET c == current[w] IN
           attempts' = [attempts EXCEPT ![c.job] = [attempts[c.job] EXCEPT
              ![c.attempt_number] = [attempts[c.job][c.attempt_number] EXCEPT
                                        !.outcome = "FAILED", !.retryable = retryable]]]
  <1> DEFINE j == current[w].job
             n == current[w].attempt_number
  <1>1. attempts' = [attempts EXCEPT ![j][n].outcome = "FAILED", ![j][n].retryable = retryable]
    BY DEF Fail
  <1>2. current[w] \in ClaimedJob /\ Fenced(current[w])
    BY DEF Fail, IndInv, ClaimInvariant
  <1>3. attempts \in [Job -> Seq(AttemptRow)] /\ j \in Job /\ n \in 1..Len(attempts[j])
    BY <1>2, FencedHeld DEF IndInv, TypeOK
  <1>4. attempts' = [attempts EXCEPT ![j] = [attempts[j] EXCEPT
            ![n] = [attempts[j][n] EXCEPT !.outcome = "FAILED", !.retryable = retryable]]]
    <2> HIDE DEF j, n
    <2>1. OneByOne(attempts, j, n, retryable) = AtOnce(attempts, j, n, retryable)
      BY <1>3, TwoColumns
    <2> QED
      BY ONLY <1>1, <2>1 DEF OneByOne, AtOnce
  <1> QED
    BY ONLY <1>4

\* fail is recorded in both tables.
LEMMA FailRecorded ==
    ASSUME IndInv, NEW w \in Worker, NEW retryable \in BOOLEAN, Fail(w, retryable), NEW j \in Job
    PROVE  /\ Recorded(jobs[j], jobs'[j], attempts[j], attempts'[j])
           /\ Stored(jobs[j], jobs'[j], accepted[j], accepted'[j])
  <1> DEFINE c == current[w]
             st == FailureStatus(c, retryable)
             t == IF st = "RETRY_WAIT" THEN RetryDelay(c.attempt_number) ELSE 0
             q == Released(jobs[c.job], st, t)
             old == attempts[c.job][c.attempt_number]
             x == [old EXCEPT !.outcome = "FAILED", !.retryable = retryable]
  <1>1. c \in ClaimedJob /\ Fenced(c)
    BY DEF Fail, IndInv, ClaimInvariant
  <1>2. x \in AttemptRow /\ x.outcome = "FAILED" /\ x.retryable = retryable
    BY <1>1, FencedHeld DEF AttemptRow
  <1>3. /\ q.status = st /\ q.attempt_number = jobs[c.job].attempt_number
        /\ q.submission = jobs[c.job].submission
    <2>1. jobs[c.job] \in JobRow /\ t \in Int /\ st \in RowStatus
      BY <1>1, FencedHeld, FailureStatusType, RetryDelayType DEF FailureStatus, RowStatus, Terminal, Waiting
    <2> HIDE DEF st, t
    <2> QED
      BY <2>1, ReleasedRow
  <1>4. jobs' = [jobs EXCEPT ![c.job] = q] /\ accepted' = accepted
    BY DEF Fail, Finish
  <1>5. attempts' = [attempts EXCEPT ![c.job] = [attempts[c.job] EXCEPT ![c.attempt_number] = x]]
    BY FailRewrites
  <1>6. Rewritten(jobs[c.job].status, q.status, old, x)
    <2>1. /\ st \in {"FAILED", "RETRY_WAIT", "RETRIES_EXHAUSTED"}
          /\ (st = "FAILED" => ~ retryable)
      BY DEF FailureStatus
    <2> QED
      BY <1>2, <1>3, <2>1 DEF Rewritten
  <1> HIDE DEF c, q, x
  <1> QED
    BY <1>1, <1>2, <1>3, <1>4, <1>5, <1>6, ClaimRewritten

\* Every step is recorded in both tables, and tells clients what is stored.
LEMMA StepRecorded ==
    ASSUME IndInv, [Next]_vars, NEW j \in Job
    PROVE  /\ Recorded(jobs[j], jobs'[j], attempts[j], attempts'[j])
           /\ Stored(jobs[j], jobs'[j], accepted[j], accepted'[j])
  <1> DEFINE Goal == /\ Recorded(jobs[j], jobs'[j], attempts[j], attempts'[j])
                     /\ Stored(jobs[j], jobs'[j], accepted[j], accepted'[j])
  <1> SUFFICES Goal
    OBVIOUS
  <1>1. CASE UNCHANGED <<jobs, attempts, accepted>>
    BY <1>1, NothingRecorded
  <1>2. ASSUME NEW k \in Job, NEW s \in Submission, SubmitNew(k, s) \/ SubmitExisting(k, s)
        PROVE  Goal
    BY <1>2, SubmitRecorded
  <1>3. ASSUME NEW w \in Worker, RecoverExpired(w) PROVE Goal
    BY <1>3, RecoverRecorded
  <1>4. ASSUME NEW w \in Worker, ClaimDue(w) PROVE Goal
    BY <1>4, ClaimRecorded
  <1>5. ASSUME NEW w \in Worker, NEW c \in claimed[w], Start(w, c) PROVE Goal
    BY <1>5, StartRecorded
  <1>6. ASSUME NEW w \in Worker, Succeed(w) PROVE Goal
    BY <1>6, SucceedRecorded
  <1>7. ASSUME NEW w \in Worker, NEW retryable \in BOOLEAN, Fail(w, retryable) PROVE Goal
    BY <1>7, FailRecorded
  <1>8. ASSUME NEW w \in Worker, Heartbeat(w) PROVE Goal
    <2>1. /\ attempts'[j] = attempts[j] /\ accepted'[j] = accepted[j]
          /\ jobs'[j].attempt_number = jobs[j].attempt_number
          /\ jobs'[j].status = jobs[j].status /\ jobs'[j].submission = jobs[j].submission
      BY <1>8 DEF Heartbeat, IndInv, TypeOK, JobRow
    <2> QED
      BY <2>1 DEF Recorded, Stored
  <1>9. CASE Tick
    <2>1. jobs'[j] = Aged(jobs[j]) /\ attempts' = attempts /\ accepted' = accepted
      BY <1>9 DEF Tick
    <2>2. jobs[j] \in JobRow
      BY DEF IndInv, TypeOK
    <2>3. /\ jobs'[j].attempt_number = jobs[j].attempt_number
          /\ jobs'[j].status = jobs[j].status /\ jobs'[j].submission = jobs[j].submission
      BY <2>1, <2>2, AgedRow
    <2> QED
      BY <2>1, <2>3 DEF Recorded, Stored
  <1>10. CASE UNCHANGED vars
    BY <1>1, <1>10 DEF vars
  <1>11. ASSUME NEW w \in Worker,
                Exit(w) \/ Break(w) \/ StaleClaim(w) \/ Crash(w) \/ Stop(w) \/ Restart(w)
         PROVE  Goal
    BY <1>1, <1>11 DEF Exit, Break, StaleClaim, Crash, Die, Stop, Restart
  <1> HIDE DEF Goal
  <1> QED
    BY <1>2, <1>3, <1>4, <1>5, <1>6, <1>7, <1>8, <1>9, <1>10, <1>11 DEF Next, WorkerStep

\* The rows of a job in scheduler_jobs and scheduler_attempts, which different
\* statements of claim_due, start, succeed and fail write, always agree.
THEOREM TablesAgree == Spec => []StatusMatchesAttempts
  <1> DEFINE Agree == \A j \in Job : Matches(jobs[j], attempts[j])
  <1>1. Init => Agree
    <2> SUFFICES ASSUME Init, NEW j \in Job PROVE Matches(jobs[j], attempts[j])
      OBVIOUS
    <2>1. jobs[j] = NoRow /\ attempts[j] = <<>>
      BY DEF Init
    <2>2. NoRow.attempt_number = 0 /\ NoRow.status = "ABSENT"
      BY DEF NoRow
    <2> QED
      BY <2>1, <2>2 DEF Matches, Held
  <1>2. IndInv /\ Agree /\ [Next]_vars => Agree'
    <2> SUFFICES ASSUME IndInv, Agree, [Next]_vars, NEW j \in Job
                 PROVE  Matches(jobs'[j], attempts'[j])
      OBVIOUS
    <2>1. IndInv'
      BY NextIndInv
    <2>2. jobs[j] \in JobRow /\ jobs'[j] \in JobRow /\ attempts[j] \in Seq(AttemptRow)
      BY <2>1 DEF IndInv, TypeOK
    <2>3. Recorded(jobs[j], jobs'[j], attempts[j], attempts'[j])
      BY StepRecorded
    <2> QED
      BY <2>2, <2>3, RecordedMatches
  <1>3. Agree => StatusMatchesAttempts
    BY DEF Matches, StatusMatchesAttempts
  <1> QED
    BY <1>1, <1>2, <1>3, Invariance, PTL DEF Spec

\* A client that submit_checked answered with CREATED or IDENTICAL finds its own
\* submission stored, at any later time.
THEOREM AnswersAreTrue == Spec => []AcceptedIsStored
  <1>1. Init => AcceptedIsStored
    BY DEF Init, AcceptedIsStored
  <1>2. IndInv /\ AcceptedIsStored /\ [Next]_vars => AcceptedIsStored'
    <2> SUFFICES ASSUME IndInv, AcceptedIsStored, [Next]_vars, NEW j \in Job
                 PROVE  accepted'[j] \subseteq {jobs'[j].submission}
      BY DEF AcceptedIsStored
    <2>1. Stored(jobs[j], jobs'[j], accepted[j], accepted'[j])
      BY StepRecorded
    <2>2. jobs[j].status = "ABSENT" => accepted[j] = {}
      BY DEF IndInv, RowInvariant
    <2>3. accepted[j] \subseteq {jobs[j].submission}
      BY DEF AcceptedIsStored
    <2> QED
      BY <2>1, <2>2, <2>3 DEF Stored
  <1> QED
    BY <1>1, <1>2, Invariance, PTL DEF Spec

-----------------------------------------------------------------------------
(* The evidence of a job in its outbox. *)

\* The events of a submission.
Submitted ==
    <<Ev("JOB_CREATED", 0, FALSE), Ev("JOB_SCHEDULER_SUBMISSION_REQUESTED", 0, FALSE)>>

\* f gathers the evidence of the first n attempt rows.
Follows(f, rows, budget, n) ==
    /\ f[0] = Submitted
    /\ \A i \in 1..n : f[i] = f[i - 1] \o AttemptEvidence(i, rows[i], budget)

Gathers(f, rows, budget, n) ==
    f \in [0..n -> Seq(OutboxEvent)] /\ Follows(f, rows, budget, n)

\* A set of numbers that has a member has a least one.
LEMMA LeastNumber ==
    ASSUME NEW T \in SUBSET Nat, T # {}
    PROVE  \E x \in T : \A y \in T : x <= y
  <1> DEFINE R == OpToRel(<, Nat)
  <1>1. PICK x \in T : \A y \in T : ~ (<<y, x>> \in R)
    BY NatLessThanWellFounded, WFMin
  <1>2. \A y \in T : ~ (y < x)
    BY <1>1 DEF OpToRel
  <1> QED
    BY <1>2

\* The events of a submission are events.
LEMMA SubmittedType == Submitted \in Seq(OutboxEvent)
  <1>1. /\ Ev("JOB_CREATED", 0, FALSE) \in OutboxEvent
        /\ Ev("JOB_SCHEDULER_SUBMISSION_REQUESTED", 0, FALSE) \in OutboxEvent
    BY DEF Ev, OutboxEvent, OutboxType
  <1> QED
    BY <1>1, EventTuples DEF Submitted

\* The last part of the evidence of an attempt: its outcome.
OutcomeEvidence(n, row, budget) ==
    CASE row.outcome = Null -> <<>>
      [] row.outcome = "SUCCEEDED" -> <<Ev("JOB_EXECUTION_SUCCEEDED", n, FALSE)>>
      [] row.outcome = "FAILED" /\ ~ row.retryable -> <<Ev("JOB_EXECUTION_FAILED", n, FALSE)>>
      [] row.outcome = "FAILED" /\ row.retryable /\ n = budget ->
            <<Ev("JOB_EXECUTION_FAILED", n, TRUE), Ev("JOB_RETRIES_EXHAUSTED", n, FALSE)>>
      [] row.outcome = "FAILED" /\ row.retryable /\ n # budget ->
            <<Ev("JOB_EXECUTION_FAILED", n, TRUE), Ev("JOB_RETRY_REQUESTED", n, TRUE),
              Ev("JOB_RETRY_ACKNOWLEDGED", n, TRUE)>>

\* The first part: it was claimed, and perhaps started.
BegunEvidence(n, started) ==
    IF started
    THEN <<Ev("JOB_SCHEDULER_ITEM_RETRIEVED", n, FALSE), Ev("JOB_EXECUTION_STARTED", n, FALSE)>>
    ELSE <<Ev("JOB_SCHEDULER_ITEM_RETRIEVED", n, FALSE)>>

\* The events of the begin of an attempt are events.
LEMMA BegunType ==
    ASSUME NEW n \in Nat, NEW started \in BOOLEAN
    PROVE  BegunEvidence(n, started) \in Seq(OutboxEvent)
  <1>1. /\ Ev("JOB_SCHEDULER_ITEM_RETRIEVED", n, FALSE) \in OutboxEvent
        /\ Ev("JOB_EXECUTION_STARTED", n, FALSE) \in OutboxEvent
    BY DEF Ev, OutboxEvent, OutboxType
  <1> QED
    BY <1>1, EventTuples DEF BegunEvidence

\* The events of the outcome of an attempt are events.
LEMMA OutcomeType ==
    ASSUME NEW n \in Nat, NEW row \in AttemptRow, NEW budget
    PROVE  OutcomeEvidence(n, row, budget) \in Seq(OutboxEvent)
  <1>1. /\ Ev("JOB_EXECUTION_SUCCEEDED", n, FALSE) \in OutboxEvent
        /\ Ev("JOB_EXECUTION_FAILED", n, FALSE) \in OutboxEvent
        /\ Ev("JOB_EXECUTION_FAILED", n, TRUE) \in OutboxEvent
        /\ Ev("JOB_RETRIES_EXHAUSTED", n, FALSE) \in OutboxEvent
        /\ Ev("JOB_RETRY_REQUESTED", n, TRUE) \in OutboxEvent
        /\ Ev("JOB_RETRY_ACKNOWLEDGED", n, TRUE) \in OutboxEvent
    BY DEF Ev, OutboxEvent, OutboxType
  <1>2. row.outcome \in {Null, "SUCCEEDED", "FAILED"} /\ row.retryable \in BOOLEAN
    BY DEF AttemptRow
  <1>3. <<>> \in Seq(OutboxEvent)
    OBVIOUS
  <1>4. CASE row.outcome = Null
    BY <1>3, <1>4, OutcomeAssumption DEF OutcomeEvidence
  <1>5. CASE row.outcome = "SUCCEEDED"
    BY <1>1, <1>5, EventTuples, OutcomeAssumption DEF OutcomeEvidence
  <1>6. CASE row.outcome = "FAILED"
    BY <1>1, <1>2, <1>6, EventTuples, OutcomeAssumption DEF OutcomeEvidence
  <1> QED
    BY <1>2, <1>4, <1>5, <1>6

\* Two events are one event and then another.
LEMMA PairIsConcat ==
    ASSUME NEW e \in OutboxEvent, NEW f \in OutboxEvent
    PROVE  <<e>> \o <<f>> = <<e, f>>
  <1>1. <<e>> \in Seq(OutboxEvent) /\ <<f>> \in Seq(OutboxEvent) /\ <<e, f>> \in Seq(OutboxEvent)
    BY EventTuples
  <1>2. /\ Len(<<e>>) = 1 /\ Len(<<f>>) = 1 /\ Len(<<e, f>>) = 2
        /\ <<e>>[1] = e /\ <<f>>[1] = f /\ <<e, f>>[1] = e /\ <<e, f>>[2] = f
    OBVIOUS
  <1> DEFINE s == <<e>> \o <<f>>
             t == <<e, f>>
  <1>3. s \in Seq(OutboxEvent) /\ Len(s) = 2 /\ s[1] = e /\ s[2] = f
    BY <1>1, <1>2, ConcatProperties
  <1>4. t \in Seq(OutboxEvent) /\ Len(t) = 2 /\ t[1] = e /\ t[2] = f
    BY <1>1, <1>2
  <1> HIDE DEF s, t
  <1>5. \A i \in 1..Len(s) : s[i] = t[i]
    BY <1>3, <1>4
  <1>6. s = t
    BY <1>3, <1>4, <1>5, SeqEqual
  <1> QED
    BY <1>6 DEF s, t

\* The evidence of an attempt is that of its begin and then that of its outcome.
LEMMA AttemptEvidenceParts ==
    ASSUME NEW n \in Nat, NEW row \in AttemptRow, NEW budget
    PROVE  /\ AttemptEvidence(n, row, budget) \in Seq(OutboxEvent)
           /\ AttemptEvidence(n, row, budget) =
                 BegunEvidence(n, row.started) \o OutcomeEvidence(n, row, budget)
  <1> DEFINE retrieved == <<Ev("JOB_SCHEDULER_ITEM_RETRIEVED", n, FALSE)>>
             begun == IF row.started THEN <<Ev("JOB_EXECUTION_STARTED", n, FALSE)>> ELSE <<>>
             rest == OutcomeEvidence(n, row, budget)
  <1>1. AttemptEvidence(n, row, budget) = (retrieved \o begun) \o rest
    BY DEF AttemptEvidence, OutcomeEvidence
  <1>2. retrieved \o begun = BegunEvidence(n, row.started)
    <2> DEFINE e == Ev("JOB_SCHEDULER_ITEM_RETRIEVED", n, FALSE)
               s == Ev("JOB_EXECUTION_STARTED", n, FALSE)
    <2>1. e \in OutboxEvent /\ s \in OutboxEvent
      BY DEF Ev, OutboxEvent, OutboxType
    <2>2. CASE row.started
      <3> HIDE DEF e, s
      <3>1. <<e>> \o <<s>> = <<e, s>>
        BY <2>1, PairIsConcat
      <3> QED
        BY <2>2, <3>1 DEF BegunEvidence, e, s
    <2>3. CASE ~ row.started
      <3> HIDE DEF e
      <3>1. <<e>> \o <<>> = <<e>>
        BY <2>1, EventTuples, ConcatEmptySeq
      <3> QED
        BY <2>3, <3>1 DEF BegunEvidence, e
    <2> QED
      BY <2>2, <2>3
  <1>3. /\ BegunEvidence(n, row.started) \in Seq(OutboxEvent)
        /\ rest \in Seq(OutboxEvent)
    BY BegunType, OutcomeType DEF AttemptRow
  <1> HIDE DEF retrieved, begun, rest
  <1> QED
    BY <1>1, <1>2, <1>3, ConcatProperties DEF rest

\* Evidence can be gathered one attempt further.
LEMMA GatherMore ==
    ASSUME NEW n \in Nat, NEW rows, rows[n + 1] \in AttemptRow, NEW budget,
           NEW f, Gathers(f, rows, budget, n)
    PROVE  \E g : Gathers(g, rows, budget, n + 1)
  <1> DEFINE next == f[n] \o AttemptEvidence(n + 1, rows[n + 1], budget)
             g == [i \in 0..(n + 1) |-> IF i = n + 1 THEN next ELSE f[i]]
  <1>1. f[n] \in Seq(OutboxEvent)
    BY DEF Gathers, Follows
  <1>2. AttemptEvidence(n + 1, rows[n + 1], budget) \in Seq(OutboxEvent)
    <2>1. n + 1 \in Nat
      OBVIOUS
    <2> QED
      BY <2>1, AttemptEvidenceParts
  <1>3. next \in Seq(OutboxEvent)
    BY <1>1, <1>2, ConcatProperties
  <1> HIDE DEF next
  <1>4. g \in [0..(n + 1) -> Seq(OutboxEvent)]
    BY <1>3 DEF Gathers, Follows
  <1>5. g[0] = Submitted
    BY DEF Gathers, Follows
  <1>6. ASSUME NEW i \in 1..(n + 1)
        PROVE  g[i] = g[i - 1] \o AttemptEvidence(i, rows[i], budget)
    <2>1. CASE i = n + 1
      <3>1. g[i] = next /\ i - 1 = n /\ g[i - 1] = f[n]
        BY <2>1
      <3> QED
        BY <2>1, <3>1 DEF next
    <2>2. CASE i # n + 1
      <3>1. i \in 1..n /\ g[i] = f[i] /\ g[i - 1] = f[i - 1]
        BY <2>2
      <3> QED
        BY <3>1 DEF Gathers, Follows
    <2> QED
      BY <2>1, <2>2
  <1> QED
    BY <1>4, <1>5, <1>6 DEF Gathers, Follows

\* The evidence of every list of attempts can be gathered: the shortest part of
\* one that could not would be one attempt longer than one that can.
LEMMA GatherExists ==
    ASSUME NEW rows \in Seq(AttemptRow), NEW budget
    PROVE  \E f : Gathers(f, rows, budget, Len(rows))
  <1> DEFINE T == {n \in 0..Len(rows) : ~ \E f : Gathers(f, rows, budget, n)}
  <1>1. Len(rows) \in 0..Len(rows) /\ T \in SUBSET Nat
    OBVIOUS
  <1>2. Len(rows) \notin T => \E f : Gathers(f, rows, budget, Len(rows))
    BY <1>1
  <1>3. ASSUME T # {} PROVE FALSE
    <2>1. PICK n \in T : \A m \in T : n <= m
      <3> HIDE DEF T
      <3> QED
        BY <1>1, <1>3, LeastNumber
    <2>2. n # 0
      <3>1. Gathers([i \in 0..0 |-> Submitted], rows, budget, 0)
        BY SubmittedType DEF Gathers, Follows
      <3> QED
        BY <2>1, <3>1
    <2>3. n \in 0..Len(rows) /\ n - 1 \in 0..Len(rows) /\ n - 1 \in Nat /\ (n - 1) + 1 = n
      BY <2>1, <2>2
    <2>4. n - 1 \notin T
      BY <2>1, <2>3
    <2>5. PICK f : Gathers(f, rows, budget, n - 1)
      BY <2>3, <2>4
    <2>6. rows[n] \in AttemptRow
      BY <2>2, <2>3, RowType
    <2>7. \E g : Gathers(g, rows, budget, n)
      BY <2>3, <2>5, <2>6, GatherMore
    <2> QED
      BY <2>1, <2>7
  <1> HIDE DEF T
  <1> QED
    BY <1>2, <1>3

\* It can be gathered in one way: the first place at which two ways differed
\* would follow from places at which they do not.
LEMMA GatherUnique ==
    ASSUME NEW rows, NEW budget, NEW n \in Nat, NEW f, NEW g,
           Gathers(f, rows, budget, n), Follows(g, rows, budget, n)
    PROVE  \A i \in 0..n : g[i] = f[i]
  <1> DEFINE T == {i \in 0..n : g[i] # f[i]}
  <1>1. T \in SUBSET Nat
    OBVIOUS
  <1>2. ASSUME T # {} PROVE FALSE
    <2>1. PICK i \in T : \A m \in T : i <= m
      <3> HIDE DEF T
      <3> QED
        BY <1>1, <1>2, LeastNumber
    <2>2. i # 0
      BY <2>1 DEF Gathers, Follows
    <2>3. i \in 1..n /\ i - 1 \in 0..n /\ i - 1 \notin T
      BY <2>1, <2>2
    <2>4. g[i - 1] = f[i - 1]
      BY <2>3
    <2>5. g[i] = f[i]
      BY <2>3, <2>4 DEF Gathers, Follows
    <2> QED
      BY <2>1, <2>5
  <1> QED
    BY <1>2

\* EvidenceUpTo is that way.
LEMMA EvidenceGathers ==
    ASSUME NEW rows \in Seq(AttemptRow), NEW budget
    PROVE  Gathers(EvidenceUpTo(rows, budget), rows, budget, Len(rows))
  <1> DEFINE Step(f) == [n \in 0..Len(rows) |->
                            IF n = 0 THEN Submitted
                            ELSE f[n - 1] \o AttemptEvidence(n, rows[n], budget)]
  <1>1. PICK f : Gathers(f, rows, budget, Len(rows))
    BY GatherExists
  <1>2. f = Step(f)
    <2>1. f = [n \in 0..Len(rows) |-> f[n]]
      BY <1>1 DEF Gathers
    <2>2. ASSUME NEW n \in 0..Len(rows)
          PROVE  f[n] = IF n = 0 THEN Submitted
                        ELSE f[n - 1] \o AttemptEvidence(n, rows[n], budget)
      <3>1. n # 0 => n \in 1..Len(rows)
        OBVIOUS
      <3> QED
        BY <1>1, <3>1 DEF Gathers, Follows
    <2> QED
      BY <2>1, <2>2
  <1>3. EvidenceUpTo(rows, budget) = CHOOSE g : g = Step(g)
    BY DEF EvidenceUpTo, Submitted
  <1> DEFINE g == EvidenceUpTo(rows, budget)
  <1>4. g = Step(g)
    BY <1>2, <1>3
  <1> HIDE DEF g
  <1>5. Follows(g, rows, budget, Len(rows)) /\ g = [i \in 0..Len(rows) |-> g[i]]
    BY <1>4 DEF Follows
  <1>6. Len(rows) \in Nat
    OBVIOUS
  <1>7. \A i \in 0..Len(rows) : g[i] = f[i]
    BY <1>1, <1>5, <1>6, GatherUnique
  <1>8. Gathers(g, rows, budget, Len(rows))
    BY <1>1, <1>5, <1>7 DEF Gathers
  <1> QED
    BY <1>8 DEF g

\* A job never claimed has the evidence of its submission.
LEMMA EvidenceOfNone ==
    ASSUME NEW budget
    PROVE  Evidence(<<>>, budget) = Submitted
  <1>1. <<>> \in Seq(AttemptRow) /\ Len(<<>>) = 0
    OBVIOUS
  <1> QED
    BY <1>1, EvidenceGathers DEF Gathers, Follows, Evidence

\* One attempt more is its evidence more.
LEMMA EvidenceOfMore ==
    ASSUME NEW rows \in Seq(AttemptRow), NEW row \in AttemptRow, NEW budget
    PROVE  /\ Evidence(rows, budget) \in Seq(OutboxEvent)
           /\ Evidence(Append(rows, row), budget) =
                 Evidence(rows, budget)
                    \o AttemptEvidence(Len(rows) + 1, row, budget)
  <1> DEFINE more == Append(rows, row)
             n == Len(rows)
             f == EvidenceUpTo(rows, budget)
             g == EvidenceUpTo(more, budget)
  <1>1. /\ more \in Seq(AttemptRow) /\ Len(more) = n + 1 /\ more[n + 1] = row /\ n \in Nat
        /\ \A i \in 1..n : more[i] = rows[i]
    OBVIOUS
  <1>2. Gathers(f, rows, budget, n) /\ Gathers(g, more, budget, n + 1)
    BY <1>1, EvidenceGathers
  <1> HIDE DEF more, n, f, g
  <1>3. \A i \in 0..n : g[i] = f[i]
    <2>1. Follows(g, rows, budget, n)
      <3>1. g[0] = Submitted
        BY <1>2 DEF Gathers, Follows
      <3>2. ASSUME NEW i \in 1..n
            PROVE  g[i] = g[i - 1] \o AttemptEvidence(i, rows[i], budget)
        <4>1. i \in 1..(n + 1) /\ more[i] = rows[i]
          BY <1>1
        <4> QED
          BY <1>2, <4>1 DEF Gathers, Follows
      <3> QED
        BY <3>1, <3>2 DEF Follows
    <2>2. n \in Nat
      BY <1>1
    <2> QED
      BY <1>2, <2>1, <2>2, GatherUnique
  <1>4. g[n + 1] = g[n] \o AttemptEvidence(n + 1, row, budget) /\ g[n] = f[n]
    <2>1. n + 1 \in 1..(n + 1) /\ (n + 1) - 1 = n /\ n \in 0..n
      BY <1>1
    <2> QED
      BY <1>1, <1>2, <1>3, <2>1 DEF Gathers, Follows
  <1>5. f[n] \in Seq(OutboxEvent)
    BY <1>1, <1>2 DEF Gathers, Follows
  <1> QED
    BY <1>1, <1>4, <1>5 DEF Evidence, more, n, f, g

\* It does not matter in which order the parts are put together.
LEMMA EventsAssociate ==
    ASSUME NEW a \in Seq(OutboxEvent), NEW b \in Seq(OutboxEvent), NEW c \in Seq(OutboxEvent)
    PROVE  (a \o b) \o c = a \o (b \o c)
  OBVIOUS

\* Rewriting the last attempt adds what its evidence gains.
LEMMA EvidenceOfRewritten ==
    ASSUME NEW rows \in Seq(AttemptRow), NEW n \in Nat, n = Len(rows), n > 0,
           NEW x \in AttemptRow, NEW budget, NEW added \in Seq(OutboxEvent),
           AttemptEvidence(n, x, budget) = AttemptEvidence(n, rows[n], budget) \o added
    PROVE  Evidence([rows EXCEPT ![n] = x], budget) = Evidence(rows, budget) \o added
  <1> DEFINE front == [i \in 1..(n - 1) |-> rows[i]]
             base == Evidence(front, budget)
             last == AttemptEvidence(n, rows[n], budget)
  <1>1. /\ n \in Nat /\ n - 1 \in Nat /\ (n - 1) + 1 = n /\ n \in 1..Len(rows)
        /\ front \in Seq(AttemptRow) /\ Len(front) = n - 1
        /\ \A i \in 1..(n - 1) : front[i] = rows[i]
        /\ rows[n] \in AttemptRow
    OBVIOUS
  <1> HIDE DEF front
  <1>2. ASSUME NEW y \in AttemptRow, NEW s \in Seq(AttemptRow), Len(s) = n, s[n] = y,
               \A i \in 1..(n - 1) : s[i] = rows[i]
        PROVE  s = Append(front, y)
    <2>1. /\ Append(front, y) \in Seq(AttemptRow) /\ Len(Append(front, y)) = n
          /\ Append(front, y)[n] = y
          /\ \A i \in 1..(n - 1) : Append(front, y)[i] = front[i]
      BY <1>1
    <2>2. \A i \in 1..Len(s) : s[i] = Append(front, y)[i]
      <3> SUFFICES ASSUME NEW i \in 1..n PROVE s[i] = Append(front, y)[i]
        BY <1>2
      <3>1. i = n \/ i \in 1..(n - 1)
        BY <1>1
      <3> QED
        BY <1>1, <1>2, <2>1, <3>1
    <2> QED
      BY <1>2, <2>1, <2>2, SeqEqual
  <1>3. rows = Append(front, rows[n])
    BY <1>1, <1>2
  <1>4. [rows EXCEPT ![n] = x] = Append(front, x)
    <2>1. /\ [rows EXCEPT ![n] = x] \in Seq(AttemptRow)
          /\ Len([rows EXCEPT ![n] = x]) = n
      BY <1>1, ReplaceRow
    <2>2. /\ [rows EXCEPT ![n] = x][n] = x
          /\ \A i \in 1..(n - 1) : [rows EXCEPT ![n] = x][i] = rows[i]
      BY <1>1
    <2> HIDE DEF front
    <2> QED
      BY <1>2, <2>1, <2>2
  <1>5. base \in Seq(OutboxEvent) /\ Evidence(rows, budget) = base \o last
    <2>1. /\ Evidence(front, budget) \in Seq(OutboxEvent)
          /\ Evidence(Append(front, rows[n]), budget) =
                Evidence(front, budget) \o AttemptEvidence(Len(front) + 1, rows[n], budget)
      BY <1>1, EvidenceOfMore
    <2>2. Len(front) + 1 = n
      BY <1>1
    <2> QED
      BY <1>3, <2>1, <2>2
  <1>6. Evidence([rows EXCEPT ![n] = x], budget) = base \o (last \o added)
    <2>1. Evidence(Append(front, x), budget) =
             Evidence(front, budget) \o AttemptEvidence(Len(front) + 1, x, budget)
      BY <1>1, EvidenceOfMore
    <2>2. Len(front) + 1 = n
      BY <1>1
    <2> QED
      BY <1>4, <2>1, <2>2
  <1>7. last \in Seq(OutboxEvent)
    BY <1>1, AttemptEvidenceParts
  <1> HIDE DEF base, last
  <1> QED
    <2>0. base \in Seq(OutboxEvent) /\ last \in Seq(OutboxEvent) /\ added \in Seq(OutboxEvent)
      BY <1>5, <1>7
    <2>1. (base \o last) \o added = base \o (last \o added)
      BY <2>0, EventsAssociate
    <2> QED
      BY <1>5, <1>6, <2>1

\* Rewriting the last attempt row adds to the evidence what it adds to that row's.
LEMMA RewrittenEvidence ==
    ASSUME NEW rows \in Seq(AttemptRow), Len(rows) > 0,
           NEW x \in AttemptRow, NEW budget, NEW added \in Seq(OutboxEvent),
           AttemptEvidence(Len(rows), x, budget) =
              AttemptEvidence(Len(rows), rows[Len(rows)], budget) \o added
    PROVE  Evidence([rows EXCEPT ![Len(rows)] = x], budget) = Evidence(rows, budget) \o added
  <1> DEFINE n == Len(rows)
  <1>1. n \in Nat
    OBVIOUS
  <1>2. /\ n = Len(rows) /\ n > 0
        /\ AttemptEvidence(n, x, budget) = AttemptEvidence(n, rows[n], budget) \o added
    OBVIOUS
  <1> HIDE DEF n
  <1>3. Evidence([rows EXCEPT ![n] = x], budget) = Evidence(rows, budget) \o added
    BY <1>1, <1>2, EvidenceOfRewritten
  <1> QED
    BY <1>3 DEF n

\* start adds the event of the start, succeed and fail those of the outcome.
LEMMA StartAdds ==
    ASSUME NEW n \in Nat, NEW row \in AttemptRow, NEW x \in AttemptRow, NEW budget,
           row.outcome = Null, ~ row.started, x.outcome = Null, x.started
    PROVE  AttemptEvidence(n, x, budget) =
              AttemptEvidence(n, row, budget) \o <<Ev("JOB_EXECUTION_STARTED", n, FALSE)>>
  <1> DEFINE e == Ev("JOB_SCHEDULER_ITEM_RETRIEVED", n, FALSE)
             f == Ev("JOB_EXECUTION_STARTED", n, FALSE)
  <1>1. e \in OutboxEvent /\ f \in OutboxEvent
    BY DEF Ev, OutboxEvent, OutboxType
  <1>2. OutcomeEvidence(n, x, budget) = <<>> /\ OutcomeEvidence(n, row, budget) = <<>>
    BY OutcomeAssumption DEF OutcomeEvidence
  <1>3. BegunEvidence(n, x.started) = <<e, f>> /\ BegunEvidence(n, row.started) = <<e>>
    BY DEF BegunEvidence
  <1> HIDE DEF e, f
  <1>4. <<e, f>> \o <<>> = <<e, f>> /\ <<e>> \o <<>> = <<e>>
    BY <1>1, EventTuples, ConcatEmptySeq
  <1>5. AttemptEvidence(n, x, budget) = <<e, f>> /\ AttemptEvidence(n, row, budget) = <<e>>
    BY <1>2, <1>3, <1>4, AttemptEvidenceParts
  <1>6. <<e>> \o <<f>> = <<e, f>>
    BY <1>1, PairIsConcat
  <1> QED
    BY <1>5, <1>6 DEF f

\* Recording an outcome adds the events of the outcome.
LEMMA OutcomeAdds ==
    ASSUME NEW n \in Nat, NEW row \in AttemptRow, NEW x \in AttemptRow, NEW budget,
           row.outcome = Null, x.started = row.started
    PROVE  AttemptEvidence(n, x, budget) =
              AttemptEvidence(n, row, budget) \o OutcomeEvidence(n, x, budget)
  <1> DEFINE begun == BegunEvidence(n, row.started)
  <1>1. begun \in Seq(OutboxEvent)
    BY BegunType DEF AttemptRow
  <1>2. OutcomeEvidence(n, row, budget) = <<>>
    BY OutcomeAssumption DEF OutcomeEvidence
  <1>3. AttemptEvidence(n, x, budget) = begun \o OutcomeEvidence(n, x, budget)
    BY AttemptEvidenceParts
  <1>4. AttemptEvidence(n, row, budget) = begun \o <<>>
    BY <1>2, AttemptEvidenceParts
  <1> HIDE DEF begun
  <1>5. begun \o <<>> = begun
    BY <1>1, ConcatEmptySeq
  <1> QED
    BY <1>3, <1>4, <1>5

\* The outbox o of a job tells its row r and its attempts a.
Told(r, a, o) ==
    IF r.status = "ABSENT" THEN a = <<>> /\ o = <<>> ELSE o = Evidence(a, r.max_attempts)

\* What a step makes of the row r, the attempts a and the outbox o: q, b and p.
Emitted(r, q, a, b, o, p) ==
    \/ /\ b = a /\ p = o /\ q.max_attempts = r.max_attempts
       /\ (q.status = "ABSENT" <=> r.status = "ABSENT")
    \/ r.status = "ABSENT" /\ q.status # "ABSENT" /\ b = a /\ p = o \o Submitted
    \/ /\ r.status # "ABSENT" /\ q.status # "ABSENT" /\ q.max_attempts = r.max_attempts
       /\ b = Append(a, NewAttempt)
       /\ p = Append(o, Ev("JOB_SCHEDULER_ITEM_RETRIEVED", Len(a) + 1, FALSE))
    \/ /\ r.status # "ABSENT" /\ q.status # "ABSENT" /\ q.max_attempts = r.max_attempts
       /\ Len(a) > 0
       /\ \E x \in AttemptRow, added \in Seq(OutboxEvent) :
             /\ b = [a EXCEPT ![Len(a)] = x]
             /\ p = o \o added
             /\ AttemptEvidence(Len(a), x, r.max_attempts) =
                   AttemptEvidence(Len(a), a[Len(a)], r.max_attempts) \o added

\* Such a step goes on telling them.
LEMMA EmittedTold ==
    ASSUME NEW r, NEW q, NEW a \in Seq(AttemptRow), NEW b, NEW o \in Seq(OutboxEvent), NEW p,
           Told(r, a, o), Emitted(r, q, a, b, o, p)
    PROVE  Told(q, b, p)
  <1>1. CASE /\ b = a /\ p = o /\ q.max_attempts = r.max_attempts
             /\ (q.status = "ABSENT" <=> r.status = "ABSENT")
    BY <1>1 DEF Told
  <1>2. CASE r.status = "ABSENT" /\ q.status # "ABSENT" /\ b = a /\ p = o \o Submitted
    <2>1. a = <<>> /\ o = <<>>
      BY <1>2 DEF Told
    <2>2. p = Submitted
      BY <1>2, <2>1, SubmittedType, ConcatEmptySeq
    <2> QED
      BY <1>2, <2>1, <2>2, EvidenceOfNone DEF Told
  <1>3. CASE /\ r.status # "ABSENT" /\ q.status # "ABSENT" /\ q.max_attempts = r.max_attempts
             /\ b = Append(a, NewAttempt)
             /\ p = Append(o, Ev("JOB_SCHEDULER_ITEM_RETRIEVED", Len(a) + 1, FALSE))
    <2> DEFINE n == Len(a) + 1
               e == Ev("JOB_SCHEDULER_ITEM_RETRIEVED", n, FALSE)
    <2>1. n \in Nat /\ NewAttempt \in AttemptRow /\ e \in OutboxEvent
      BY DEF NewAttempt, AttemptRow, Ev, OutboxEvent, OutboxType
    <2>2. /\ NewAttempt.outcome = Null /\ NewAttempt.started = FALSE
      BY DEF NewAttempt
    <2>3. AttemptEvidence(n, NewAttempt, r.max_attempts) = <<e>>
      <3>1. BegunEvidence(n, NewAttempt.started) = <<e>>
        BY <2>2 DEF BegunEvidence
      <3>2. OutcomeEvidence(n, NewAttempt, r.max_attempts) = <<>>
        BY <2>2, OutcomeAssumption DEF OutcomeEvidence
      <3> HIDE DEF n, e
      <3>3. <<e>> \o <<>> = <<e>>
        BY <2>1, EventTuples, ConcatEmptySeq
      <3> QED
        BY <2>1, <3>1, <3>2, <3>3, AttemptEvidenceParts
    <2>4. Evidence(b, r.max_attempts) = o \o <<e>>
      BY <1>3, <2>1, <2>3, EvidenceOfMore DEF Told
    <2> HIDE DEF e
    <2>5. Append(o, e) = o \o <<e>>
      BY <2>1, AppendIsConcat
    <2> QED
      BY <1>3, <2>4, <2>5 DEF Told, e
  <1>4. CASE /\ r.status # "ABSENT" /\ q.status # "ABSENT" /\ q.max_attempts = r.max_attempts
             /\ Len(a) > 0
             /\ \E x \in AttemptRow, added \in Seq(OutboxEvent) :
                   /\ b = [a EXCEPT ![Len(a)] = x]
                   /\ p = o \o added
                   /\ AttemptEvidence(Len(a), x, r.max_attempts) =
                         AttemptEvidence(Len(a), a[Len(a)], r.max_attempts) \o added
    <2>1. PICK x \in AttemptRow, added \in Seq(OutboxEvent) :
                   /\ b = [a EXCEPT ![Len(a)] = x]
                   /\ p = o \o added
                   /\ AttemptEvidence(Len(a), x, r.max_attempts) =
                         AttemptEvidence(Len(a), a[Len(a)], r.max_attempts) \o added
      BY <1>4
    <2>2. Evidence(b, r.max_attempts) = Evidence(a, r.max_attempts) \o added
      <3>1. Len(a) > 0 /\ b = [a EXCEPT ![Len(a)] = x]
        BY <1>4, <2>1
      <3>2. AttemptEvidence(Len(a), x, r.max_attempts) =
               AttemptEvidence(Len(a), a[Len(a)], r.max_attempts) \o added
        BY <2>1
      <3> DEFINE budget == r.max_attempts
      <3>3. AttemptEvidence(Len(a), x, budget) =
               AttemptEvidence(Len(a), a[Len(a)], budget) \o added
        BY <3>2
      <3> HIDE DEF budget
      <3>4. Evidence([a EXCEPT ![Len(a)] = x], budget) = Evidence(a, budget) \o added
        BY <3>1, <3>3, RewrittenEvidence
      <3> QED
        BY <3>1, <3>4 DEF budget
    <2> QED
      BY <1>4, <2>1, <2>2 DEF Told
  <1> QED
    BY <1>1, <1>2, <1>3, <1>4 DEF Emitted

\* A claim that a worker has not begun, and that no one has taken from it, has not
\* been started by anyone.
OpenClaims ==
    \A w \in Worker : \A c \in claimed[w] :
        jobs[c.job].claim_token = c.claim_token => jobs[c.job].status = "CLAIMED"

\* A step that makes no claim and leaves held rows as they are keeps OpenClaims.
LEMMA OpenKept ==
    ASSUME IndInv', OpenClaims,
           \A w \in Worker : claimed'[w] \subseteq claimed[w],
           \A j \in Job : jobs'[j].status \in Held =>
              jobs'[j].status = jobs[j].status /\ jobs'[j].claim_token = jobs[j].claim_token
    PROVE  OpenClaims'
  <1> SUFFICES ASSUME NEW w \in Worker, NEW c \in claimed'[w],
                      jobs'[c.job].claim_token = c.claim_token
               PROVE  jobs'[c.job].status = "CLAIMED"
    BY DEF OpenClaims
  <1>1. c.job \in Job /\ c.claim_token # 0
    BY DEF IndInv, TypeOK, ClaimedJob
  <1>2. jobs'[c.job].status \in Held
    BY <1>1 DEF IndInv, RowInvariant
  <1>3. c \in claimed[w] /\ jobs[c.job].claim_token = c.claim_token
    BY <1>1, <1>2
  <1> QED
    BY <1>1, <1>2, <1>3 DEF OpenClaims

\* No step but a claim or a start makes a row held, or changes how it is held.
LEMMA HeldRows ==
    ASSUME IndInv, NEW j \in Job,
           \/ \E k \in Job, s \in Submission : SubmitNew(k, s)
           \/ \E w \in Worker : RecoverExpired(w) \/ Succeed(w) \/ Heartbeat(w)
           \/ \E w \in Worker, retryable \in BOOLEAN : Fail(w, retryable)
           \/ Tick
    PROVE  jobs'[j].status \in Held =>
              jobs'[j].status = jobs[j].status /\ jobs'[j].claim_token = jobs[j].claim_token
  <1> DEFINE Goal == jobs'[j].status \in Held =>
                        jobs'[j].status = jobs[j].status
                        /\ jobs'[j].claim_token = jobs[j].claim_token
  <1>0. jobs[j] \in JobRow /\ jobs \in [Job -> JobRow]
    BY DEF IndInv, TypeOK
  <1>1. ASSUME NEW k \in Job, NEW s \in Submission, SubmitNew(k, s) PROVE Goal
    <2>1. jobs'[j] = jobs[j] \/ jobs'[j] = NewRow(s)
      BY <1>0, <1>1 DEF SubmitNew
    <2>2. NewRow(s).status = "PENDING"
      BY NewRowType
    <2> QED
      BY <2>1, <2>2 DEF Held
  <1>2. ASSUME NEW w \in Worker, RecoverExpired(w) PROVE Goal
    <2>1. jobs'[j] = jobs[j] \/ jobs'[j] = Recovered(jobs[j])
      BY <1>2 DEF RecoverExpired
    <2>2. Recovered(jobs[j]).status \notin Held
      BY <1>0, RecoveredRow DEF Held
    <2> QED
      BY <2>1, <2>2
  <1>3. ASSUME NEW c \in ClaimedJob, Fenced(c), NEW st \in RowStatus \ Held, NEW t \in Int,
               jobs' = [jobs EXCEPT ![c.job] = Released(jobs[c.job], st, t)]
        PROVE  Goal
    <2>1. jobs'[j] = jobs[j] \/ (j = c.job /\ jobs'[j] = Released(jobs[j], st, t))
      BY <1>0, <1>3
    <2>2. Released(jobs[j], st, t).status = st
      BY <1>0, ReleasedRow
    <2> QED
      BY <2>1, <2>2
  <1>4. ASSUME NEW w \in Worker, Succeed(w) PROVE Goal
    <2> DEFINE c == current[w]
    <2>1. c \in ClaimedJob /\ Fenced(c)
      BY <1>4 DEF Succeed, IndInv, ClaimInvariant
    <2>2. jobs[c.job].available_in \in Int /\ "SUCCEEDED" \in RowStatus \ Held
      BY <2>1, FencedHeld DEF JobRow, RowStatus, Terminal, Held
    <2>3. jobs' = [jobs EXCEPT ![c.job] =
                      Released(jobs[c.job], "SUCCEEDED", jobs[c.job].available_in)]
      BY <1>4 DEF Succeed
    <2> HIDE DEF c, Goal
    <2> QED
      BY <1>3, <2>1, <2>2, <2>3
  <1>5. ASSUME NEW w \in Worker, NEW retryable \in BOOLEAN, Fail(w, retryable) PROVE Goal
    <2> DEFINE c == current[w]
               st == FailureStatus(c, retryable)
               t == IF st = "RETRY_WAIT" THEN RetryDelay(c.attempt_number) ELSE 0
    <2>1. c \in ClaimedJob /\ Fenced(c)
      BY <1>5 DEF Fail, IndInv, ClaimInvariant
    <2>2. t \in Int /\ st \in RowStatus \ Held
      BY <2>1, FencedHeld, FailureStatusType, RetryDelayType
         DEF FailureStatus, RowStatus, Terminal, Waiting, Held
    <2>3. jobs' = [jobs EXCEPT ![c.job] = Released(jobs[c.job], st, t)]
      BY <1>5 DEF Fail
    <2> HIDE DEF c, st, t, Goal
    <2> QED
      BY <1>3, <2>1, <2>2, <2>3
  <1>6. ASSUME NEW w \in Worker, Heartbeat(w) PROVE Goal
    <2>1. jobs'[j] = jobs[j] \/ jobs'[j] = [jobs[j] EXCEPT !.lease = ClaimLease]
      BY <1>0, <1>6 DEF Heartbeat
    <2> QED
      BY <1>0, <2>1 DEF JobRow
  <1>7. CASE Tick
    <2>1. jobs'[j] = Aged(jobs[j])
      BY <1>7 DEF Tick
    <2> QED
      BY <1>0, <2>1, AgedRow
  <1> HIDE DEF Goal
  <1>8. CASE \E k \in Job, s \in Submission : SubmitNew(k, s)
    BY <1>1, <1>8 DEF Goal
  <1>9. CASE \E w \in Worker : RecoverExpired(w) \/ Succeed(w) \/ Heartbeat(w)
    <2>1. PICK w \in Worker : RecoverExpired(w) \/ Succeed(w) \/ Heartbeat(w)
      BY <1>9
    <2>2. Goal
      BY <1>2, <1>4, <1>6, <2>1
    <2> QED
      BY <2>2 DEF Goal
  <1>10. CASE \E w \in Worker, retryable \in BOOLEAN : Fail(w, retryable)
    BY <1>5, <1>10 DEF Goal
  <1>11. CASE Tick
    BY <1>7, <1>11 DEF Goal
  <1> QED
    BY <1>8, <1>9, <1>10, <1>11

\* start takes the claim out of the batch, and no one else has it.
LEMMA StartOpen ==
    ASSUME IndInv, IndInv', OpenClaims, NEW v \in Worker, NEW d \in claimed[v], Start(v, d)
    PROVE  OpenClaims'
  <1> SUFFICES ASSUME NEW w \in Worker, NEW c \in claimed'[w],
                      jobs'[c.job].claim_token = c.claim_token
               PROVE  jobs'[c.job].status = "CLAIMED"
    BY DEF OpenClaims
  <1>1. /\ d \in ClaimedJob /\ Fenced(d) /\ d.job \in Job
        /\ jobs[d.job] \in JobRow
    BY FencedHeld DEF Start, IndInv, TypeOK
  <1>2. /\ claimed \in [Worker -> SUBSET ClaimedJob]
        /\ claimed' = [claimed EXCEPT ![v] = @ \ {d}]
    BY DEF Start, IndInv, TypeOK
  <1>3. c \in claimed[w] /\ c \in ClaimedJob /\ c.job \in Job /\ ~ (w = v /\ c = d)
    BY <1>2 DEF ClaimedJob
  <1>4. CASE c.job # d.job
    <2>1. jobs'[c.job] = jobs[c.job]
      BY <1>3, <1>4 DEF Start, IndInv, TypeOK
    <2> QED
      BY <1>3, <2>1 DEF OpenClaims
  <1>5. CASE c.job = d.job
    <2>1. jobs'[c.job].claim_token = jobs[d.job].claim_token
      BY <1>1, <1>5 DEF Start, IndInv, TypeOK, JobRow
    <2>2. c.claim_token = d.claim_token
      BY <1>1, <2>1 DEF Fenced
    <2>3. c \in ClaimsOf(w) /\ d \in ClaimsOf(v)
      BY <1>3 DEF ClaimsOf
    <2>4. c.attempt_number = d.attempt_number
      BY <2>2, <2>3 DEF IndInv, ClaimInvariant
    <2>5. w = v /\ c = d
      BY <1>5, <2>3, <2>4 DEF IndInv, ClaimInvariant
    <2> QED
      BY <1>3, <2>5
  <1> QED
    BY <1>4, <1>5

\* What claim_due hands out is claimed, and so is what it takes over.
LEMMA ClaimDueOpen ==
    ASSUME IndInv, OpenClaims, NEW v \in Worker, ClaimDue(v)
    PROVE  OpenClaims'
  <1> SUFFICES ASSUME NEW w \in Worker, NEW c \in claimed'[w],
                      jobs'[c.job].claim_token = c.claim_token
               PROVE  jobs'[c.job].status = "CLAIMED"
    BY DEF OpenClaims
  <1>1. ASSUME NEW j \in Job
        PROVE  IF j \in ClaimBatch THEN jobs'[j].status = "CLAIMED" ELSE jobs'[j] = jobs[j]
    <2>1. jobs'[j] = IF j \in ClaimBatch THEN Claimed(jobs[j], Owner[v], uuids[j] + 1)
                     ELSE jobs[j]
      BY DEF ClaimDue
    <2>2. /\ jobs[j] \in JobRow /\ Owner[v] \in OwnerName /\ uuids[j] + 1 \in Nat
      BY DEF OwnerName, IndInv, TypeOK
    <2> QED
      BY <2>1, <2>2, ClaimedRow
  <1>2. CASE w = v
    <2>1. PICK j \in ClaimBatch : c = ClaimOf(j, v)
      BY <1>2 DEF ClaimDue, IndInv, TypeOK
    <2>2. c.job = j /\ j \in Job
      BY <2>1 DEF ClaimOf, ClaimBatch, Due
    <2> QED
      BY <1>1, <2>2
  <1>3. CASE w # v
    <2>1. c \in claimed[w] /\ c.job \in Job
      BY <1>3 DEF ClaimDue, IndInv, TypeOK, ClaimedJob
    <2> QED
      BY <1>1, <2>1 DEF OpenClaims
  <1> QED
    BY <1>2, <1>3

\* Every step keeps OpenClaims.
LEMMA OpenClaimsStep ==
    ASSUME IndInv, OpenClaims, [Next]_vars
    PROVE  OpenClaims'
  <1>0. IndInv'
    BY NextIndInv
  <1>1. ASSUME UNCHANGED jobs, \A w \in Worker : claimed'[w] \subseteq claimed[w]
        PROVE  OpenClaims'
    BY <1>0, <1>1, OpenKept
  <1>2. ASSUME UNCHANGED claimed, \A j \in Job : jobs'[j].status \in Held =>
              jobs'[j].status = jobs[j].status /\ jobs'[j].claim_token = jobs[j].claim_token
        PROVE  OpenClaims'
    BY <1>0, <1>2, OpenKept
  <1>3. ASSUME NEW k \in Job, NEW s \in Submission, SubmitNew(k, s) PROVE OpenClaims'
    <2>1. UNCHANGED claimed
      BY <1>3 DEF SubmitNew, workerVars
    <2> QED
      BY <1>2, <1>3, <2>1, HeldRows
  <1>4. ASSUME NEW k \in Job, NEW s \in Submission, SubmitExisting(k, s) PROVE OpenClaims'
    BY <1>1, <1>4 DEF SubmitExisting, workerVars
  <1>5. ASSUME NEW w \in Worker, RecoverExpired(w) \/ Succeed(w) \/ Heartbeat(w)
        PROVE  OpenClaims'
    <2>1. UNCHANGED claimed
      BY <1>5 DEF RecoverExpired, Succeed, Finish, Heartbeat, workerVars
    <2> QED
      BY <1>2, <1>5, <2>1, HeldRows
  <1>6. ASSUME NEW w \in Worker, NEW retryable \in BOOLEAN, Fail(w, retryable)
        PROVE  OpenClaims'
    <2>1. UNCHANGED claimed
      BY <1>6 DEF Fail, Finish
    <2> QED
      BY <1>2, <1>6, <2>1, HeldRows
  <1>7. CASE Tick
    <2>1. UNCHANGED claimed
      BY <1>7 DEF Tick, workerVars
    <2> QED
      BY <1>2, <1>7, <2>1, HeldRows
  <1>8. ASSUME NEW w \in Worker, NEW c \in claimed[w], Start(w, c) PROVE OpenClaims'
    BY <1>0, <1>8, StartOpen
  <1>9. ASSUME NEW w \in Worker, ClaimDue(w) PROVE OpenClaims'
    BY <1>9, ClaimDueOpen
  <1>10. ASSUME NEW w \in Worker,
                Exit(w) \/ Break(w) \/ StaleClaim(w) \/ Crash(w) \/ Stop(w) \/ Restart(w)
         PROVE  OpenClaims'
    <2>1. UNCHANGED jobs
      BY <1>10 DEF Exit, Break, StaleClaim, Crash, Die, Stop, Restart
    <2>2. claimed' = claimed \/ claimed' = [claimed EXCEPT ![w] = {}]
      BY <1>10 DEF Exit, Break, StaleClaim, Crash, Die, Stop, Restart
    <2>3. \A v \in Worker : claimed'[v] \subseteq claimed[v]
      BY <2>2 DEF IndInv, TypeOK
    <2> QED
      BY <1>1, <2>1, <2>3
  <1>11. CASE UNCHANGED vars
    BY <1>1, <1>11 DEF vars, workerVars
  <1> QED
    BY <1>3, <1>4, <1>5, <1>6, <1>7, <1>8, <1>9, <1>10, <1>11 DEF Next, WorkerStep

\* Rewriting the attempt of a fenced claim comes with the events it gains.
LEMMA RewrittenEmitted ==
    ASSUME IndInv, NEW c \in ClaimedJob, Fenced(c), NEW q, NEW x \in AttemptRow,
           NEW added \in Seq(OutboxEvent),
           jobs' = [jobs EXCEPT ![c.job] = q],
           attempts' = [attempts EXCEPT ![c.job] = [attempts[c.job] EXCEPT ![c.attempt_number] = x]],
           Emit(c.job, added),
           q.status # "ABSENT", q.max_attempts = jobs[c.job].max_attempts,
           AttemptEvidence(c.attempt_number, x, jobs[c.job].max_attempts) =
              AttemptEvidence(c.attempt_number, attempts[c.job][c.attempt_number],
                              jobs[c.job].max_attempts) \o added,
           NEW j \in Job
    PROVE  Emitted(jobs[j], jobs'[j], attempts[j], attempts'[j], outbox[j], outbox'[j])
  <1>1. /\ c.job \in Job /\ jobs[c.job].status \in Held
        /\ c.attempt_number = Len(attempts[c.job]) /\ Len(attempts[c.job]) > 0
    BY FencedHeld DEF IndInv, RowInvariant
  <1>2. CASE j # c.job
    <2>1. jobs'[j] = jobs[j] /\ attempts'[j] = attempts[j] /\ outbox'[j] = outbox[j]
      BY <1>2 DEF Emit, IndInv, TypeOK
    <2> QED
      BY <2>1 DEF Emitted
  <1>3. CASE j = c.job
    <2>1. jobs'[j] = q /\ attempts'[j] = [attempts[j] EXCEPT ![Len(attempts[j])] = x]
      BY <1>1, <1>3 DEF IndInv, TypeOK
    <2>2. outbox'[j] = outbox[j] \o added
      BY <1>3 DEF Emit, IndInv, TypeOK
    <2>3. jobs[j].status # "ABSENT"
      BY <1>1, <1>3 DEF Held
    <2>4. AttemptEvidence(Len(attempts[j]), x, jobs[j].max_attempts) =
             AttemptEvidence(Len(attempts[j]), attempts[j][Len(attempts[j])],
                             jobs[j].max_attempts) \o added
      BY <1>1, <1>3
    <2>5. \E y \in AttemptRow, more \in Seq(OutboxEvent) :
             /\ attempts'[j] = [attempts[j] EXCEPT ![Len(attempts[j])] = y]
             /\ outbox'[j] = outbox[j] \o more
             /\ AttemptEvidence(Len(attempts[j]), y, jobs[j].max_attempts) =
                   AttemptEvidence(Len(attempts[j]), attempts[j][Len(attempts[j])],
                                   jobs[j].max_attempts) \o more
      BY <2>1, <2>2, <2>4
    <2> QED
      BY <1>1, <1>3, <2>1, <2>3, <2>5 DEF Emitted
  <1> QED
    BY <1>2, <1>3

\* The last attempt of a row that is held is open.
LEMMA FencedOpen ==
    ASSUME IndInv, NEW c \in ClaimedJob, Fenced(c), Matches(jobs[c.job], attempts[c.job])
    PROVE  /\ attempts[c.job][c.attempt_number].outcome = Null
           /\ attempts[c.job][c.attempt_number].started <=> jobs[c.job].status = "RUNNING"
  BY FencedHeld DEF Matches

\* mark_started writes the events it adds to the evidence.
LEMMA StartEmitted ==
    ASSUME IndInv, OpenClaims, NEW w \in Worker, NEW c \in claimed[w], Start(w, c),
           Matches(jobs[c.job], attempts[c.job]), NEW j \in Job
    PROVE  Emitted(jobs[j], jobs'[j], attempts[j], attempts'[j], outbox[j], outbox'[j])
  <1> DEFINE n == c.attempt_number
             q == [jobs[c.job] EXCEPT !.status = "RUNNING"]
             old == attempts[c.job][n]
             x == [old EXCEPT !.started = TRUE]
             e == Ev("JOB_EXECUTION_STARTED", n, FALSE)
  <1>1. c \in ClaimedJob /\ Fenced(c) /\ n \in Nat
    BY DEF Start, IndInv, TypeOK, ClaimedJob
  <1>2. old \in AttemptRow /\ old.outcome = Null /\ ~ old.started
    BY <1>1, FencedHeld, FencedOpen DEF OpenClaims, Fenced
  <1>3. x \in AttemptRow /\ x.started /\ x.outcome = Null
    BY <1>2 DEF AttemptRow
  <1>4. q.status = "RUNNING" /\ q.max_attempts = jobs[c.job].max_attempts
    BY <1>1, FencedHeld DEF JobRow
  <1>5. jobs' = [jobs EXCEPT ![c.job] = q] /\ Emit(c.job, <<e>>)
    BY DEF Start
  <1>6. attempts' = [attempts EXCEPT ![c.job] = [attempts[c.job] EXCEPT ![n] = x]]
    BY DEF Start
  <1>7. e \in OutboxEvent
    BY <1>1 DEF Ev, OutboxEvent, OutboxType
  <1>8. <<e>> \in Seq(OutboxEvent)
    BY <1>7, EventTuples
  <1> HIDE DEF old, x
  <1>9. AttemptEvidence(n, x, jobs[c.job].max_attempts) =
           AttemptEvidence(n, old, jobs[c.job].max_attempts) \o <<e>>
    BY <1>1, <1>2, <1>3, StartAdds
  <1> HIDE DEF q, e
  <1> QED
    BY <1>1, <1>3, <1>4, <1>5, <1>6, <1>8, <1>9, RewrittenEmitted DEF old

\* succeed writes the events it adds to the evidence.
LEMMA SucceedEmitted ==
    ASSUME IndInv, NEW w \in Worker, Succeed(w),
           \A k \in Job : Matches(jobs[k], attempts[k]), NEW j \in Job
    PROVE  Emitted(jobs[j], jobs'[j], attempts[j], attempts'[j], outbox[j], outbox'[j])
  <1> DEFINE c == current[w]
             n == c.attempt_number
             q == Released(jobs[c.job], "SUCCEEDED", jobs[c.job].available_in)
             old == attempts[c.job][n]
             x == [old EXCEPT !.outcome = "SUCCEEDED"]
             budget == jobs[c.job].max_attempts
             added == OutcomeEvidence(n, x, budget)
  <1>1. c \in ClaimedJob /\ Fenced(c) /\ n \in Nat /\ c.job \in Job
    BY DEF Succeed, IndInv, ClaimInvariant, ClaimedJob
  <1>2. old \in AttemptRow /\ old.outcome = Null
    BY <1>1, FencedHeld, FencedOpen
  <1>3. x \in AttemptRow /\ x.outcome = "SUCCEEDED" /\ x.started = old.started
    BY <1>2 DEF AttemptRow
  <1>4. q.status = "SUCCEEDED" /\ q.max_attempts = budget
    <2>1. jobs[c.job] \in JobRow /\ jobs[c.job].available_in \in Int /\ "SUCCEEDED" \in RowStatus
      BY <1>1, FencedHeld DEF JobRow, RowStatus, Terminal
    <2> QED
      BY <2>1, ReleasedRow
  <1>5. added = <<Ev("JOB_EXECUTION_SUCCEEDED", n, FALSE)>>
    BY <1>3, OutcomeAssumption DEF OutcomeEvidence
  <1>6. jobs' = [jobs EXCEPT ![c.job] = q] /\ Emit(c.job, added)
    BY <1>5 DEF Succeed
  <1>7. attempts' = [attempts EXCEPT ![c.job] = [attempts[c.job] EXCEPT ![n] = x]]
    BY DEF Succeed
  <1> HIDE DEF old, x
  <1>8. added \in Seq(OutboxEvent)
    BY <1>1, <1>3, OutcomeType
  <1>9. AttemptEvidence(n, x, budget) = AttemptEvidence(n, old, budget) \o added
    BY <1>1, <1>2, <1>3, OutcomeAdds
  <1> HIDE DEF c, q, added
  <1> QED
    BY <1>1, <1>3, <1>4, <1>6, <1>7, <1>8, <1>9, RewrittenEmitted DEF old

\* The events of fail are those of the outcome it records.
LEMMA FailureEvidence ==
    ASSUME NEW c, NEW n \in Nat, n = c.attempt_number, NEW budget \in Nat,
           c.max_attempts = budget, n <= budget,
           NEW x, NEW retryable \in BOOLEAN, x.outcome = "FAILED", x.retryable = retryable
    PROVE  OutcomeEvidence(n, x, budget) = FailureEvents(c, retryable)
  <1>1. CASE retryable = FALSE
    <2>1. FailureStatus(c, retryable) = "FAILED"
      BY <1>1 DEF FailureStatus
    <2>2. FailureEvents(c, retryable) = <<Ev("JOB_EXECUTION_FAILED", n, FALSE)>>
      BY <1>1, <2>1 DEF FailureEvents
    <2>3. OutcomeEvidence(n, x, budget) = <<Ev("JOB_EXECUTION_FAILED", n, FALSE)>>
      BY <1>1, OutcomeAssumption DEF OutcomeEvidence
    <2> QED
      BY <2>2, <2>3
  <1>2. CASE retryable = TRUE /\ n < budget
    <2>1. FailureStatus(c, retryable) = "RETRY_WAIT"
      BY <1>2 DEF FailureStatus
    <2>2. FailureEvents(c, retryable) =
             <<Ev("JOB_EXECUTION_FAILED", n, TRUE), Ev("JOB_RETRY_REQUESTED", n, TRUE),
               Ev("JOB_RETRY_ACKNOWLEDGED", n, TRUE)>>
      BY <1>2, <2>1 DEF FailureEvents
    <2>3. OutcomeEvidence(n, x, budget) =
             <<Ev("JOB_EXECUTION_FAILED", n, TRUE), Ev("JOB_RETRY_REQUESTED", n, TRUE),
               Ev("JOB_RETRY_ACKNOWLEDGED", n, TRUE)>>
      <3>1. n # budget
        BY <1>2
      <3> QED
        BY <1>2, <3>1, OutcomeAssumption DEF OutcomeEvidence
    <2> QED
      BY <2>2, <2>3
  <1>3. CASE retryable = TRUE /\ n = budget
    <2>1. FailureStatus(c, retryable) = "RETRIES_EXHAUSTED"
      BY <1>3 DEF FailureStatus
    <2>2. FailureEvents(c, retryable) =
             <<Ev("JOB_EXECUTION_FAILED", n, TRUE), Ev("JOB_RETRIES_EXHAUSTED", n, FALSE)>>
      BY <1>3, <2>1 DEF FailureEvents
    <2>3. OutcomeEvidence(n, x, budget) =
             <<Ev("JOB_EXECUTION_FAILED", n, TRUE), Ev("JOB_RETRIES_EXHAUSTED", n, FALSE)>>
      BY <1>3, OutcomeAssumption DEF OutcomeEvidence
    <2> QED
      BY <2>2, <2>3
  <1>4. n < budget \/ n = budget
    OBVIOUS
  <1>5. retryable = TRUE \/ retryable = FALSE
    OBVIOUS
  <1> QED
    BY <1>1, <1>2, <1>3, <1>4, <1>5

\* fail writes the events it adds to the evidence.
LEMMA FailEmitted ==
    ASSUME IndInv, NEW w \in Worker, NEW retryable \in BOOLEAN, Fail(w, retryable),
           \A k \in Job : Matches(jobs[k], attempts[k]), NEW j \in Job
    PROVE  Emitted(jobs[j], jobs'[j], attempts[j], attempts'[j], outbox[j], outbox'[j])
  <1> DEFINE c == current[w]
             n == c.attempt_number
             st == FailureStatus(c, retryable)
             t == IF st = "RETRY_WAIT" THEN RetryDelay(n) ELSE 0
             q == Released(jobs[c.job], st, t)
             old == attempts[c.job][n]
             x == [old EXCEPT !.outcome = "FAILED", !.retryable = retryable]
             budget == jobs[c.job].max_attempts
             added == OutcomeEvidence(n, x, budget)
  <1>1. c \in ClaimedJob /\ Fenced(c) /\ n \in Nat /\ c.job \in Job
    BY DEF Fail, IndInv, ClaimInvariant, ClaimedJob
  <1>2. old \in AttemptRow /\ old.outcome = Null
    BY <1>1, FencedHeld, FencedOpen
  <1>3. /\ x \in AttemptRow /\ x.outcome = "FAILED" /\ x.retryable = retryable
        /\ x.started = old.started
    BY <1>2 DEF AttemptRow
  <1>4. q.status # "ABSENT" /\ q.max_attempts = budget
    <2>1. jobs[c.job] \in JobRow /\ t \in Int /\ st \in RowStatus /\ st # "ABSENT"
      BY <1>1, FencedHeld, FailureStatusType, RetryDelayType DEF FailureStatus, RowStatus, Terminal, Waiting
    <2> HIDE DEF st, t
    <2> QED
      BY <2>1, ReleasedRow
  <1>5. /\ n <= budget /\ c.max_attempts = budget /\ budget \in Nat
    <2>1. c \in ClaimsOf(w)
      BY DEF ClaimsOf, Fail
    <2>2. c.max_attempts = budget
      BY <2>1 DEF IndInv, ClaimInvariant
    <2>3. n = jobs[c.job].attempt_number /\ jobs[c.job].attempt_number <= budget
      BY <1>1, FencedHeld DEF IndInv, AttemptsWithinBudget
    <2>4. c.max_attempts \in Nat
      BY <1>1, SubmissionAssumption DEF ClaimedJob, Budgets
    <2> QED
      BY <2>2, <2>3, <2>4
  <1>6. added = FailureEvents(c, retryable)
    <2> HIDE DEF x, old, budget
    <2> QED
      BY <1>1, <1>3, <1>5, FailureEvidence
  <1>7. jobs' = [jobs EXCEPT ![c.job] = q] /\ Emit(c.job, added)
    BY <1>6 DEF Fail
  <1>8. attempts' = [attempts EXCEPT ![c.job] = [attempts[c.job] EXCEPT ![n] = x]]
    BY FailRewrites
  <1> HIDE DEF old, x
  <1>9. added \in Seq(OutboxEvent)
    BY <1>1, <1>3, OutcomeType
  <1>10. AttemptEvidence(n, x, budget) = AttemptEvidence(n, old, budget) \o added
    <2> HIDE DEF c, n, budget
    <2> QED
      BY <1>1, <1>2, <1>3, OutcomeAdds
  <1> HIDE DEF c, q, added
  <1> QED
    BY <1>1, <1>3, <1>4, <1>7, <1>8, <1>9, <1>10, RewrittenEmitted DEF old

\* claim_due writes the attempt row and its event for each claim.
LEMMA ClaimEmitted ==
    ASSUME IndInv, NEW w \in Worker, ClaimDue(w), NEW j \in Job
    PROVE  Emitted(jobs[j], jobs'[j], attempts[j], attempts'[j], outbox[j], outbox'[j])
  <1>1. /\ jobs'[j] = IF j \in ClaimBatch THEN Claimed(jobs[j], Owner[w], uuids[j] + 1) ELSE jobs[j]
        /\ attempts'[j] = IF j \in ClaimBatch THEN Append(attempts[j], NewAttempt) ELSE attempts[j]
        /\ outbox'[j] = IF j \in ClaimBatch
                        THEN Append(outbox[j], Ev("JOB_SCHEDULER_ITEM_RETRIEVED",
                                                  jobs[j].attempt_number + 1, FALSE))
                        ELSE outbox[j]
    BY DEF ClaimDue
  <1>2. CASE j \notin ClaimBatch
    BY <1>1, <1>2 DEF Emitted
  <1>3. CASE j \in ClaimBatch
    <2>1. jobs[j].status \in Waiting /\ jobs[j] \in JobRow
      BY <1>3 DEF ClaimBatch, Due, IndInv, TypeOK
    <2>2. Owner[w] \in OwnerName /\ uuids[j] + 1 \in Nat
      BY DEF OwnerName, IndInv, TypeOK
    <2>3. jobs'[j].status = "CLAIMED" /\ jobs'[j].max_attempts = jobs[j].max_attempts
      BY <1>1, <1>3, <2>1, <2>2, ClaimedRow
    <2>4. Len(attempts[j]) = jobs[j].attempt_number
      BY DEF IndInv, RowInvariant
    <2>5. jobs[j].status # "ABSENT"
      BY <2>1 DEF Waiting
    <2> QED
      BY <1>1, <1>3, <2>3, <2>4, <2>5 DEF Emitted
  <1> QED
    BY <1>2, <1>3

\* submit_checked writes the first events with the row.
LEMMA SubmitEmitted ==
    ASSUME IndInv, NEW k \in Job, NEW s \in Submission, SubmitNew(k, s), NEW j \in Job
    PROVE  Emitted(jobs[j], jobs'[j], attempts[j], attempts'[j], outbox[j], outbox'[j])
  <1>1. attempts' = attempts /\ jobs[k].status = "ABSENT"
    BY DEF SubmitNew
  <1>2. jobs' = [jobs EXCEPT ![k] = NewRow(s)] /\ Emit(k, Submitted)
    BY DEF SubmitNew, Submitted
  <1>3. CASE j # k
    <2>1. jobs'[j] = jobs[j] /\ outbox'[j] = outbox[j]
      BY <1>2, <1>3 DEF Emit, IndInv, TypeOK
    <2> QED
      BY <1>1, <2>1 DEF Emitted
  <1>4. CASE j = k
    <2>1. jobs'[j] = NewRow(s) /\ outbox'[j] = outbox[j] \o Submitted
      BY <1>2, <1>4 DEF Emit, IndInv, TypeOK
    <2>2. NewRow(s).status = "PENDING"
      BY NewRowType
    <2> QED
      BY <1>1, <1>4, <2>1, <2>2 DEF Emitted
  <1> QED
    BY <1>3, <1>4

\* Every step writes the events of what it records.
LEMMA StepEmitted ==
    ASSUME IndInv, OpenClaims, \A k \in Job : Matches(jobs[k], attempts[k]),
           [Next]_vars, NEW j \in Job
    PROVE  Emitted(jobs[j], jobs'[j], attempts[j], attempts'[j], outbox[j], outbox'[j])
  <1> DEFINE Goal ==
        Emitted(jobs[j], jobs'[j], attempts[j], attempts'[j], outbox[j], outbox'[j])
  <1> SUFFICES Goal
    OBVIOUS
  <1>0. jobs[j] \in JobRow /\ jobs \in [Job -> JobRow]
    BY DEF IndInv, TypeOK
  <1>1. CASE UNCHANGED <<jobs, attempts, outbox>>
    BY <1>1 DEF Emitted
  <1>2. ASSUME UNCHANGED <<attempts, outbox>>, jobs'[j].max_attempts = jobs[j].max_attempts,
               jobs'[j].status = "ABSENT" <=> jobs[j].status = "ABSENT"
        PROVE  Goal
    BY <1>2 DEF Emitted
  <1>3. ASSUME NEW k \in Job, NEW s \in Submission, SubmitNew(k, s) \/ SubmitExisting(k, s)
        PROVE  Goal
    BY <1>1, <1>3, SubmitEmitted DEF SubmitExisting
  <1>4. ASSUME NEW w \in Worker, RecoverExpired(w) PROVE Goal
    <2>1. PICK B \in RecoveryBatches :
             jobs' = [k \in Job |-> IF k \in B THEN Recovered(jobs[k]) ELSE jobs[k]]
      BY <1>4 DEF RecoverExpired
    <2>2. UNCHANGED <<attempts, outbox>>
      BY <1>4 DEF RecoverExpired
    <2>3. CASE j \notin B
      BY <1>2, <2>1, <2>2, <2>3
    <2>4. CASE j \in B
      <3>1. jobs'[j] = Recovered(jobs[j]) /\ jobs[j].status \in Held
        BY <2>1, <2>4 DEF RecoveryBatches, Expired
      <3>2. /\ jobs'[j].max_attempts = jobs[j].max_attempts
            /\ jobs'[j].status # "ABSENT" /\ jobs[j].status # "ABSENT"
        BY <1>0, <3>1, RecoveredRow DEF Held
      <3> QED
        BY <1>2, <2>2, <3>2
    <2> QED
      BY <2>3, <2>4
  <1>5. ASSUME NEW w \in Worker, ClaimDue(w) PROVE Goal
    BY <1>5, ClaimEmitted
  <1>6. ASSUME NEW w \in Worker, NEW c \in claimed[w], Start(w, c) PROVE Goal
    <2>1. c.job \in Job
      BY DEF IndInv, TypeOK, ClaimedJob
    <2> QED
      BY <1>6, <2>1, StartEmitted
  <1>7. ASSUME NEW w \in Worker, Succeed(w) PROVE Goal
    BY <1>7, SucceedEmitted
  <1>8. ASSUME NEW w \in Worker, NEW retryable \in BOOLEAN, Fail(w, retryable) PROVE Goal
    BY <1>8, FailEmitted
  <1>9. ASSUME NEW w \in Worker, Heartbeat(w) PROVE Goal
    <2>1. jobs'[j] = jobs[j] \/ jobs'[j] = [jobs[j] EXCEPT !.lease = ClaimLease]
      BY <1>0, <1>9 DEF Heartbeat
    <2>2. /\ jobs'[j].max_attempts = jobs[j].max_attempts
          /\ jobs'[j].status = jobs[j].status
      BY <1>0, <2>1 DEF JobRow
    <2>3. UNCHANGED <<attempts, outbox>>
      BY <1>9 DEF Heartbeat
    <2> QED
      BY <1>2, <2>2, <2>3
  <1>10. CASE Tick
    <2>1. jobs'[j] = Aged(jobs[j]) /\ UNCHANGED <<attempts, outbox>>
      BY <1>10 DEF Tick
    <2>2. /\ jobs'[j].max_attempts = jobs[j].max_attempts
          /\ jobs'[j].status = jobs[j].status
      BY <1>0, <2>1, AgedRow
    <2> QED
      BY <1>2, <2>1, <2>2
  <1>11. ASSUME NEW w \in Worker,
                Exit(w) \/ Break(w) \/ StaleClaim(w) \/ Crash(w) \/ Stop(w) \/ Restart(w)
         PROVE  Goal
    BY <1>1, <1>11 DEF Exit, Break, StaleClaim, Crash, Die, Stop, Restart
  <1>12. CASE UNCHANGED vars
    BY <1>1, <1>12 DEF vars
  <1> HIDE DEF Goal
  <1> QED
    BY <1>3, <1>4, <1>5, <1>6, <1>7, <1>8, <1>9, <1>10, <1>11, <1>12 DEF Next, WorkerStep

\* The outbox of a job tells exactly its submission and its attempt rows, each
\* fact once and in order, whatever workers crash, lose their claims or share
\* an owner name.
THEOREM OutboxIsExact == Spec => []EvidenceIsExact
  <1> DEFINE Agree == \A j \in Job : Matches(jobs[j], attempts[j])
             AllTold == \A j \in Job : Told(jobs[j], attempts[j], outbox[j])
  <1>1. Init => OpenClaims /\ AllTold
    <2> SUFFICES ASSUME Init PROVE OpenClaims /\ AllTold
      OBVIOUS
    <2>1. OpenClaims
      BY DEF Init, OpenClaims
    <2>2. \A j \in Job : jobs[j].status = "ABSENT" /\ attempts[j] = <<>> /\ outbox[j] = <<>>
      BY DEF Init, NoRow
    <2> QED
      BY <2>1, <2>2 DEF Told
  <1>2. IndInv /\ StatusMatchesAttempts /\ OpenClaims /\ AllTold /\ [Next]_vars
           => OpenClaims' /\ AllTold'
    <2> SUFFICES ASSUME IndInv, StatusMatchesAttempts, OpenClaims, AllTold, [Next]_vars
                 PROVE  OpenClaims' /\ AllTold'
      OBVIOUS
    <2>1. OpenClaims'
      BY OpenClaimsStep
    <2>2. Agree
      BY DEF StatusMatchesAttempts, Matches
    <2>3. ASSUME NEW j \in Job PROVE Told(jobs'[j], attempts'[j], outbox'[j])
      <3>1. attempts[j] \in Seq(AttemptRow) /\ outbox[j] \in Seq(OutboxEvent)
        BY DEF IndInv, TypeOK
      <3>2. Told(jobs[j], attempts[j], outbox[j])
        OBVIOUS
      <3>3. Emitted(jobs[j], jobs'[j], attempts[j], attempts'[j], outbox[j], outbox'[j])
        BY <2>2, StepEmitted
      <3> QED
        BY <3>1, <3>2, <3>3, EmittedTold
    <2> QED
      BY <2>1, <2>3
  <1>3. AllTold => EvidenceIsExact
    BY DEF Told, EvidenceIsExact
  <1> QED
    BY <1>1, <1>2, <1>3, Invariance, TablesAgree, PTL DEF Spec
=============================================================================

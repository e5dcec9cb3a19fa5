------------------------------ MODULE Scheduler ------------------------------
(****************************************************************************)
(* The durable scheduler: scheduler/service.py (the claim queue kept in the *)
(* scheduler_jobs, scheduler_attempts and scheduler_outbox tables) driven   *)
(* by the polling processes of scheduler/worker.py.                         *)
(*                                                                          *)
(* Every database transaction of SchedulerService is one action: its row    *)
(* locks make it atomic for the other processes, and a transaction that     *)
(* rolls back leaves no trace.  Between two transactions of a worker the    *)
(* other workers run, time passes and processes die.                        *)
(*                                                                          *)
(* Timestamps are kept relative to clock_timestamp(): available_in is       *)
(* available_at - now and lease is claim_expires_at - now, so that the      *)
(* passing of time moves every stored timestamp one tick into the past      *)
(* (down to -Horizon) and the model needs no bound on the length of a run.  *)
(****************************************************************************)
EXTENDS Integers, FiniteSets, Sequences

CONSTANTS
    Job,                \* job identifiers; their order is that of job_id
    Worker,             \* scheduler worker processes
    Owner,              \* [Worker -> owner name]; replicas may share a name
    Submission,         \* contents a client may submit for a job
    BatchSize,          \* SchedulerWorker.batch_size
    RecoveryBatchSize,  \* SchedulerWorker.recovery_batch_size
    ClaimLease,         \* claim_lease_seconds, in ticks
    RetryDelay(_),      \* retry_delay(attempt), in ticks
    Heartbeats,         \* whether handlers renew their claim
    Horizon,            \* bound: how far into the past timestamps are told apart
    MaxFaults,          \* bound: crashes, stops and lost answers in a run
    Null                \* SQL NULL

ASSUME JobAssumption == Job \subseteq Nat
ASSUME SubmissionAssumption ==
    \A s \in Submission : s.max_attempts \in Nat \ {0} /\ s.scheduled_in \in Int
ASSUME TimingAssumption ==
    /\ ClaimLease \in Nat \ {0}
    /\ Horizon \in Nat \ {0}
    /\ \A s \in Submission : \A n \in 1..s.max_attempts : RetryDelay(n) \in Nat
ASSUME SizeAssumption ==
    /\ BatchSize \in Nat \ {0}
    /\ RecoveryBatchSize \in Nat \ {0}
    /\ MaxFaults \in Nat
    /\ Heartbeats \in BOOLEAN
ASSUME OwnerAssumption == \A w \in Worker : Owner[w] # Null
ASSUME NullAssumption == Null \notin Submission
ASSUME OutcomeAssumption == Null \notin {"SUCCEEDED", "FAILED"}

VARIABLES
    jobs,       \* scheduler_jobs: the row of every job
    attempts,   \* scheduler_attempts: the rows of every job, by attempt_number
    outbox,     \* scheduler_outbox: the rows of every job, in creation order
    uuids,      \* how many claim tokens gen_random_uuid() has drawn for a job
    accepted,   \* submissions a client was told are stored (CREATED, IDENTICAL)
    pc,         \* where each worker process is in run_forever / run_once
    claimed,    \* ClaimedJobs the worker has not begun to execute
    current,    \* the ClaimedJob whose handler the worker is running
    stopping,   \* SchedulerWorker._stopping
    faults      \* how many crashes, stops and lost answers have happened

workerVars == <<pc, claimed, current, stopping>>
vars == <<jobs, attempts, outbox, uuids, accepted, workerVars, faults>>

-----------------------------------------------------------------------------
(* Rows and messages. *)

Waiting  == {"PENDING", "RETRY_WAIT"}
Held     == {"CLAIMED", "RUNNING"}
Terminal == {"SUCCEEDED", "FAILED", "RETRIES_EXHAUSTED"}
RowStatus == {"ABSENT"} \cup Waiting \cup Held \cup Terminal

OwnerName == {Owner[w] : w \in Worker}

OutboxType == {"JOB_CREATED", "JOB_SCHEDULER_SUBMISSION_REQUESTED",
              "JOB_SCHEDULER_ITEM_RETRIEVED", "JOB_EXECUTION_STARTED",
              "JOB_EXECUTION_SUCCEEDED", "JOB_EXECUTION_FAILED",
              "JOB_RETRY_REQUESTED", "JOB_RETRY_ACKNOWLEDGED",
              "JOB_RETRIES_EXHAUSTED"}

OutboxEvent == [type : OutboxType, attempt : Nat, retryable : BOOLEAN]

Budgets == {s.max_attempts : s \in Submission}

\* The job row; a job that was never submitted has status ABSENT.
JobRow == [status : RowStatus, submission : Submission \cup {Null},
           attempt_number : Nat, max_attempts : Budgets \cup {0},
           claimed_by : OwnerName \cup {Null}, claim_token : Nat,
           available_in : Int, lease : Int]

AttemptRow == [started : BOOLEAN, outcome : {Null, "SUCCEEDED", "FAILED"},
               retryable : BOOLEAN]

ClaimedJob == [job : Job, attempt_number : Nat \ {0}, max_attempts : Budgets,
               claimed_by : OwnerName, claim_token : Nat \ {0}]

\* claim_token = 0 is NULL: drawn tokens are positive.
NoRow == [status |-> "ABSENT", submission |-> Null, attempt_number |-> 0,
          max_attempts |-> 0, claimed_by |-> Null, claim_token |-> 0,
          available_in |-> 0, lease |-> 0]

NewAttempt == [started |-> FALSE, outcome |-> Null, retryable |-> FALSE]

NewRow(s) == [NoRow EXCEPT !.status = "PENDING", !.submission = s,
                           !.max_attempts = s.max_attempts,
                           !.available_in = s.scheduled_in]

\* The row with its new status and available_at, and with claimed_by,
\* claim_token, claimed_at and claim_expires_at set to NULL.
Released(r, status, available_in) ==
    [r EXCEPT !.status = status, !.available_in = available_in,
              !.claimed_by = Null, !.claim_token = 0, !.lease = 0]

Ev(type, attempt, retryable) ==
    [type |-> type, attempt |-> attempt, retryable |-> retryable]

\* _add_event inside the transaction of the mutation it reports.
Emit(j, events) == outbox' = [outbox EXCEPT ![j] = @ \o events]

Live(w) == pc[w] \notin {"down", "stopped"}

-----------------------------------------------------------------------------
(* submit_checked *)

\* INSERT ... ON CONFLICT DO NOTHING inserts the row with its two events.  An
\* exception after the commit loses the answer, not the row.
SubmitNew(j, s) ==
    /\ jobs[j].status = "ABSENT"
    /\ jobs' = [jobs EXCEPT ![j] = NewRow(s)]
    /\ Emit(j, <<Ev("JOB_CREATED", 0, FALSE),
                 Ev("JOB_SCHEDULER_SUBMISSION_REQUESTED", 0, FALSE)>>)
    /\ \/ /\ accepted' = [accepted EXCEPT ![j] = @ \cup {s}]
          /\ UNCHANGED faults
       \/ /\ faults < MaxFaults
          /\ faults' = faults + 1
          /\ UNCHANGED accepted
    /\ UNCHANGED <<attempts, uuids, workerVars>>

\* Mutant: any existing row counts as IDENTICAL.
SubmitExisting_Unchecked(j, s) ==
    /\ jobs[j].status # "ABSENT"
    /\ accepted' = [accepted EXCEPT ![j] = @ \cup {s}]
    /\ UNCHANGED <<jobs, attempts, outbox, uuids, workerVars, faults>>

\* The row exists: IDENTICAL accepts the client's contents, CONFLICT does not.
SubmitExisting(j, s) ==
    /\ jobs[j].status # "ABSENT"
    /\ accepted' = IF jobs[j].submission = s
                   THEN [accepted EXCEPT ![j] = @ \cup {s}]
                   ELSE accepted
    /\ UNCHANGED <<jobs, attempts, outbox, uuids, workerVars, faults>>

-----------------------------------------------------------------------------
(* The polling loop of SchedulerWorker. *)

\* The loop condition of run_forever fails.
Exit(w) ==
    /\ pc[w] = "poll"
    /\ stopping[w]
    /\ pc' = [pc EXCEPT ![w] = "stopped"]
    /\ UNCHANGED <<jobs, attempts, outbox, uuids, accepted, claimed, current, stopping, faults>>

\* Mutant: only claims that never started are recovered.
Expired_ClaimedOnly == {j \in Job : jobs[j].status = "CLAIMED" /\ jobs[j].lease < 0}

Expired == {j \in Job : jobs[j].status \in Held /\ jobs[j].lease < 0}

\* ORDER BY claim_expires_at LIMIT: ties are broken either way.
RecoveryBatches ==
    {B \in SUBSET Expired :
        /\ Cardinality(B) <= RecoveryBatchSize
        /\ B = Expired \/ Cardinality(B) = RecoveryBatchSize
        /\ \A i \in B, k \in Expired \ B : jobs[i].lease <= jobs[k].lease}

\* Mutant: the attempt limit is off by one.
Recovered_OffByOne(r) ==
    Released(r, IF r.attempt_number <= r.max_attempts
                THEN "RETRY_WAIT" ELSE "RETRIES_EXHAUSTED", 0)

Recovered(r) ==
    Released(r, IF r.attempt_number < r.max_attempts
                THEN "RETRY_WAIT" ELSE "RETRIES_EXHAUSTED", 0)

\* recover_expired_claims: the rows change hands, no event is written.
RecoverExpired(w) ==
    /\ pc[w] = "poll"
    /\ ~stopping[w]
    /\ \E B \in RecoveryBatches :
          jobs' = [j \in Job |-> IF j \in B THEN Recovered(jobs[j]) ELSE jobs[j]]
    /\ pc' = [pc EXCEPT ![w] = "claim"]
    /\ UNCHANGED <<attempts, outbox, uuids, accepted, claimed, current, stopping, faults>>

Due == {j \in Job : jobs[j].status \in Waiting /\ jobs[j].available_in <= 0}

\* ORDER BY available_at, job_id
DueBefore(i, k) ==
    \/ jobs[i].available_in < jobs[k].available_in
    \/ jobs[i].available_in = jobs[k].available_in /\ i < k

ClaimBatch == {j \in Due : Cardinality({i \in Due : DueBefore(i, j)}) < BatchSize}

Claimed(r, owner, token) ==
    [r EXCEPT !.status = "CLAIMED", !.attempt_number = @ + 1, !.claimed_by = owner,
              !.claim_token = token, !.lease = ClaimLease]

\* Mutant: the claim carries the attempt number read before the UPDATE.
ClaimOf_OldAttempt(j, w) ==
    [job |-> j, attempt_number |-> jobs[j].attempt_number,
     max_attempts |-> jobs[j].max_attempts, claimed_by |-> Owner[w],
     claim_token |-> uuids[j] + 1]

ClaimOf(j, w) ==
    [job |-> j, attempt_number |-> jobs[j].attempt_number + 1,
     max_attempts |-> jobs[j].max_attempts, claimed_by |-> Owner[w],
     claim_token |-> uuids[j] + 1]

\* claim_due: the claim, its attempt row and its retrieval event commit together.
ClaimDue(w) ==
    /\ pc[w] = "claim"
    /\ LET B == ClaimBatch IN
       /\ jobs' = [j \in Job |->
             IF j \in B THEN Claimed(jobs[j], Owner[w], uuids[j] + 1) ELSE jobs[j]]
       /\ uuids' = [j \in Job |-> IF j \in B THEN uuids[j] + 1 ELSE uuids[j]]
       /\ attempts' = [j \in Job |->
             IF j \in B
             THEN Append(attempts[j], NewAttempt)
             ELSE attempts[j]]
       /\ outbox' = [j \in Job |->
             IF j \in B
             THEN Append(outbox[j], Ev("JOB_SCHEDULER_ITEM_RETRIEVED",
                                       jobs[j].attempt_number + 1, FALSE))
             ELSE outbox[j]]
       /\ claimed' = [claimed EXCEPT ![w] = {ClaimOf(j, w) : j \in B}]
       /\ pc' = [pc EXCEPT ![w] = IF B = {} THEN "poll" ELSE "batch"]
    /\ UNCHANGED <<accepted, current, stopping, faults>>

\* A stopping worker abandons the rest of its batch: the claims stay held.
Break(w) ==
    /\ pc[w] = "batch"
    /\ stopping[w]
    /\ claimed' = [claimed EXCEPT ![w] = {}]
    /\ pc' = [pc EXCEPT ![w] = "poll"]
    /\ UNCHANGED <<jobs, attempts, outbox, uuids, accepted, current, stopping, faults>>

-----------------------------------------------------------------------------
(* execute: start, run the handler, commit its outcome. *)

\* Mutant: the fence compares the owner and the lease.
Fenced_OwnerOnly(c) ==
    /\ jobs[c.job].claimed_by = c.claimed_by
    /\ jobs[c.job].lease >= 0

\* Mutant: the fence compares the attempt number.
Fenced_AttemptOnly(c) == jobs[c.job].attempt_number = c.attempt_number

\* The WHERE clause of _fenced_update.
Fenced(c) ==
    /\ jobs[c.job].attempt_number = c.attempt_number
    /\ jobs[c.job].claimed_by = c.claimed_by
    /\ jobs[c.job].claim_token = c.claim_token
    /\ jobs[c.job].lease >= 0

\* UPDATE returned rows in no particular order: any claim of the batch is next.
Start(w, c) ==
    /\ pc[w] = "batch"
    /\ ~stopping[w]
    /\ c \in claimed[w]
    /\ Fenced(c)
    /\ jobs' = [jobs EXCEPT ![c.job].status = "RUNNING"]
    /\ attempts' = [attempts EXCEPT ![c.job][c.attempt_number].started = TRUE]
    /\ Emit(c.job, <<Ev("JOB_EXECUTION_STARTED", c.attempt_number, FALSE)>>)
    /\ claimed' = [claimed EXCEPT ![w] = @ \ {c}]
    /\ current' = [current EXCEPT ![w] = c]
    /\ pc' = [pc EXCEPT ![w] = "run"]
    /\ UNCHANGED <<uuids, accepted, stopping, faults>>

\* The worker returns to its batch, or polls again when the batch is done.
Finish(w) ==
    /\ current' = [current EXCEPT ![w] = Null]
    /\ pc' = [pc EXCEPT ![w] = IF claimed[w] = {} THEN "poll" ELSE "batch"]
    /\ UNCHANGED <<uuids, accepted, claimed, stopping, faults>>

Succeed(w) ==
    /\ pc[w] = "run"
    /\ LET c == current[w] IN
       /\ Fenced(c)
       /\ jobs' = [jobs EXCEPT ![c.job] = Released(@, "SUCCEEDED", @.available_in)]
       /\ attempts' = [attempts EXCEPT ![c.job][c.attempt_number].outcome = "SUCCEEDED"]
       /\ Emit(c.job, <<Ev("JOB_EXECUTION_SUCCEEDED", c.attempt_number, FALSE)>>)
    /\ Finish(w)

FailureStatus(c, retryable) ==
    IF ~retryable THEN "FAILED"
    ELSE IF c.attempt_number < c.max_attempts THEN "RETRY_WAIT" ELSE "RETRIES_EXHAUSTED"

\* Mutant: every retryable failure is followed by the retry events.
FailureEvents_AlwaysRetry(c, retryable) ==
    LET failed == Ev("JOB_EXECUTION_FAILED", c.attempt_number, retryable) IN
    IF retryable
    THEN <<failed, Ev("JOB_RETRY_REQUESTED", c.attempt_number, TRUE),
           Ev("JOB_RETRY_ACKNOWLEDGED", c.attempt_number, TRUE)>>
    ELSE <<failed>>

FailureEvents(c, retryable) ==
    LET failed == Ev("JOB_EXECUTION_FAILED", c.attempt_number, retryable) IN
    CASE FailureStatus(c, retryable) = "RETRY_WAIT" ->
            <<failed, Ev("JOB_RETRY_REQUESTED", c.attempt_number, TRUE),
              Ev("JOB_RETRY_ACKNOWLEDGED", c.attempt_number, TRUE)>>
      [] FailureStatus(c, retryable) = "RETRIES_EXHAUSTED" ->
            <<failed, Ev("JOB_RETRIES_EXHAUSTED", c.attempt_number, FALSE)>>
      [] OTHER -> <<failed>>

\* The handler raised: a HandlerError of either kind, or any other exception,
\* which execute reports as retryable.
Fail(w, retryable) ==
    /\ pc[w] = "run"
    /\ LET c == current[w]
           status == FailureStatus(c, retryable) IN
       /\ Fenced(c)
       /\ jobs' = [jobs EXCEPT ![c.job] =
             Released(@, status, IF status = "RETRY_WAIT"
                                 THEN RetryDelay(c.attempt_number) ELSE 0)]
       /\ attempts' = [attempts EXCEPT
             ![c.job][c.attempt_number].outcome = "FAILED",
             ![c.job][c.attempt_number].retryable = retryable]
       /\ Emit(c.job, FailureEvents(c, retryable))
    /\ Finish(w)

\* heartbeat, an operation of the service that the worker loop does not call.
Heartbeat(w) ==
    /\ Heartbeats
    /\ pc[w] = "run"
    /\ Fenced(current[w])
    /\ jobs' = [jobs EXCEPT ![current[w].job].lease = ClaimLease]
    /\ UNCHANGED <<attempts, outbox, uuids, accepted, workerVars, faults>>

-----------------------------------------------------------------------------
(* Process failures and time. *)

\* Whatever the process held in memory is gone; the database is as it was.
Die(w) ==
    /\ pc' = [pc EXCEPT ![w] = "down"]
    /\ claimed' = [claimed EXCEPT ![w] = {}]
    /\ current' = [current EXCEPT ![w] = Null]
    /\ UNCHANGED <<jobs, attempts, outbox, uuids, accepted, stopping>>

\* StaleClaimError leaves execute, run_once and run_forever uncaught.
StaleClaim(w) ==
    /\ \/ pc[w] = "batch" /\ ~stopping[w] /\ \E c \in claimed[w] : ~Fenced(c)
       \/ pc[w] = "run" /\ ~Fenced(current[w])
    /\ Die(w)
    /\ UNCHANGED faults

Crash(w) ==
    /\ Live(w)
    /\ faults < MaxFaults
    /\ faults' = faults + 1
    /\ Die(w)

Stop(w) ==
    /\ Live(w)
    /\ ~stopping[w]
    /\ faults < MaxFaults
    /\ faults' = faults + 1
    /\ stopping' = [stopping EXCEPT ![w] = TRUE]
    /\ UNCHANGED <<jobs, attempts, outbox, uuids, accepted, pc, claimed, current>>

\* A new process takes the place of one that died or stopped.
Restart(w) ==
    /\ ~Live(w)
    /\ pc' = [pc EXCEPT ![w] = "poll"]
    /\ stopping' = [stopping EXCEPT ![w] = FALSE]
    /\ UNCHANGED <<jobs, attempts, outbox, uuids, accepted, claimed, current, faults>>

Earlier(t) == IF t > -Horizon THEN t - 1 ELSE t

Aged(r) ==
    [r EXCEPT !.available_in = IF r.status = "ABSENT" THEN @ ELSE Earlier(@),
              !.lease = IF r.claim_token = 0 THEN @ ELSE Earlier(@)]

Tick ==
    /\ jobs' = [j \in Job |-> Aged(jobs[j])]
    /\ UNCHANGED <<attempts, outbox, uuids, accepted, workerVars, faults>>

-----------------------------------------------------------------------------
Init ==
    /\ jobs = [j \in Job |-> NoRow]
    /\ attempts = [j \in Job |-> <<>>]
    /\ outbox = [j \in Job |-> <<>>]
    /\ uuids = [j \in Job |-> 0]
    /\ accepted = [j \in Job |-> {}]
    /\ pc = [w \in Worker |-> "poll"]
    /\ claimed = [w \in Worker |-> {}]
    /\ current = [w \in Worker |-> Null]
    /\ stopping = [w \in Worker |-> FALSE]
    /\ faults = 0

\* The steps a running worker takes by itself.
WorkerStep(w) ==
    \/ Exit(w)
    \/ RecoverExpired(w)
    \/ ClaimDue(w)
    \/ Break(w)
    \/ \E c \in claimed[w] : Start(w, c)
    \/ Succeed(w)
    \/ \E retryable \in BOOLEAN : Fail(w, retryable)
    \/ StaleClaim(w)

Next ==
    \/ \E j \in Job, s \in Submission : SubmitNew(j, s) \/ SubmitExisting(j, s)
    \/ \E w \in Worker :
          WorkerStep(w) \/ Heartbeat(w) \/ Crash(w) \/ Stop(w) \/ Restart(w)
    \/ Tick

Spec == Init /\ [][Next]_vars

\* Time passes, a running process goes on, and a process that ended is
\* replaced.  Nothing makes a client submit.
Fairness ==
    /\ WF_vars(Tick)
    /\ \A w \in Worker : WF_vars(WorkerStep(w)) /\ WF_vars(Restart(w))

FairSpec == Spec /\ Fairness

-----------------------------------------------------------------------------
(* Properties. *)

\* The types of the tables and of the processes' memory.
TypeOK ==
    /\ jobs \in [Job -> JobRow]
    /\ attempts \in [Job -> Seq(AttemptRow)]
    /\ outbox \in [Job -> Seq(OutboxEvent)]
    /\ uuids \in [Job -> Nat]
    /\ accepted \in [Job -> SUBSET Submission]
    /\ pc \in [Worker -> {"poll", "claim", "batch", "run", "down", "stopped"}]
    /\ claimed \in [Worker -> SUBSET ClaimedJob]
    /\ current \in [Worker -> ClaimedJob \cup {Null}]
    /\ stopping \in [Worker -> BOOLEAN]
    /\ faults \in 0..MaxFaults

\* The claims a worker process holds in memory.
ClaimsOf(w) == claimed[w] \cup (IF pc[w] = "run" THEN {current[w]} ELSE {})

\* Mutual exclusion: of all the claims that processes still hold on a job,
\* after expiries, recoveries and restarts, at most one passes the fence of
\* _fenced_update, even when the processes share one owner name.
OneLiveHolder ==
    \A v, w \in Worker : \A c \in ClaimsOf(v), d \in ClaimsOf(w) :
        c.job = d.job /\ Fenced(c) /\ Fenced(d) => v = w /\ c = d

\* The retry budget: neither failures nor recoveries nor restarts start more
\* than max_attempts attempts, and a job that waits can still be attempted.
AttemptsWithinBudget ==
    \A j \in Job :
        /\ jobs[j].attempt_number <= jobs[j].max_attempts
        /\ jobs[j].status \in Waiting => jobs[j].attempt_number < jobs[j].max_attempts

\* The job row and the attempt rows, written by different statements of
\* claim_due, start, succeed and fail, agree: there is one attempt row per
\* claim, a held job's last attempt is open, and the job has succeeded exactly
\* when an attempt has, the last one.
StatusMatchesAttempts ==
    \A j \in Job :
        LET n == jobs[j].attempt_number IN
        /\ Len(attempts[j]) = n
        /\ \A i \in 1..n :
              attempts[j][i].outcome = "SUCCEEDED" <=> i = n /\ jobs[j].status = "SUCCEEDED"
        /\ jobs[j].status \in Held => attempts[j][n].outcome = Null
        /\ jobs[j].status \in Held => (attempts[j][n].started <=> jobs[j].status = "RUNNING")
        /\ jobs[j].status = "FAILED" =>
              attempts[j][n].outcome = "FAILED" /\ ~attempts[j][n].retryable

\* submit_checked never tells a client that its job is stored when the stored
\* one has other contents, whatever answers were lost and retried.
AcceptedIsStored == \A j \in Job : accepted[j] \subseteq {jobs[j].submission}

\* The evidence that the n-th attempt row of a job with that budget stands for.
AttemptEvidence(n, row, budget) ==
    <<Ev("JOB_SCHEDULER_ITEM_RETRIEVED", n, FALSE)>>
    \o (IF row.started THEN <<Ev("JOB_EXECUTION_STARTED", n, FALSE)>> ELSE <<>>)
    \o CASE row.outcome = Null -> <<>>
         [] row.outcome = "SUCCEEDED" -> <<Ev("JOB_EXECUTION_SUCCEEDED", n, FALSE)>>
         [] row.outcome = "FAILED" /\ ~ row.retryable -> <<Ev("JOB_EXECUTION_FAILED", n, FALSE)>>
         [] row.outcome = "FAILED" /\ row.retryable /\ n = budget ->
               <<Ev("JOB_EXECUTION_FAILED", n, TRUE), Ev("JOB_RETRIES_EXHAUSTED", n, FALSE)>>
         [] row.outcome = "FAILED" /\ row.retryable /\ n # budget ->
               <<Ev("JOB_EXECUTION_FAILED", n, TRUE), Ev("JOB_RETRY_REQUESTED", n, TRUE),
                 Ev("JOB_RETRY_ACKNOWLEDGED", n, TRUE)>>

\* The evidence of a submission and of the first n attempt rows, for each n.
EvidenceUpTo(rows, budget) ==
    LET upto[n \in 0..Len(rows)] ==
            IF n = 0
            THEN <<Ev("JOB_CREATED", 0, FALSE), Ev("JOB_SCHEDULER_SUBMISSION_REQUESTED", 0, FALSE)>>
            ELSE upto[n - 1] \o AttemptEvidence(n, rows[n], budget)
    IN  upto

Evidence(rows, budget) == EvidenceUpTo(rows, budget)[Len(rows)]

\* The transactional outbox: the events of a job are exactly those that its
\* submission and its attempt rows stand for, each once and in order; no
\* interleaving or crash loses, repeats or reorders one.
EvidenceIsExact ==
    \A j \in Job : jobs[j].status # "ABSENT" =>
        outbox[j] = Evidence(attempts[j], jobs[j].max_attempts)

\* A finished job stays finished: nothing that a late worker, a recovery or a
\* repeated submission does changes its outcome, its attempts or its evidence.
TerminalIsFinal ==
    [][\A j \in Job : jobs[j].status \in Terminal =>
          /\ jobs'[j].status = jobs[j].status
          /\ jobs'[j].attempt_number = jobs[j].attempt_number
          /\ attempts'[j] = attempts[j]
          /\ outbox'[j] = outbox[j]]_vars

\* The abstract queue: the phase of a job, its tries and its budget.
Phase(status) ==
    IF status = "ABSENT" THEN "absent"
    ELSE IF status \in Waiting THEN "waiting"
    ELSE IF status \in Held THEN "held"
    ELSE status

View(r) == [phase |-> Phase(r.status), tries |-> r.attempt_number, budget |-> r.max_attempts]

ContractView == [j \in Job |-> View(jobs[j])]

Contract == INSTANCE JobContract
            WITH job <- ContractView, Budget <- Budgets

\* The tables, fences, leases and worker processes implement the job contract:
\* seen from outside, no job is held twice, given back when its tries are used
\* up, called exhausted before they are, or moved after its verdict.
ImplementsContract == Contract!Spec

\* Why the fence works: a row holds a claim exactly while it is CLAIMED or
\* RUNNING, its token is the one drawn for its attempt, and every claim in a
\* process's memory is of an attempt the row has reached, held by it alone.
RowInvariant ==
    \A j \in Job :
        LET r == jobs[j] IN
        /\ uuids[j] = r.attempt_number
        /\ Len(attempts[j]) = r.attempt_number
        /\ r.claim_token = IF r.status \in Held THEN r.attempt_number ELSE 0
        /\ r.status \in Held => r.attempt_number > 0
        /\ r.status # "ABSENT" => r.max_attempts \in Budgets
        /\ r.status = "ABSENT" => accepted[j] = {} /\ r.attempt_number = 0 /\ r.max_attempts = 0

ClaimInvariant ==
    /\ \A w \in Worker : pc[w] = "run" => current[w] \in ClaimedJob
    /\ \A w \in Worker : \A c \in ClaimsOf(w) :
          /\ c.claim_token = c.attempt_number
          /\ c.attempt_number <= jobs[c.job].attempt_number
          /\ c.max_attempts = jobs[c.job].max_attempts
    /\ \A v, w \in Worker : \A c \in ClaimsOf(v), d \in ClaimsOf(w) :
          c.job = d.job /\ c.attempt_number = d.attempt_number => v = w /\ c = d

IndInv == TypeOK /\ RowInvariant /\ AttemptsWithinBudget /\ ClaimInvariant

\* Every submitted job reaches a terminal status, although workers crash, stop
\* with claims in hand, lose their claims and never renew them.
EveryJobFinishes ==
    \A j \in Job : jobs[j].status # "ABSENT" ~> jobs[j].status \in Terminal

\* specs/002 section 10.2, "Any recovered lifecycle fact is written through the
\* outbox": a job whose retries are exhausted has the event that says so.
ExhaustionIsReported ==
    \A j \in Job : jobs[j].status = "RETRIES_EXHAUSTED" =>
        \E a \in 1..Len(outbox[j]) : outbox[j][a].type = "JOB_RETRIES_EXHAUSTED"
=============================================================================

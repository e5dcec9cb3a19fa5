# A TLA+ verification of the scheduled-job visibility system

The repository runs jobs from a PostgreSQL queue, publishes what happens to
them as EDRs (event detail records) through a transactional outbox and Kafka,
and shows the life of each job to operators. This directory models the parts
of it that keep state, checks them with TLC on small instances, and proves the
results that matter most with TLAPS for every size. Source paths below are
relative to `src/job_visibility/`; `specs/` is the repository's directory of
specifications. `PROJECT.json` maps every definition to the lines it models.

## The system

| Part | State | Operations | Module |
|---|---|---|---|
| `scheduler/service.py`, `scheduler/worker.py` | tables `scheduler_jobs`, `scheduler_attempts`, `scheduler_outbox`; a worker's claimed batch | submit, claim, start, heartbeat, succeed, fail, recover; the poll loop | `Scheduler` |
| `scheduler/cassandra_client.py`, `cassandra_workload.py` | one record and its operation markers in Cassandra | select, reserve, finish, mark | `CassandraUpdate` |
| `outbox/publisher.py` | the lease, backoff and publication columns of `scheduler_outbox`; a publisher's batch; the Kafka topic | lease, send, mark, put off | `Outbox` |
| Kafka Connect sink (external) | `edr_events` | insert by `event_id` | `Projection.Persist` |
| `edr_store/projection_worker.py` | `projected_events`, `job_visibility`, `projection_decisions` | run_once, rebuild | `Projection` |
| `engine.py` (rules), `model.py` | the view of one job | one rule per event type | `LifecycleRules` |
| `engine.py` (`VisibilityEngine`), `api.py` | `_jobs`, `_events`, `_event_ids`, the lock | apply, apply_with_retry, reconcile | `Visibility` |
| `engine.py` (queries) | none | get: derived status, delay classification | `QueryRules` |
| `edr_store/repository.py`, `observability/health.py` | none (they read the projected tables) | get, attempts, search, findings; the projection check | `DurableView` |
| `simulation.py`, `scenarios.py` | the virtual clock, `items`, `polls` | add_job, advance, poll | `PollingSimulation` |

A submission writes a job row and its first outbox rows in one transaction.
Workers, which may share one owner name, claim due jobs for a lease, run their
handlers and store the outcome with an update that is fenced by owner, claim
token and attempt number. Publishers lease outbox rows, send them to Kafka and
mark them. The sink copies the topic into the journal `edr_events`; projectors
rebuild the view of every job with new rows through the rules of `engine.py`.
Without the durable pipeline the API applies EDRs to an in-memory engine, from
the threads of its request pool.

What is hard in this system: workers, publishers and projectors that overlap
and outlive their leases; transactions that are fenced by different means
(owner and token, lease token, row lock, version, nothing) or wait for each
other's locks; crashes and errors between an effect and the record of it; statements and sends whose outcome is unknown;
EDRs that arrive late, twice, in any order or never; reconciliation that runs
beside ingestion. `PROJECT.json` lists each of these hazards at its line.

What makes each part correct:

- *Scheduler*: one live holder per job; attempts stay within the budget; a
  verdict is final; the outbox tells exactly what the attempt rows tell; an
  accepted submission is the stored one; every job finishes.
- *Cassandra update*: no update of a record is lost, a marker names the update
  it stands for, a job that succeeded has changed its record, and what becomes
  of a reservation that nobody completes.
- *Outbox*: nothing is marked before it is acknowledged; a lease is ended by
  its holder; copies need faults; every row is published.
- *Projection*: a row is marked only with its projection; no projected row is
  missing from its view; every row is projected, and a row that cannot be
  projected is never marked.
- *Durable answers*: they never go back; a healthy projection check means that
  they are fresh; they show what the time of the query makes of a job (they do
  not, see below).
- *Visibility*: the view does not depend on the order of the evidence where it
  should not; duplicates and conflicts of writers do no harm; an EDR that fails
  harms no other; success is final;
  reconciliation accuses no scheduler that has answered.
- *Scheduler and visibility together*: the EDRs the scheduler writes reduce to a
  view that says of every attempt and verdict what the tables say.
- *Polling*: every item is retrieved once, in the order of its due time, and in
  the end; a query reports what the scheduler did.

## Modules

`Scheduler` has one action per transaction of the service (`SubmitNew`,
`SubmitExisting`, `RecoverExpired`, `ClaimDue`, `Start`, `Succeed`, `Fail`,
`Heartbeat`) and the control of the worker loop (`Break`, `Stop`, `StaleClaim`,
`Crash`, `Restart`). A transaction is atomic: each locks the rows it writes or
changes them in one fenced statement, and the claim and recovery queries take
disjoint rows with SKIP LOCKED. Claim tokens are drawn from a counter per job.
Time is kept relative, as ticks until a row is due or a lease ends, and
`Horizon` bounds how far the past is told apart.

`SchedulerView` composes it with the reducer: `EdrOf` is the EDR of an outbox row
and `ViewOf` the view after the EDRs of a job were reduced in the order they
were written. What other orders do is the subject of `Visibility`.

`JobContract` is the abstract specification of the queue: a job waits, is held
for one attempt, and ends or is given back, within its budget. `Scheduler`
implements it under the mapping `Contract`, which forgets workers, leases,
tokens and evidence.

`CassandraUpdate` has one action per statement of `apply_once`. A conditional
update that times out enters `inflight` and may take effect at any later time.
`history` is an auxiliary variable: the operations that changed a record.
Executions of one job may overlap because a worker that lost its claim still
runs its handler.

`Outbox` has one action per transaction of the publisher and the outcomes of a
send: acknowledged, failed, or given up and delivered later (`queued`). Lease
and backoff times are reduced to whether they have passed; `LeaseExpires` and
`BackoffElapses` let them pass at any moment. RETURNING promises no order, so
`Pick` takes any record of the batch. The topic is the number of copies of
each event.

`Projection` has one action per statement whose timing matters at READ
COMMITTED: the snapshot of the SELECT, its row locks, the read of the job's
rows, the upsert of the view, the insert of each decision, the mark, and the
commit. Two of them wait for another transaction: the upsert for one that wrote
the same view, and the insert of a decision for one that has the event's journal
row in its batch, because the foreign key asks for FOR KEY SHARE on a row that
is locked FOR UPDATE. A decision that is there already is left alone and needs
no lock. So two projectors on one job usually deadlock, one at the view and one
at a journal row, and the database aborts one (`Deadlocked`, `DeadlockAbort`). A
batch takes neither the rows of another batch nor those whose new decision is
uncommitted (SKIP LOCKED). `Unreadable` rows make `_project_job` raise: the
batch is rolled back (`FailToReduce`). A view is a function of the rows it
was reduced from, so it is represented by their set. The sink writes the rows of
one job in order (they share a partition); rows of other jobs may overtake.
`overlapped` is an auxiliary variable: the jobs that two open transactions have
read at once.

`DurableView` puts the readers on top: a stored view is what `Reduce` makes of its
rows one after the other (`ReplayOf`), `Get` the answer that `_project_job` computed for the moment
`data_as_of` and stored, `Search`, `AttemptsOf` and `FindingsOf` the other
queries of the durable reader, and `Healthy` the projection check of the
readiness probe. An event's number is its `persisted_at`.

`LifecycleRules` holds the reducer as operators on a record: `Reduce` is
`reduce_visibility`, and each `On...` operator one `_on_...` rule. It keeps the
fields that some rule, finding or property reads. The time of a retrieval is
`poll_time`, or `event_time` where that is missing (`RetrievedTime`). A missing attempt has status
`"NONE"`. Descriptive fields and the list of decisions are left out.

`Visibility` runs the rules in the engine for one job (jobs share nothing but
the lock). `apply` is three steps: `Apply` remembers and journals the EDR, `Copy`
is `reduce_visibility` on a copy of the stored view, `Store` replaces the view by
that copy. The lock is held throughout, but a reconciliation takes no lock and
may come between any two steps, and within the copy: each finding it marks again
while the copy is made is copied as it was before or after (`Touched`,
`Copied`). `Reconcile` marks one finding, in the order of the conditions of
`reconcile`. Instead of `Copy` there may be `Raise`: `deepcopy` raises when
`reconcile` adds a finding meanwhile (`Grown`), and `_latest` when it meets one
time with an offset and one without (`Comparable`; `zone` is the kind of the
view's `last_event_time`, `Naive` are the EDRs without an offset). The EDR is then
journalled and never reduced; `dropped`, an auxiliary variable, collects those.
All times of one EDR are taken
to be of the same kind. `Receive` may deliver any event of the
history at any time and again, or never.

`QueryRules` is the query side of the engine: derived status, delay
classification and the delays of an answer, as functions of a view and the time.

`PollingSimulation` composes the polling scheduler with both: `Poll` selects a
batch, applies the EDRs of its items to the views with `Reduce`, and `Advance`
moves the virtual clock. The list of poll records is reduced to what it says of
each item (`record`): how many records name it, how many passed it over,
whether its retrieval was announced and its execution started.

`MCScheduler`, `MCCassandraUpdate`, `MCOutbox`, `MCDurableView`, `MCVisibility`
and `MCPollingSimulation` give the instances. `SchedulerProofs`,
`SchedulerViewProofs`, `CassandraProofs`, `OutboxProofs`, `ProjectionProofs`,
`ReducerProofs`, `VisibilityProofs` and `PollingProofs` hold the proofs.
Definitions named `X_Something` and marked "Mutant" are plausible bugs of `X`;
no specification uses them. They document what each property would catch.

## Runs

| Run | What it checks | Bounds |
|---|---|---|
| `scheduler_safety` | the fence, the budget, the evidence and the view it reduces to, accepted submissions, final verdicts, and that `Scheduler` implements `JobContract` | two workers with one owner name, two jobs, two contents (budgets 1 and 2), one crash, stop or lost answer |
| `scheduler_liveness` | every submitted job finishes | one worker, two jobs, two faults, no heartbeats |
| `scheduler_exhaustion` | *violated*: exhaustion is always reported | the smallest instance that expires on a last attempt |
| `cassandra_update` | no lost update, no immediate repetition, true markers, real successes, orphaned reservations stay | two executions, two jobs on one record, three attempts each |
| `cassandra_at_most_once` | *violated*: a job is applied at most once | two attempts each |
| `outbox` | marks follow acknowledgements, tokens fence, copies need faults, published is final, every row is published | two publishers, two rows, batches of two, two faults |
| `durable_view` | a mark comes with its projection, only overlaps lose a row, a healthy probe means fresh answers, answers move forward, every row is marked unless projectors abort each other for ever or a row cannot be read | two projectors, four rows of two jobs of which the last may come and cannot be read, batches of two, deadlocks, one crash or rebuild, queries at two times |
| `projection_lost_event` | *violated*: no projected row is missing from its view | two projectors, three rows, no crash, no rebuild |
| `durable_overdue` | *violated*: an overdue job is shown and found as `OVERDUE` | one projector, three rows |
| `visibility` | what the view keeps in any order of delivery, that an EDR is missing from it only if its own reduction raised, that the retries suffice, that acknowledgement timeouts are justified | two threads, plain and optimistic requests, seven histories of three to five EDRs with every event type, two of them with an EDR whose times have no offset, three retries, reconciliation, one copy that it makes raise |
| `visibility_regression` | *violated*: a terminal status is never left | a retry that fails for good |
| `polling` | items are retrieved once, in turn and in the end; queries report what the scheduler did | three items, two scheduled times, batches of two, capacity one, full, partial and zero batch sizes |

The bounds are the smallest at which every branch of the code is taken: two
actors for each race, a budget of two so that a job is both retried and
exhausted, a projector's batch of two of three or four rows, so that a backlog is left
over, journal rows of which one job's arrive as a late start after the success
of a later attempt and the other's stop after an acknowledgement, three attempts so that a gap
can be one or two wide. Two jobs on one record are what the Cassandra protocol
tells apart; a third adds another rival of the same kind. Workers with one
owner name are interchangeable, and so are Cassandra executions: those safety
runs use their symmetry, and so do the request threads of the engine. The runs
with a liveness property use none. `MaxRaises` bounds the copies that a reconciliation makes raise; EDRs that cannot be
compared raise without a bound. Deadlock checking is off where a system that
has done all its work has only idle polls left (`Outbox`, `DurableView`), or
where all attempts are used up (`CassandraUpdate`).

### What the violated runs show

- `recover_expired_claims` moves a job to `RETRIES_EXHAUSTED` without an outbox
  row; specs/002 says that any recovered fact is written through the outbox.
- `apply_once` trusts its own marker only while the row still has the checksum
  the marker names. If the worker dies before the success is stored and another
  job updates the record meanwhile, the next attempt applies the job again.
- A projector that read a job's rows before another one committed overwrites
  the newer view. The event is marked projected and stays out of the view until
  another event of the job arrives or the views are rebuilt. The foreign key of
  the decisions protects a row that was never projected: the other projector
  waits for it, and one of the two is aborted. It does not protect a row that has
  its decision. In the trace `p2` takes the snapshot of its SELECT, `p1` projects
  row 1 and commits, and `p2` then locks row 1 all the same (the row itself has not
  changed) and reads the job; `p1` takes the new row 3 of the job, finds the
  decision of row 1 there, needs no lock and commits; `p2`, which read row 1
  only, writes last.
- `_project_job` stores the answer of the moment its last EDR was ingested, and
  the durable reader returns it unchanged and searches the recorded status. A
  job of which nothing more is heard is never shown or found as `OVERDUE`, which
  specs/001 derives from the time of the query.
- A `STARTED` of an attempt that has not itself failed moves a `FAILED` job
  back to `RUNNING`, also when it belongs to an earlier attempt.

More consequences of the code, read in the model and not violated runs of their
own, explain why no property promises the opposite:

- Only two transactions that have one job open at once lose a projected row
  (`LostOnlyByOverlap`); one projector loses none (proved). `rebuild` runs as a
  process of its own, so it may overlap with a single projector.
- A reservation is removed by the update of its own job and by nothing else
  (`OrphanBlocksForever`). A job that exhausts its attempts after its
  reservation blocks its record for ever. So does one that succeeded: a
  reservation that timed out may take effect after a later attempt has finished.
- A `RETRY_REQUESTED`, `RETRY_REJECTED` or `RETRIES_EXHAUSTED` that arrives after
  the acknowledgement leaves `retry_acknowledged` unset, as a late
  `SUBMISSION_REQUESTED` undoes the acknowledgement of a submission, and
  reconciliation may then report a timeout. `AckTimeoutIsJustified` says that
  nothing else makes it do so.
- In the durable deployment no reconciliation runs: the endpoint lists the
  findings that projections stored, so timeouts of acknowledgements and
  executions are never found.
- A `STARTED` that arrives after the retryable failure of its attempt erases
  that failure, so that a success of the same attempt raises no conflict.
- `VisibilityEngine.apply` remembers and journals an EDR before it reduces it. If
  the reduction raises, the EDR is in the journal and not in the view, and its
  redelivery is answered `EXACT_DUPLICATE`: specs/001 has concurrent updates lose
  no event. It takes a `reconcile` that adds a finding while the findings are being
  copied, or an EDR whose time has no offset, which the API accepts, where the view
  has one with an offset. `ViewIsReplay` says that only the EDR that raised is
  missing, and `OnlyRaisesDropEvents` that nothing else loses one.
- `reconcile` marks the stored view without the lock. A finding that it marks
  after `apply` has copied the view is gone when the copy is stored, so no property
  says that a finding remains.
- A row on which `_project_job` raises rolls back its whole batch, also the rows
  of other jobs, and is selected again: nothing sets it aside, though specs/005 and
  the arc42 document of specs/002 promise that unrelated jobs go on.
  `EveryEventIsProjected` therefore promises nothing once there is such a row.
- Two projectors that take rows of one job at once normally end in a deadlock,
  which costs one of them its process. If both are started again at once they may
  repeat it for ever (`AbortedForEver`). The compose file starts one projector.

## Fairness

- *Scheduler*: weak fairness of the clock, of each worker's next step and of a
  restart. A worker's loop always goes on; that a process is started again
  after it exits (a stale claim or a crash ends it) is an assumption on the
  deployment, since the compose file sets no restart policy. Heartbeats are off
  in the liveness run: the worker loop never sends one.
- *Outbox*: weak fairness of each publisher's loop and of the passing of leases
  and backoffs. A send succeeds unless one of the bounded faults strikes it.
- *Projection*: weak fairness of each projector's loop, which goes on after an
  error because the process is started again (the same assumption on the
  deployment), and of the database's deadlock detection. Nothing in the code rules
  out that two projectors abort each other for ever, so nothing is assumed that
  would: `EveryEventIsProjected` promises that every row is marked unless that
  happens (`AbortedForEver`) or the journal has a row that cannot be read (`HeldUp`).
- *PollingSimulation*: weak fairness of the clock and of polling. The README of
  the repository has the scheduler poll once per minute; which batch sizes the
  polls ask for is left open.
- *Visibility* and *CassandraUpdate* state no liveness property.

## Proofs

All proofs are for arbitrary sets of jobs, workers, owner names, events and
publishers (finite where something is counted: the publishers of the outbox,
the histories of the engine, the jobs of the polling simulation), and any batch
size, lease and bound, from the named ASSUMEs of the modules alone. The ASSUMEs
say that these sets are of the kind the code has: bounds are natural numbers,
`None` and `Null` are not among the values whose absence they stand for, an owner
name is given to each worker, and no submission asks for more attempts than `MaxAttempt`,
the bound of the views.

Every safety invariant and action property of a passing run has a theorem.

`SchedulerProofs` proves `IndInv`, the conjunction of `TypeOK`, `RowInvariant`
(the claim token of a held row is that of its last attempt, rows and attempt
rows agree), `AttemptsWithinBudget` and `ClaimInvariant` (a claim in a worker's
memory carries the token of its attempt, is not newer than the row, and no two
workers hold the same one). From it follow `TypeCorrect`, `BudgetKept` and
`FenceExcludes`. The strengthening is needed because `OneLiveHolder` speaks of
what workers remember while the fence compares with what the row has become:
only the link between token and attempt number excludes two claims that both
pass. Its second part shows with the same invariant that every step
moves each job by a step of `JobContract` or not at all (`JobMoves`), hence
`ContractImplemented`, and `FinishedStaysFinished`. Its third part shows that a
step changes the row, the attempt rows and the answers of a job only by one of
the moves `Recorded` and `Stored` (`StepRecorded`); the moves keep the tables
consistent, hence `TablesAgree`, and what clients were told true, hence
`AnswersAreTrue`. Its last part is the transactional outbox, `OutboxIsExact`. Each
step writes the events that its attempt rows gain (`StepEmitted`): a new row those
of the claim, a rewritten row what the rewriting adds. For `mark_started` this
needs that no one started the attempt before, `OpenClaims`: a claim that its worker
has not begun and no one took over is of a row still `CLAIMED`. The evidence of all
rows is a recursive function of their number; that there is one and only one such
function (`GatherExists`, `GatherUnique`) is shown by least counterexample, and from
it that a new row adds its evidence at the end.

`SchedulerViewProofs` proves `ScheduleIsShown`: the view that a job's outbox
reduces to follows its row. `Shown` strengthens the property to what the next EDR
needs (the times of the attempts are set, no attempt is shown that was not
made). What each EDR makes of a view in step comes from the lemmas of
`ReducerProofs` (`RetrievedShown`, `StartedShown`, `OutcomeShown`,
`PlainEventShown`), what a step does to row, attempts and outbox of a job is one of
the kinds of `Turn` (`StepTurn`), and each kind keeps the view in step
(`TurnShown`). That a start or a verdict meets the row it was decided for needs
`RunningClaims`: the claim whose handler a worker runs, unless another took
it over, is of a `RUNNING` row.

`OutboxProofs` proves an invariant that adds to the types that a publisher
about to mark a record has an acknowledged copy (`AcknowledgedFirst`), and that
only stored rows carry a lease or wait, never both (`LeaseInvariant`). From it
follow `OnlyAcknowledged` and `RowsFenced`; the latter also uses `RowMoves`,
which says what any step may do to a row. `CopiesHaveFaults` needs a count of
chances: `Weight` adds to the copies of an event on the topic one for each copy
that is still queued, one for each publisher about to send it, and one if the row
is not published and no live lease serves it, since it may then be leased anew.
Only a fault adds to the weight, and faults are counted (`CopyInv`); that no two
batches have one token (`TokenInv`) is why at most one lease serves a row.

`CassandraProofs` proves `IndInv`, which adds to the checked invariants that the
checksum a write is conditional on is not newer than the row's, and if it is the
row's own checksum then the row was not changed last by the same job (`Fresh`),
for every execution past its read and every write in flight; and that an
execution about to mark or return has the checksum of an update of its job.
`Fresh` is what makes `NoImmediateRepeat` inductive: a late write passes its
condition only where its job was not the last. `ApplyForward` shows once that a
conditional update, whoever sends it, moves rows and histories forward, and the
lemmas per step only deal with the execution that moves. From it follow
`UpdatesAreCounted`, `LastIsNotRepeated`, `MarkersAreTrue`, `SuccessesAreReal` and
`OrphansStay`.

`ProjectionProofs` proves `MarksFollowViews` and `LossNeedsOverlap`. The
invariant says what an open transaction holds (`TransactionInv`, `ItemInv`), that
what it has read of a job no one else had open contains every row marked by now
(`SnapshotInv`), and that two transactions with one job open are on record
(`OverlapInv`). Decisions are written one at a time and touch neither marks nor views, so a
transaction that waits or is aborted between two of them leaves the invariant
alone. The commit of one transaction adds marks only to jobs it has
open, so the snapshots of the others stay complete or their jobs are on record.
`OneProjectorLosesNothing` is the corollary for one projector, and
`ProbeIsHonest` the one for the readiness probe. `AnswersAdvance` is that stored
answers move forward. Projectors read and store of each job its first rows
(`StoredInv`, `OpeningInv`), and what a transaction has read of a job no one else
had open is not older than what is stored (`FreshInv`), so a stored view is
replaced by one of the same rows and more. One more EDR moves a view forward
(`ReduceAdvances`), hence any number does (`ReplayForward`).

`PollingProofs` proves `EachRetrievedOnce`, `NoStarvation` and `ReportsAreTrue`.
The invariant adds that nothing is recorded of an item before it is enqueued and,
for the reports, what the view of an item says at each stage of its record
(`ViewInv`, `Reported`), which `ReduceRule` below preserves. The argument for
waiting is `PassedOverForOlder`: the order of the queue is total and the limit is
positive (`retrieve_count=0` asks for a full batch), so a poll that leaves an eligible
item takes the first of the eligible ones before it, and that one was not among
the retrieved items ahead of it until then.

`ReducerProofs` is about the reducer alone: which fields each rule writes, for any
view and event; from that the effect of one EDR on the fields the properties
speak of (`ReduceRule`); that findings never feed back into the rest of a view
(`ReduceSame`); and that a journal has exactly one replay, whose last view is the
one before with one more event applied (`ReplayOfMore`). The last is induction
over data, which the prover cannot instantiate; it goes by a least counterexample
instead (`NatMinimum`): the first length without a replay cannot be zero and its
predecessor has one.

`VisibilityProofs` proves ten theorems about the engine, for any number of
threads, attempts and events, any EDRs without offset and any number of
reductions that raise: `TypeCorrect`, `ViewIsRebuilt`, `DuplicatesAbsorbed`,
`StartTimesAreExact`, `GapsAreReported`, `SuccessIsRecorded`,
`AckTimeoutsAreJustified`, `WritersAreNotStarved`, `SuccessIsFinal`, and
`OnlyRaisesDropEvents`: if no time lacks its offset and no copy meets a growing
dictionary, every journalled EDR is in the view. The
properties compare the view with `applied`, the journal without the EDRs that
raised; the reducer sees one EDR at a
time. Between them stands `Agrees`, which says what a view tells of any sequence
of events reduced into it, the findings that EDRs make included. One event more
preserves it (`ReduceAgrees`, `ReduceMarks`), and so does a reconciliation that marks
findings, in the stored view or under the hands of `deepcopy` (`MarkedAgrees`,
`RemarkedAgrees`, `CopiedAgrees`). The invariant adds where the agreement holds
while threads are between steps: in the stored view without the EDR in progress
while its copy is to be made (`CopyInv`), in the copy once it is made (`StoreInv`),
and in the stored view while the lock is free (`JournalInv`). `WithoutMore`,
`WithoutUnknown` and `WithoutNothing` say how `applied` grows; `Without` is a
recursive function, so they go by least counterexample like the replays. `RetryInv` is for
the retries: a copy that was found stale cost one retry and at least one version
written by another thread, of which there are no more than other events.

Only model-checked:

- the liveness properties `EveryJobFinishes`, `EveryEventIsPublished`,
  `EveryEventIsProjected` and `EveryItemIsRetrieved`: reasoning under fairness is
  out of the prover's reach.

## Not modelled

- *Chaos injector* (`chaos/`): test equipment; the deployment runs
  `NoOpFaultInjector`. What its faults do is in the crash, failure and late
  delivery actions of the other modules.
- *EDR ingress* (`edr_store/ingress.py`): one send without state; what a broker
  does with a send is in `Outbox`.
- *In-memory repository* (`persistence/`): a copy-isolated dictionary with the
  version check that `Visibility` has as `VersionConflicts`; no process uses it.
- *Configuration*: parsing of the environment. *Health*: the probes other than
  the projection check read one value of a dependency.
- *HTTP layer*: validation, status codes and wiring.
- *Queries*: fields that repeat the view, and filters by time or correlation id.
- *Fibonacci handler, serialisation*: pure functions of one argument. *Scripted
  scenarios*: their scripts call operations that are modelled.
- *Migrations* beyond keys and columns; *test support*.

The Kafka Connect sink, the broker, PostgreSQL and Cassandra are modelled by what
the code relies on.

## Plan

1. Done: `Scheduler`, `JobContract`, `SchedulerView`; `CassandraUpdate`; `Outbox`;
   `Projection` and `DurableView`; `LifecycleRules`, `QueryRules` and `Visibility`;
   `PollingSimulation`; proofs of every safety invariant and action property
   of the passing runs; the failures and waits inside a transaction of the
   projector and inside `apply`.
2. Open: one abstract specification of the pipeline (every committed fact
   reaches the view), implemented by outbox, sink and projection together. Each
   half is checked on its own: `EveryEventIsPublished` up to the topic,
   `EveryEventIsProjected` from the journal on.

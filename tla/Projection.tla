----------------------------- MODULE Projection ------------------------------
(****************************************************************************)
(* ProjectionWorker of edr_store/projection_worker.py.  Projectors take     *)
(* batches of journal rows that are not marked projected, rebuild the view  *)
(* of each row's job from all the rows of that job, and mark the row, in    *)
(* one READ COMMITTED transaction per batch: every statement sees what has  *)
(* been committed when it starts.                                           *)
(*                                                                          *)
(* A view is reduced in persisted order from the rows that were read, so it *)
(* is represented by the set of those rows.                                 *)
(****************************************************************************)
EXTENDS Naturals, FiniteSets

CONSTANTS
    EventId,        \* event_id, numbered in the order of persisted_at
    Job,
    JobOf,          \* [EventId -> Job], the job_id of each EDR
    Unreadable,     \* the rows on which _project_job raises
    Projector,      \* projection worker processes
    BatchSize,      \* batch_size
    MaxCrashes      \* bound: crashes and rebuilds

ASSUME EventAssumption == EventId \subseteq Nat \ {0} /\ JobOf \in [EventId -> Job]
ASSUME UnreadableAssumption == Unreadable \subseteq EventId
ASSUME BatchAssumption == BatchSize \in Nat \ {0}
ASSUME CrashAssumption == MaxCrashes \in Nat

VARIABLES
    edr_events,         \* the committed journal rows
    projected_events,   \* the rows marked projected
    decisions,          \* the rows with a projection decision
    job_visibility,     \* the rows each stored view was reduced from; {} if none
    tx,                 \* the open transaction of each projector
    crashes,
    overlapped          \* history: the jobs two open transactions projected at once

vars == <<edr_events, projected_events, decisions, job_visibility, tx, crashes, overlapped>>

tables == <<edr_events, projected_events, decisions, job_visibility>>

\* pending: the rows not projected when the batch was selected; locked: FOR UPDATE;
\* todo: what is left of the batch; rows: the journal rows of the job being
\* projected; views, marked, decided: written and not committed.
Transaction ==
    [pc : {"idle", "select", "read", "write", "decide", "commit"}, rebuild : BOOLEAN,
     pending : SUBSET EventId, locked : SUBSET EventId, todo : SUBSET (EventId \cup Job),
     rows : SUBSET EventId, views : [Job -> SUBSET EventId], marked : SUBSET EventId,
     decided : SUBSET EventId]

NoTransaction ==
    [pc |-> "idle", rebuild |-> FALSE, pending |-> {}, locked |-> {}, todo |-> {}, rows |-> {},
     views |-> [j \in Job |-> {}], marked |-> {}, decided |-> {}]

TypeOK ==
    /\ edr_events \subseteq EventId
    /\ projected_events \subseteq edr_events
    /\ decisions \subseteq edr_events
    /\ job_visibility \in [Job -> SUBSET EventId]
    /\ tx \in [Projector -> Transaction]
    /\ crashes \in 0..MaxCrashes
    /\ overlapped \subseteq Job

Init ==
    /\ edr_events = {}
    /\ projected_events = {}
    /\ decisions = {}
    /\ job_visibility = [j \in Job |-> {}]
    /\ tx = [p \in Projector |-> NoTransaction]
    /\ crashes = 0
    /\ overlapped = {}

-----------------------------------------------------------------------------
\* The sink commits a journal row.  The records of a job are in one partition
\* and one sink task writes them in order; those of other jobs may overtake.
Persist(e) ==
    /\ e \notin edr_events
    /\ \A f \in EventId : f < e /\ JobOf[f] = JobOf[e] => f \in edr_events
    /\ edr_events' = edr_events \cup {e}
    /\ UNCHANGED <<projected_events, decisions, job_visibility, tx, crashes, overlapped>>

\* Mutant: only the rows that are not projected yet are read.
EventsOf_Pending(j) == {e \in edr_events \ projected_events : JobOf[e] = j}

EventsOf(j) == {e \in edr_events : JobOf[e] = j}

\* run_once begins: the snapshot of the SELECT.
Begin(p) ==
    /\ tx[p].pc = "idle"
    /\ edr_events \ projected_events # {}
    /\ tx' = [tx EXCEPT ![p].pc = "select", ![p].pending = edr_events \ projected_events]
    /\ UNCHANGED <<tables, crashes, overlapped>>

\* A new decision references its journal row (FOREIGN KEY), which the database
\* locks FOR KEY SHARE until the transaction ends.
LockedByOthers(p) == UNION {tx[q].locked \cup tx[q].decided : q \in Projector \ {p}}

\* Mutant: a high-water mark instead of the set of projected rows.
Pending_HighWater(p) ==
    {e \in tx[p].pending \ LockedByOthers(p) : \A f \in projected_events : f < e}

Pending(p) == tx[p].pending \ LockedByOthers(p)

\* ORDER BY persisted_at,event_id LIMIT :limit
FirstOf(S) == {e \in S : Cardinality({f \in S : f < e}) < BatchSize}

\* Mutant: the batch is marked, in a transaction of its own, when it is taken.
Select_MarksFirst(p) ==
    /\ tx[p].pc = "select"
    /\ LET batch == FirstOf(Pending(p)) IN
       /\ tx' = [tx EXCEPT ![p].pc = IF batch = {} THEN "commit" ELSE "read",
                           ![p].locked = batch, ![p].todo = batch]
       /\ projected_events' = projected_events \cup batch
    /\ UNCHANGED <<edr_events, decisions, job_visibility, crashes, overlapped>>

\* FOR UPDATE OF e SKIP LOCKED: rows that were projected after the snapshot
\* was taken, and are unlocked again, are still taken.
Select(p) ==
    /\ tx[p].pc = "select"
    /\ LET batch == FirstOf(Pending(p)) IN
       tx' = [tx EXCEPT ![p].pc = IF batch = {} THEN "commit" ELSE "read",
                        ![p].locked = batch, ![p].todo = batch]
    /\ UNCHANGED <<tables, crashes, overlapped>>

\* rebuild: every job of the journal, and no marks.
Rebuild(p) ==
    /\ tx[p].pc = "idle"
    /\ edr_events # {}
    /\ crashes < MaxCrashes
    /\ crashes' = crashes + 1
    /\ tx' = [tx EXCEPT ![p].pc = "read", ![p].rebuild = TRUE,
                        ![p].todo = {JobOf[e] : e \in edr_events}]
    /\ UNCHANGED <<tables, overlapped>>

\* The item the loop is at: the first of the batch, or the job being rebuilt.
ItemOf(rebuild, todo) ==
    IF rebuild THEN CHOOSE j \in todo : TRUE
    ELSE CHOOSE e \in todo : \A f \in todo : e <= f

Item(p) == ItemOf(tx[p].rebuild, tx[p].todo)

JobAt(p) == IF tx[p].rebuild THEN Item(p) ELSE JobOf[Item(p)]

\* q has read the rows of the job and not ended its transaction.
Projecting(q, j) ==
    tx[q].views[j] # {} \/ (tx[q].pc = "write" /\ JobAt(q) = j)

Readable(rows) == rows \cap Unreadable = {}

\* _project_job reads the rows of the job, without a lock on the job, and
\* reduces them.
ReadRows(p) ==
    /\ tx[p].pc = "read"
    /\ Readable(EventsOf(JobAt(p)))
    /\ tx' = [tx EXCEPT ![p].pc = "write", ![p].rows = EventsOf(JobAt(p))]
    /\ overlapped' = IF \E q \in Projector \ {p} : Projecting(q, JobAt(p))
                     THEN overlapped \cup {JobAt(p)} ELSE overlapped
    /\ UNCHANGED <<tables, crashes>>

\* Some row of the job raises: the batch is rolled back and the process ends.
FailToReduce(p) ==
    /\ tx[p].pc = "read"
    /\ ~ Readable(EventsOf(JobAt(p)))
    /\ tx' = [tx EXCEPT ![p] = NoTransaction]
    /\ UNCHANGED <<tables, crashes, overlapped>>

\* Decisions that are committed or its own are left alone: ON CONFLICT DO NOTHING.
Undecided(p) == tx[p].rows \ (decisions \cup tx[p].decided)

NextDecision(p) == CHOOSE e \in Undecided(p) : \A f \in Undecided(p) : e <= f

\* The foreign key of p's next decision asks for FOR KEY SHARE on a row of q's batch.
HoldsRow(q, p) ==
    tx[p].pc = "decide" /\ Undecided(p) # {} /\ NextDecision(p) \in tx[q].locked

\* A transaction that wrote the job's view holds its row lock until it ends.
HoldsView(q, p) == tx[p].pc = "write" /\ tx[q].views[JobAt(p)] # {}

Blocks(q, p) == q # p /\ (HoldsView(q, p) \/ HoldsRow(q, p))

\* _project_job upserts the view, with its attempts.
WriteView(p) ==
    /\ tx[p].pc = "write"
    /\ \A q \in Projector : ~ Blocks(q, p)
    /\ tx' = [tx EXCEPT ![p].pc = "decide", ![p].views[JobAt(p)] = tx[p].rows]
    /\ UNCHANGED <<tables, crashes, overlapped>>

\* One INSERT INTO projection_decisions; the view's lock keeps others from
\* inserting the decisions of this job.
Decide(p) ==
    /\ tx[p].pc = "decide"
    /\ Undecided(p) # {}
    /\ \A q \in Projector : ~ Blocks(q, p)
    /\ tx' = [tx EXCEPT ![p].decided = @ \cup {NextDecision(p)}]
    /\ UNCHANGED <<tables, crashes, overlapped>>

\* Mutant: a rebuild marks what it projects, job ids included.
Marks_Always(p) == {Item(p)}

\* INSERT INTO projected_events, which a rebuild does not do.  Its foreign key
\* finds the row locked by its own transaction.
Marks(p) == IF tx[p].rebuild THEN {} ELSE {Item(p)}

Advance(p) ==
    LET left == tx[p].todo \ {Item(p)} IN
    /\ tx[p].pc = "decide"
    /\ Undecided(p) = {}
    /\ tx' = [tx EXCEPT ![p].pc = IF left = {} THEN "commit" ELSE "read",
                        ![p].todo = left,
                        ![p].marked = @ \cup Marks(p)]
    /\ UNCHANGED <<tables, crashes, overlapped>>

Commit(p) ==
    /\ tx[p].pc = "commit"
    /\ projected_events' = projected_events \cup tx[p].marked
    /\ decisions' = decisions \cup tx[p].decided
    /\ job_visibility' = [j \in Job |-> IF tx[p].views[j] = {} THEN job_visibility[j]
                                        ELSE tx[p].views[j]]
    /\ tx' = [tx EXCEPT ![p] = NoTransaction]
    /\ UNCHANGED <<edr_events, crashes, overlapped>>

\* The process dies: its transaction is rolled back, its locks are released.
Crash(p) ==
    /\ tx[p].pc # "idle"
    /\ crashes < MaxCrashes
    /\ crashes' = crashes + 1
    /\ tx' = [tx EXCEPT ![p] = NoTransaction]
    /\ UNCHANGED <<tables, overlapped>>

\* A cycle of transactions that wait for each other, for views or rows.
Deadlocked(p) ==
    \E cycle \in SUBSET Projector :
        /\ p \in cycle
        /\ \A q \in cycle : (\E r \in cycle : Blocks(r, q)) /\ (\E r \in cycle : Blocks(q, r))

\* The database aborts one of them, whose process ends with the error and is
\* started again.
DeadlockAbort(p) ==
    /\ Deadlocked(p)
    /\ tx' = [tx EXCEPT ![p] = NoTransaction]
    /\ UNCHANGED <<tables, crashes, overlapped>>

Step(p) ==
    \/ Begin(p) \/ Select(p) \/ ReadRows(p) \/ FailToReduce(p) \/ WriteView(p)
    \/ Decide(p) \/ Advance(p) \/ Commit(p)

Next ==
    \/ \E e \in EventId : Persist(e)
    \/ \E p \in Projector : Step(p) \/ Rebuild(p) \/ Crash(p) \/ DeadlockAbort(p)

\* Every projector loops for ever and is started again after an error, and the
\* database breaks deadlocks.
Fairness == \A p \in Projector : WF_vars(Step(p)) /\ WF_vars(DeadlockAbort(p))

Spec == Init /\ [][Next]_vars /\ Fairness

-----------------------------------------------------------------------------
(* Properties. *)

\* No row is marked projected unless its projection was committed before or
\* with the mark, whatever crashes, deadlocks and rebuilds come in between.
MarkedIsProjected ==
    \A e \in projected_events : e \in decisions /\ job_visibility[JobOf[e]] # {}

\* The database aborts one projector after the other and never stops.
AbortedForEver == []<><<\E p \in Projector : DeadlockAbort(p)>>_vars

\* A row that cannot be projected is never marked and rolls back every batch that
\* it is in, with the rows of any job.
HeldUp == ~ Readable(edr_events)

\* Every row that reaches the journal is marked projected in the end, and with
\* that leaves the queue of the projectors: unless the journal has an unreadable row,
\* or the projectors' restarts are so quick that they take their rows again before
\* the other is granted its lock, and deadlock for ever.
EveryEventIsProjected ==
    \/ AbortedForEver
    \/ \A e \in EventId : e \in edr_events ~> (e \in projected_events \/ HeldUp)

\* A projected row is part of the stored view of its job.
NoEventIsLost ==
    \A e \in projected_events : e \in job_visibility[JobOf[e]]

\* Nothing but two transactions that project one job at once can lose a row:
\* not the batches, the crashes, the rebuilds, nor the order of commits.
LostOnlyByOverlap ==
    \A e \in projected_events : JobOf[e] \in overlapped \/ e \in job_visibility[JobOf[e]]
=============================================================================

-------------------------- MODULE ProjectionProofs ---------------------------
(****************************************************************************)
(* What the projectors guarantee for any journal, any number of projectors, *)
(* batch sizes, crashes and rebuilds, and what the reader that answers from *)
(* their views can promise: that the probe of readiness is honest, and that *)
(* what was answered of a job is never taken back.                          *)
(****************************************************************************)
EXTENDS DurableView, ReducerProofs

\* What an open transaction holds: it only has rows of the journal, the item it
\* is at is among the rows it read, and what it marked is in what it wrote.
TransactionInv(p) ==
    /\ tx[p].pc \in {"read", "write", "decide"} => tx[p].todo # {}
    /\ tx[p].pc \in {"idle", "select"} => ~ tx[p].rebuild
    /\ ~ tx[p].rebuild => tx[p].todo \subseteq edr_events
    /\ tx[p].rebuild => tx[p].todo \subseteq {JobOf[e] : e \in edr_events}
    /\ tx[p].pending \subseteq edr_events
    /\ tx[p].decided \subseteq edr_events
    /\ tx[p].marked \subseteq decisions \cup tx[p].decided
    /\ \A j \in Job : tx[p].views[j] \subseteq EventsOf(j)
    /\ \A e \in tx[p].marked : e \in tx[p].views[JobOf[e]]

\* Between the read and the mark of an item.
ItemInv(p) ==
    /\ tx[p].pc = "write" =>
          /\ tx[p].rows # {} /\ tx[p].rows \subseteq EventsOf(JobAt(p))
          /\ tx[p].views[JobAt(p)] \subseteq tx[p].rows
          /\ ~ tx[p].rebuild => Item(p) \in tx[p].rows
    /\ tx[p].pc = "decide" =>
          /\ tx[p].rows \subseteq EventsOf(JobAt(p))
          /\ ~ tx[p].rebuild =>
                Item(p) \in tx[p].rows /\ Item(p) \in tx[p].views[JobOf[Item(p)]]

\* What p has read of a job no one else was projecting has every row of the job
\* that is marked by now.
SnapshotInv(p) ==
    \A e \in projected_events : JobOf[e] \notin overlapped =>
        /\ tx[p].views[JobOf[e]] # {} => e \in tx[p].views[JobOf[e]]
        /\ tx[p].pc = "write" /\ JobAt(p) = JobOf[e] => e \in tx[p].rows

\* Two transactions that have both read a job are on record.
OverlapInv ==
    \A p, q \in Projector, j \in Job :
        p # q /\ Projecting(p, j) /\ Projecting(q, j) => j \in overlapped

IndInv ==
    /\ TypeOK
    /\ \A p \in Projector : TransactionInv(p)
    /\ \A p \in Projector : ItemInv(p)
    /\ \A p \in Projector : SnapshotInv(p)
    /\ OverlapInv
    /\ MarkedIsProjected
    /\ LostOnlyByOverlap

-----------------------------------------------------------------------------
LEMMA FirstExists ==
    ASSUME NEW S \in SUBSET Nat, S # {}
    PROVE  \E e \in S : \A f \in S : e <= f
<1> DEFINE R == OpToRel(<, Nat)
<1>1. PICK x \in S : \A y \in S : ~ (<<y, x>> \in R)
  BY NatLessThanWellFounded, WFMin
<1>2. \A y \in S : ~ (y < x)
  BY <1>1 DEF OpToRel
<1> QED BY <1>2

\* The loop is at one of the items that are left.
LEMMA ItemOfType ==
    ASSUME NEW rebuild \in BOOLEAN, NEW todo, todo # {}, ~ rebuild => todo \subseteq EventId
    PROVE  ItemOf(rebuild, todo) \in todo
<1>1. CASE rebuild
  BY <1>1 DEF ItemOf
<1>2. CASE ~ rebuild
  <2>1. \E e \in todo : \A f \in todo : e <= f
    BY <1>2, FirstExists, EventAssumption
  <2> QED BY <1>2, <2>1 DEF ItemOf
<1> QED BY <1>1, <1>2

LEMMA ItemType ==
    ASSUME IndInv, NEW p \in Projector, tx[p].pc \in {"read", "write", "decide"}
    PROVE  /\ Item(p) \in tx[p].todo
           /\ JobAt(p) \in Job
           /\ ~ tx[p].rebuild => Item(p) \in edr_events /\ JobAt(p) = JobOf[Item(p)]
           /\ \E e \in edr_events : JobAt(p) = JobOf[e]
<1>1. tx[p] \in Transaction /\ edr_events \subseteq EventId
  BY DEF IndInv, TypeOK
<1>2. /\ tx[p].todo # {}
      /\ ~ tx[p].rebuild => tx[p].todo \subseteq edr_events
      /\ tx[p].rebuild => tx[p].todo \subseteq {JobOf[e] : e \in edr_events}
  BY DEF IndInv, TransactionInv
<1>3. tx[p].rebuild \in BOOLEAN
  BY <1>1 DEF Transaction
<1>4. Item(p) \in tx[p].todo
  BY <1>1, <1>2, <1>3, ItemOfType DEF Item
<1>5. CASE tx[p].rebuild
  BY <1>1, <1>2, <1>4, <1>5, EventAssumption DEF JobAt
<1>6. CASE ~ tx[p].rebuild
  BY <1>1, <1>2, <1>4, <1>6, EventAssumption DEF JobAt
<1> QED BY <1>3, <1>4, <1>5, <1>6

-----------------------------------------------------------------------------
(* The other projectors. *)

LEMMA OthersKeep ==
    ASSUME IndInv, NEW q \in Projector, tx'[q] = tx[q], edr_events \subseteq edr_events',
           decisions \subseteq decisions'
    PROVE  /\ TransactionInv(q)' /\ ItemInv(q)'
           /\ Item(q)' = Item(q) /\ JobAt(q)' = JobAt(q)
           /\ \A j \in Job : Projecting(q, j)' <=> Projecting(q, j)
<1>1. Item(q)' = Item(q)
  BY DEF Item
<1>2. JobAt(q)' = JobAt(q)
  BY <1>1 DEF JobAt
<1>3. \A j \in Job : Projecting(q, j)' <=> Projecting(q, j)
  BY <1>2 DEF Projecting
<1>4. \A j : EventsOf(j) \subseteq EventsOf(j)'
  BY DEF EventsOf
<1>5. TransactionInv(q)'
  <2>1. TransactionInv(q)
    BY DEF IndInv
  <2> QED BY <1>4, <2>1 DEF TransactionInv
<1>6. ItemInv(q)'
  <2>1. ItemInv(q)
    BY DEF IndInv
  <2> QED BY <1>1, <1>2, <1>4, <2>1 DEF ItemInv
<1> QED BY <1>1, <1>2, <1>3, <1>5, <1>6

LEMMA OthersSnapshot ==
    ASSUME IndInv, NEW q \in Projector, tx'[q] = tx[q], edr_events \subseteq edr_events',
           decisions \subseteq decisions', UNCHANGED projected_events, overlapped \subseteq overlapped'
    PROVE  SnapshotInv(q)'
<1>1. SnapshotInv(q)
  BY DEF IndInv
<1>2. JobAt(q)' = JobAt(q)
  BY OthersKeep
<1> QED BY <1>1, <1>2 DEF SnapshotInv

\* A step of one projector that commits nothing.
LEMMA UncommittedStep ==
    ASSUME IndInv, NEW p \in Projector, NEW t \in Transaction,
           tx' = [tx EXCEPT ![p] = t],
           UNCHANGED tables, crashes' \in 0..MaxCrashes,
           overlapped \subseteq overlapped', overlapped' \subseteq Job,
           TransactionInv(p)', ItemInv(p)', SnapshotInv(p)',
           \A j \in Job : Projecting(p, j)' =>
               \/ Projecting(p, j) \/ j \in overlapped'
               \/ \A q \in Projector \ {p} : ~ Projecting(q, j)
    PROVE  IndInv'
<1> USE DEF tables
<1>1. TypeOK'
  BY DEF IndInv, TypeOK
<1>2. \A q \in Projector \ {p} : tx'[q] = tx[q]
  BY DEF IndInv, TypeOK
<1>3. \A q \in Projector : TransactionInv(q)' /\ ItemInv(q)' /\ SnapshotInv(q)'
  BY <1>2, OthersKeep, OthersSnapshot
<1>4. OverlapInv'
  <2> SUFFICES ASSUME NEW q \in Projector, NEW r \in Projector, NEW j \in Job,
                      q # r, Projecting(q, j)', Projecting(r, j)'
               PROVE  j \in overlapped'
    BY DEF OverlapInv
  <2>1. \A o \in Projector \ {p} : Projecting(o, j)' <=> Projecting(o, j)
    BY <1>2, OthersKeep
  <2>2. OverlapInv
    BY DEF IndInv
  <2>3. CASE q # p /\ r # p
    BY <2>1, <2>2, <2>3 DEF OverlapInv
  <2>4. CASE q = p
    BY <2>1, <2>2, <2>4 DEF OverlapInv
  <2>5. CASE r = p
    BY <2>1, <2>2, <2>5 DEF OverlapInv
  <2> QED BY <2>3, <2>4, <2>5
<1>5. MarkedIsProjected'
  BY DEF IndInv, MarkedIsProjected
<1>6. LostOnlyByOverlap'
  BY DEF IndInv, LostOnlyByOverlap
<1> QED BY <1>1, <1>3, <1>4, <1>5, <1>6 DEF IndInv


-----------------------------------------------------------------------------
(* The steps that open and end a transaction. *)

LEMMA NoTransactionType ==
    /\ NoTransaction \in Transaction
    /\ NoTransaction.pc = "idle" /\ NoTransaction.rebuild = FALSE
    /\ NoTransaction.pending = {} /\ NoTransaction.todo = {}
    /\ NoTransaction.marked = {} /\ NoTransaction.decided = {}
    /\ NoTransaction.views = [j \in Job |-> {}]
BY DEF NoTransaction, Transaction

LEMMA InitIndInv == Init => IndInv
<1> SUFFICES ASSUME Init PROVE IndInv
  OBVIOUS
<1>1. \A p \in Projector : tx[p] = NoTransaction
  BY DEF Init
<1>2. TypeOK
  BY NoTransactionType, CrashAssumption DEF Init, TypeOK
<1>3. \A p \in Projector : TransactionInv(p) /\ ItemInv(p) /\ SnapshotInv(p)
  BY <1>1, NoTransactionType DEF Init, TransactionInv, ItemInv, SnapshotInv
<1>4. OverlapInv
  BY <1>1, NoTransactionType DEF OverlapInv, Projecting
<1>5. MarkedIsProjected /\ LostOnlyByOverlap
  BY DEF Init, MarkedIsProjected, LostOnlyByOverlap
<1> QED BY <1>2, <1>3, <1>4, <1>5 DEF IndInv

LEMMA PersistStep ==
    ASSUME IndInv, NEW e \in EventId, Persist(e)
    PROVE  IndInv'
<1>1. TypeOK'
  BY DEF Persist, IndInv, TypeOK
<1>2. \A q \in Projector : TransactionInv(q)' /\ ItemInv(q)' /\ SnapshotInv(q)'
  BY OthersKeep, OthersSnapshot DEF Persist
<1>3. OverlapInv'
  <2>1. \A q \in Projector, j \in Job : Projecting(q, j)' <=> Projecting(q, j)
    BY OthersKeep DEF Persist
  <2> QED BY <2>1 DEF Persist, IndInv, OverlapInv
<1>4. MarkedIsProjected' /\ LostOnlyByOverlap'
  BY DEF Persist, IndInv, MarkedIsProjected, LostOnlyByOverlap
<1> QED BY <1>1, <1>2, <1>3, <1>4 DEF IndInv

\* A transaction that ends with nothing committed.
LEMMA RollbackStep ==
    ASSUME IndInv, NEW p \in Projector, tx' = [tx EXCEPT ![p] = NoTransaction],
           UNCHANGED <<tables, overlapped>>, crashes' \in 0..MaxCrashes
    PROVE  IndInv'
<1>1. tx'[p] = NoTransaction
  BY DEF IndInv, TypeOK
<1>2. TransactionInv(p)' /\ ItemInv(p)'
  BY <1>1, NoTransactionType DEF TransactionInv, ItemInv
<1>3. SnapshotInv(p)'
  BY <1>1, NoTransactionType, EventAssumption DEF SnapshotInv, tables, IndInv, TypeOK
<1>4. \A j \in Job : ~ Projecting(p, j)'
  BY <1>1, NoTransactionType DEF Projecting
<1>5. overlapped' \subseteq Job
  BY DEF IndInv, TypeOK
<1> QED BY <1>2, <1>3, <1>4, <1>5, NoTransactionType, UncommittedStep

LEMMA CommitStep ==
    ASSUME IndInv, NEW p \in Projector, Commit(p)
    PROVE  IndInv'
<1> DEFINE t == tx[p]
<1>1. t \in Transaction /\ TransactionInv(p) /\ SnapshotInv(p)
  BY DEF IndInv, TypeOK
<1>2. /\ t.marked \subseteq EventId /\ t.decided \subseteq EventId
      /\ t.views \in [Job -> SUBSET EventId]
  BY <1>1 DEF Transaction
<1>3. tx'[p] = NoTransaction /\ \A q \in Projector \ {p} : tx'[q] = tx[q]
  BY DEF Commit, IndInv, TypeOK
<1>4. \A e \in t.marked : /\ e \in decisions \cup t.decided /\ e \in EventId
                         /\ e \in t.views[JobOf[e]] /\ JobOf[e] \in Job
  BY <1>1, <1>2, EventAssumption DEF TransactionInv
<1>5. TypeOK'
  BY <1>1, <1>2, NoTransactionType DEF Commit, IndInv, TypeOK, TransactionInv
<1>6. ASSUME NEW q \in Projector
      PROVE  TransactionInv(q)' /\ ItemInv(q)' /\ SnapshotInv(q)'
  <2>1. CASE q = p
    <3>1. TransactionInv(p)' /\ ItemInv(p)'
      BY <1>3, NoTransactionType DEF TransactionInv, ItemInv
    <3>2. SnapshotInv(p)'
      BY <1>3, <1>5, NoTransactionType, EventAssumption DEF SnapshotInv, TypeOK
    <3> QED BY <2>1, <3>1, <3>2
  <2>2. CASE q # p
    <3>1. tx'[q] = tx[q] /\ edr_events' = edr_events /\ decisions \subseteq decisions'
      BY <1>3, <2>2 DEF Commit
    <3>2. TransactionInv(q)' /\ ItemInv(q)' /\ JobAt(q)' = JobAt(q)
      BY <3>1, OthersKeep
    <3>3. ASSUME NEW e \in t.marked, JobOf[e] \notin overlapped
          PROVE  ~ Projecting(q, JobOf[e])
      <4>1. Projecting(p, JobOf[e]) /\ OverlapInv /\ JobOf[e] \in Job
        BY <1>4 DEF Projecting, IndInv
      <4> QED BY <2>2, <3>3, <4>1 DEF OverlapInv
    <3>4. SnapshotInv(q)'
      <4> SUFFICES ASSUME NEW e \in projected_events', JobOf[e] \notin overlapped
                   PROVE  /\ tx[q].views[JobOf[e]] # {} => e \in tx[q].views[JobOf[e]]
                          /\ tx[q].pc = "write" /\ JobAt(q) = JobOf[e] => e \in tx[q].rows
        BY <3>1, <3>2 DEF SnapshotInv, Commit
      <4>1. CASE e \in projected_events
        BY <4>1 DEF IndInv, SnapshotInv
      <4>2. CASE e \in t.marked
        BY <3>3, <4>2 DEF Projecting
      <4> QED BY <4>1, <4>2 DEF Commit
    <3> QED BY <3>2, <3>4
  <2> QED BY <2>1, <2>2
<1>7. OverlapInv'
  <2>1. \A j \in Job : ~ Projecting(p, j)'
    BY <1>3, NoTransactionType DEF Projecting
  <2>2. \A q \in Projector \ {p}, j \in Job : Projecting(q, j)' <=> Projecting(q, j)
    BY <1>3, OthersKeep DEF Commit
  <2> QED BY <2>1, <2>2 DEF OverlapInv, IndInv, Commit
<1>8. ASSUME NEW e \in projected_events'
      PROVE  /\ e \in decisions' /\ job_visibility'[JobOf[e]] # {}
             /\ JobOf[e] \in overlapped' \/ e \in job_visibility'[JobOf[e]]
  <2>1. JobOf[e] \in Job
    BY <1>5, EventAssumption DEF TypeOK
  <2>2. /\ decisions' = decisions \cup t.decided /\ overlapped' = overlapped
        /\ job_visibility'[JobOf[e]] = IF t.views[JobOf[e]] = {} THEN job_visibility[JobOf[e]]
                                       ELSE t.views[JobOf[e]]
    BY <2>1 DEF Commit
  <2>3. CASE e \in projected_events
    BY <1>1, <2>2, <2>3 DEF IndInv, MarkedIsProjected, LostOnlyByOverlap, SnapshotInv
  <2>4. CASE e \in t.marked
    BY <1>4, <2>2, <2>4
  <2> QED BY <2>3, <2>4 DEF Commit
<1>9. MarkedIsProjected' /\ LostOnlyByOverlap'
  BY <1>8 DEF MarkedIsProjected, LostOnlyByOverlap
<1> QED BY <1>5, <1>6, <1>7, <1>9 DEF IndInv


-----------------------------------------------------------------------------
(* What a transaction is after each statement. *)

LEMMA BegunType ==
    ASSUME NEW t \in Transaction, NEW S \in SUBSET EventId
    PROVE  LET u == [t EXCEPT !.pc = "select", !.pending = S] IN
           /\ u \in Transaction /\ u.pc = "select" /\ u.pending = S
           /\ u.rebuild = t.rebuild /\ u.todo = t.todo
           /\ u.views = t.views /\ u.marked = t.marked /\ u.decided = t.decided
BY DEF Transaction

SelectedTx(t, pc, S) == [t EXCEPT !.pc = pc, !.locked = S, !.todo = S]

LEMMA SelectedType ==
    ASSUME NEW t \in Transaction, NEW pc \in {"commit", "read"}, NEW S \in SUBSET EventId
    PROVE  LET u == SelectedTx(t, pc, S) IN
           /\ u \in Transaction /\ u.pc = pc /\ u.todo = S
           /\ u.rebuild = t.rebuild /\ u.pending = t.pending
           /\ u.views = t.views /\ u.marked = t.marked /\ u.decided = t.decided
BY DEF Transaction, SelectedTx

LEMMA RebuildingType ==
    ASSUME NEW t \in Transaction, NEW S \in SUBSET Job
    PROVE  LET u == [t EXCEPT !.pc = "read", !.rebuild = TRUE, !.todo = S] IN
           /\ u \in Transaction /\ u.pc = "read" /\ u.todo = S
           /\ u.rebuild = TRUE /\ u.pending = t.pending
           /\ u.views = t.views /\ u.marked = t.marked /\ u.decided = t.decided
BY DEF Transaction

LEMMA ReadType ==
    ASSUME NEW t \in Transaction, NEW S \in SUBSET EventId
    PROVE  LET u == [t EXCEPT !.pc = "write", !.rows = S] IN
           /\ u \in Transaction /\ u.pc = "write" /\ u.rows = S
           /\ u.rebuild = t.rebuild /\ u.todo = t.todo /\ u.pending = t.pending
           /\ u.views = t.views /\ u.marked = t.marked /\ u.decided = t.decided
BY DEF Transaction

LEMMA WrittenType ==
    ASSUME NEW t \in Transaction, NEW j \in Job
    PROVE  LET u == [t EXCEPT !.pc = "decide", !.views[j] = t.rows] IN
           /\ u \in Transaction /\ u.pc = "decide" /\ u.rows = t.rows
           /\ u.views[j] = t.rows /\ \A k \in Job \ {j} : u.views[k] = t.views[k]
           /\ u.rebuild = t.rebuild /\ u.todo = t.todo /\ u.pending = t.pending
           /\ u.marked = t.marked /\ u.decided = t.decided
BY DEF Transaction

LEMMA DecidedType ==
    ASSUME NEW t \in Transaction, NEW e \in EventId
    PROVE  LET u == [t EXCEPT !.decided = @ \cup {e}] IN
           /\ u \in Transaction /\ u.pc = t.pc /\ u.rows = t.rows
           /\ u.rebuild = t.rebuild /\ u.todo = t.todo /\ u.pending = t.pending
           /\ u.views = t.views /\ u.marked = t.marked /\ u.decided = t.decided \cup {e}
BY DEF Transaction

AdvancedTx(t, pc, S, M) == [t EXCEPT !.pc = pc, !.todo = S, !.marked = M]

LEMMA AdvancedType ==
    ASSUME NEW t \in Transaction, NEW pc \in {"commit", "read"}, NEW S \in SUBSET (EventId \cup Job),
           NEW M \in SUBSET EventId
    PROVE  LET u == AdvancedTx(t, pc, S, M) IN
           /\ u \in Transaction /\ u.pc = pc /\ u.todo = S
           /\ u.marked = M
           /\ u.rebuild = t.rebuild /\ u.pending = t.pending
           /\ u.views = t.views /\ u.decided = t.decided
BY DEF Transaction, AdvancedTx


-----------------------------------------------------------------------------
(* The statements of a transaction. *)

\* A statement that neither reads nor writes a view.
LEMMA ViewsKeptStep ==
    ASSUME IndInv, NEW p \in Projector, NEW t \in Transaction,
           tx' = [tx EXCEPT ![p] = t], t.views = tx[p].views, t.pc \notin {"write", "decide"},
           UNCHANGED <<tables, overlapped>>, crashes' \in 0..MaxCrashes, TransactionInv(p)'
    PROVE  IndInv'
<1>1. tx'[p] = t
  BY DEF IndInv, TypeOK
<1>2. ItemInv(p)'
  BY <1>1 DEF ItemInv
<1>3. SnapshotInv(p)'
  BY <1>1 DEF SnapshotInv, tables, IndInv
<1>4. \A j \in Job : Projecting(p, j)' => Projecting(p, j)
  BY <1>1 DEF Projecting
<1>5. overlapped' \subseteq Job
  BY DEF IndInv, TypeOK
<1> QED BY <1>2, <1>3, <1>4, <1>5, UncommittedStep

LEMMA BeginStep ==
    ASSUME IndInv, NEW p \in Projector, Begin(p)
    PROVE  IndInv'
<1> DEFINE S == edr_events \ projected_events
           t == [tx[p] EXCEPT !.pc = "select", !.pending = S]
<1>1. tx[p] \in Transaction /\ TransactionInv(p) /\ S \in SUBSET EventId
      /\ S \subseteq edr_events /\ crashes \in 0..MaxCrashes
  BY DEF IndInv, TypeOK
<1>2. tx' = [tx EXCEPT ![p] = t]
  BY <1>1 DEF Begin, IndInv, TypeOK, Transaction
<1>3. /\ t \in Transaction /\ t.pc = "select" /\ t.pending = S
      /\ t.rebuild = tx[p].rebuild /\ t.todo = tx[p].todo
      /\ t.views = tx[p].views /\ t.marked = tx[p].marked /\ t.decided = tx[p].decided
  BY <1>1, BegunType
<1> HIDE DEF t
<1>4. tx'[p] = t /\ edr_events' = edr_events /\ decisions' = decisions
  BY <1>2 DEF IndInv, TypeOK, Begin, tables
<1>5. TransactionInv(p)'
  BY <1>1, <1>3, <1>4 DEF TransactionInv, EventsOf, Begin
<1> QED BY <1>1, <1>2, <1>3, <1>5, ViewsKeptStep DEF Begin

LEMMA SelectStep ==
    ASSUME IndInv, NEW p \in Projector, Select(p)
    PROVE  IndInv'
<1> DEFINE S == FirstOf(Pending(p))
           c == IF S = {} THEN "commit" ELSE "read"
           t == SelectedTx(tx[p], c, S)
<1>1. tx[p] \in Transaction /\ TransactionInv(p) /\ crashes \in 0..MaxCrashes
  BY DEF IndInv, TypeOK
<1>2. S \in SUBSET EventId /\ S \subseteq edr_events
  BY <1>1 DEF FirstOf, Pending, TransactionInv, IndInv, TypeOK
<1>3. tx' = [tx EXCEPT ![p] = t]
  BY <1>1 DEF Select, IndInv, TypeOK, Transaction, SelectedTx
<1>c. c \in {"commit", "read"} /\ (c = "read" => S # {}) /\ ~ tx[p].rebuild
  BY <1>1 DEF Select, TransactionInv
<1>4. /\ t \in Transaction /\ t.pc = c /\ t.todo = S
      /\ t.rebuild = tx[p].rebuild /\ t.pending = tx[p].pending
      /\ t.views = tx[p].views /\ t.marked = tx[p].marked /\ t.decided = tx[p].decided
  <2> HIDE DEF S, c
  <2> QED BY <1>1, <1>2, <1>c, SelectedType
<1> HIDE DEF S, c, t
<1>5. tx'[p] = t /\ edr_events' = edr_events /\ decisions' = decisions
  BY <1>3 DEF IndInv, TypeOK, Select, tables
<1>6. TransactionInv(p)'
  BY <1>1, <1>2, <1>c, <1>4, <1>5 DEF TransactionInv, EventsOf
<1> QED BY <1>1, <1>c, <1>3, <1>4, <1>6, ViewsKeptStep DEF Select

LEMMA RebuildStep ==
    ASSUME IndInv, NEW p \in Projector, Rebuild(p)
    PROVE  IndInv'
<1> DEFINE S == {JobOf[e] : e \in edr_events}
           t == [tx[p] EXCEPT !.pc = "read", !.rebuild = TRUE, !.todo = S]
<1>1. tx[p] \in Transaction /\ TransactionInv(p) /\ edr_events \subseteq EventId
  BY DEF IndInv, TypeOK
<1>2. S \in SUBSET Job /\ S # {}
  BY <1>1, EventAssumption DEF Rebuild
<1>3. tx' = [tx EXCEPT ![p] = t]
  BY <1>1 DEF Rebuild, IndInv, TypeOK, Transaction
<1>4. crashes' \in 0..MaxCrashes
  BY CrashAssumption DEF Rebuild, IndInv, TypeOK
<1>5. /\ t \in Transaction /\ t.pc = "read" /\ t.todo = S
      /\ t.rebuild = TRUE /\ t.pending = tx[p].pending
      /\ t.views = tx[p].views /\ t.marked = tx[p].marked /\ t.decided = tx[p].decided
  BY <1>1, <1>2, RebuildingType
<1> HIDE DEF t
<1>6. tx'[p] = t /\ edr_events' = edr_events /\ decisions' = decisions
  BY <1>3 DEF IndInv, TypeOK, Rebuild, tables
<1>7. TransactionInv(p)'
  BY <1>1, <1>2, <1>5, <1>6 DEF TransactionInv, EventsOf
<1> QED BY <1>3, <1>4, <1>5, <1>7, ViewsKeptStep DEF Rebuild


LEMMA ReadRowsStep ==
    ASSUME IndInv, NEW p \in Projector, ReadRows(p)
    PROVE  IndInv'
<1> DEFINE j == JobAt(p)
           S == EventsOf(JobAt(p))
           t == [tx[p] EXCEPT !.pc = "write", !.rows = S]
<1>1. /\ tx[p] \in Transaction /\ TransactionInv(p) /\ SnapshotInv(p)
      /\ edr_events \subseteq EventId /\ projected_events \subseteq edr_events
      /\ crashes \in 0..MaxCrashes
  BY DEF IndInv, TypeOK
<1>2. /\ Item(p) \in tx[p].todo /\ j \in Job
      /\ ~ tx[p].rebuild => Item(p) \in edr_events /\ j = JobOf[Item(p)]
      /\ \E e \in edr_events : j = JobOf[e]
  BY ItemType DEF ReadRows
<1>3. S \in SUBSET EventId /\ S # {} /\ \A e \in projected_events : JobOf[e] = j => e \in S
  BY <1>1, <1>2 DEF EventsOf
<1>4. tx' = [tx EXCEPT ![p] = t]
  BY <1>1 DEF ReadRows, IndInv, TypeOK, Transaction
<1>5. ~ tx[p].rebuild => Item(p) \in S
  BY <1>2 DEF EventsOf
<1>6. tx[p].views[j] \subseteq S
  BY <1>1, <1>2 DEF TransactionInv
<1>7. /\ t \in Transaction /\ t.pc = "write" /\ t.rows = S
      /\ t.rebuild = tx[p].rebuild /\ t.todo = tx[p].todo /\ t.pending = tx[p].pending
      /\ t.views = tx[p].views /\ t.marked = tx[p].marked /\ t.decided = tx[p].decided
  BY <1>1, <1>3, ReadType
<1> HIDE DEF t
<1>8. /\ tx'[p] = t /\ edr_events' = edr_events /\ decisions' = decisions
      /\ projected_events' = projected_events
  BY <1>4 DEF IndInv, TypeOK, ReadRows, tables
<1>9. Item(p)' = Item(p) /\ JobAt(p)' = JobAt(p)
  <2>1. Item(p)' = Item(p)
    BY <1>7, <1>8 DEF Item
  <2> QED BY <1>7, <1>8, <2>1 DEF JobAt
<1>10. TransactionInv(p)'
  BY <1>1, <1>2, <1>7, <1>8 DEF TransactionInv, EventsOf
<1>11. ItemInv(p)'
  <2>1. EventsOf(JobAt(p))' = S
    BY <1>8, <1>9 DEF EventsOf
  <2> HIDE DEF S
  <2> QED BY <1>3, <1>5, <1>6, <1>7, <1>8, <1>9, <2>1 DEF ItemInv
<1>12. /\ overlapped \subseteq overlapped' /\ overlapped' \subseteq Job
       /\ j \in overlapped' \/ \A q \in Projector \ {p} : ~ Projecting(q, j)
  BY <1>2 DEF ReadRows, IndInv, TypeOK
<1>13. SnapshotInv(p)'
  <2> HIDE DEF S
  <2> QED BY <1>1, <1>3, <1>7, <1>8, <1>9, <1>12 DEF SnapshotInv
<1>14. \A k \in Job : Projecting(p, k)' => Projecting(p, k) \/ k = j
  BY <1>7, <1>8, <1>9 DEF Projecting
<1>15. UNCHANGED tables /\ crashes' \in 0..MaxCrashes
  BY <1>1 DEF ReadRows
<1> HIDE DEF j
<1> QED BY <1>4, <1>7, <1>10, <1>11, <1>12, <1>13, <1>14, <1>15, UncommittedStep

LEMMA WriteViewStep ==
    ASSUME IndInv, NEW p \in Projector, WriteView(p)
    PROVE  IndInv'
<1> DEFINE j == JobAt(p)
           t == [tx[p] EXCEPT !.pc = "decide", !.views[j] = tx[p].rows]
<1>1. /\ tx[p] \in Transaction /\ TransactionInv(p) /\ ItemInv(p) /\ SnapshotInv(p)
      /\ edr_events \subseteq EventId /\ projected_events \subseteq edr_events
      /\ crashes \in 0..MaxCrashes
  BY DEF IndInv, TypeOK
<1>2. /\ Item(p) \in tx[p].todo /\ j \in Job
      /\ ~ tx[p].rebuild => j = JobOf[Item(p)]
  BY ItemType DEF WriteView
<1>3. /\ tx[p].rows # {} /\ tx[p].rows \subseteq EventsOf(j) /\ tx[p].rows \subseteq edr_events
      /\ tx[p].views[j] \subseteq tx[p].rows
      /\ ~ tx[p].rebuild => Item(p) \in tx[p].rows
  BY <1>1 DEF WriteView, ItemInv, EventsOf
<1>4. tx' = [tx EXCEPT ![p] = t]
  BY <1>1, <1>2 DEF WriteView, IndInv, TypeOK, Transaction
<1>5. tx[p].pc = "write"
  BY DEF WriteView
<1>6. /\ t \in Transaction /\ t.pc = "decide" /\ t.decided = tx[p].decided
      /\ t.rows = tx[p].rows
      /\ t.views[j] = tx[p].rows /\ \A k \in Job \ {j} : t.views[k] = tx[p].views[k]
      /\ t.rebuild = tx[p].rebuild /\ t.todo = tx[p].todo /\ t.pending = tx[p].pending
      /\ t.marked = tx[p].marked
  BY <1>1, <1>2, WrittenType
<1> HIDE DEF t
<1>7. /\ tx'[p] = t /\ edr_events' = edr_events /\ decisions' = decisions
      /\ projected_events' = projected_events
      /\ overlapped' = overlapped
  BY <1>4 DEF IndInv, TypeOK, WriteView, tables
<1>8. Item(p)' = Item(p) /\ JobAt(p)' = j
  <2>1. Item(p)' = Item(p)
    BY <1>6, <1>7 DEF Item
  <2> QED BY <1>6, <1>7, <2>1 DEF JobAt
<1> HIDE DEF j
<1>9. \A k \in Job : EventsOf(k)' = EventsOf(k) /\ tx[p].views[k] \subseteq t.views[k]
  BY <1>3, <1>6, <1>7 DEF EventsOf
<1>10. TransactionInv(p)'
  <2>1. \A e \in tx[p].marked : e \in EventId /\ JobOf[e] \in Job
    BY <1>1, EventAssumption DEF Transaction
  <2>2. \A k \in Job : t.views[k] \subseteq EventsOf(k)
    BY <1>1, <1>3, <1>6 DEF TransactionInv
  <2>3. \A e \in t.marked : e \in t.views[JobOf[e]]
    BY <1>1, <1>6, <1>9, <2>1 DEF TransactionInv
  <2>4. tx'[p].marked \subseteq decisions' \cup tx'[p].decided
    BY <1>1, <1>6, <1>7 DEF TransactionInv
  <2>5. \A k \in Job : tx'[p].views[k] \subseteq EventsOf(k)'
    BY <1>7, <1>9, <2>2
  <2>6. \A e \in tx'[p].marked : e \in tx'[p].views[JobOf[e]]
    BY <1>7, <2>3
  <2>7. /\ tx'[p].pc \in {"read", "write", "decide"} => tx'[p].todo # {}
        /\ tx'[p].pc \in {"idle", "select"} => ~ tx'[p].rebuild
        /\ ~ tx'[p].rebuild => tx'[p].todo \subseteq edr_events'
        /\ tx'[p].rebuild => tx'[p].todo \subseteq {JobOf[e] : e \in edr_events'}
        /\ tx'[p].pending \subseteq edr_events' /\ tx'[p].decided \subseteq edr_events'
    BY <1>1, <1>2, <1>6, <1>7 DEF TransactionInv
  <2> QED BY <2>4, <2>5, <2>6, <2>7 DEF TransactionInv
<1>11. ItemInv(p)'
  BY <1>2, <1>3, <1>6, <1>7, <1>8, <1>9 DEF ItemInv
<1>12. SnapshotInv(p)'
  <2> SUFFICES ASSUME NEW e \in projected_events, JobOf[e] \notin overlapped,
                      t.views[JobOf[e]] # {}
               PROVE  e \in t.views[JobOf[e]]
    BY <1>6, <1>7 DEF SnapshotInv
  <2>1. JobOf[e] \in Job
    BY <1>1, EventAssumption
  <2>2. CASE JobOf[e] = j
    BY <1>1, <1>5, <1>6, <2>2 DEF SnapshotInv, j
  <2>3. CASE JobOf[e] # j
    BY <1>1, <1>6, <2>1, <2>3 DEF SnapshotInv
  <2> QED BY <2>2, <2>3
<1>13. \A k \in Job : Projecting(p, k)' => Projecting(p, k)
  BY <1>5, <1>6, <1>7 DEF Projecting, j
<1>14. UNCHANGED tables /\ crashes' \in 0..MaxCrashes /\ overlapped' \subseteq Job
  BY <1>1 DEF WriteView, IndInv, TypeOK
<1> QED BY <1>4, <1>6, <1>7, <1>10, <1>11, <1>12, <1>13, <1>14, UncommittedStep

\* The row of the job that is decided next.
LEMMA NextDecisionType ==
    ASSUME IndInv, NEW p \in Projector, tx[p].pc = "decide", Undecided(p) # {}
    PROVE  /\ NextDecision(p) \in tx[p].rows /\ NextDecision(p) \in edr_events
           /\ NextDecision(p) \in EventId
           /\ \A f \in Undecided(p) : NextDecision(p) <= f
<1>1. tx[p].rows \subseteq edr_events /\ edr_events \subseteq EventId
  BY DEF IndInv, TypeOK, ItemInv, EventsOf
<1>2. Undecided(p) \in SUBSET Nat
  BY <1>1, EventAssumption DEF Undecided
<1>3. \E e \in Undecided(p) : \A f \in Undecided(p) : e <= f
  BY <1>2, FirstExists
<1>4. NextDecision(p) \in Undecided(p) /\ \A f \in Undecided(p) : NextDecision(p) <= f
  BY <1>3 DEF NextDecision
<1> QED BY <1>1, <1>4 DEF Undecided

LEMMA DecideStep ==
    ASSUME IndInv, NEW p \in Projector, Decide(p)
    PROVE  IndInv'
<1> DEFINE e == NextDecision(p)
           t == [tx[p] EXCEPT !.decided = @ \cup {e}]
<1>1. /\ tx[p] \in Transaction /\ TransactionInv(p) /\ ItemInv(p) /\ SnapshotInv(p)
      /\ crashes \in 0..MaxCrashes /\ overlapped \subseteq Job /\ tx[p].pc = "decide"
  BY DEF IndInv, TypeOK, Decide
<1>2. e \in edr_events /\ e \in EventId
  BY NextDecisionType DEF Decide
<1>3. tx' = [tx EXCEPT ![p] = t]
  BY <1>1 DEF Decide, IndInv, TypeOK, Transaction
<1> HIDE DEF e
<1>4. /\ t \in Transaction /\ t.pc = "decide" /\ t.rows = tx[p].rows
      /\ t.rebuild = tx[p].rebuild /\ t.todo = tx[p].todo /\ t.pending = tx[p].pending
      /\ t.views = tx[p].views /\ t.marked = tx[p].marked
      /\ t.decided = tx[p].decided \cup {e}
  BY <1>1, <1>2, DecidedType
<1> HIDE DEF t
<1>5. tx'[p] = t /\ UNCHANGED <<tables, overlapped, crashes>>
  BY <1>3 DEF IndInv, TypeOK, Decide
<1>6. Item(p)' = Item(p) /\ JobAt(p)' = JobAt(p)
  <2>1. Item(p)' = Item(p)
    BY <1>4, <1>5 DEF Item
  <2> QED BY <1>4, <1>5, <2>1 DEF JobAt
<1>7. TransactionInv(p)'
  BY <1>1, <1>2, <1>4, <1>5 DEF TransactionInv, EventsOf, tables
<1>8. ItemInv(p)'
  <2>1. EventsOf(JobAt(p))' = EventsOf(JobAt(p))
    BY <1>5, <1>6 DEF EventsOf, tables
  <2> QED BY <1>1, <1>4, <1>5, <1>6, <2>1 DEF ItemInv
<1>9. SnapshotInv(p)'
  BY <1>1, <1>4, <1>5 DEF SnapshotInv, tables
<1>10. \A j \in Job : Projecting(p, j)' => Projecting(p, j)
  BY <1>4, <1>5 DEF Projecting
<1> QED BY <1>1, <1>3, <1>4, <1>5, <1>7, <1>8, <1>9, <1>10, UncommittedStep

LEMMA AdvanceStep ==
    ASSUME IndInv, NEW p \in Projector, Advance(p)
    PROVE  IndInv'
<1> DEFINE S == tx[p].todo \ {Item(p)}
           c == IF S = {} THEN "commit" ELSE "read"
           M == tx[p].marked \cup Marks(p)
           t == AdvancedTx(tx[p], c, S, M)
<1>1. /\ tx[p] \in Transaction /\ TransactionInv(p) /\ ItemInv(p)
      /\ edr_events \subseteq EventId /\ crashes \in 0..MaxCrashes
  BY DEF IndInv, TypeOK
<1>2. /\ M \subseteq decisions \cup tx[p].decided
      /\ \A e \in M : e \in tx[p].views[JobOf[e]]
  BY <1>1 DEF Marks, Advance, ItemInv, TransactionInv, Undecided
<1>3. M \in SUBSET EventId
  BY <1>1, <1>2 DEF TransactionInv, IndInv, TypeOK
<1>4. tx' = [tx EXCEPT ![p] = t]
  BY <1>1 DEF Advance, IndInv, TypeOK, Transaction, AdvancedTx
<1>5. /\ c \in {"commit", "read"} /\ (c = "read" => S # {}) /\ S \subseteq tx[p].todo
      /\ S \in SUBSET (EventId \cup Job)
  BY <1>1 DEF Transaction
<1>6. /\ t \in Transaction /\ t.pc = c /\ t.todo = S /\ t.marked = M
      /\ t.rebuild = tx[p].rebuild /\ t.pending = tx[p].pending
      /\ t.views = tx[p].views /\ t.decided = tx[p].decided
  <2>1. /\ tx[p] \in Transaction /\ c \in {"commit", "read"}
        /\ S \in SUBSET (EventId \cup Job) /\ M \in SUBSET EventId
    BY <1>1, <1>3, <1>5
  <2> HIDE DEF S, c, M
  <2> QED BY <2>1, AdvancedType
<1> HIDE DEF S, c, M, t
<1>7. tx'[p] = t /\ edr_events' = edr_events /\ decisions' = decisions
  BY <1>4 DEF IndInv, TypeOK, Advance, tables
<1>8. TransactionInv(p)'
  BY <1>1, <1>2, <1>5, <1>6, <1>7 DEF TransactionInv, EventsOf
<1> QED BY <1>1, <1>4, <1>5, <1>6, <1>8, ViewsKeptStep DEF Advance

-----------------------------------------------------------------------------
LEMMA NextIndInv ==
    ASSUME IndInv, [Next]_vars
    PROVE  IndInv'
<1>1. ASSUME NEW e \in EventId, Persist(e) PROVE IndInv'
  BY <1>1, PersistStep
<1>2. ASSUME NEW p \in Projector, Step(p) PROVE IndInv'
  <2>1. CASE FailToReduce(p)
    BY <2>1, RollbackStep DEF FailToReduce, IndInv, TypeOK
  <2> QED BY <1>2, <2>1, BeginStep, SelectStep, ReadRowsStep, WriteViewStep, DecideStep,
             AdvanceStep, CommitStep DEF Step
<1>3. ASSUME NEW p \in Projector, Rebuild(p) PROVE IndInv'
  BY <1>3, RebuildStep
<1>4. ASSUME NEW p \in Projector, Crash(p) PROVE IndInv'
  <2>1. crashes' \in 0..MaxCrashes
    BY <1>4, CrashAssumption DEF Crash, IndInv, TypeOK
  <2> QED BY <1>4, <2>1, RollbackStep DEF Crash
<1>5. ASSUME NEW p \in Projector, DeadlockAbort(p) PROVE IndInv'
  <2>1. crashes' \in 0..MaxCrashes
    BY <1>5 DEF DeadlockAbort, IndInv, TypeOK
  <2> QED BY <1>5, <2>1, RollbackStep DEF DeadlockAbort
<1>6. CASE UNCHANGED vars
  <2>1. \A q \in Projector : TransactionInv(q)' /\ ItemInv(q)' /\ SnapshotInv(q)'
    BY <1>6, OthersKeep, OthersSnapshot DEF vars
  <2>2. OverlapInv'
    <3>1. \A q \in Projector, j \in Job : Projecting(q, j)' <=> Projecting(q, j)
      BY <1>6, OthersKeep DEF vars
    <3> QED BY <1>6, <3>1 DEF vars, IndInv, OverlapInv
  <2>3. TypeOK' /\ MarkedIsProjected' /\ LostOnlyByOverlap'
    BY <1>6 DEF vars, IndInv, TypeOK, MarkedIsProjected, LostOnlyByOverlap
  <2> QED BY <2>1, <2>2, <2>3 DEF IndInv
<1> QED BY <1>1, <1>2, <1>3, <1>4, <1>5, <1>6 DEF Next

LEMMA AlwaysIndInv == Spec => []IndInv
<1>1. IndInv /\ [Next]_vars => IndInv'
  BY NextIndInv
<1> QED BY InitIndInv, <1>1, PTL DEF Spec

\* The journal, the marks, the views and the open transactions of the projection
\* worker stay well typed; in particular only journal rows are ever marked.
THEOREM TypeCorrect == Spec => []TypeOK
BY AlwaysIndInv, PTL DEF IndInv

\* run_once never marks a row whose projection is not committed with the mark,
\* for any number of projectors, crashes, rebuilds and deadlocks.
THEOREM MarksFollowViews == Spec => []MarkedIsProjected
BY AlwaysIndInv, PTL DEF IndInv

\* The one way in which a marked row can be missing from its job's view is that
\* two transactions of _project_job had the job open at once.
THEOREM LossNeedsOverlap == Spec => []LostOnlyByOverlap
BY AlwaysIndInv, PTL DEF IndInv

\* One projector, as compose.yaml starts it, loses nothing, if no other process
\* rebuilds beside it.
THEOREM OneProjectorLosesNothing ==
    ASSUME \A p, q \in Projector : p = q
    PROVE  Spec => []NoEventIsLost
<1> DEFINE Inv == overlapped = {}
<1>1. Init => Inv
  BY DEF Init
<1>2. Inv /\ [Next]_vars => Inv'
  BY DEF Next, vars, Step, Persist, Begin, Select, Rebuild, ReadRows, FailToReduce,
         WriteView, Decide, Advance, Commit, Crash, DeadlockAbort
<1>3. IndInv /\ Inv => NoEventIsLost
  BY DEF IndInv, LostOnlyByOverlap, NoEventIsLost
<1>4. Spec => []Inv
  BY <1>1, <1>2, PTL DEF Spec
<1> QED BY <1>3, <1>4, AlwaysIndInv, PTL

-----------------------------------------------------------------------------
(* The readiness probe of the durable deployment. *)

\* When the projection check of HealthService is healthy, DurableVisibilityReader
\* answers with every row that is older than the threshold, unless two
\* transactions projected its job at once.
THEOREM ProbeIsHonest == Spec => []ReadyMeansFresh
<1>1. IndInv => ReadyMeansFresh
  <2> SUFFICES ASSUME IndInv, NEW now \in Clock, Healthy(now), NEW e \in edr_events,
                      now > e + Threshold, JobOf[e] \notin overlapped
               PROVE  e \in job_visibility[JobOf[e]]
    BY DEF ReadyMeansFresh
  <2>1. e \in Nat /\ now \in Nat /\ Threshold \in Nat
    BY EventAssumption, ClockAssumption DEF IndInv, TypeOK
  <2>2. e \in projected_events
    BY <2>1 DEF Healthy, Unprojected
  <2> QED BY <2>2 DEF IndInv, LostOnlyByOverlap
<1> QED BY <1>1, AlwaysIndInv, PTL

-----------------------------------------------------------------------------
(* Views are stored in the order of the journal. *)

\* The rows of one job.
OfJob(rows, j) == {e \in rows : JobOf[e] = j}

\* rows are the first rows of the job, up to some point.
Opening(rows, j) ==
    /\ rows \subseteq OfJob(EventId, j)
    /\ \A e \in rows, f \in EventId : f < e /\ JobOf[f] = j => f \in rows

\* What is stored and what was decided of a job is about its first rows.
StoredInv ==
    \A j \in Job : /\ Opening(EventsOf(j), j)
                   /\ Opening(job_visibility[j], j)
                   /\ Opening(OfJob(decisions, j), j)
                   /\ job_visibility[j] \subseteq edr_events

\* So is what a transaction read, wrote and decided.
OpeningInv(p) ==
    /\ \A j \in Job : /\ Opening(tx[p].views[j], j)
                       /\ Opening(OfJob(decisions \cup tx[p].decided, j), j)
    /\ tx[p].pc \in {"write", "decide"} => Opening(tx[p].rows, JobAt(p))

\* What a transaction has read is not older than what is stored, unless another
\* one has the job open.
FreshInv(p) ==
    \A j \in Job \ overlapped :
        /\ tx[p].views[j] # {} => job_visibility[j] \subseteq tx[p].views[j]
        /\ tx[p].pc = "write" /\ JobAt(p) = j => job_visibility[j] \subseteq tx[p].rows

OrderInv == StoredInv /\ \A p \in Projector : OpeningInv(p) /\ FreshInv(p)

\* Of two openings of a job, both together are one.
LEMMA OpeningUnion ==
    ASSUME NEW j, NEW A, NEW B, Opening(A, j), Opening(B, j)
    PROVE  Opening(A \cup B, j)
BY DEF Opening

\* No rows are an opening.
LEMMA OpeningEmpty ==
    ASSUME NEW j
    PROVE  Opening({}, j) /\ OfJob({}, j) = {}
BY DEF Opening, OfJob

\* The projectors that a step is not about keep the order.
LEMMA OthersOrder ==
    ASSUME IndInv, OrderInv, NEW q \in Projector, tx'[q] = tx[q], edr_events \subseteq edr_events',
           UNCHANGED <<job_visibility, decisions>>, overlapped \subseteq overlapped'
    PROVE  OpeningInv(q)' /\ FreshInv(q)'
<1>1. JobAt(q)' = JobAt(q)
  BY OthersKeep
<1>2. OpeningInv(q) /\ FreshInv(q)
  BY DEF OrderInv
<1>3. OpeningInv(q)'
  BY <1>1, <1>2 DEF OpeningInv
<1> QED BY <1>1, <1>2, <1>3 DEF FreshInv

\* A step of one projector that commits nothing.
LEMMA UncommittedOrder ==
    ASSUME IndInv, OrderInv, NEW p \in Projector, NEW t, tx' = [tx EXCEPT ![p] = t],
           UNCHANGED tables, overlapped \subseteq overlapped', OpeningInv(p)', FreshInv(p)'
    PROVE  OrderInv'
<1>1. \A q \in Projector \ {p} : tx'[q] = tx[q]
  BY DEF IndInv, TypeOK
<1>2. \A q \in Projector : OpeningInv(q)' /\ FreshInv(q)'
  BY <1>1, OthersOrder DEF tables
<1>3. StoredInv'
  BY DEF OrderInv, StoredInv, EventsOf, tables
<1> QED BY <1>2, <1>3 DEF OrderInv

\* A statement that neither reads nor writes a view.
LEMMA ViewsKeptOrder ==
    ASSUME IndInv, OrderInv, NEW p \in Projector, UNCHANGED <<tables, overlapped>>,
           NEW t, tx' = [tx EXCEPT ![p] = t], t.views = tx[p].views,
           t.decided = tx[p].decided, t.pc \notin {"write", "decide"}
    PROVE  OrderInv'
<1>1. tx'[p] = t
  BY DEF IndInv, TypeOK
<1>2. OpeningInv(p) /\ FreshInv(p)
  BY DEF OrderInv
<1>3. OpeningInv(p)' /\ FreshInv(p)'
  BY <1>1, <1>2 DEF OpeningInv, FreshInv, tables, OfJob
<1> QED BY <1>3, UncommittedOrder

\* A transaction that ends with nothing committed.
LEMMA RollbackOrder ==
    ASSUME IndInv, OrderInv, NEW p \in Projector, UNCHANGED <<tables, overlapped>>,
           tx' = [tx EXCEPT ![p] = NoTransaction]
    PROVE  OrderInv'
<1>1. tx'[p] = NoTransaction
  BY DEF IndInv, TypeOK
<1>2. \A j \in Job : OfJob(decisions \cup tx[p].decided, j)' = OfJob(decisions, j)
  BY <1>1, NoTransactionType DEF OfJob, tables
<1>3. OpeningInv(p)' /\ FreshInv(p)'
  BY <1>1, <1>2, NoTransactionType, OpeningEmpty DEF OpeningInv, FreshInv, OrderInv, StoredInv
<1> QED BY <1>3, UncommittedOrder

\* The sink writes the rows of a job in order.
LEMMA PersistOrder ==
    ASSUME IndInv, OrderInv, NEW e \in EventId, Persist(e)
    PROVE  OrderInv'
<1>1. \A p \in Projector : OpeningInv(p)' /\ FreshInv(p)'
  BY OthersOrder DEF Persist
<1>2. ASSUME NEW j \in Job PROVE Opening(EventsOf(j)', j)
  <2>1. EventsOf(j)' = EventsOf(j) \cup (IF JobOf[e] = j THEN {e} ELSE {})
    BY DEF EventsOf, Persist
  <2>2. Opening(EventsOf(j), j)
    BY DEF OrderInv, StoredInv
  <2>3. \A f \in EventId : f < e /\ JobOf[f] = JobOf[e] => f \in edr_events
    BY DEF Persist
  <2> QED BY <2>1, <2>2, <2>3 DEF Opening, OfJob, EventsOf
<1>3. StoredInv'
  BY <1>2 DEF OrderInv, StoredInv, Persist
<1> QED BY <1>1, <1>3 DEF OrderInv

\* _project_job reads every row of the job that is in the journal.
LEMMA ReadRowsOrder ==
    ASSUME IndInv, OrderInv, NEW p \in Projector, ReadRows(p)
    PROVE  OrderInv'
<1> DEFINE j == JobAt(p)
           S == EventsOf(JobAt(p))
           t == [tx[p] EXCEPT !.pc = "write", !.rows = S]
<1>1. tx[p] \in Transaction /\ edr_events \subseteq EventId /\ S \in SUBSET EventId
  BY DEF IndInv, TypeOK, EventsOf
<1>2. j \in Job
  BY ItemType DEF ReadRows
<1>3. tx' = [tx EXCEPT ![p] = t]
  BY <1>1 DEF ReadRows, IndInv, TypeOK, Transaction
<1>4. /\ t.pc = "write" /\ t.rows = S /\ t.rebuild = tx[p].rebuild /\ t.todo = tx[p].todo
      /\ t.views = tx[p].views /\ t.decided = tx[p].decided
  <2> HIDE DEF S
  <2> QED BY <1>1, ReadType
<1>5. Opening(S, j) /\ job_visibility[j] \subseteq S
  BY <1>2 DEF OrderInv, StoredInv, EventsOf, Opening, OfJob
<1> HIDE DEF S, t
<1>6. tx'[p] = t /\ overlapped \subseteq overlapped' /\ UNCHANGED tables
  BY <1>3 DEF IndInv, TypeOK, ReadRows
<1>7. JobAt(p)' = j
  BY <1>4, <1>6 DEF JobAt, Item
<1> HIDE DEF j
<1>8. OpeningInv(p) /\ FreshInv(p)
  BY DEF OrderInv
<1>9. OpeningInv(p)'
  BY <1>4, <1>5, <1>6, <1>7, <1>8 DEF OpeningInv, tables
<1>10. FreshInv(p)'
  BY <1>4, <1>5, <1>6, <1>7, <1>8 DEF FreshInv, tables
<1> QED BY <1>3, <1>6, <1>9, <1>10, UncommittedOrder

\* _project_job writes the view of the rows it read.
LEMMA WriteViewOrder ==
    ASSUME IndInv, OrderInv, NEW p \in Projector, WriteView(p)
    PROVE  OrderInv'
<1> DEFINE j == JobAt(p)
           S == tx[p].rows
           t == [tx[p] EXCEPT !.pc = "decide", !.views[j] = tx[p].rows]
<1>1. /\ tx[p] \in Transaction /\ tx[p].pc = "write" /\ j \in Job
      /\ OpeningInv(p) /\ FreshInv(p)
  BY ItemType DEF WriteView, IndInv, TypeOK, OrderInv
<1>2. tx' = [tx EXCEPT ![p] = t]
  BY <1>1 DEF WriteView, IndInv, TypeOK, Transaction
<1>3. /\ t.pc = "decide" /\ t.decided = tx[p].decided /\ t.rows = S
      /\ t.rebuild = tx[p].rebuild /\ t.todo = tx[p].todo
      /\ t.views[j] = S /\ \A k \in Job \ {j} : t.views[k] = tx[p].views[k]
  BY <1>1, WrittenType
<1> HIDE DEF t
<1>4. tx'[p] = t /\ UNCHANGED <<tables, overlapped>>
  BY <1>2 DEF IndInv, TypeOK, WriteView
<1>5. Opening(S, j) /\ (j \notin overlapped => job_visibility[j] \subseteq S)
  BY <1>1 DEF OpeningInv, FreshInv
<1>6. JobAt(p)' = j
  BY <1>3, <1>4 DEF JobAt, Item
<1> HIDE DEF j, S
<1>7. \A k \in Job : Opening(t.views[k], k)
  BY <1>1, <1>3, <1>5 DEF OpeningInv
<1>8. OpeningInv(p)'
  BY <1>1, <1>3, <1>4, <1>5, <1>6, <1>7 DEF OpeningInv, tables, OfJob
<1>9. FreshInv(p)'
  BY <1>1, <1>3, <1>4, <1>5 DEF FreshInv, tables
<1> QED BY <1>2, <1>4, <1>8, <1>9, UncommittedOrder

\* Decisions are inserted in the order of the rows.
LEMMA DecideOrder ==
    ASSUME IndInv, OrderInv, NEW p \in Projector, Decide(p)
    PROVE  OrderInv'
<1> DEFINE e == NextDecision(p)
           D == decisions \cup tx[p].decided
           t == [tx[p] EXCEPT !.decided = @ \cup {e}]
<1>1. tx[p] \in Transaction /\ tx[p].pc = "decide" /\ OpeningInv(p) /\ FreshInv(p)
  BY DEF Decide, IndInv, TypeOK, OrderInv
<1>2. /\ e \in tx[p].rows /\ e \in EventId
      /\ \A f \in tx[p].rows \ D : e <= f
  BY <1>1, NextDecisionType DEF Decide, Undecided
<1>3. tx' = [tx EXCEPT ![p] = t]
  BY <1>1 DEF Decide, IndInv, TypeOK, Transaction
<1> HIDE DEF e
<1>4. /\ t.pc = "decide" /\ t.decided = tx[p].decided \cup {e} /\ t.rows = tx[p].rows
      /\ t.rebuild = tx[p].rebuild /\ t.todo = tx[p].todo /\ t.views = tx[p].views
  BY <1>1, <1>2, DecidedType
<1> HIDE DEF t
<1>5. tx'[p] = t /\ UNCHANGED <<tables, overlapped>>
  BY <1>3 DEF IndInv, TypeOK, Decide
<1>6. JobAt(p)' = JobAt(p)
  BY <1>4, <1>5 DEF JobAt, Item
<1>7. Opening(tx[p].rows, JobAt(p))
  BY <1>1 DEF OpeningInv
<1>8. ASSUME NEW j \in Job
      PROVE  Opening(OfJob(D \cup {e}, j), j)
  <2>1. Opening(OfJob(D, j), j)
    BY <1>1 DEF OpeningInv
  <2>2. CASE j # JobAt(p)
    <3>1. JobOf[e] # j
      BY <1>2, <1>7, <2>2 DEF Opening, OfJob
    <3>2. OfJob(D \cup {e}, j) = OfJob(D, j)
      BY <3>1 DEF OfJob
    <3> QED BY <2>1, <3>2
  <2>3. CASE j = JobAt(p)
    <3>1. \A f \in EventId : f < e /\ JobOf[f] = j => f \in tx[p].rows
      BY <1>2, <1>7, <2>3 DEF Opening
    <3>2. \A f \in EventId : f < e /\ JobOf[f] = j => f \in D
      <4> SUFFICES ASSUME NEW f \in EventId, f < e, f \in tx[p].rows, f \notin D PROVE FALSE
        BY <3>1
      <4> QED BY <1>2, EventAssumption
    <3> QED BY <1>2, <2>1, <3>2 DEF Opening, OfJob
  <2> QED BY <2>2, <2>3
<1>9. (decisions \cup tx[p].decided)' = D \cup {e}
  BY <1>4, <1>5 DEF tables
<1> HIDE DEF D
<1>10. OpeningInv(p)'
  BY <1>1, <1>4, <1>5, <1>6, <1>7, <1>8, <1>9 DEF OpeningInv, OfJob
<1>11. FreshInv(p)'
  BY <1>1, <1>4, <1>5 DEF FreshInv, tables
<1> QED BY <1>3, <1>5, <1>10, <1>11, UncommittedOrder

\* A commit replaces the views of jobs that no one else has open.
LEMMA CommitOrder ==
    ASSUME IndInv, OrderInv, NEW p \in Projector, Commit(p)
    PROVE  OrderInv'
<1>1. /\ tx'[p] = NoTransaction /\ \A q \in Projector \ {p} : tx'[q] = tx[q]
      /\ edr_events' = edr_events /\ overlapped' = overlapped
      /\ decisions' = decisions \cup tx[p].decided
      /\ \A j \in Job : job_visibility'[j] = IF tx[p].views[j] = {} THEN job_visibility[j]
                                             ELSE tx[p].views[j]
  BY DEF Commit, IndInv, TypeOK
<1>2. OpeningInv(p) /\ FreshInv(p) /\ TransactionInv(p)
  BY DEF OrderInv, IndInv
<1>3. ASSUME NEW j \in Job
      PROVE  /\ Opening(job_visibility'[j], j)
             /\ job_visibility'[j] \subseteq edr_events
             /\ Opening(OfJob(decisions', j), j)
             /\ Opening(EventsOf(j)', j)
  <2>1. /\ Opening(job_visibility[j], j) /\ job_visibility[j] \subseteq edr_events
        /\ Opening(OfJob(decisions, j), j) /\ Opening(EventsOf(j), j)
    BY DEF OrderInv, StoredInv
  <2>2. /\ Opening(tx[p].views[j], j) /\ tx[p].views[j] \subseteq edr_events
        /\ Opening(OfJob(decisions \cup tx[p].decided, j), j)
    BY <1>2 DEF OpeningInv, TransactionInv, EventsOf
  <2>4. EventsOf(j)' = EventsOf(j)
    BY <1>1 DEF EventsOf
  <2>5. Opening(OfJob(decisions', j), j)
    BY <1>1, <2>2
  <2>6. Opening(job_visibility'[j], j) /\ job_visibility'[j] \subseteq edr_events
    BY <1>1, <2>1, <2>2
  <2> QED BY <2>1, <2>4, <2>5, <2>6
<1>4. ASSUME NEW q \in Projector
      PROVE  OpeningInv(q)' /\ FreshInv(q)'
  <2>1. CASE q = p
    <3>1. \A j \in Job : OfJob(decisions \cup tx[p].decided, j)' = OfJob(decisions', j)
      BY <1>1, NoTransactionType DEF OfJob
    <3> QED BY <1>1, <1>3, <2>1, <3>1, NoTransactionType, OpeningEmpty DEF OpeningInv, FreshInv
  <2>2. CASE q # p
    <3>1. /\ tx'[q] = tx[q] /\ OpeningInv(q) /\ FreshInv(q)
          /\ JobAt(q)' = JobAt(q)
      BY <1>1, <2>2, OthersKeep DEF OrderInv
    <3>2. OpeningInv(q)'
      <4>1. ASSUME NEW j \in Job
            PROVE  Opening(OfJob(decisions' \cup tx[q].decided, j), j)
        <5>1. OfJob(decisions' \cup tx[q].decided, j)
                 = OfJob(decisions \cup tx[q].decided, j) \cup OfJob(decisions', j)
          BY <1>1 DEF OfJob
        <5>2. Opening(OfJob(decisions \cup tx[q].decided, j), j)
          BY <3>1 DEF OpeningInv
        <5>3. Opening(OfJob(decisions', j), j)
          BY <1>3
        <5> QED BY <5>1, <5>2, <5>3, OpeningUnion
      <4> QED BY <3>1, <4>1 DEF OpeningInv
    <3>3. ASSUME NEW j \in Job \ overlapped, Projecting(q, j)
          PROVE  job_visibility'[j] = job_visibility[j]
      <4>1. ~ Projecting(p, j)
        BY <2>2, <3>3 DEF IndInv, OverlapInv
      <4> QED BY <1>1, <4>1 DEF Projecting
    <3>4. FreshInv(q)'
      BY <1>1, <3>1, <3>3 DEF FreshInv, Projecting
    <3> QED BY <3>2, <3>4
  <2> QED BY <2>1, <2>2
<1> QED BY <1>1, <1>3, <1>4 DEF OrderInv, StoredInv

LEMMA InitOrder == Init => OrderInv
<1> SUFFICES ASSUME Init PROVE OrderInv
  OBVIOUS
<1>1. \A p \in Projector : tx[p] = NoTransaction
  BY DEF Init
<1>2. \A p \in Projector : OpeningInv(p) /\ FreshInv(p)
  <2>1. \A p \in Projector, j \in Job : OfJob(decisions \cup tx[p].decided, j) = {}
    BY <1>1, NoTransactionType DEF OfJob, Init
  <2> QED BY <1>1, <2>1, NoTransactionType, OpeningEmpty DEF OpeningInv, FreshInv
<1>3. StoredInv
  BY OpeningEmpty DEF Init, StoredInv, EventsOf, Opening, OfJob
<1> QED BY <1>2, <1>3 DEF OrderInv

LEMMA NextOrder ==
    ASSUME IndInv, OrderInv, [Next]_vars
    PROVE  OrderInv'
<1>1. ASSUME NEW e \in EventId, Persist(e) PROVE OrderInv'
  BY <1>1, PersistOrder
<1>2. ASSUME NEW p \in Projector, Begin(p) PROVE OrderInv'
  <2> DEFINE S == edr_events \ projected_events
             t == [tx[p] EXCEPT !.pc = "select", !.pending = S]
  <2>1. tx[p] \in Transaction /\ S \in SUBSET EventId
    BY DEF IndInv, TypeOK
  <2>2. tx' = [tx EXCEPT ![p] = t]
    BY <1>2, <2>1 DEF Begin, IndInv, TypeOK, Transaction
  <2>3. t.pc = "select" /\ t.views = tx[p].views /\ t.decided = tx[p].decided
    BY <2>1, BegunType
  <2> HIDE DEF t
  <2> QED BY <1>2, <2>2, <2>3, ViewsKeptOrder DEF Begin
<1>3. ASSUME NEW p \in Projector, Select(p) PROVE OrderInv'
  <2> DEFINE S == FirstOf(Pending(p))
             c == IF S = {} THEN "commit" ELSE "read"
             t == SelectedTx(tx[p], c, S)
  <2>1. tx[p] \in Transaction
    BY DEF IndInv, TypeOK
  <2>2. S \in SUBSET EventId /\ c \in {"commit", "read"}
    BY <2>1 DEF FirstOf, Pending, Transaction
  <2>3. tx' = [tx EXCEPT ![p] = t]
    BY <1>3, <2>1 DEF Select, IndInv, TypeOK, Transaction, SelectedTx
  <2> HIDE DEF S, c
  <2>4. t.pc = c /\ t.views = tx[p].views /\ t.decided = tx[p].decided
    BY <2>1, <2>2, SelectedType
  <2> HIDE DEF t
  <2> QED BY <1>3, <2>2, <2>3, <2>4, ViewsKeptOrder DEF Select
<1>4. ASSUME NEW p \in Projector, ReadRows(p) PROVE OrderInv'
  BY <1>4, ReadRowsOrder
<1>5. ASSUME NEW p \in Projector, WriteView(p) PROVE OrderInv'
  BY <1>5, WriteViewOrder
<1>6. ASSUME NEW p \in Projector, Advance(p) PROVE OrderInv'
  <2> DEFINE S == tx[p].todo \ {Item(p)}
             c == IF S = {} THEN "commit" ELSE "read"
             M == tx[p].marked \cup Marks(p)
             t == AdvancedTx(tx[p], c, S, M)
  <2>1. tx[p] \in Transaction /\ edr_events \subseteq EventId /\ TransactionInv(p) /\ ItemInv(p)
    BY DEF IndInv, TypeOK
  <2>2. M \in SUBSET EventId
    BY <1>6, <2>1 DEF Marks, Advance, ItemInv, TransactionInv, Undecided, IndInv, TypeOK
  <2>3. S \in SUBSET (EventId \cup Job) /\ c \in {"commit", "read"}
    BY <2>1 DEF Transaction
  <2>4. tx' = [tx EXCEPT ![p] = t]
    BY <1>6, <2>1 DEF Advance, IndInv, TypeOK, Transaction, AdvancedTx
  <2> HIDE DEF S, c, M
  <2>5. t.pc = c /\ t.views = tx[p].views /\ t.decided = tx[p].decided
    BY <2>1, <2>2, <2>3, AdvancedType
  <2> HIDE DEF t
  <2> QED BY <1>6, <2>3, <2>4, <2>5, ViewsKeptOrder DEF Advance
<1>d. ASSUME NEW p \in Projector, Decide(p) PROVE OrderInv'
  BY <1>d, DecideOrder
<1>7. ASSUME NEW p \in Projector, Commit(p) PROVE OrderInv'
  BY <1>7, CommitOrder
<1>8. ASSUME NEW p \in Projector, Rebuild(p) PROVE OrderInv'
  <2> DEFINE S == {JobOf[e] : e \in edr_events}
             t == [tx[p] EXCEPT !.pc = "read", !.rebuild = TRUE, !.todo = S]
  <2>1. tx[p] \in Transaction /\ S \in SUBSET Job
    BY EventAssumption DEF IndInv, TypeOK
  <2>2. tx' = [tx EXCEPT ![p] = t]
    BY <1>8, <2>1 DEF Rebuild, IndInv, TypeOK, Transaction
  <2>3. t.pc = "read" /\ t.views = tx[p].views /\ t.decided = tx[p].decided
    BY <2>1, RebuildingType
  <2> HIDE DEF t
  <2> QED BY <1>8, <2>2, <2>3, ViewsKeptOrder DEF Rebuild
<1>9. ASSUME NEW p \in Projector, Crash(p) \/ DeadlockAbort(p) \/ FailToReduce(p)
      PROVE  OrderInv'
  BY <1>9, RollbackOrder DEF Crash, DeadlockAbort, FailToReduce
<1>10. CASE UNCHANGED vars
  <2>1. \A p \in Projector : OpeningInv(p)' /\ FreshInv(p)'
    BY <1>10, OthersOrder DEF vars
  <2> QED BY <1>10, <2>1 DEF vars, OrderInv, StoredInv, EventsOf
<1> QED BY <1>1, <1>2, <1>3, <1>4, <1>5, <1>6, <1>d, <1>7, <1>8, <1>9, <1>10 DEF Next, Step

LEMMA AlwaysOrderInv == Spec => [](IndInv /\ OrderInv)
<1>1. IndInv /\ OrderInv /\ [Next]_vars => OrderInv'
  BY NextOrder
<1> QED BY InitOrder, AlwaysIndInv, <1>1, PTL DEF Spec

-----------------------------------------------------------------------------
(* The view of a set of journal rows. *)

\* A set of numbers that some number bounds from above.
Bounded(S) == \E b \in Nat : \A e \in S : e <= b

\* Of the bounds of a set of numbers the least is the last of them.
LEMMA LastType ==
    ASSUME NEW rows \in SUBSET Nat, Bounded(rows)
    PROVE  /\ Last(rows) \in Nat
           /\ rows # {} => Last(rows) \in rows /\ \A e \in rows : e <= Last(rows)
<1>1. CASE rows = {}
  BY <1>1 DEF Last
<1>2. CASE rows # {}
  <2> DEFINE B == {b \in Nat : \A e \in rows : e <= b}
  <2>1. B \in SUBSET Nat /\ B # {}
    BY DEF Bounded
  <2>2. PICK b \in B : \A c \in B : b <= c
    <3> HIDE DEF B
    <3> QED BY <2>1, FirstExists
  <2>3. b \in rows
    <3> SUFFICES ASSUME b \notin rows PROVE FALSE
      OBVIOUS
    <3>1. PICK e \in rows : TRUE
      BY <1>2
    <3>2. e < b
      BY <2>2, <3>1
    <3>3. b - 1 \in Nat /\ \A f \in rows : f <= b - 1
      BY <2>2, <3>1, <3>2
    <3>4. b - 1 \in B
      BY <3>3
    <3> QED BY <2>2, <3>4
  <2>4. \E e \in rows : \A f \in rows : f <= e
    BY <2>2, <2>3
  <2> QED BY <1>2, <2>4 DEF Last
<1> QED BY <1>1, <1>2

\* One more row, if n is the number of one.
NextView(rows, view, n) == IF n \in rows THEN Reduce(view, Edr[n]) ELSE view

LEMMA NextViewAdvances ==
    ASSUME NEW rows \in SUBSET EventId, NEW view \in JobVisibility, NEW n
    PROVE  /\ NextView(rows, view, n) \in JobVisibility
           /\ Advances(view, NextView(rows, view, n))
           /\ n \in rows => NextView(rows, view, n).data_as_of # None
<1>1. CASE n \in rows
  <2>1. Edr[n] \in Event
    BY <1>1, EdrAssumption
  <2> QED BY <1>1, <2>1, ReduceRule, ReduceAdvances DEF NextView
<1>2. CASE n \notin rows
  <2>1. view.version \in Nat /\ view.data_as_of \in Nat \cup {None}
    BY DEF JobVisibility, Time
  <2> QED BY <1>2, <2>1, NoTimeAssumption DEF NextView, Advances
<1> QED BY <1>1, <1>2

\* views are those that the rows up to the n-th go through.
ViewsUpTo(views, rows, n) ==
    /\ views \in [0..n -> JobVisibility]
    /\ views[0] = NewJob
    /\ \A i \in 1..n : views[i] = NextView(rows, views[i - 1], i)

LEMMA ViewsGrow ==
    ASSUME NEW n \in Nat, NEW rows \in SUBSET EventId, NEW views, ViewsUpTo(views, rows, n)
    PROVE  \E more : ViewsUpTo(more, rows, n + 1)
<1> DEFINE v == NextView(rows, views[n], n + 1)
           more == [i \in 0..(n + 1) |-> IF i = n + 1 THEN v ELSE views[i]]
<1>1. views \in [0..n -> JobVisibility] /\ views[n] \in JobVisibility
  BY DEF ViewsUpTo
<1>2. v \in JobVisibility
  BY <1>1, NextViewAdvances
<1>3. more \in [0..(n + 1) -> JobVisibility] /\ more[0] = NewJob
  BY <1>1, <1>2 DEF ViewsUpTo
<1>4. ASSUME NEW i \in 1..(n + 1)
      PROVE  more[i] = NextView(rows, more[i - 1], i)
  <2>1. CASE i = n + 1
    BY <2>1
  <2>2. CASE i # n + 1
    <3>1. i \in 1..n /\ i - 1 \in 0..n /\ more[i] = views[i] /\ more[i - 1] = views[i - 1]
      BY <2>2
    <3> QED BY <3>1 DEF ViewsUpTo
  <2> QED BY <2>1, <2>2
<1> QED BY <1>3, <1>4 DEF ViewsUpTo

LEMMA ViewsExist ==
    ASSUME NEW rows \in SUBSET EventId, NEW m \in Nat
    PROVE  \E views : ViewsUpTo(views, rows, m)
<1> DEFINE T == {n \in Nat : ~ \E views : ViewsUpTo(views, rows, n)}
<1>1. SUFFICES ASSUME T # {} PROVE FALSE
  OBVIOUS
<1>2. PICK n \in T : \A k \in T : n <= k
  <2>1. T \in SUBSET Nat
    OBVIOUS
  <2> HIDE DEF T
  <2> QED BY <1>1, <2>1, FirstExists
<1>3. n # 0
  <2>1. ViewsUpTo([i \in 0..0 |-> NewJob], rows, 0)
    BY NewJobType DEF ViewsUpTo
  <2> QED BY <1>2, <2>1
<1>4. n - 1 \notin T /\ n - 1 \in Nat /\ (n - 1) + 1 = n
  BY <1>2, <1>3
<1>5. PICK views : ViewsUpTo(views, rows, n - 1)
  BY <1>4
<1>6. \E more : ViewsUpTo(more, rows, n)
  BY <1>4, <1>5, ViewsGrow
<1> QED BY <1>2, <1>6

\* The recursive function ViewsOf(rows) is what its definition says.
LEMMA ViewsOfRows ==
    ASSUME NEW rows \in SUBSET EventId, Bounded(rows)
    PROVE  Last(rows) \in Nat /\ ViewsUpTo(ViewsOf(rows), rows, Last(rows))
<1> DEFINE m == Last(rows)
           After(f) == [n \in 0..m |->
                           IF n = 0 THEN NewJob
                           ELSE IF n \in rows THEN Reduce(f[n - 1], Edr[n]) ELSE f[n - 1]]
<1>1. m \in Nat
  BY LastType, EventAssumption
<1>2. PICK views : ViewsUpTo(views, rows, m)
  BY <1>1, ViewsExist
<1>3. views = After(views)
  <2> HIDE DEF m
  <2> QED BY <1>1, <1>2 DEF ViewsUpTo, NextView
<1>4. ViewsOf(rows) = CHOOSE f : f = After(f)
  BY DEF ViewsOf
<1>5. ViewsOf(rows) = After(ViewsOf(rows))
  BY <1>3, <1>4
<1> DEFINE f == ViewsOf(rows)
<1> HIDE DEF f, m
<1>6. /\ f[0] = NewJob
      /\ \A i \in 1..m : f[i] = NextView(rows, f[i - 1], i)
      /\ f = [i \in 0..m |-> f[i]]
  BY <1>1, <1>5 DEF f, NextView
<1>7. \A i \in 0..m : f[i] \in JobVisibility
  <2> DEFINE T == {i \in 0..m : f[i] \notin JobVisibility}
  <2>1. SUFFICES ASSUME T # {} PROVE FALSE
    OBVIOUS
  <2>2. PICK i \in T : \A k \in T : i <= k
    <3>1. T \in SUBSET Nat
      BY <1>1
    <3> HIDE DEF T
    <3> QED BY <2>1, <3>1, FirstExists
  <2>3. i # 0
    BY <1>6, <2>2, NewJobType
  <2>4. i \in 1..m /\ i - 1 \in 0..m /\ i - 1 \notin T
    BY <1>1, <2>2, <2>3
  <2>5. f[i - 1] \in JobVisibility
    BY <2>4
  <2>6. f[i] \in JobVisibility
    BY <1>6, <2>4, <2>5, NextViewAdvances
  <2> QED BY <2>2, <2>6
<1>8. ViewsUpTo(f, rows, m)
  BY <1>6, <1>7 DEF ViewsUpTo
<1> QED BY <1>1, <1>8 DEF f, m


\* The view of some first rows of a job leads on to the view of more of them.
LEMMA ReplayForward ==
    ASSUME NEW j, NEW rows, NEW more, Opening(rows, j), Opening(more, j),
           rows \subseteq more, Bounded(more)
    PROVE  /\ Advances(ReplayOf(rows), ReplayOf(more))
           /\ rows # {} => ReplayOf(rows).data_as_of # None
<1> DEFINE m == Last(rows)
           n == Last(more)
           f == ViewsOf(rows)
           g == ViewsOf(more)
<1>1. /\ rows \in SUBSET EventId /\ more \in SUBSET EventId
      /\ rows \in SUBSET Nat /\ more \in SUBSET Nat
      /\ Bounded(rows) /\ Bounded(more)
  BY EventAssumption DEF Opening, OfJob, Bounded
<1>2. /\ m \in Nat /\ ViewsUpTo(f, rows, m)
      /\ n \in Nat /\ ViewsUpTo(g, more, n)
  BY <1>1, ViewsOfRows
<1>3. /\ rows # {} => m \in rows
      /\ rows = {} => m = 0
      /\ rows # {} => m <= n
  <2>1. rows = {} => m = 0
    BY DEF Last
  <2>2. rows # {} => m \in rows
    BY <1>1, LastType
  <2>3. rows # {} => n \in more /\ \A e \in more : e <= n
    BY <1>1, LastType
  <2> QED BY <2>1, <2>2, <2>3
<1>4. ASSUME NEW i \in 1..m PROVE i \in rows <=> i \in more
  <2>1. rows # {} /\ m \in rows
    BY <1>2, <1>3
  <2>2. CASE i = m
    BY <2>1, <2>2
  <2>3. CASE i # m
    <3>1. i < m
      BY <1>2, <2>3
    <3> QED BY <1>1, <2>1, <3>1 DEF Opening, OfJob
  <2> QED BY <2>2, <2>3
<1> HIDE DEF m, n, f, g
<1>5. m <= n
  BY <1>2, <1>3
<1>6. \A i \in 0..m : f[i] = g[i]
  <2> DEFINE T == {i \in 0..m : f[i] # g[i]}
  <2>1. SUFFICES ASSUME T # {} PROVE FALSE
    OBVIOUS
  <2>2. PICK i \in T : \A k \in T : i <= k
    <3>1. T \in SUBSET Nat
      BY <1>2
    <3> HIDE DEF T
    <3> QED BY <2>1, <3>1, FirstExists
  <2>3. i # 0
    BY <1>2, <2>2 DEF ViewsUpTo
  <2>4. i \in 1..m /\ i \in 1..n /\ i - 1 \in 0..m /\ i - 1 \notin T
    BY <1>2, <1>5, <2>2, <2>3
  <2>5. f[i - 1] = g[i - 1]
    BY <2>4
  <2>6. /\ f[i] = NextView(rows, f[i - 1], i)
        /\ g[i] = NextView(more, g[i - 1], i)
    BY <1>2, <2>4 DEF ViewsUpTo
  <2>7. i \in rows <=> i \in more
    BY <1>4, <2>4
  <2> QED BY <2>2, <2>5, <2>6, <2>7 DEF NextView
<1>7. \A i \in 0..n : g[i] \in JobVisibility
  BY <1>2 DEF ViewsUpTo
<1>8. \A i \in m..n : Advances(g[m], g[i])
  <2> DEFINE T == {i \in m..n : ~ Advances(g[m], g[i])}
  <2>1. SUFFICES ASSUME T # {} PROVE FALSE
    OBVIOUS
  <2>2. PICK i \in T : \A k \in T : i <= k
    <3>1. T \in SUBSET Nat
      BY <1>2
    <3> HIDE DEF T
    <3> QED BY <2>1, <3>1, FirstExists
  <2>3. g[m] \in JobVisibility
    BY <1>2, <1>5, <1>7
  <2>4. CASE i = m
    <3>1. g[m].version \in Nat /\ g[m].data_as_of \in Nat \cup {None}
      BY <2>3 DEF JobVisibility, Time
    <3>2. Advances(g[m], g[m])
      BY <3>1, NoTimeAssumption DEF Advances
    <3> QED BY <2>2, <2>4, <3>2
  <2>5. CASE i # m
    <3>1. i \in 1..n /\ i - 1 \in m..n /\ i - 1 \in 0..n /\ i \in 0..n /\ i - 1 \notin T
      BY <1>2, <2>2, <2>5
    <3>2. Advances(g[m], g[i - 1])
      BY <3>1
    <3>3. g[i] = NextView(more, g[i - 1], i)
      BY <1>2, <3>1 DEF ViewsUpTo
    <3>4. g[i - 1] \in JobVisibility /\ g[i] \in JobVisibility
      BY <1>7, <3>1
    <3>5. Advances(g[i - 1], g[i])
      BY <1>1, <3>3, <3>4, NextViewAdvances
    <3>6. Advances(g[m], g[i])
      BY <2>3, <3>2, <3>4, <3>5, AdvancesTwice
    <3> QED BY <2>2, <3>6
  <2> QED BY <2>4, <2>5
<1>9. Advances(f[m], g[n])
  <2>1. f[m] = g[m] /\ n \in m..n
    BY <1>2, <1>5, <1>6
  <2> QED BY <1>8, <2>1
<1>10. rows # {} => f[m].data_as_of # None
  <2> SUFFICES ASSUME rows # {} PROVE f[m].data_as_of # None
    OBVIOUS
  <2>1. m \in rows /\ m \in 1..m /\ m - 1 \in 0..m
    BY <1>1, <1>2, <1>3, EventAssumption
  <2>2. f[m] = NextView(rows, f[m - 1], m) /\ f[m - 1] \in JobVisibility
    BY <1>2, <2>1 DEF ViewsUpTo
  <2> QED BY <1>1, <2>1, <2>2, NextViewAdvances
<1> QED BY <1>9, <1>10 DEF ReplayOf, f, g, m, n

\* There is a last row in the journal.
LEMMA AlwaysBounded == Spec => []Bounded(edr_events)
<1>1. Init => Bounded(edr_events)
  <2>1. 0 \in Nat
    OBVIOUS
  <2> QED BY <2>1 DEF Init, Bounded
<1>2. ASSUME IndInv, Bounded(edr_events), [Next]_vars PROVE Bounded(edr_events)'
  <2>1. CASE edr_events' = edr_events
    BY <1>2, <2>1 DEF Bounded
  <2>2. CASE \E e \in EventId : Persist(e)
    <3>1. PICK e \in EventId : edr_events' = edr_events \cup {e}
      BY <2>2 DEF Persist
    <3>2. PICK b \in Nat : \A f \in edr_events : f <= b
      BY <1>2 DEF Bounded
    <3>3. e \in Nat /\ e + b \in Nat /\ edr_events \subseteq Nat
      BY <1>2, EventAssumption DEF IndInv, TypeOK
    <3>4. \A f \in edr_events' : f <= e + b
      BY <3>1, <3>2, <3>3
    <3> QED BY <3>3, <3>4 DEF Bounded
  <2> QED BY <1>2, <2>1, <2>2 DEF Next, vars, tables, Step, Begin, Select, ReadRows, FailToReduce,
             WriteView, Decide, Advance, Commit, Rebuild, Crash, DeadlockAbort
<1> QED BY <1>1, <1>2, AlwaysIndInv, PTL DEF Spec

\* What DurableVisibilityReader answers about a job only moves forward as the
\* projectors commit, for any journal, crashes and rebuilds: a stored view is
\* replaced by one of more of the job's first rows.
THEOREM AnswersAdvance == Spec => AnswersMoveForward
<1> DEFINE Inv == IndInv /\ OrderInv /\ Bounded(edr_events)
           Forward ==
               \A j \in Job :
                   (/\ Found(j) /\ job_visibility'[j] # job_visibility[j]
                    /\ j \notin overlapped') =>
                   /\ Stored(j)'.data_as_of >= Stored(j).data_as_of
                   /\ Stored(j)'.version >= Stored(j).version
                   /\ AttemptsOf(j) \subseteq AttemptsOf(j)'
                   /\ FindingsOf(j) \subseteq FindingsOf(j)'
                   /\ Stored(j).recorded_status = "SUCCEEDED"
                         => Stored(j)'.recorded_status = "SUCCEEDED"
<1>1. ASSUME Inv, Inv', [Next]_vars, NEW j \in Job, Found(j),
             job_visibility'[j] # job_visibility[j], j \notin overlapped'
      PROVE  /\ Stored(j)'.data_as_of >= Stored(j).data_as_of
             /\ Stored(j)'.version >= Stored(j).version
             /\ AttemptsOf(j) \subseteq AttemptsOf(j)'
             /\ FindingsOf(j) \subseteq FindingsOf(j)'
             /\ Stored(j).recorded_status = "SUCCEEDED"
                   => Stored(j)'.recorded_status = "SUCCEEDED"
  <2>1. PICK p \in Projector : Commit(p)
    BY <1>1 DEF Next, vars, tables, Step, Persist, Begin, Select, ReadRows, FailToReduce,
                WriteView, Decide, Advance, Rebuild, Crash, DeadlockAbort
  <2> DEFINE rows == job_visibility[j]
             more == job_visibility'[j]
             before == OfJob(decisions, j)
             after == OfJob(decisions', j)
  <2>2. /\ tx[p].views[j] # {} /\ more = tx[p].views[j] /\ j \notin overlapped
        /\ decisions \subseteq decisions' /\ decisions' \subseteq edr_events'
    BY <1>1, <2>1 DEF Commit, IndInv, TypeOK
  <2>3. /\ Opening(rows, j) /\ Opening(before, j) /\ rows # {}
    BY <1>1 DEF OrderInv, StoredInv, Found
  <2>4. /\ Opening(more, j) /\ Opening(after, j) /\ more \subseteq edr_events'
    BY <1>1 DEF OrderInv, StoredInv
  <2>5. rows \subseteq more
    BY <1>1, <2>2 DEF OrderInv, FreshInv
  <2>6. before \subseteq after /\ after \subseteq edr_events'
    BY <2>2 DEF OfJob
  <2>7. Bounded(more) /\ Bounded(after)
    BY <1>1, <2>4, <2>6 DEF Bounded
  <2>8. Stored(j) = ReplayOf(rows) /\ Stored(j)' = ReplayOf(more)
    BY DEF Stored, ReplayOf, ViewsOf, Last
  <2>9. /\ FindingsOf(j) = {code \in FindingCode : ReplayOf(before).findings[code] # "none"}
        /\ FindingsOf(j)' = {code \in FindingCode : ReplayOf(after).findings[code] # "none"}
    BY DEF FindingsOf, OfJob, ReplayOf, ViewsOf, Last
  <2>10. /\ AttemptsOf(j) = {n \in 1..MaxAttempt : ReplayOf(rows).attempts[n].status # "NONE"}
         /\ AttemptsOf(j)' = {n \in 1..MaxAttempt : ReplayOf(more).attempts[n].status # "NONE"}
    BY <2>8 DEF AttemptsOf
  <2> HIDE DEF rows, more, before, after
  <2>11. Advances(ReplayOf(rows), ReplayOf(more)) /\ ReplayOf(rows).data_as_of # None
    BY <2>3, <2>4, <2>5, <2>7, ReplayForward
  <2>12. Advances(ReplayOf(before), ReplayOf(after))
    BY <2>3, <2>4, <2>6, <2>7, ReplayForward
  <2>13. FindingsOf(j) \subseteq FindingsOf(j)'
    BY <2>9, <2>12 DEF Advances
  <2>14. AttemptsOf(j) \subseteq AttemptsOf(j)'
    BY <2>10, <2>11 DEF Advances, Attempts
  <2> QED BY <2>8, <2>11, <2>13, <2>14 DEF Advances
<1>2. Inv /\ Inv' /\ [Next]_vars => [Forward]_vars
  BY <1>1
<1>3. AnswersMoveForward <=> [][Forward]_vars
  BY DEF AnswersMoveForward
<1> HIDE DEF Forward
<1> QED BY <1>2, <1>3, AlwaysOrderInv, AlwaysBounded, PTL DEF Spec
=============================================================================

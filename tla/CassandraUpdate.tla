--------------------------- MODULE CassandraUpdate ---------------------------
(****************************************************************************)
(* The CASSANDRA_FIB_UPDATE handler: scheduler/cassandra_workload.py and    *)
(* CassandraDriverClient.apply_once of scheduler/cassandra_client.py.       *)
(*                                                                          *)
(* Every statement sent to Cassandra is one step; conditional updates are   *)
(* atomic (lightweight transactions).  A statement that times out may take  *)
(* effect at any later time, or never.  Attempts of one job may overlap: a  *)
(* worker that lost its claim goes on running its handler.                  *)
(****************************************************************************)
EXTENDS Naturals, Sequences, FiniteSets

CONSTANTS
    Op,         \* operation ids: stable_operation_id of every job
    Record,     \* records of the dataset
    Selected,   \* [Op -> Record], the record every attempt of the job selects
    Proc,       \* handler executions that may run at the same time
    MaxTries,   \* max_attempts of the jobs
    None        \* null

ASSUME SelectedAssumption == Selected \in [Op -> Record]
ASSUME TriesAssumption == MaxTries \in Nat \ {0}
ASSUME NoOpAssumption == None \notin Op

VARIABLES
    record,     \* records_by_bucket
    marker,     \* update_operations_by_bucket: new_checksum of every operation
    inflight,   \* conditional updates that timed out and may still take effect
    pc,         \* where each execution is in apply_once
    local,      \* its operation, the record it selected and the row it read
    tries,      \* attempts of each job so far
    done,       \* jobs whose success the scheduler has stored
    history     \* the operations that changed each record, in order

vars == <<record, marker, inflight, pc, local, tries, done, history>>

Row == [checksum : Nat, pending : Op \cup {None}, last : Op \cup {None}]

\* record.checksum of the selected record, the row as read, the checksum to
\* mark and return.
Local == [op : Op, selected : Nat, state : Row, checksum : Nat]

Write == [kind : {"reserve", "finish"}, op : Op, checksum : Nat]

EmptyRow == [checksum |-> 0, pending |-> None, last |-> None]

Idle == [op |-> None]

Rec(p) == Selected[local[p].op]

Goto(p, label) == pc' = [pc EXCEPT ![p] = label]

\* The handler returned or raised: the execution ends.
End(p) ==
    /\ Goto(p, "idle")
    /\ local' = [local EXCEPT ![p] = Idle]

-----------------------------------------------------------------------------
(* The conditional updates, as the database applies them. *)

\* Mutant: a reservation may be taken over.
Reserves_TakesOver(w) == record[Selected[w.op]].checksum = w.checksum

\* _reserve: IF checksum=? AND pending_operation_id=null
Reserves(w) ==
    LET row == record[Selected[w.op]] IN row.checksum = w.checksum /\ row.pending = None

\* Mutant: the final update does not compare the checksum and the reservation.
Finishes_Blind(w) == TRUE

\* _finish: IF pending_operation_id=? AND checksum=?
Finishes(w) ==
    LET row == record[Selected[w.op]] IN row.pending = w.op /\ row.checksum = w.checksum

Applies(w) == IF w.kind = "reserve" THEN Reserves(w) ELSE Finishes(w)

Apply(w) ==
    LET r == Selected[w.op] IN
    IF ~Applies(w) THEN UNCHANGED <<record, history>>
    ELSE IF w.kind = "reserve"
    THEN /\ record' = [record EXCEPT ![r].pending = w.op]
         /\ UNCHANGED history
    ELSE /\ record' = [record EXCEPT ![r] = [checksum |-> w.checksum + 1,
                                              pending |-> None, last |-> w.op]]
         /\ history' = [history EXCEPT ![r] = Append(@, w.op)]

-----------------------------------------------------------------------------
\* The handler starts an attempt: select_records reads the checksum.
Select(p, o) ==
    /\ pc[p] = "idle"
    /\ o \notin done
    /\ tries[o] < MaxTries
    /\ tries' = [tries EXCEPT ![o] = @ + 1]
    /\ local' = [local EXCEPT ![p] =
          [op |-> o, selected |-> record[Selected[o]].checksum, state |-> EmptyRow, checksum |-> 0]]
    /\ Goto(p, "read")
    /\ UNCHANGED <<record, marker, inflight, done, history>>

\* Mutant: an operation that was applied last is not recognised.
Read_IgnoresLast(p) ==
    /\ pc[p] = "read"
    /\ local' = [local EXCEPT ![p].state = record[Rec(p)]]
    /\ Goto(p, "find")
    /\ UNCHANGED <<record, marker, inflight, tries, done, history>>

\* Mutant: the marker is given the checksum that follows the selected one.
Read_MarksSelected(p) ==
    /\ pc[p] = "read"
    /\ LET state == record[Rec(p)] IN
       /\ local' = [local EXCEPT ![p].state = state, ![p].checksum = local[p].selected + 1]
       /\ Goto(p, IF state.last = local[p].op THEN "mark" ELSE "find")
    /\ UNCHANGED <<record, marker, inflight, tries, done, history>>

\* _read_record: an operation that was applied last only needs its marker.
Read(p) ==
    /\ pc[p] = "read"
    /\ LET state == record[Rec(p)] IN
       /\ local' = [local EXCEPT ![p].state = state, ![p].checksum = state.checksum]
       /\ Goto(p, IF state.last = local[p].op THEN "mark" ELSE "find")
    /\ UNCHANGED <<record, marker, inflight, tries, done, history>>

\* _find_operation: the marker counts while the row still has its checksum.
Find(p) ==
    /\ pc[p] = "find"
    /\ LET l == local[p] IN
       Goto(p, IF marker[l.op] # None /\ l.state.checksum = marker[l.op] THEN "return"
               ELSE IF l.state.pending = l.op THEN "finish" ELSE "reserve")
    /\ UNCHANGED <<record, marker, inflight, local, tries, done, history>>

ReserveOf(p) == [kind |-> "reserve", op |-> local[p].op, checksum |-> local[p].selected]
FinishOf(p) == [kind |-> "finish", op |-> local[p].op, checksum |-> local[p].selected]

\* The reservation; a conflict is a retryable failure.
Reserve(p) ==
    /\ pc[p] = "reserve"
    /\ Apply(ReserveOf(p))
    /\ IF Applies(ReserveOf(p))
       THEN Goto(p, "finish") /\ UNCHANGED local
       ELSE End(p)
    /\ UNCHANGED <<marker, inflight, tries, done>>

\* The update; a conflict is a retryable failure.
Finish(p) ==
    /\ pc[p] = "finish"
    /\ Apply(FinishOf(p))
    /\ IF Applies(FinishOf(p))
       THEN /\ Goto(p, "mark")
            /\ local' = [local EXCEPT ![p].checksum = local[p].selected + 1]
       ELSE End(p)
    /\ UNCHANGED <<marker, inflight, tries, done>>

\* A reservation that times out fails the attempt; a final update that times
\* out is looked up.
Timeout(p) ==
    /\ \/ /\ pc[p] = "reserve"
          /\ inflight' = inflight \cup {ReserveOf(p)}
          /\ End(p)
       \/ /\ pc[p] = "finish"
          /\ inflight' = inflight \cup {FinishOf(p)}
          /\ Goto(p, "reread")
          /\ UNCHANGED local
    /\ UNCHANGED <<record, marker, tries, done, history>>

Reread(p) ==
    /\ pc[p] = "reread"
    /\ LET state == record[Rec(p)] IN
       IF state.last = local[p].op
       THEN /\ local' = [local EXCEPT ![p].checksum = state.checksum]
            /\ Goto(p, "mark")
       ELSE End(p)
    /\ UNCHANGED <<record, marker, inflight, tries, done, history>>

\* Mutant: the marker stores the previous checksum.
WriteMarker_Previous(p) ==
    /\ pc[p] = "mark"
    /\ marker' = [marker EXCEPT ![local[p].op] = local[p].checksum - 1]
    /\ Goto(p, "return")
    /\ UNCHANGED <<record, inflight, local, tries, done, history>>

WriteMarker(p) ==
    /\ pc[p] = "mark"
    /\ marker' = [marker EXCEPT ![local[p].op] = local[p].checksum]
    /\ Goto(p, "return")
    /\ UNCHANGED <<record, inflight, local, tries, done, history>>

\* The handler returns its summary and the scheduler stores the success.
Complete(p) ==
    /\ pc[p] = "return"
    /\ done' = done \cup {local[p].op}
    /\ End(p)
    /\ UNCHANGED <<record, marker, inflight, tries, history>>

\* The worker dies, a read fails, or the scheduler refuses a stale outcome.
Abort(p) ==
    /\ pc[p] # "idle"
    /\ End(p)
    /\ UNCHANGED <<record, marker, inflight, tries, done, history>>

\* A timed-out update takes effect after all.
Deliver(w) ==
    /\ w \in inflight
    /\ inflight' = inflight \ {w}
    /\ Apply(w)
    /\ UNCHANGED <<marker, pc, local, tries, done>>

-----------------------------------------------------------------------------
Init ==
    /\ record = [r \in Record |-> EmptyRow]
    /\ marker = [o \in Op |-> None]
    /\ inflight = {}
    /\ pc = [p \in Proc |-> "idle"]
    /\ local = [p \in Proc |-> Idle]
    /\ tries = [o \in Op |-> 0]
    /\ done = {}
    /\ history = [r \in Record |-> <<>>]

Next ==
    \/ \E p \in Proc :
          \/ \E o \in Op : Select(p, o)
          \/ Read(p) \/ Find(p) \/ Reserve(p) \/ Finish(p)
          \/ Timeout(p) \/ Reread(p) \/ WriteMarker(p) \/ Complete(p) \/ Abort(p)
    \/ \E w \in inflight : Deliver(w)

Spec == Init /\ [][Next]_vars

-----------------------------------------------------------------------------
\* The types of the rows, the markers and the executions.
TypeOK ==
    /\ record \in [Record -> Row]
    /\ marker \in [Op -> (Nat \ {0}) \cup {None}]
    /\ inflight \subseteq Write
    /\ pc \in [Proc -> {"idle", "read", "find", "reserve", "finish", "reread", "mark", "return"}]
    /\ local \in [Proc -> Local \cup {Idle}]
    /\ \A p \in Proc : local[p] = Idle <=> pc[p] = "idle"
    /\ tries \in [Op -> 0..MaxTries]
    /\ done \subseteq Op
    /\ history \in [Record -> Seq(Op)]

\* The checksum counts the updates: no overlap of attempts, late delivery or
\* timeout loses an update of the record.
NoLostUpdate ==
    \A r \in Record :
        /\ record[r].checksum = Len(history[r])
        /\ record[r].last = IF history[r] = <<>> THEN None ELSE history[r][Len(history[r])]

\* Crashes, timeouts and overlapping attempts of one job never apply it twice
\* in a row: apply_once recognises an operation that was applied last.
NoImmediateRepeat ==
    \A r \in Record : \A i \in 1..(Len(history[r]) - 1) : history[r][i] # history[r][i + 1]

\* A marker names the update it stands for, whichever attempt wrote it.
MarkerIsTrue ==
    \A o \in Op : marker[o] # None =>
        marker[o] \in 1..Len(history[Selected[o]]) /\ history[Selected[o]][marker[o]] = o

\* A job whose success was stored has changed its record, and the marker and the
\* summary report the checksum of its own update.
SuccessIsReal ==
    /\ MarkerIsTrue
    /\ \A o \in done : \E i \in 1..Len(history[Selected[o]]) : history[Selected[o]][i] = o
    /\ \A p \in Proc : pc[p] = "return" =>
          /\ local[p].checksum \in 1..Len(history[Rec(p)])
          /\ history[Rec(p)][local[p].checksum] = local[p].op

\* The reservation of a job that will not run again, and of which nothing is on
\* its way: its attempts are used up, or another attempt has succeeded.
Orphaned(r) ==
    \E o \in Op :
        /\ record[r].pending = o
        /\ tries[o] = MaxTries \/ o \in done
        /\ \A p \in Proc : local[p].op # o
        /\ \A w \in inflight : w.op # o

\* No other job takes an orphaned reservation over or removes it: from then on
\* the record never changes, and every job that selects it conflicts.
OrphanBlocksForever ==
    [][\A r \in Record : Orphaned(r) => Orphaned(r)' /\ record'[r] = record[r]]_vars

\* specs/002 section 5.4: "Every distinct logical job may increment the selected
\* record from N to N+1 at most once."
AppliedAtMostOnce ==
    \A o \in Op : Cardinality({i \in 1..Len(history[Selected[o]]) :
                                  history[Selected[o]][i] = o}) <= 1
=============================================================================

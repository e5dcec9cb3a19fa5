------------------------------- MODULE Outbox --------------------------------
(****************************************************************************)
(* OutboxPublisher of outbox/publisher.py: publishers lease batches of the  *)
(* scheduler_outbox table, send every record to the broker and mark it in   *)
(* a transaction of its own.  Several replicas run the same loop; a process *)
(* may die anywhere, a send may fail with its outcome unknown, and a lease  *)
(* may expire while its holder is still at work.                            *)
(****************************************************************************)
EXTENDS Naturals, FiniteSets

CONSTANTS
    Event,          \* event_id of the outbox rows
    Publisher,      \* publisher processes
    BatchSize,      \* batch_size
    MaxFaults,      \* bound: sends that fail, crashes, stops, leases that expire early
    None            \* SQL NULL

ASSUME BatchAssumption == BatchSize \in Nat \ {0}
ASSUME FaultAssumption == MaxFaults \in Nat
ASSUME PublisherAssumption == IsFiniteSet(Publisher)
ASSUME NoneAssumption == None \notin Event /\ None \notin Nat

VARIABLES
    row,            \* scheduler_outbox; status "absent" before the scheduler commits it
    copies,         \* records of each event the broker has appended to the topic
    queued,         \* sends given up that the producer may still deliver
    pc,             \* where each publisher is in run_once
    token,          \* the lease token of its batch
    batch,          \* the leased records it has not come to yet
    current,        \* the record it is publishing
    serial,         \* the last lease token drawn (uuid4)
    faults

vars == <<row, copies, queued, pc, token, batch, current, serial, faults>>

local == <<pc, token, batch, current>>

\* waiting: next_attempt_at is in the future; expired: lease_expires_at is past.
Row == [status : {"absent", "stored", "published"}, publish_attempts : Nat, waiting : BOOLEAN,
        lease_token : Nat \cup {None}, expired : BOOLEAN]

NewRow == [status |-> "stored", publish_attempts |-> 0, waiting |-> FALSE,
           lease_token |-> None, expired |-> FALSE]

TypeOK ==
    /\ row \in [Event -> Row]
    /\ copies \in [Event -> Nat]
    /\ queued \subseteq Event
    /\ pc \in [Publisher -> {"idle", "batch", "send", "mark", "fail", "stopped"}]
    /\ token \in [Publisher -> Nat]
    /\ batch \in [Publisher -> SUBSET Event]
    /\ current \in [Publisher -> Event \cup {None}]
    /\ \A p \in Publisher : pc[p] \in {"send", "mark", "fail"} <=> current[p] # None
    /\ serial \in Nat
    /\ faults \in 0..MaxFaults

Init ==
    /\ row = [e \in Event |-> [NewRow EXCEPT !.status = "absent"]]
    /\ copies = [e \in Event |-> 0]
    /\ queued = {}
    /\ pc = [p \in Publisher |-> "idle"]
    /\ token = [p \in Publisher |-> 0]
    /\ batch = [p \in Publisher |-> {}]
    /\ current = [p \in Publisher |-> None]
    /\ serial = 0
    /\ faults = 0

-----------------------------------------------------------------------------
\* The scheduler commits a lifecycle event with its job transaction.
Insert(e) ==
    /\ row[e].status = "absent"
    /\ row' = [row EXCEPT ![e] = NewRow]
    /\ UNCHANGED <<copies, queued, local, serial, faults>>

\* Mutant: the lease of another publisher is not respected.
Due_IgnoresLease(e) == row[e].status = "stored" /\ ~ row[e].waiting

\* Mutant: an expired lease is never taken over.
Due_NoTakeover(e) ==
    row[e].status = "stored" /\ ~ row[e].waiting /\ row[e].lease_token = None

Due(e) ==
    /\ row[e].status = "stored"
    /\ ~ row[e].waiting
    /\ row[e].lease_token = None \/ row[e].expired

\* LIMIT :limit
Batches ==
    LET due == {e \in Event : Due(e)} IN
    {b \in SUBSET due : \/ Cardinality(b) = BatchSize
                        \/ b = due /\ Cardinality(due) < BatchSize}

Leased(r, t) == [r EXCEPT !.lease_token = t, !.expired = FALSE]

\* _lease: one transaction draws a token and leases a batch with it.
Lease(p) ==
    /\ pc[p] = "idle"
    /\ \E b \in Batches :
          /\ b # {}
          /\ row' = [e \in Event |-> IF e \in b THEN Leased(row[e], serial + 1) ELSE row[e]]
          /\ batch' = [batch EXCEPT ![p] = b]
    /\ serial' = serial + 1
    /\ token' = [token EXCEPT ![p] = serial + 1]
    /\ pc' = [pc EXCEPT ![p] = "batch"]
    /\ UNCHANGED <<copies, queued, current, faults>>

\* The loop of run_once: RETURNING gives the records in no particular order.
Pick(p) ==
    /\ pc[p] = "batch"
    /\ \E e \in batch[p] :
          /\ current' = [current EXCEPT ![p] = e]
          /\ batch' = [batch EXCEPT ![p] = @ \ {e}]
    /\ pc' = [pc EXCEPT ![p] = "send"]
    /\ UNCHANGED <<row, copies, queued, token, serial, faults>>

EndBatch(p) ==
    /\ pc[p] = "batch"
    /\ batch[p] = {}
    /\ pc' = [pc EXCEPT ![p] = "idle"]
    /\ UNCHANGED <<row, copies, queued, token, batch, current, serial, faults>>

\* producer.publish returns the coordinates of the acknowledged record.
Acknowledged(p) ==
    /\ pc[p] = "send"
    /\ copies' = [copies EXCEPT ![current[p]] = @ + 1]
    /\ pc' = [pc EXCEPT ![p] = "mark"]
    /\ UNCHANGED <<row, queued, token, batch, current, serial, faults>>

\* Mutant: a flush that times out counts as published.
SendFails_Optimistic(p) ==
    /\ pc[p] = "send"
    /\ faults < MaxFaults
    /\ faults' = faults + 1
    /\ queued' \in {queued, queued \cup {current[p]}}
    /\ pc' = [pc EXCEPT ![p] = "mark"]
    /\ UNCHANGED <<row, copies, token, batch, current, serial>>

\* producer.publish raises: the record was refused, or flush timed out and the
\* producer or the broker may still deliver it.
SendFails(p) ==
    /\ pc[p] = "send"
    /\ faults < MaxFaults
    /\ faults' = faults + 1
    /\ queued' \in {queued, queued \cup {current[p]}}
    /\ pc' = [pc EXCEPT ![p] = "fail"]
    /\ UNCHANGED <<row, copies, token, batch, current, serial>>

LateDelivery(e) ==
    /\ e \in queued
    /\ queued' = queued \ {e}
    /\ copies' = [copies EXCEPT ![e] = @ + 1]
    /\ UNCHANGED <<row, local, serial, faults>>

\* Mutant: WHERE event_id=:id
Owned_ByEvent(p) == TRUE

\* WHERE event_id=:id AND lease_token=:token
Owned(p) == row[current[p]].lease_token = token[p]

Released(r) == [r EXCEPT !.lease_token = None, !.expired = FALSE]

MarkedRow(r) == Released([r EXCEPT !.status = "published"])

PutOffRow(r) == Released([r EXCEPT !.publish_attempts = @ + 1, !.waiting = TRUE])

\* Mutant: the record of the last turn is kept.
NextRecord_Keeps(p) ==
    /\ pc' = [pc EXCEPT ![p] = "batch"]
    /\ UNCHANGED <<token, batch, current>>

NextRecord(p) ==
    /\ pc' = [pc EXCEPT ![p] = "batch"]
    /\ current' = [current EXCEPT ![p] = None]
    /\ UNCHANGED <<token, batch>>

\* _published: no row changes, and no error is raised, if the token is stale.
Published(p) ==
    /\ pc[p] = "mark"
    /\ row' = IF Owned(p)
              THEN [row EXCEPT ![current[p]] = MarkedRow(@)]
              ELSE row
    /\ NextRecord(p)
    /\ UNCHANGED <<copies, queued, serial, faults>>

\* The transaction of _published fails: the acknowledged record is retried.
PublishedFails(p) ==
    /\ pc[p] = "mark"
    /\ faults < MaxFaults
    /\ faults' = faults + 1
    /\ pc' = [pc EXCEPT ![p] = "fail"]
    /\ UNCHANGED <<row, copies, queued, token, batch, current, serial>>

\* _failed: release the record and put it off.
Failed(p) ==
    /\ pc[p] = "fail"
    /\ row' = IF Owned(p)
              THEN [row EXCEPT ![current[p]] = PutOffRow(@)]
              ELSE row
    /\ NextRecord(p)
    /\ UNCHANGED <<copies, queued, serial, faults>>

Abandon(p, label) ==
    /\ pc' = [pc EXCEPT ![p] = label]
    /\ batch' = [batch EXCEPT ![p] = {}]
    /\ current' = [current EXCEPT ![p] = None]
    /\ UNCHANGED token

\* The process dies, or its database fails in _failed; it is started again.
\* What it was sending may still arrive.
Crash(p) ==
    /\ pc[p] \notin {"idle", "stopped"}
    /\ faults < MaxFaults
    /\ faults' = faults + 1
    /\ queued' \in {queued, IF pc[p] = "send" THEN queued \cup {current[p]} ELSE queued}
    /\ Abandon(p, "idle")
    /\ UNCHANGED <<row, copies, serial>>

\* An interrupt: stop() flushes the producer, the rest of the batch stays leased.
Stop(p) ==
    /\ pc[p] # "stopped"
    /\ faults < MaxFaults
    /\ faults' = faults + 1
    /\ queued' \in {queued, IF pc[p] = "send" THEN queued \cup {current[p]} ELSE queued}
    /\ Abandon(p, "stopped")
    /\ UNCHANGED <<row, copies, serial>>

Restart(p) ==
    /\ pc[p] = "stopped"
    /\ pc' = [pc EXCEPT ![p] = "idle"]
    /\ UNCHANGED <<row, copies, queued, token, batch, current, serial, faults>>

Holds(p, e) ==
    (e \in batch[p] \/ current[p] = e) /\ row[e].lease_token = token[p]

\* clock_timestamp() passes lease_expires_at; early if the holder is at work.
LeaseExpires(e) ==
    /\ row[e].lease_token # None
    /\ ~ row[e].expired
    /\ IF \E p \in Publisher : Holds(p, e)
       THEN faults < MaxFaults /\ faults' = faults + 1
       ELSE UNCHANGED faults
    /\ row' = [row EXCEPT ![e].expired = TRUE]
    /\ UNCHANGED <<copies, queued, local, serial>>

\* clock_timestamp() passes next_attempt_at.
BackoffElapses(e) ==
    /\ row[e].waiting
    /\ row' = [row EXCEPT ![e].waiting = FALSE]
    /\ UNCHANGED <<copies, queued, local, serial, faults>>

Step(p) ==
    \/ Lease(p) \/ Pick(p) \/ EndBatch(p) \/ Acknowledged(p) \/ Published(p) \/ Failed(p)
    \/ Restart(p)

Clock == \E e \in Event : LeaseExpires(e) \/ BackoffElapses(e)

Next ==
    \/ \E e \in Event : Insert(e) \/ LateDelivery(e)
    \/ \E p \in Publisher : Step(p) \/ SendFails(p) \/ PublishedFails(p) \/ Crash(p) \/ Stop(p)
    \/ Clock

\* The loop of runtime.main goes on, processes are restarted, time passes, and
\* the broker acknowledges a send unless one of the bounded faults strikes it.
Fairness ==
    /\ \A p \in Publisher : WF_vars(Step(p))
    /\ \A e \in Event : WF_vars(LeaseExpires(e)) /\ WF_vars(BackoffElapses(e))

Spec == Init /\ [][Next]_vars /\ Fairness

-----------------------------------------------------------------------------
(* Properties. *)

\* No record is marked published before the broker has acknowledged a copy of
\* it, whichever publisher marks it and however often it was leased.
PublishedWasAcknowledged ==
    \A e \in Event : row[e].status = "published" => copies[e] > 0

\* A lease that has not expired is only given up by the publisher that holds
\* it: a publisher that was overtaken cannot release or mark the record.
LeaseEndsWithItsHolder ==
    \A e \in Event :
        (/\ row[e].lease_token # None /\ ~ row[e].expired
         /\ row'[e].lease_token # row[e].lease_token)
           => \E p \in Publisher : Holds(p, e) /\ current[p] = e

\* The topic holds more than one copy of a record only after a failed send, a
\* crash or a lease that expired early, and no more copies than such faults.
DuplicatesNeedFaults ==
    \A e \in Event : copies[e] + (IF e \in queued THEN 1 ELSE 0) <= 1 + faults

\* A published record is never leased, sent back or published again.
PublishedIsFinal ==
    \A e \in Event : row[e].status = "published" => row'[e] = row[e]

\* The lease token fences a row against every publisher but its holder, and the
\* publication fences it against all of them.
RowsAreFenced == [][LeaseEndsWithItsHolder /\ PublishedIsFinal]_vars

\* No committed lifecycle event is lost: it is published in the end, whatever
\* crashes, lost acknowledgements and expired leases come in between.
EveryEventIsPublished ==
    \A e \in Event : row[e].status = "stored" ~> row[e].status = "published"
=============================================================================

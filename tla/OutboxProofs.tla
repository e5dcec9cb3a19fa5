---------------------------- MODULE OutboxProofs -----------------------------
(****************************************************************************)
(* For any number of rows, publishers and faults: only acknowledged records *)
(* are marked published, a published record stays as it is, a lease is      *)
(* ended by its holder alone, and every copy but one has a fault to explain *)
(* it.                                                                      *)
(****************************************************************************)
EXTENDS Outbox, FiniteSetTheorems, TLAPS

\* A publisher about to mark its record has had it acknowledged.
AcknowledgedFirst ==
    \A p \in Publisher : pc[p] = "mark" => current[p] \in Event /\ copies[current[p]] > 0

\* Only stored rows are leased or put off, and never both.
LeaseInvariant ==
    \A e \in Event :
        /\ row[e].lease_token # None => row[e].status = "stored" /\ ~ row[e].waiting
        /\ row[e].waiting => row[e].status = "stored"

IndInv == TypeOK /\ AcknowledgedFirst /\ PublishedWasAcknowledged /\ LeaseInvariant

-----------------------------------------------------------------------------
(* The rows that the transactions write. *)

LEMMA LeasedType ==
    ASSUME NEW r \in Row, NEW t \in Nat
    PROVE  /\ Leased(r, t) \in Row
           /\ Leased(r, t).status = r.status
           /\ Leased(r, t).waiting = r.waiting
BY DEF Leased, Row

LEMMA ReleasedRowType ==
    ASSUME NEW r \in Row
    PROVE  /\ Released(r) \in Row
           /\ Released(r).status = r.status
           /\ Released(r).waiting = r.waiting
           /\ Released(r).lease_token = None
BY DEF Released, Row

LEMMA MarkedRowType ==
    ASSUME NEW r \in Row
    PROVE  /\ MarkedRow(r) \in Row
           /\ MarkedRow(r).status = "published"
           /\ MarkedRow(r).waiting = r.waiting
           /\ MarkedRow(r).lease_token = None
<1> DEFINE m == [r EXCEPT !.status = "published"]
<1>1. m \in Row /\ m.status = "published" /\ m.waiting = r.waiting
  BY DEF Row
<1>2. MarkedRow(r) = Released(m)
  BY DEF MarkedRow
<1> QED BY <1>1, <1>2, ReleasedRowType

LEMMA PutOffRowType ==
    ASSUME NEW r \in Row
    PROVE  /\ PutOffRow(r) \in Row
           /\ PutOffRow(r).status = r.status
           /\ PutOffRow(r).lease_token = None
<1> DEFINE a == [r EXCEPT !.publish_attempts = r.publish_attempts + 1]
           b == [a EXCEPT !.waiting = TRUE]
<1>1. a \in Row /\ a.status = r.status
  BY DEF Row
<1>2. b \in Row /\ b.status = r.status
  <2> HIDE DEF a
  <2> QED BY <1>1 DEF Row
<1>3. PutOffRow(r) = Released(b)
  <2>1. b = [r EXCEPT !.publish_attempts = @ + 1, !.waiting = TRUE]
    BY DEF Row
  <2> QED BY <2>1 DEF PutOffRow
<1> HIDE DEF b
<1> QED BY <1>2, <1>3, ReleasedRowType

LEMMA NewRowType ==
    /\ NewRow \in Row
    /\ NewRow.status = "stored" /\ NewRow.lease_token = None /\ NewRow.waiting = FALSE
BY DEF NewRow, Row

LEMMA AbsentRowType ==
    LET r == [NewRow EXCEPT !.status = "absent"]
    IN  r \in Row /\ r.status = "absent" /\ r.lease_token = None /\ r.waiting = FALSE
BY DEF NewRow, Row

LEMMA ExpiredRowType ==
    ASSUME NEW r \in Row
    PROVE  LET x == [r EXCEPT !.expired = TRUE]
           IN  /\ x \in Row
               /\ x.status = r.status /\ x.lease_token = r.lease_token /\ x.waiting = r.waiting
BY DEF Row

LEMMA AwakeRowType ==
    ASSUME NEW r \in Row
    PROVE  LET x == [r EXCEPT !.waiting = FALSE]
           IN  /\ x \in Row
               /\ x.status = r.status /\ x.lease_token = r.lease_token /\ x.waiting = FALSE
BY DEF Row

-----------------------------------------------------------------------------
LEMMA InitIndInv == Init => IndInv
<1> SUFFICES ASSUME Init PROVE IndInv
  OBVIOUS
<1>1. TypeOK
  BY AbsentRowType, FaultAssumption DEF Init, TypeOK
<1>2. AcknowledgedFirst
  BY DEF Init, AcknowledgedFirst
<1>3. PublishedWasAcknowledged
  BY AbsentRowType DEF Init, PublishedWasAcknowledged
<1>4. LeaseInvariant
  BY AbsentRowType DEF Init, LeaseInvariant
<1> QED BY <1>1, <1>2, <1>3, <1>4 DEF IndInv

-----------------------------------------------------------------------------
(* One lemma per kind of step. *)

\* Steps that leave the rows alone and lose no copy.
LEMMA RowsUnchanged ==
    ASSUME IndInv, UNCHANGED row, copies' \in [Event -> Nat],
           \A e \in Event : copies'[e] >= copies[e]
    PROVE  row' \in [Event -> Row] /\ PublishedWasAcknowledged' /\ LeaseInvariant'
<1>1. row' \in [Event -> Row]
  BY DEF IndInv, TypeOK
<1>2. PublishedWasAcknowledged'
  BY DEF IndInv, TypeOK, PublishedWasAcknowledged
<1>3. LeaseInvariant'
  BY DEF IndInv, LeaseInvariant
<1> QED BY <1>1, <1>2, <1>3

LEMMA InsertStep ==
    ASSUME IndInv, NEW e \in Event, Insert(e)
    PROVE  IndInv'
<1> USE NewRowType
<1>1. TypeOK'
  BY DEF Insert, local, IndInv, TypeOK
<1>2. AcknowledgedFirst'
  BY DEF Insert, local, IndInv, AcknowledgedFirst
<1>3. PublishedWasAcknowledged'
  BY DEF Insert, IndInv, TypeOK, PublishedWasAcknowledged
<1>4. LeaseInvariant'
  BY DEF Insert, IndInv, TypeOK, LeaseInvariant
<1> QED BY <1>1, <1>2, <1>3, <1>4 DEF IndInv

LEMMA LateDeliveryStep ==
    ASSUME IndInv, NEW e \in Event, LateDelivery(e)
    PROVE  IndInv'
<1>1. copies' \in [Event -> Nat] /\ \A f \in Event : copies'[f] >= copies[f]
  BY DEF LateDelivery, IndInv, TypeOK
<1>2. row' \in [Event -> Row] /\ PublishedWasAcknowledged' /\ LeaseInvariant'
  BY <1>1, RowsUnchanged DEF LateDelivery
<1>3. TypeOK'
  BY <1>1, <1>2 DEF LateDelivery, local, IndInv, TypeOK
<1>4. AcknowledgedFirst'
  BY <1>1 DEF LateDelivery, local, IndInv, TypeOK, AcknowledgedFirst
<1> QED BY <1>2, <1>3, <1>4 DEF IndInv

LEMMA LeaseStep ==
    ASSUME IndInv, NEW p \in Publisher, Lease(p)
    PROVE  IndInv'
<1> PICK b \in Batches :
        /\ row' = [e \in Event |-> IF e \in b THEN Leased(row[e], serial + 1) ELSE row[e]]
        /\ batch' = [batch EXCEPT ![p] = b]
  BY DEF Lease
<1>1. b \subseteq Event /\ \A e \in b : Due(e)
  BY DEF Batches
<1>2. \A e \in Event : row[e] \in Row
  BY DEF IndInv, TypeOK
<1>3. serial + 1 \in Nat
  BY DEF IndInv, TypeOK
<1>4. \A e \in Event : /\ row'[e] \in Row
                       /\ row'[e].status = row[e].status
                       /\ row'[e].waiting = row[e].waiting
                       /\ e \notin b => row'[e] = row[e]
  BY <1>2, <1>3, LeasedType
<1>5. TypeOK'
  <2>1. row' \in [Event -> Row]
    BY <1>4
  <2>2. token' \in [Publisher -> Nat] /\ serial' \in Nat
    BY <1>3 DEF Lease, IndInv, TypeOK
  <2>3. batch' \in [Publisher -> SUBSET Event]
    BY <1>1 DEF IndInv, TypeOK
  <2>4. /\ pc' \in [Publisher -> {"idle", "batch", "send", "mark", "fail", "stopped"}]
        /\ \A q \in Publisher : pc'[q] \in {"send", "mark", "fail"} <=> current'[q] # None
    BY DEF Lease, IndInv, TypeOK
  <2> QED BY <2>1, <2>2, <2>3, <2>4 DEF Lease, IndInv, TypeOK
<1>6. AcknowledgedFirst'
  BY DEF Lease, IndInv, TypeOK, AcknowledgedFirst
<1>7. PublishedWasAcknowledged'
  BY <1>4 DEF Lease, IndInv, PublishedWasAcknowledged
<1>8. LeaseInvariant'
  <2> SUFFICES ASSUME NEW e \in Event
               PROVE  /\ row'[e].lease_token # None =>
                            row'[e].status = "stored" /\ ~ row'[e].waiting
                      /\ row'[e].waiting => row'[e].status = "stored"
    BY DEF LeaseInvariant
  <2>1. CASE e \in b
    BY <2>1, <1>1, <1>4 DEF Due, IndInv, LeaseInvariant
  <2>2. CASE e \notin b
    BY <2>2, <1>4 DEF IndInv, LeaseInvariant
  <2> QED BY <2>1, <2>2
<1> QED BY <1>5, <1>6, <1>7, <1>8 DEF IndInv

\* Pick, EndBatch, SendFails, PublishedFails, Crash, Stop and Restart move a
\* publisher and touch neither the table nor the topic.
LEMMA QuietStep ==
    ASSUME IndInv, NEW p \in Publisher,
           \/ Pick(p) \/ EndBatch(p) \/ SendFails(p) \/ PublishedFails(p)
           \/ Crash(p) \/ Stop(p) \/ Restart(p)
    PROVE  IndInv'
<1> USE NoneAssumption
<1>1. UNCHANGED <<row, copies, serial, token>>
  BY DEF Pick, EndBatch, SendFails, PublishedFails, Crash, Stop, Restart, Abandon
<1>2. PublishedWasAcknowledged' /\ LeaseInvariant'
  BY <1>1 DEF IndInv, PublishedWasAcknowledged, LeaseInvariant
<1>3. AcknowledgedFirst'
  <2>1. \A q \in Publisher : pc'[q] = "mark" => pc[q] = "mark" /\ current'[q] = current[q]
    BY DEF Pick, EndBatch, SendFails, PublishedFails, Crash, Stop, Restart, Abandon,
           IndInv, TypeOK
  <2> QED BY <1>1, <2>1 DEF IndInv, AcknowledgedFirst
<1>4. TypeOK'
  <2>1. CASE Pick(p)
    BY <2>1 DEF Pick, IndInv, TypeOK
  <2>2. CASE EndBatch(p)
    BY <2>2 DEF EndBatch, IndInv, TypeOK
  <2>3. CASE SendFails(p)
    <3>1. queued' \subseteq Event /\ faults' \in 0..MaxFaults
      BY <2>3, FaultAssumption DEF SendFails, IndInv, TypeOK
    <3> QED BY <2>3, <3>1 DEF SendFails, IndInv, TypeOK
  <2>4. CASE PublishedFails(p)
    <3>1. faults' \in 0..MaxFaults
      BY <2>4, FaultAssumption DEF PublishedFails, IndInv, TypeOK
    <3> QED BY <2>4, <3>1 DEF PublishedFails, IndInv, TypeOK
  <2>5. CASE Crash(p)
    <3>1. queued' \subseteq Event /\ faults' \in 0..MaxFaults
      BY <2>5, FaultAssumption DEF Crash, IndInv, TypeOK
    <3> QED BY <2>5, <3>1 DEF Crash, Abandon, IndInv, TypeOK
  <2>6. CASE Stop(p)
    <3>1. queued' \subseteq Event /\ faults' \in 0..MaxFaults
      BY <2>6, FaultAssumption DEF Stop, IndInv, TypeOK
    <3> QED BY <2>6, <3>1 DEF Stop, Abandon, IndInv, TypeOK
  <2>7. CASE Restart(p)
    BY <2>7 DEF Restart, IndInv, TypeOK
  <2> QED BY <2>1, <2>2, <2>3, <2>4, <2>5, <2>6, <2>7
<1> QED BY <1>2, <1>3, <1>4 DEF IndInv

LEMMA AcknowledgedStep ==
    ASSUME IndInv, NEW p \in Publisher, Acknowledged(p)
    PROVE  IndInv'
<1>1. current[p] \in Event
  BY DEF Acknowledged, IndInv, TypeOK
<1>2. /\ copies' \in [Event -> Nat]
      /\ \A f \in Event : copies'[f] >= copies[f]
      /\ copies'[current[p]] > 0
  BY <1>1 DEF Acknowledged, IndInv, TypeOK
<1>3. row' \in [Event -> Row] /\ PublishedWasAcknowledged' /\ LeaseInvariant'
  BY <1>2, RowsUnchanged DEF Acknowledged
<1>4. TypeOK'
  BY <1>2, <1>3 DEF Acknowledged, IndInv, TypeOK
<1>5. AcknowledgedFirst'
  <2> SUFFICES ASSUME NEW q \in Publisher, pc'[q] = "mark"
               PROVE  current'[q] \in Event /\ copies'[current'[q]] > 0
    BY DEF AcknowledgedFirst
  <2>1. CASE q = p
    BY <2>1, <1>1, <1>2 DEF Acknowledged
  <2>2. CASE q # p
    <3>1. pc[q] = "mark" /\ current'[q] = current[q]
      BY <2>2 DEF Acknowledged, IndInv, TypeOK
    <3>2. current[q] \in Event /\ copies[current[q]] > 0
      BY <3>1 DEF IndInv, AcknowledgedFirst
    <3>3. copies[current[q]] \in Nat /\ copies'[current[q]] \in Nat
      BY <3>2, <1>2 DEF IndInv, TypeOK
    <3> QED BY <3>1, <3>2, <3>3, <1>2
  <2> QED BY <2>1, <2>2
<1> QED BY <1>3, <1>4, <1>5 DEF IndInv

\* Published and Failed write the current row, if the token is still theirs.
LEMMA PublishedStep ==
    ASSUME IndInv, NEW p \in Publisher, Published(p)
    PROVE  IndInv'
<1> DEFINE c == current[p]
<1>1. c \in Event /\ copies[c] > 0 /\ row[c] \in Row
  BY DEF Published, IndInv, AcknowledgedFirst, TypeOK
<1>2. row' = IF Owned(p) THEN [row EXCEPT ![c] = MarkedRow(row[c])] ELSE row
  BY DEF Published
<1>3. row' \in [Event -> Row]
  BY <1>1, <1>2, MarkedRowType DEF IndInv, TypeOK
<1>4. TypeOK'
  BY <1>3, NoneAssumption DEF Published, NextRecord, IndInv, TypeOK
<1>5. AcknowledgedFirst'
  BY DEF Published, NextRecord, IndInv, TypeOK, AcknowledgedFirst
<1>6. PublishedWasAcknowledged'
  BY <1>1, <1>2 DEF Published, IndInv, TypeOK, PublishedWasAcknowledged
<1>7. LeaseInvariant'
  <2> SUFFICES ASSUME NEW e \in Event
               PROVE  /\ row'[e].lease_token # None =>
                            row'[e].status = "stored" /\ ~ row'[e].waiting
                      /\ row'[e].waiting => row'[e].status = "stored"
    BY DEF LeaseInvariant
  <2>1. CASE Owned(p) /\ e = c
    <3>1. ~ row[c].waiting
      BY <2>1, <1>1, NoneAssumption DEF Owned, IndInv, TypeOK, LeaseInvariant
    <3>2. row'[e] = MarkedRow(row[c])
      BY <2>1, <1>1, <1>2 DEF IndInv, TypeOK
    <3>3. row'[e].lease_token = None /\ row'[e].waiting = row[c].waiting
      BY <3>2, <1>1, MarkedRowType
    <3> QED BY <3>1, <3>3
  <2>2. CASE ~ (Owned(p) /\ e = c)
    <3>1. row'[e] = row[e]
      BY <2>2, <1>1, <1>2 DEF IndInv, TypeOK
    <3> QED BY <3>1 DEF IndInv, LeaseInvariant
  <2> QED BY <2>1, <2>2
<1> QED BY <1>4, <1>5, <1>6, <1>7 DEF IndInv

LEMMA FailedStep ==
    ASSUME IndInv, NEW p \in Publisher, Failed(p)
    PROVE  IndInv'
<1> DEFINE c == current[p]
<1>1. c \in Event /\ row[c] \in Row
  BY DEF Failed, IndInv, TypeOK
<1>2. row' = IF Owned(p) THEN [row EXCEPT ![c] = PutOffRow(row[c])] ELSE row
  BY DEF Failed
<1>3. row' \in [Event -> Row] /\ \A e \in Event : row'[e].status = row[e].status
  BY <1>1, <1>2, PutOffRowType DEF IndInv, TypeOK
<1>4. TypeOK'
  BY <1>3, NoneAssumption DEF Failed, NextRecord, IndInv, TypeOK
<1>5. AcknowledgedFirst'
  BY DEF Failed, NextRecord, IndInv, TypeOK, AcknowledgedFirst
<1>6. PublishedWasAcknowledged'
  BY <1>3 DEF Failed, IndInv, PublishedWasAcknowledged
<1>7. LeaseInvariant'
  <2> SUFFICES ASSUME NEW e \in Event
               PROVE  /\ row'[e].lease_token # None =>
                            row'[e].status = "stored" /\ ~ row'[e].waiting
                      /\ row'[e].waiting => row'[e].status = "stored"
    BY DEF LeaseInvariant
  <2>1. CASE Owned(p) /\ e = c
    <3>1. row[c].status = "stored"
      BY <2>1, <1>1, NoneAssumption DEF Owned, IndInv, TypeOK, LeaseInvariant
    <3>2. row'[e] = PutOffRow(row[c])
      BY <2>1, <1>1, <1>2 DEF IndInv, TypeOK
    <3>3. row'[e].lease_token = None /\ row'[e].status = "stored"
      BY <3>1, <3>2, <1>1, PutOffRowType
    <3> QED BY <3>3
  <2>2. CASE ~ (Owned(p) /\ e = c)
    <3>1. row'[e] = row[e]
      BY <2>2, <1>1, <1>2 DEF IndInv, TypeOK
    <3> QED BY <3>1 DEF IndInv, LeaseInvariant
  <2> QED BY <2>1, <2>2
<1> QED BY <1>4, <1>5, <1>6, <1>7 DEF IndInv

LEMMA ClockStep ==
    ASSUME IndInv, NEW e \in Event, LeaseExpires(e) \/ BackoffElapses(e)
    PROVE  IndInv'
<1>1. row[e] \in Row
  BY DEF IndInv, TypeOK
<1>2. /\ row' \in [Event -> Row]
      /\ \A f \in Event : /\ row'[f].status = row[f].status
                          /\ row'[f].lease_token = row[f].lease_token
                          /\ row'[f].waiting => row[f].waiting
  <2>1. CASE LeaseExpires(e)
    BY <2>1, <1>1, ExpiredRowType DEF LeaseExpires, IndInv, TypeOK
  <2>2. CASE BackoffElapses(e)
    BY <2>2, <1>1, AwakeRowType DEF BackoffElapses, IndInv, TypeOK
  <2> QED BY <2>1, <2>2
<1>3. UNCHANGED <<copies, queued, local, serial>> /\ faults' \in 0..MaxFaults
  BY FaultAssumption DEF LeaseExpires, BackoffElapses, IndInv, TypeOK
<1>4. TypeOK'
  BY <1>2, <1>3 DEF local, IndInv, TypeOK
<1>5. AcknowledgedFirst'
  BY <1>3 DEF local, IndInv, AcknowledgedFirst
<1>6. PublishedWasAcknowledged'
  BY <1>2, <1>3 DEF IndInv, PublishedWasAcknowledged
<1>7. LeaseInvariant'
  BY <1>2 DEF IndInv, LeaseInvariant
<1> QED BY <1>4, <1>5, <1>6, <1>7 DEF IndInv

LEMMA NextIndInv == IndInv /\ [Next]_vars => IndInv'
<1> SUFFICES ASSUME IndInv, [Next]_vars PROVE IndInv'
  OBVIOUS
<1>1. ASSUME NEW e \in Event, Insert(e) \/ LateDelivery(e) PROVE IndInv'
  BY <1>1, InsertStep, LateDeliveryStep
<1>2. ASSUME NEW p \in Publisher,
             Step(p) \/ SendFails(p) \/ PublishedFails(p) \/ Crash(p) \/ Stop(p)
      PROVE  IndInv'
  BY <1>2, LeaseStep, QuietStep, AcknowledgedStep, PublishedStep, FailedStep DEF Step
<1>3. CASE Clock
  BY <1>3, ClockStep DEF Clock
<1>4. CASE UNCHANGED vars
  BY <1>4 DEF vars, IndInv, TypeOK, AcknowledgedFirst, PublishedWasAcknowledged, LeaseInvariant
<1> QED BY <1>1, <1>2, <1>3, <1>4 DEF Next

\* The table, the topic and the publishers keep IndInv: lease and backoff state
\* only on stored rows, and an acknowledged copy before every mark.
THEOREM Invariance == Spec => []IndInv
<1> QED BY InitIndInv, NextIndInv, PTL DEF Spec

\* OutboxPublisher never marks a record published before the broker has
\* acknowledged a copy of it.
THEOREM OnlyAcknowledged == Spec => []PublishedWasAcknowledged
<1>1. IndInv => PublishedWasAcknowledged
  BY DEF IndInv
<1> QED BY <1>1, Invariance, PTL

\* The rows of scheduler_outbox and the publishers' memory stay well typed.
THEOREM TypeCorrect == Spec => []TypeOK
<1>1. IndInv => TypeOK
  BY DEF IndInv
<1> QED BY <1>1, Invariance, PTL

-----------------------------------------------------------------------------
\* What a step may do to a row: nothing, insert it, lease it, let time pass, or
\* write it as the publisher whose token it carries.
LEMMA RowMoves ==
    ASSUME IndInv, [Next]_vars, NEW e \in Event
    PROVE  \/ row'[e] = row[e]
           \/ row[e].status = "absent"
           \/ row[e].status = "stored" /\ (row[e].lease_token = None \/ row[e].expired)
           \/ row[e].status = "stored" /\ row'[e].lease_token = row[e].lease_token
           \/ /\ row[e].status = "stored"
              /\ \E p \in Publisher : current[p] = e /\ Owned(p)
<1>1. ASSUME NEW f \in Event, Insert(f) \/ LateDelivery(f)
      PROVE  row'[e] = row[e] \/ row[e].status = "absent"
  BY <1>1 DEF Insert, LateDelivery, IndInv, TypeOK
<1>2. ASSUME NEW p \in Publisher, Lease(p)
      PROVE  \/ row'[e] = row[e]
             \/ row[e].status = "stored" /\ (row[e].lease_token = None \/ row[e].expired)
  BY <1>2 DEF Lease, Batches, Due
<1>3. ASSUME NEW p \in Publisher, Published(p) \/ Failed(p)
      PROVE  \/ row'[e] = row[e]
             \/ row[e].status = "stored" /\ current[p] = e /\ Owned(p)
  <2>1. row'[e] = row[e] \/ (current[p] = e /\ Owned(p))
    <3>1. CASE Owned(p) /\ current[p] # e
      BY <1>3, <3>1 DEF Published, Failed, Owned, IndInv, TypeOK
    <3>2. CASE ~ Owned(p)
      BY <1>3, <3>2 DEF Published, Failed, Owned
    <3> QED BY <3>1, <3>2
  <2>2. ASSUME current[p] = e, Owned(p) PROVE row[e].status = "stored"
    BY <2>2, NoneAssumption DEF Owned, IndInv, TypeOK, LeaseInvariant
  <2> QED BY <2>1, <2>2
<1>4. ASSUME NEW p \in Publisher,
             \/ Pick(p) \/ EndBatch(p) \/ Acknowledged(p) \/ Restart(p)
             \/ SendFails(p) \/ PublishedFails(p) \/ Crash(p) \/ Stop(p)
      PROVE  row' = row
  BY <1>4 DEF Pick, EndBatch, Acknowledged, Restart, SendFails, PublishedFails, Crash, Stop
<1>5. ASSUME NEW f \in Event, LeaseExpires(f)
      PROVE  \/ row'[e] = row[e]
             \/ row[e].status = "stored" /\ row'[e].lease_token = row[e].lease_token
  <2>1. row[f] \in Row /\ row[f].status = "stored"
    BY <1>5 DEF LeaseExpires, IndInv, TypeOK, LeaseInvariant
  <2> QED BY <1>5, <2>1, ExpiredRowType DEF LeaseExpires, IndInv, TypeOK
<1>6. ASSUME NEW f \in Event, BackoffElapses(f)
      PROVE  \/ row'[e] = row[e]
             \/ row[e].status = "stored" /\ row'[e].lease_token = row[e].lease_token
  <2>1. row[f] \in Row /\ row[f].status = "stored"
    BY <1>6 DEF BackoffElapses, IndInv, TypeOK, LeaseInvariant
  <2> QED BY <1>6, <2>1, AwakeRowType DEF BackoffElapses, IndInv, TypeOK
<1>7. CASE UNCHANGED vars
  BY <1>7 DEF vars
<1> QED BY <1>1, <1>2, <1>3, <1>4, <1>5, <1>6, <1>7 DEF Next, Step, Clock

\* Once _published has committed, no publisher, however late, changes the row.
LEMMA PublishedStays ==
    ASSUME IndInv, [Next]_vars
    PROVE  PublishedIsFinal
BY RowMoves DEF PublishedIsFinal

\* The lease token fences _published and _failed: a lease that has not expired
\* is ended by the publisher that holds it and by no other.
LEMMA TokenFences ==
    ASSUME IndInv, [Next]_vars
    PROVE  LeaseEndsWithItsHolder
<1> SUFFICES ASSUME NEW e \in Event,
                    row[e].lease_token # None, ~ row[e].expired,
                    row'[e].lease_token # row[e].lease_token
             PROVE  \E p \in Publisher : Holds(p, e) /\ current[p] = e
  BY DEF LeaseEndsWithItsHolder
<1>1. row[e].status = "stored"
  BY DEF IndInv, LeaseInvariant
<1>2. PICK p \in Publisher : current[p] = e /\ Owned(p)
  BY <1>1, RowMoves
<1>3. Holds(p, e)
  BY <1>2 DEF Owned, Holds
<1> QED BY <1>2, <1>3

\* The conditions of _published and _failed keep every late publisher out: no
\* live lease is ended by another publisher and no published row changes.
THEOREM RowsFenced == Spec => RowsAreFenced
<1>1. IndInv /\ [Next]_vars => [LeaseEndsWithItsHolder /\ PublishedIsFinal]_vars
  BY PublishedStays, TokenFences
<1> QED BY <1>1, Invariance, PTL DEF Spec, RowsAreFenced

-----------------------------------------------------------------------------
(* Copies and faults. *)

\* p will still hand e to the producer.
Sends(p, e) == e \in batch[p] \/ (current[p] = e /\ pc[p] = "send")

Senders(e) == {p \in Publisher : Sends(p, e)}

\* p holds the lease, and sends e or is about to mark it.
Serves(p, e) ==
    /\ Holds(p, e) /\ ~ row[e].expired
    /\ (Sends(p, e) \/ (current[p] = e /\ pc[p] = "mark"))

One(condition) == IF condition THEN 1 ELSE 0

\* Whether e may be leased anew although no further fault happens.
Open(e) == One(row[e].status # "published" /\ ~ \E p \in Publisher : Serves(p, e))

\* The copies of e that there are, and those that no further fault is needed for.
Weight(e) == copies[e] + One(e \in queued) + Cardinality(Senders(e)) + Open(e)

\* Tokens tell batches apart, and an idle publisher has none.
TokenInv ==
    /\ \A p \in Publisher : pc[p] \in {"idle", "stopped"} => batch[p] = {}
    /\ \A p \in Publisher : current[p] \notin batch[p]
    /\ \A p \in Publisher : token[p] <= serial
    /\ \A p \in Publisher, q \in Publisher : p # q => token[p] # token[q] \/ token[p] = 0
    /\ \A e \in Event : row[e].lease_token # 0

\* A fault may add one copy of e, or one more lease of it; the first copy is free.
CopyInv == \A e \in Event : Weight(e) <= 1 + faults

\* The step is that of p: the other publishers stay where they are.
StepOf(p) ==
    \A q \in Publisher \ {p} :
        /\ pc'[q] = pc[q] /\ batch'[q] = batch[q]
        /\ current'[q] = current[q] /\ token'[q] = token[q]

\* The number of senders changes with p alone.
LEMMA SendersMove ==
    ASSUME NEW p \in Publisher, StepOf(p), NEW e \in Event
    PROVE  /\ Cardinality(Senders(e)) \in Nat /\ Cardinality(Senders(e)') \in Nat
           /\ Cardinality(Senders(e)') + One(Sends(p, e))
                 = Cardinality(Senders(e)) + One(Sends(p, e)')
<1>1. IsFiniteSet(Senders(e)) /\ IsFiniteSet(Senders(e)')
  <2>1. Senders(e) \subseteq Publisher /\ Senders(e)' \subseteq Publisher
    BY DEF Senders
  <2> QED BY <2>1, PublisherAssumption, FS_Subset
<1>2. Cardinality(Senders(e)) \in Nat /\ Cardinality(Senders(e)') \in Nat
  BY <1>1, FS_CardinalityType
<1>3. \A q \in Publisher \ {p} : Sends(q, e)' <=> Sends(q, e)
  BY DEF StepOf, Sends
<1>4. (p \in Senders(e) <=> Sends(p, e)) /\ (p \in Senders(e)' <=> Sends(p, e)')
  BY DEF Senders
<1>5. CASE Sends(p, e) <=> Sends(p, e)'
  <2>1. Senders(e)' = Senders(e)
    BY <1>3, <1>5 DEF Senders
  <2> QED BY <2>1, <1>2, <1>5 DEF One
<1>6. CASE Sends(p, e) /\ ~ Sends(p, e)'
  <2>1. Senders(e)' = Senders(e) \ {p}
    BY <1>3, <1>6 DEF Senders
  <2> QED BY <2>1, <1>1, <1>2, <1>4, <1>6, FS_RemoveElement DEF One
<1>7. CASE ~ Sends(p, e) /\ Sends(p, e)'
  <2>1. Senders(e)' = Senders(e) \cup {p}
    BY <1>3, <1>7 DEF Senders
  <2> QED BY <2>1, <1>1, <1>2, <1>4, <1>7, FS_AddElement DEF One
<1> QED BY <1>5, <1>6, <1>7

\* A row that the step leaves alone is not opened, unless p served it.
LEMMA OpenMoves ==
    ASSUME NEW p \in Publisher, StepOf(p), NEW e \in Event, row'[e] = row[e],
           Serves(p, e) => Serves(p, e)'
    PROVE  Open(e)' <= Open(e)
<1>1. \A q \in Publisher \ {p} : Serves(q, e)' <=> Serves(q, e)
  BY DEF StepOf, Serves, Holds, Sends
<1>2. (\E q \in Publisher : Serves(q, e)) => (\E q \in Publisher : Serves(q, e)')
  BY <1>1
<1> QED BY <1>2 DEF Open, One

LEMMA OpenType == \A e \in Event : Open(e) \in {0, 1} /\ Open(e)' \in {0, 1}
BY DEF Open, One

\* A step of p keeps within the bound, if it does for p.
LEMMA WeightMoves ==
    ASSUME IndInv, CopyInv, NEW p \in Publisher, StepOf(p), NEW e \in Event,
           copies'[e] \in Nat, faults' \in Nat,
           copies'[e] + One((e \in queued)') + One(Sends(p, e)') + Open(e)' + faults
              <= copies[e] + One(e \in queued) + One(Sends(p, e)) + Open(e) + faults'
    PROVE  Weight(e)' <= 1 + faults'
<1>1. copies[e] \in Nat /\ faults \in Nat
  BY FaultAssumption DEF IndInv, TypeOK
<1>2. Open(e) \in {0, 1} /\ Open(e)' \in {0, 1}
  BY OpenType
<1>3. /\ Cardinality(Senders(e)) \in Nat /\ Cardinality(Senders(e)') \in Nat
      /\ Cardinality(Senders(e)') + One(Sends(p, e))
            = Cardinality(Senders(e)) + One(Sends(p, e)')
  BY SendersMove
<1>4. /\ One(e \in queued) \in Nat /\ One((e \in queued)') \in Nat
      /\ One(Sends(p, e)) \in Nat /\ One(Sends(p, e)') \in Nat
  BY DEF One
<1>5. Weight(e) = copies[e] + One(e \in queued) + Cardinality(Senders(e)) + Open(e)
  BY DEF Weight
<1>6. Weight(e)' = copies'[e] + One((e \in queued)') + Cardinality(Senders(e)') + Open(e)'
  BY DEF Weight
<1>7. Weight(e) <= 1 + faults
  BY DEF CopyInv
<1> QED BY <1>1, <1>2, <1>3, <1>4, <1>5, <1>6, <1>7

-----------------------------------------------------------------------------
LEMMA InitCopyInv == Init => TokenInv /\ CopyInv
<1> SUFFICES ASSUME Init PROVE TokenInv /\ CopyInv
  OBVIOUS
<1>1. TokenInv
  <2>1. \A e \in Event : row[e].lease_token # 0
    <3>1. None # 0
      BY NoneAssumption
    <3>2. \A e \in Event : row[e].lease_token = None
      BY AbsentRowType DEF Init
    <3> QED BY <3>1, <3>2
  <2>2. \A p \in Publisher : batch[p] = {} /\ token[p] = 0 /\ serial = 0
    BY DEF Init
  <2> QED BY <2>1, <2>2 DEF TokenInv
<1>2. ASSUME NEW e \in Event PROVE Weight(e) <= 1 + faults
  <2>1. Senders(e) = {}
    BY NoneAssumption DEF Init, Senders, Sends
  <2>2. Cardinality(Senders(e)) = 0
    BY <2>1, FS_EmptySet
  <2>3. copies[e] = 0 /\ e \notin queued /\ faults = 0
    BY DEF Init
  <2>4. Open(e) \in {0, 1}
    BY OpenType
  <2> QED BY <2>2, <2>3, <2>4 DEF Weight, One
<1> QED BY <1>1, <1>2 DEF CopyInv

\* Steps that draw no token.
LEMMA TokenKept ==
    ASSUME IndInv, TokenInv, [Next]_vars, token' = token, serial' = serial
    PROVE  TokenInv'
<1>1. \A p \in Publisher : pc'[p] \in {"idle", "stopped"} => batch'[p] = {}
  <2>1. ASSUME NEW q \in Publisher, Step(q) \/ SendFails(q) \/ PublishedFails(q) \/ Crash(q) \/ Stop(q)
        PROVE  \A p \in Publisher : pc'[p] \in {"idle", "stopped"} => batch'[p] = {}
    BY <2>1 DEF Step, Lease, Pick, EndBatch, Acknowledged, Published, Failed, NextRecord, Restart,
                SendFails, PublishedFails, Crash, Stop, Abandon, TokenInv, IndInv, TypeOK
  <2>2. CASE UNCHANGED local
    BY <2>2 DEF local, TokenInv
  <2> QED BY <2>1, <2>2 DEF Next, Insert, LateDelivery, Clock, LeaseExpires, BackoffElapses, vars, local
<1>2. \A p \in Publisher : current'[p] \notin batch'[p]
  <2>1. ASSUME NEW q \in Publisher, Step(q) \/ SendFails(q) \/ PublishedFails(q) \/ Crash(q) \/ Stop(q)
        PROVE  \A p \in Publisher : current'[p] \notin batch'[p]
    <3>1. ASSUME NEW p \in Publisher \ {q} PROVE current'[p] = current[p] /\ batch'[p] = batch[p]
      BY <2>1, <3>1 DEF Step, Lease, Pick, EndBatch, Acknowledged, Published, Failed, NextRecord,
                        Restart, SendFails, PublishedFails, Crash, Stop, Abandon, IndInv, TypeOK
    <3>2. current'[q] \notin batch'[q]
      <4>1. batch'[q] \subseteq Event
        BY <2>1, NextIndInv DEF IndInv, TypeOK
      <4>2. CASE current'[q] = None
        BY <4>1, <4>2, NoneAssumption
      <4>3. CASE current'[q] # None
        BY <2>1, <4>3 DEF Step, Lease, Pick, EndBatch, Acknowledged, Published, Failed, NextRecord,
              Restart, SendFails, PublishedFails, Crash, Stop, Abandon, TokenInv, IndInv, TypeOK
      <4> QED BY <4>2, <4>3
    <3> QED BY <3>1, <3>2 DEF TokenInv
  <2>2. CASE UNCHANGED local
    BY <2>2 DEF local, TokenInv
  <2> QED BY <2>1, <2>2 DEF Next, Insert, LateDelivery, Clock, LeaseExpires, BackoffElapses, vars, local
<1>3. ASSUME NEW e \in Event PROVE row'[e].lease_token # 0
  <2>0. row[e] \in Row /\ row[e].lease_token # 0 /\ None # 0
    BY NoneAssumption DEF IndInv, TypeOK, TokenInv
  <2>1. ASSUME NEW f \in Event, Insert(f) \/ LateDelivery(f) PROVE row'[e].lease_token # 0
    <3>1. row'[e] = row[e] \/ row'[e] = NewRow
      BY <2>1 DEF Insert, LateDelivery, IndInv, TypeOK
    <3> QED BY <3>1, <2>0, NewRowType
  <2>2. ASSUME NEW f \in Event, LeaseExpires(f) \/ BackoffElapses(f) PROVE row'[e].lease_token # 0
    <3>1. row'[e].lease_token = row[e].lease_token
      <4>1. CASE LeaseExpires(f)
        <5>1. row'[e] = row[e] \/ row'[e] = [row[e] EXCEPT !.expired = TRUE]
          BY <4>1 DEF LeaseExpires, IndInv, TypeOK
        <5> QED BY <5>1, <2>0, ExpiredRowType
      <4>2. CASE BackoffElapses(f)
        <5>1. row'[e] = row[e] \/ row'[e] = [row[e] EXCEPT !.waiting = FALSE]
          BY <4>2 DEF BackoffElapses, IndInv, TypeOK
        <5> QED BY <5>1, <2>0, AwakeRowType
      <4> QED BY <2>2, <4>1, <4>2
    <3> QED BY <3>1, <2>0
  <2>3. ASSUME NEW q \in Publisher, Published(q) \/ Failed(q) PROVE row'[e].lease_token # 0
    <3>1. \/ row'[e] = row[e] \/ row'[e] = MarkedRow(row[e]) \/ row'[e] = PutOffRow(row[e])
      BY <2>3 DEF Published, Failed, IndInv, TypeOK
    <3> QED BY <3>1, <2>0, MarkedRowType, PutOffRowType
  <2>4. ASSUME NEW q \in Publisher, Lease(q) PROVE FALSE
    BY <2>4 DEF Lease, IndInv, TypeOK
  <2>5. CASE row' = row
    BY <2>0, <2>5
  <2> QED BY <2>1, <2>2, <2>3, <2>4, <2>5 DEF Next, Step, Pick, EndBatch, Acknowledged, Restart,
              SendFails, PublishedFails, Crash, Stop, Clock, vars
<1> QED BY <1>1, <1>2, <1>3 DEF TokenInv

\* _lease draws a token that no publisher and no row has.
LEMMA TokenDrawn ==
    ASSUME IndInv, TokenInv, NEW p \in Publisher, Lease(p)
    PROVE  TokenInv'
<1>1. serial \in Nat /\ serial' = serial + 1 /\ token' = [token EXCEPT ![p] = serial + 1]
  BY DEF Lease, IndInv, TypeOK
<1>2. \A q \in Publisher : token[q] \in Nat /\ token[q] <= serial
  BY DEF IndInv, TypeOK, TokenInv
<1>3. \A q \in Publisher : token'[q] = IF q = p THEN serial + 1 ELSE token[q]
  BY <1>1 DEF IndInv, TypeOK
<1>4. \A q \in Publisher : token'[q] <= serial'
  BY <1>1, <1>2, <1>3
<1>5. \A q \in Publisher, r \in Publisher : q # r => token'[q] # token'[r] \/ token'[q] = 0
  BY <1>1, <1>2, <1>3 DEF TokenInv
<1>6. pc'[p] = "batch" /\ current'[p] = None
  BY DEF Lease, IndInv, TypeOK
<1>7. \A q \in Publisher \ {p} : pc'[q] = pc[q] /\ batch'[q] = batch[q] /\ current'[q] = current[q]
  BY DEF Lease, IndInv, TypeOK
<1>8. batch'[p] \subseteq Event
  BY NextIndInv DEF Next, Step, IndInv, TypeOK
<1>9. \A q \in Publisher : current'[q] \notin batch'[q]
  BY <1>6, <1>7, <1>8, NoneAssumption DEF TokenInv
<1>10. \A q \in Publisher : pc'[q] \in {"idle", "stopped"} => batch'[q] = {}
  BY <1>6, <1>7 DEF TokenInv
<1>11. ASSUME NEW e \in Event PROVE row'[e].lease_token # 0
  <2>1. row[e] \in Row /\ row[e].lease_token # 0
    BY DEF IndInv, TypeOK, TokenInv
  <2>2. row'[e] = row[e] \/ row'[e] = Leased(row[e], serial + 1)
    BY DEF Lease
  <2>3. Leased(row[e], serial + 1).lease_token = serial + 1
    BY <2>1 DEF Leased, Row
  <2> QED BY <2>1, <2>2, <2>3, <1>1
<1> QED BY <1>4, <1>5, <1>9, <1>10, <1>11 DEF TokenInv

-----------------------------------------------------------------------------
(* The weight of an event after each kind of step. *)

\* What is not a step of a publisher: an insertion, a late delivery, time.
LEMMA LocalWeight ==
    ASSUME IndInv, TokenInv, CopyInv, UNCHANGED local, NEW e \in Event,
           copies'[e] \in Nat, faults' \in Nat,
           copies'[e] + One((e \in queued)') + Open(e)' + faults
              <= copies[e] + One(e \in queued) + Open(e) + faults'
    PROVE  Weight(e)' <= 1 + faults'
<1>1. Senders(e)' = Senders(e)
  BY DEF local, Senders, Sends
<1>2. IsFiniteSet(Senders(e))
  BY PublisherAssumption, FS_Subset DEF Senders
<1>3. Cardinality(Senders(e)) \in Nat /\ Cardinality(Senders(e)') = Cardinality(Senders(e))
  BY <1>1, <1>2, FS_CardinalityType
<1>4. copies[e] \in Nat /\ faults \in Nat
  BY FaultAssumption DEF IndInv, TypeOK
<1>5. Open(e) \in {0, 1} /\ Open(e)' \in {0, 1}
  BY OpenType
<1>6. One(e \in queued) \in Nat /\ One((e \in queued)') \in Nat
  BY DEF One
<1>7. Weight(e) = copies[e] + One(e \in queued) + Cardinality(Senders(e)) + Open(e)
  BY DEF Weight
<1>8. Weight(e)' = copies'[e] + One((e \in queued)') + Cardinality(Senders(e)') + Open(e)'
  BY DEF Weight
<1>9. Weight(e) <= 1 + faults
  BY DEF CopyInv
<1> QED BY <1>3, <1>4, <1>5, <1>6, <1>7, <1>8, <1>9

\* Whether e is open depends on its lease and on the publishers.
LEMMA OpenSame ==
    ASSUME UNCHANGED local, NEW e \in Event,
           row'[e].status = row[e].status, row'[e].lease_token = row[e].lease_token,
           row'[e].expired <=> row[e].expired
    PROVE  Open(e)' = Open(e)
<1>1. \A q \in Publisher : Serves(q, e)' <=> Serves(q, e)
  BY DEF local, Serves, Holds, Sends
<1> QED BY <1>1 DEF Open, One

\* A row that carries no token, or the token of a batch that is over, is open.
LEMMA OpenIfUnserved ==
    ASSUME NEW e \in Event, row[e].status # "published", \A q \in Publisher : ~ Serves(q, e)
    PROVE  Open(e) = 1
BY DEF Open, One

LEMMA InsertWeight ==
    ASSUME IndInv, TokenInv, CopyInv, NEW f \in Event, Insert(f), NEW e \in Event
    PROVE  Weight(e)' <= 1 + faults'
<1>1. copies' = copies /\ queued' = queued /\ faults' = faults /\ UNCHANGED local
  BY DEF Insert, local
<1>2. copies[e] \in Nat /\ faults \in Nat
  BY FaultAssumption DEF IndInv, TypeOK
<1>3. Open(e) \in {0, 1} /\ Open(e)' \in {0, 1}
  BY OpenType
<1>4. Open(e)' <= Open(e)
  <2>1. CASE e # f
    <3>1. row'[e] = row[e]
      BY <2>1 DEF Insert, IndInv, TypeOK
    <3> QED BY <3>1, <1>1, <1>3, OpenSame
  <2>2. CASE e = f
    <3>1. row[e].status = "absent" /\ row[e].lease_token = None
      BY <2>2 DEF Insert, IndInv, LeaseInvariant
    <3>2. \A q \in Publisher : ~ Serves(q, e)
      BY <3>1, NoneAssumption DEF Serves, Holds, IndInv, TypeOK
    <3> QED BY <3>1, <3>2, <1>3, OpenIfUnserved
  <2> QED BY <2>1, <2>2
<1>5. One((e \in queued)') = One(e \in queued) /\ One(e \in queued) \in Nat
  BY <1>1 DEF One
<1> QED BY <1>1, <1>2, <1>3, <1>4, <1>5, LocalWeight

LEMMA LateDeliveryWeight ==
    ASSUME IndInv, TokenInv, CopyInv, NEW f \in Event, LateDelivery(f), NEW e \in Event
    PROVE  Weight(e)' <= 1 + faults'
<1>1. row' = row /\ faults' = faults /\ UNCHANGED local
  BY DEF LateDelivery, local
<1>2. copies[e] \in Nat /\ faults \in Nat
  BY FaultAssumption DEF IndInv, TypeOK
<1>3. Open(e) \in {0, 1} /\ Open(e)' = Open(e)
  BY <1>1, OpenType, OpenSame
<1>4. copies'[e] \in Nat /\ copies'[e] + One((e \in queued)') = copies[e] + One(e \in queued)
  <2>1. CASE e = f
    BY <2>1, <1>2 DEF LateDelivery, One, IndInv, TypeOK
  <2>2. CASE e # f
    BY <2>2, <1>2 DEF LateDelivery, One, IndInv, TypeOK
  <2> QED BY <2>1, <2>2
<1>5. One(e \in queued) \in Nat /\ One((e \in queued)') \in Nat
  BY DEF One
<1> QED BY <1>1, <1>2, <1>3, <1>4, <1>5, LocalWeight

LEMMA ClockWeight ==
    ASSUME IndInv, TokenInv, CopyInv, NEW f \in Event, LeaseExpires(f) \/ BackoffElapses(f),
           NEW e \in Event
    PROVE  Weight(e)' <= 1 + faults'
<1>1. copies' = copies /\ queued' = queued /\ UNCHANGED local
  BY DEF LeaseExpires, BackoffElapses, local
<1>2. copies[e] \in Nat /\ faults \in Nat /\ faults' \in {faults, faults + 1}
  BY FaultAssumption DEF LeaseExpires, BackoffElapses, IndInv, TypeOK
<1>3. Open(e) \in {0, 1} /\ Open(e)' \in {0, 1}
  BY OpenType
<1>4. row[f] \in Row /\ row[e] \in Row
  BY DEF IndInv, TypeOK
<1>5. Open(e)' + faults <= Open(e) + faults'
  <2>1. CASE e # f \/ BackoffElapses(f)
    <3>1. /\ row'[e].status = row[e].status /\ row'[e].lease_token = row[e].lease_token
          /\ (row'[e].expired <=> row[e].expired)
      <4>1. CASE e # f
        <5>1. row'[e] = row[e]
          BY <4>1 DEF LeaseExpires, BackoffElapses, IndInv, TypeOK
        <5> QED BY <5>1
      <4>2. CASE e = f /\ BackoffElapses(f)
        <5>1. row'[e] = [row[e] EXCEPT !.waiting = FALSE]
          BY <4>2 DEF BackoffElapses, IndInv, TypeOK
        <5> QED BY <5>1, <1>4 DEF Row
      <4> QED BY <2>1, <4>1, <4>2
    <3>2. Open(e)' = Open(e)
      BY <3>1, <1>1, OpenSame
    <3> QED BY <3>2, <1>2, <1>3
  <2>2. CASE e = f /\ LeaseExpires(f) /\ \E p \in Publisher : Holds(p, e)
    <3>1. faults' = faults + 1
      BY <2>2 DEF LeaseExpires
    <3> QED BY <3>1, <1>2, <1>3
  <2>3. CASE e = f /\ LeaseExpires(f) /\ ~ \E p \in Publisher : Holds(p, e)
    <3>1. row[e].status = "stored"
      BY <2>3 DEF LeaseExpires, IndInv, LeaseInvariant
    <3>2. \A q \in Publisher : ~ Serves(q, e)
      BY <2>3 DEF Serves
    <3>3. Open(e) = 1
      BY <3>1, <3>2, OpenIfUnserved
    <3> QED BY <3>3, <1>2, <1>3
  <2> QED BY <2>1, <2>2, <2>3
<1>6. One((e \in queued)') = One(e \in queued) /\ One(e \in queued) \in Nat
  BY <1>1 DEF One
<1>7. copies'[e] \in Nat /\ faults' \in Nat
  BY <1>1, <1>2
<1> QED BY <1>1, <1>2, <1>3, <1>5, <1>6, <1>7, LocalWeight

LEMMA LeaseWeight ==
    ASSUME IndInv, TokenInv, CopyInv, NEW p \in Publisher, Lease(p), NEW e \in Event
    PROVE  Weight(e)' <= 1 + faults'
<1> PICK b \in Batches :
        /\ row' = [f \in Event |-> IF f \in b THEN Leased(row[f], serial + 1) ELSE row[f]]
        /\ batch' = [batch EXCEPT ![p] = b]
  BY DEF Lease
<1>1. StepOf(p) /\ copies' = copies /\ queued' = queued /\ faults' = faults
  BY DEF Lease, StepOf, IndInv, TypeOK
<1>2. copies[e] \in Nat /\ faults \in Nat
  BY FaultAssumption DEF IndInv, TypeOK
<1>3. Open(e) \in {0, 1} /\ Open(e)' \in {0, 1}
  BY OpenType
<1>4. batch[p] = {} /\ current[p] = None /\ ~ Sends(p, e)
  BY NoneAssumption DEF Lease, TokenInv, Sends, IndInv, TypeOK
<1>5. ~ Serves(p, e)
  BY <1>4, NoneAssumption DEF Serves, Holds
<1>6. current'[p] = None /\ batch'[p] = b /\ token'[p] = serial + 1
  BY <1>4 DEF Lease, IndInv, TypeOK
<1>7. Sends(p, e)' <=> e \in b
  BY <1>6, NoneAssumption DEF Sends
<1>8. One(Sends(p, e)') + Open(e)' <= One(Sends(p, e)) + Open(e)
  <2>1. CASE e \notin b
    <3>1. row'[e] = row[e]
      BY <2>1
    <3>2. Open(e)' <= Open(e)
      BY <3>1, <1>1, <1>5, OpenMoves
    <3> QED BY <3>2, <2>1, <1>3, <1>4, <1>7 DEF One
  <2>2. CASE e \in b
    <3>1. Due(e) /\ row[e] \in Row
      BY <2>2 DEF Batches, IndInv, TypeOK
    <3>2. \A q \in Publisher : ~ Serves(q, e)
      BY <3>1, NoneAssumption DEF Due, Serves, Holds, IndInv, TypeOK
    <3>3. Open(e) = 1
      BY <3>1, <3>2, OpenIfUnserved DEF Due
    <3>4. row'[e].lease_token = serial + 1 /\ ~ row'[e].expired
      BY <2>2, <3>1 DEF Leased, Row
    <3>5. Serves(p, e)'
      BY <3>4, <1>6, <1>7, <2>2 DEF Serves, Holds
    <3>6. Open(e)' = 0
      BY <3>5 DEF Open, One
    <3> QED BY <3>3, <3>6, <1>4, <1>7, <2>2 DEF One
  <2> QED BY <2>1, <2>2
<1>9. /\ One((e \in queued)') = One(e \in queued) /\ One(e \in queued) \in Nat
      /\ One(Sends(p, e)) \in Nat /\ One(Sends(p, e)') \in Nat
  BY <1>1 DEF One
<1> QED BY <1>1, <1>2, <1>3, <1>8, <1>9, WeightMoves

\* Steps without a fault that leave the rows, and whether p serves and sends e.
LEMMA StillWeight ==
    ASSUME IndInv, TokenInv, CopyInv, NEW p \in Publisher, NEW e \in Event, StepOf(p),
           Pick(p) \/ EndBatch(p) \/ Restart(p)
    PROVE  Weight(e)' <= 1 + faults'
<1>1. row' = row /\ copies' = copies /\ queued' = queued /\ faults' = faults /\ token' = token
  BY DEF Pick, EndBatch, Restart
<1>2. copies[e] \in Nat /\ faults \in Nat
  BY FaultAssumption DEF IndInv, TypeOK
<1>3. Open(e) \in {0, 1} /\ Open(e)' \in {0, 1}
  BY OpenType
<1>4. current[p] = None
  BY DEF Pick, EndBatch, Restart, IndInv, TypeOK
<1>5. Sends(p, e)' <=> Sends(p, e)
  <2>1. CASE Pick(p)
    <3>1. PICK f \in batch[p] : /\ current' = [current EXCEPT ![p] = f]
                                /\ batch' = [batch EXCEPT ![p] = batch[p] \ {f}]
      BY <2>1 DEF Pick
    <3>2. current'[p] = f /\ batch'[p] = batch[p] \ {f} /\ pc'[p] = "send"
      BY <2>1, <3>1 DEF Pick, IndInv, TypeOK
    <3> QED BY <3>1, <3>2, <1>4, NoneAssumption DEF Sends
  <2>2. CASE EndBatch(p) \/ Restart(p)
    BY <2>2, <1>4, NoneAssumption DEF EndBatch, Restart, Sends
  <2> QED BY <2>1, <2>2
<1>6. Serves(p, e) => Serves(p, e)'
  BY <1>1, <1>4, <1>5, NoneAssumption DEF Serves, Holds, Sends
<1>7. Open(e)' <= Open(e)
  BY <1>1, <1>6, OpenMoves
<1>8. One((e \in queued)') = One(e \in queued) /\ One(Sends(p, e)') = One(Sends(p, e))
  BY <1>1, <1>5 DEF One
<1>9. One(e \in queued) \in Nat /\ One(Sends(p, e)) \in Nat
  BY DEF One
<1> QED BY <1>1, <1>2, <1>3, <1>7, <1>8, <1>9, WeightMoves

LEMMA AcknowledgedWeight ==
    ASSUME IndInv, TokenInv, CopyInv, NEW p \in Publisher, Acknowledged(p), NEW e \in Event
    PROVE  Weight(e)' <= 1 + faults'
<1>1. /\ row' = row /\ queued' = queued /\ faults' = faults /\ token' = token
      /\ batch' = batch /\ current' = current /\ StepOf(p)
  BY DEF Acknowledged, StepOf, IndInv, TypeOK
<1>2. pc[p] = "send" /\ pc'[p] = "mark"
  BY DEF Acknowledged, IndInv, TypeOK
<1>3. current[p] \notin batch[p]
  BY DEF TokenInv
<1>4. Serves(p, e) => Serves(p, e)'
  BY <1>1, <1>2 DEF Serves, Holds, Sends
<1>5. Open(e)' <= Open(e)
  BY <1>1, <1>4, OpenMoves
<1>6. copies[e] \in Nat /\ faults \in Nat
  BY FaultAssumption DEF IndInv, TypeOK
<1>7. copies'[e] \in Nat /\ copies'[e] + One(Sends(p, e)') = copies[e] + One(Sends(p, e))
  <2>1. CASE e = current[p]
    <3>1. Sends(p, e) /\ ~ Sends(p, e)'
      BY <2>1, <1>1, <1>2, <1>3 DEF Sends
    <3>2. copies'[e] = copies[e] + 1
      BY <2>1 DEF Acknowledged, IndInv, TypeOK
    <3> QED BY <3>1, <3>2, <1>6 DEF One
  <2>2. CASE e # current[p]
    <3>1. Sends(p, e) <=> Sends(p, e)'
      BY <2>2, <1>1 DEF Sends
    <3>2. copies'[e] = copies[e]
      BY <2>2 DEF Acknowledged, IndInv, TypeOK
    <3> QED BY <3>1, <3>2, <1>6 DEF One
  <2> QED BY <2>1, <2>2
<1>8. Open(e) \in {0, 1} /\ Open(e)' \in {0, 1}
  BY OpenType
<1>9. /\ One((e \in queued)') = One(e \in queued) /\ One(e \in queued) \in Nat
      /\ One(Sends(p, e)) \in Nat /\ One(Sends(p, e)') \in Nat
  BY <1>1 DEF One
<1> QED BY <1>1, <1>5, <1>6, <1>7, <1>8, <1>9, WeightMoves

\* A fault of p: what it was sending may be delivered later, and e may be leased
\* anew.
LEMMA FaultWeight ==
    ASSUME IndInv, TokenInv, CopyInv, NEW p \in Publisher, NEW e \in Event, StepOf(p),
           SendFails(p) \/ PublishedFails(p) \/ Crash(p) \/ Stop(p)
    PROVE  Weight(e)' <= 1 + faults'
<1>1. copies' = copies /\ faults' = faults + 1
  BY DEF SendFails, PublishedFails, Crash, Stop
<1>2. copies[e] \in Nat /\ faults \in Nat
  BY FaultAssumption DEF IndInv, TypeOK
<1>3. Open(e) \in {0, 1} /\ Open(e)' \in {0, 1}
  BY OpenType
<1>4. current[p] \notin batch[p]
  BY DEF TokenInv
<1>5. Sends(p, e)' => Sends(p, e) /\ ~ (current[p] = e /\ pc[p] = "send")
  <2>1. CASE SendFails(p) \/ PublishedFails(p)
    <3>1. pc'[p] = "fail" /\ batch' = batch
      BY <2>1 DEF SendFails, PublishedFails, IndInv, TypeOK
    <3> QED BY <3>1, <1>4 DEF Sends
  <2>2. CASE Crash(p) \/ Stop(p)
    <3>1. batch'[p] = {} /\ pc'[p] # "send"
      BY <2>2 DEF Crash, Stop, Abandon, IndInv, TypeOK
    <3> QED BY <3>1 DEF Sends
  <2> QED BY <2>1, <2>2
<1>6. (e \in queued)' => e \in queued \/ (current[p] = e /\ pc[p] = "send")
  BY DEF SendFails, PublishedFails, Crash, Stop
<1>7. One((e \in queued)') + One(Sends(p, e)') <= One(e \in queued) + One(Sends(p, e))
  <2>1. CASE current[p] = e /\ pc[p] = "send"
    <3>1. Sends(p, e) /\ ~ Sends(p, e)'
      BY <2>1, <1>5 DEF Sends
    <3> QED BY <3>1 DEF One
  <2>2. CASE ~ (current[p] = e /\ pc[p] = "send")
    <3>1. ((e \in queued)' => e \in queued) /\ (Sends(p, e)' => Sends(p, e))
      BY <2>2, <1>5, <1>6
    <3> QED BY <3>1 DEF One
  <2> QED BY <2>1, <2>2
<1>8. /\ One((e \in queued)') \in Nat /\ One(e \in queued) \in Nat
      /\ One(Sends(p, e)) \in Nat /\ One(Sends(p, e)') \in Nat
  BY DEF One
<1> QED BY <1>1, <1>2, <1>3, <1>7, <1>8, WeightMoves

\* _published and _failed: the row of the record is closed, or put off by the
\* only publisher that held it.
LEMMA WrittenWeight ==
    ASSUME IndInv, TokenInv, CopyInv, NEW p \in Publisher, Published(p) \/ Failed(p),
           NEW e \in Event
    PROVE  Weight(e)' <= 1 + faults'
<1>1. /\ copies' = copies /\ queued' = queued /\ faults' = faults /\ token' = token
      /\ batch' = batch /\ StepOf(p)
  BY DEF Published, Failed, NextRecord, StepOf, IndInv, TypeOK
<1>2. copies[e] \in Nat /\ faults \in Nat
  BY FaultAssumption DEF IndInv, TypeOK
<1>3. Open(e) \in {0, 1} /\ Open(e)' \in {0, 1}
  BY OpenType
<1>4. /\ pc[p] \in {"mark", "fail"} /\ current[p] \in Event /\ current[p] \notin batch[p]
      /\ current'[p] = None /\ pc'[p] = "batch"
  BY DEF Published, Failed, NextRecord, TokenInv, IndInv, TypeOK
<1>5. Sends(p, e)' <=> Sends(p, e)
  BY <1>1, <1>4 DEF Sends
<1>6. Open(e)' <= Open(e)
  <2>1. CASE e # current[p]
    <3>1. row'[e] = row[e]
      BY <2>1, <1>4 DEF Published, Failed, IndInv, TypeOK
    <3>2. Serves(p, e) => Serves(p, e)'
      BY <2>1, <3>1, <1>1, <1>4, <1>5 DEF Serves, Holds
    <3> QED BY <3>1, <3>2, <1>1, OpenMoves
  <2>2. CASE e = current[p] /\ ~ Owned(p)
    <3>1. row'[e] = row[e]
      BY <2>2, <1>4 DEF Published, Failed, Owned
    <3>2. ~ Serves(p, e)
      BY <2>2 DEF Serves, Holds, Owned
    <3> QED BY <3>1, <3>2, <1>1, OpenMoves
  <2>3. CASE e = current[p] /\ Owned(p) /\ Published(p)
    <3>1. row'[e] = MarkedRow(row[e]) /\ row[e] \in Row
      BY <2>3, <1>4 DEF Published, IndInv, TypeOK
    <3>2. row'[e].status = "published"
      BY <3>1, MarkedRowType
    <3>3. Open(e)' = 0
      BY <3>2 DEF Open, One
    <3> QED BY <3>3, <1>3
  <2>4. CASE e = current[p] /\ Owned(p) /\ Failed(p)
    <3>1. pc[p] = "fail"
      BY <2>4 DEF Failed
    <3>2. row[e].lease_token = token[p] /\ token[p] \in Nat /\ row[e].lease_token # 0
      BY <2>4 DEF Owned, TokenInv, IndInv, TypeOK
    <3>3. row[e].status = "stored"
      BY <3>2, NoneAssumption DEF IndInv, LeaseInvariant
    <3>4. ASSUME NEW q \in Publisher PROVE ~ Serves(q, e)
      <4>1. CASE q = p
        BY <4>1, <2>4, <3>1, <1>4 DEF Serves, Sends
      <4>2. CASE q # p
        BY <4>2, <3>2 DEF Serves, Holds, TokenInv
      <4> QED BY <4>1, <4>2
    <3>5. Open(e) = 1
      BY <3>3, <3>4, OpenIfUnserved
    <3> QED BY <3>5, <1>3
  <2> QED BY <2>1, <2>2, <2>3, <2>4
<1>7. /\ One((e \in queued)') = One(e \in queued) /\ One(Sends(p, e)') = One(Sends(p, e))
      /\ One(e \in queued) \in Nat /\ One(Sends(p, e)) \in Nat
  BY <1>1, <1>5 DEF One
<1> QED BY <1>1, <1>2, <1>3, <1>6, <1>7, WeightMoves

LEMMA NextCopyInv == IndInv /\ TokenInv /\ CopyInv /\ [Next]_vars => TokenInv' /\ CopyInv'
<1> SUFFICES ASSUME IndInv, TokenInv, CopyInv, [Next]_vars PROVE TokenInv' /\ CopyInv'
  OBVIOUS
<1>1. TokenInv'
  <2>1. CASE token' = token /\ serial' = serial
    BY <2>1, TokenKept
  <2>2. ASSUME NEW p \in Publisher, Lease(p) PROVE TokenInv'
    BY <2>2, TokenDrawn
  <2> QED BY <2>1, <2>2 DEF Next, Step, Insert, LateDelivery, Pick, EndBatch, Acknowledged,
              Published, Failed, NextRecord, Restart, SendFails, PublishedFails, Crash, Stop, Abandon,
              Clock, LeaseExpires, BackoffElapses, local, vars
<1>2. ASSUME NEW e \in Event PROVE Weight(e)' <= 1 + faults'
  <2>1. ASSUME NEW f \in Event,
               Insert(f) \/ LateDelivery(f) \/ LeaseExpires(f) \/ BackoffElapses(f)
        PROVE  Weight(e)' <= 1 + faults'
    BY <2>1, InsertWeight, LateDeliveryWeight, ClockWeight
  <2>2. ASSUME NEW p \in Publisher, Lease(p) \/ Acknowledged(p) \/ Published(p) \/ Failed(p)
        PROVE  Weight(e)' <= 1 + faults'
    BY <2>2, LeaseWeight, AcknowledgedWeight, WrittenWeight
  <2>3. ASSUME NEW p \in Publisher, Pick(p) \/ EndBatch(p) \/ Restart(p)
        PROVE  Weight(e)' <= 1 + faults'
    <3>1. StepOf(p)
      BY <2>3 DEF StepOf, Pick, EndBatch, Restart, IndInv, TypeOK
    <3> QED BY <3>1, <2>3, StillWeight
  <2>4. ASSUME NEW p \in Publisher, SendFails(p) \/ PublishedFails(p) \/ Crash(p) \/ Stop(p)
        PROVE  Weight(e)' <= 1 + faults'
    <3>1. StepOf(p)
      BY <2>4 DEF StepOf, SendFails, PublishedFails, Crash, Stop, Abandon, IndInv, TypeOK
    <3> QED BY <3>1, <2>4, FaultWeight
  <2>5. CASE UNCHANGED vars
    <3>1. Weight(e)' = Weight(e) /\ faults' = faults
      BY <2>5 DEF vars, Weight, Open, Senders, Serves, Holds, Sends
    <3> QED BY <3>1 DEF CopyInv
  <2> QED BY <2>1, <2>2, <2>3, <2>4, <2>5 DEF Next, Step, Clock
<1> QED BY <1>1, <1>2 DEF CopyInv

\* The topic has no more copies of a record than one and one for every failed
\* send, crash, stop or lease that expired early, whoever published it.
THEOREM CopiesHaveFaults == Spec => []DuplicatesNeedFaults
<1>1. IndInv /\ CopyInv => DuplicatesNeedFaults
  <2> SUFFICES ASSUME IndInv, CopyInv, NEW e \in Event
               PROVE  copies[e] + (IF e \in queued THEN 1 ELSE 0) <= 1 + faults
    BY DEF DuplicatesNeedFaults
  <2>1. copies[e] \in Nat /\ faults \in Nat
    BY FaultAssumption DEF IndInv, TypeOK
  <2>2. IsFiniteSet(Senders(e))
    BY PublisherAssumption, FS_Subset DEF Senders
  <2>3. Cardinality(Senders(e)) \in Nat
    BY <2>2, FS_CardinalityType
  <2>4. Open(e) \in {0, 1}
    BY OpenType
  <2>5. Weight(e) = copies[e] + (IF e \in queued THEN 1 ELSE 0) + Cardinality(Senders(e)) + Open(e)
    BY DEF Weight, One
  <2>6. Weight(e) <= 1 + faults
    BY DEF CopyInv
  <2> QED BY <2>1, <2>3, <2>4, <2>5, <2>6
<1> QED BY <1>1, InitIndInv, NextIndInv, InitCopyInv, NextCopyInv, PTL DEF Spec
=============================================================================

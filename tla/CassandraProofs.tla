--------------------------- MODULE CassandraProofs ---------------------------
(****************************************************************************)
(* What apply_once guarantees for any number of jobs, records, overlapping  *)
(* executions and attempts, with writes that take effect late or never.     *)
(****************************************************************************)
EXTENDS CassandraUpdate, TLAPS

\* The c-th update of the record of o is that of o.
IsUpdate(o, c) ==
    c \in 1..Len(history[Selected[o]]) /\ history[Selected[o]][c] = o

\* A write of o conditional on the checksum c was not decided on a row that o
\* had changed last.
Fresh(o, c) ==
    /\ c <= record[Selected[o]].checksum
    /\ c = record[Selected[o]].checksum => record[Selected[o]].last # o

ExecutionInv(p) ==
    pc[p] # "idle" =>
        /\ local[p].selected <= record[Rec(p)].checksum
        /\ pc[p] \in {"find", "reserve", "finish", "reread"} => Fresh(local[p].op, local[p].selected)
        /\ pc[p] = "find" => local[p].checksum = local[p].state.checksum
        /\ pc[p] \in {"mark", "return"} => IsUpdate(local[p].op, local[p].checksum)

DoneInv == \A o \in done : \E i \in 1..Len(history[Selected[o]]) : history[Selected[o]][i] = o

IndInv ==
    /\ TypeOK
    /\ NoLostUpdate
    /\ NoImmediateRepeat
    /\ MarkerIsTrue
    /\ DoneInv
    /\ \A w \in inflight : Fresh(w.op, w.checksum)
    /\ \A p \in Proc : ExecutionInv(p)

\* The rows and histories only move forward.
Forward ==
    \A r \in Record :
        /\ record'[r].checksum \in Nat /\ record[r].checksum <= record'[r].checksum
        /\ record'[r].checksum = record[r].checksum => record'[r].last = record[r].last
        /\ Len(history[r]) <= Len(history'[r])
        /\ \A i \in 1..Len(history[r]) : history'[r][i] = history[r][i]

Database ==
    /\ record \in [Record -> Row] /\ history \in [Record -> Seq(Op)]
    /\ NoLostUpdate /\ NoImmediateRepeat

-----------------------------------------------------------------------------
(* The conditional updates. *)

LEMMA ReservedRowType ==
    ASSUME NEW row \in Row, NEW o \in Op
    PROVE  LET x == [row EXCEPT !.pending = o]
           IN  x \in Row /\ x.checksum = row.checksum /\ x.last = row.last
BY DEF Row

LEMMA FinishedRowType ==
    ASSUME NEW c \in Nat, NEW o \in Op
    PROVE  LET x == [checksum |-> c + 1, pending |-> None, last |-> o]
           IN  x \in Row /\ x.checksum = c + 1 /\ x.last = o
BY DEF Row

LEMMA NotEmpty ==
    ASSUME NEW s, NEW n \in Nat, Len(s) = n + 1
    PROVE  s # <<>>
<1>1. Len(<<>>) = 0
  OBVIOUS
<1>2. n + 1 # 0
  OBVIOUS
<1> QED BY <1>1, <1>2, Zenon

LEMMA StandStill ==
    ASSUME IndInv, UNCHANGED <<record, history>>
    PROVE  Forward /\ Database'
<1>1. \A r \in Record : record[r] \in Row /\ history[r] \in Seq(Op)
  BY DEF IndInv, TypeOK
<1>2. Forward
  BY <1>1 DEF Forward, Row
<1>3. Database'
  BY DEF Database, IndInv, TypeOK, NoLostUpdate, NoImmediateRepeat
<1> QED BY <1>2, <1>3

LEMMA ReserveForward ==
    ASSUME IndInv, NEW w \in Write, UNCHANGED history,
           record' = [record EXCEPT ![Selected[w.op]].pending = w.op]
    PROVE  Forward /\ Database'
<1> DEFINE r == Selected[w.op]
<1>1. w.op \in Op /\ r \in Record
  BY SelectedAssumption DEF Write
<1>2. record \in [Record -> Row] /\ history \in [Record -> Seq(Op)]
  BY DEF IndInv, TypeOK
<1>3. record'[r] = [record[r] EXCEPT !.pending = w.op]
      /\ \A q \in Record \ {r} : record'[q] = record[q]
  BY <1>1, <1>2
<1>4. record'[r] \in Row /\ record'[r].checksum = record[r].checksum /\ record'[r].last = record[r].last
  BY <1>1, <1>2, <1>3, ReservedRowType
<1>5. record' \in [Record -> Row]
  BY <1>1, <1>2, <1>4
<1> HIDE DEF r
<1>6. \A q \in Record : record'[q].checksum = record[q].checksum /\ record'[q].last = record[q].last
  BY <1>3, <1>4
<1>7. Forward
  BY <1>2, <1>5, <1>6 DEF Forward, Row
<1>8. NoLostUpdate'
  BY <1>6 DEF NoLostUpdate, IndInv
<1>9. NoImmediateRepeat'
  BY DEF NoImmediateRepeat, IndInv
<1> QED BY <1>2, <1>5, <1>7, <1>8, <1>9 DEF Database

LEMMA FinishForward ==
    ASSUME IndInv, NEW w \in Write, Fresh(w.op, w.checksum),
           record[Selected[w.op]].checksum = w.checksum,
           record' = [record EXCEPT ![Selected[w.op]] =
                         [checksum |-> w.checksum + 1, pending |-> None, last |-> w.op]],
           history' = [history EXCEPT ![Selected[w.op]] = Append(@, w.op)]
    PROVE  Forward /\ Database' /\ IsUpdate(w.op, w.checksum + 1)'
<1> DEFINE r == Selected[w.op]
           c == w.checksum
           h == history[r]
<1>1. w.op \in Op /\ c \in Nat /\ r \in Record
  BY SelectedAssumption DEF Write
<1>2. record \in [Record -> Row] /\ history \in [Record -> Seq(Op)]
  BY DEF IndInv, TypeOK
<1>3. /\ \A q \in Record \ {r} : record'[q] = record[q] /\ history'[q] = history[q]
      /\ record'[r] \in Row /\ record'[r].checksum = c + 1 /\ record'[r].last = w.op
      /\ history'[r] = Append(h, w.op)
  BY <1>1, <1>2, FinishedRowType
<1>4. record' \in [Record -> Row] /\ history' \in [Record -> Seq(Op)]
  BY <1>1, <1>2, FinishedRowType
<1>5. h \in Seq(Op) /\ Len(h) = c /\ (h # <<>> => h[Len(h)] # w.op)
  BY <1>1, <1>2 DEF IndInv, NoLostUpdate, Fresh
<1>6. /\ Len(history'[r]) = c + 1 /\ history'[r][c + 1] = w.op
      /\ \A i \in 1..c : history'[r][i] = h[i]
  BY <1>1, <1>3, <1>5
<1>7. IsUpdate(w.op, w.checksum + 1)'
  BY <1>1, <1>6 DEF IsUpdate
<1> HIDE DEF r, c, h
<1>8. Forward
  <2> SUFFICES ASSUME NEW q \in Record
               PROVE  /\ record'[q].checksum \in Nat /\ record[q].checksum <= record'[q].checksum
                      /\ record'[q].checksum = record[q].checksum => record'[q].last = record[q].last
                      /\ Len(history[q]) <= Len(history'[q])
                      /\ \A i \in 1..Len(history[q]) : history'[q][i] = history[q][i]
    BY DEF Forward
  <2>1. CASE q = r
    <3>1. record[q].checksum = c /\ history[q] = h
      BY <2>1 DEF r, c, h
    <3> QED BY <1>1, <1>3, <1>5, <1>6, <2>1, <3>1
  <2>2. CASE q # r
    <3>1. record[q] \in Row /\ history[q] \in Seq(Op)
      BY <1>2
    <3> QED BY <1>3, <2>2, <3>1 DEF Row
  <2> QED BY <2>1, <2>2
<1>9. NoLostUpdate'
  <2> SUFFICES ASSUME NEW q \in Record
               PROVE  /\ record'[q].checksum = Len(history'[q])
                      /\ record'[q].last = IF history'[q] = <<>> THEN None
                                           ELSE history'[q][Len(history'[q])]
    BY DEF NoLostUpdate
  <2>1. CASE q = r
    <3>1. history'[r] # <<>>
      <4>1. c \in Nat /\ Len(history'[r]) = c + 1
        BY <1>1, <1>6
      <4> QED BY <4>1, NotEmpty
    <3> QED BY <1>3, <1>6, <2>1, <3>1
  <2>2. CASE q # r
    <3>1. NoLostUpdate /\ record'[q] = record[q] /\ history'[q] = history[q]
      BY <1>3, <2>2 DEF IndInv
    <3> QED BY <3>1 DEF NoLostUpdate
  <2> QED BY <2>1, <2>2
<1>10. NoImmediateRepeat'
  <2> SUFFICES ASSUME NEW q \in Record, NEW i \in 1..(Len(history'[q]) - 1)
               PROVE  history'[q][i] # history'[q][i + 1]
    BY DEF NoImmediateRepeat
  <2>1. CASE q # r
    <3>1. NoImmediateRepeat /\ history'[q] = history[q]
      BY <1>3, <2>1 DEF IndInv
    <3> QED BY <3>1 DEF NoImmediateRepeat
  <2>2. CASE q = r
    <3>1. i \in 1..c
      BY <1>1, <1>6, <2>2
    <3>2. CASE i = c
      <4>1. h # <<>>
        BY <1>5, <3>1, <3>2
      <4> QED BY <1>1, <1>5, <1>6, <2>2, <3>1, <3>2, <4>1
    <3>3. CASE i # c
      <4>1. i \in 1..(c - 1) /\ i + 1 \in 1..c
        BY <1>1, <3>1, <3>3
      <4>2. h[i] # h[i + 1]
        BY <1>1, <1>5, <2>2, <4>1 DEF IndInv, NoImmediateRepeat, h, r
      <4>3. history'[r][i] = h[i] /\ history'[r][i + 1] = h[i + 1]
        BY <1>1, <1>6, <3>1, <4>1
      <4> QED BY <2>2, <4>2, <4>3
    <3> QED BY <3>2, <3>3
  <2> QED BY <2>1, <2>2
<1> QED BY <1>4, <1>7, <1>8, <1>9, <1>10 DEF Database

\* Whether or not its condition holds, a write moves the rows forward.
LEMMA ApplyForward ==
    ASSUME IndInv, NEW w \in Write, Fresh(w.op, w.checksum), Apply(w)
    PROVE  /\ Forward /\ Database'
           /\ Applies(w) /\ w.kind = "finish" => IsUpdate(w.op, w.checksum + 1)'
<1>1. w.kind \in {"reserve", "finish"}
  BY DEF Write
<1>2. CASE ~ Applies(w)
  BY <1>2, StandStill DEF Apply
<1>3. CASE Applies(w) /\ w.kind = "reserve"
  BY <1>3, ReserveForward DEF Apply
<1>4. CASE Applies(w) /\ w.kind = "finish"
  BY <1>4, FinishForward DEF Apply, Applies, Finishes
<1> QED BY <1>1, <1>2, <1>3, <1>4


-----------------------------------------------------------------------------
(* What a forward move leaves true. *)

LEMMA FreshKept ==
    ASSUME IndInv, Forward, NEW o \in Op, NEW c \in Nat, Fresh(o, c)
    PROVE  Fresh(o, c)'
<1>1. Selected[o] \in Record /\ record[Selected[o]] \in Row
  BY SelectedAssumption DEF IndInv, TypeOK
<1>2. record[Selected[o]].checksum \in Nat
  BY <1>1 DEF Row
<1> QED BY <1>1, <1>2 DEF Fresh, Forward

LEMMA UpdateKept ==
    ASSUME IndInv, Forward, NEW o \in Op, NEW c, IsUpdate(o, c)
    PROVE  IsUpdate(o, c)'
<1>1. Selected[o] \in Record /\ history[Selected[o]] \in Seq(Op)
  BY SelectedAssumption DEF IndInv, TypeOK
<1>2. Len(history[Selected[o]]) \in Nat
  BY <1>1
<1>3. c \in 1..Len(history'[Selected[o]])
  BY <1>1, <1>2 DEF IsUpdate, Forward
<1>4. history'[Selected[o]][c] = o
  BY <1>1, <1>2 DEF IsUpdate, Forward
<1> QED BY <1>3, <1>4 DEF IsUpdate

LEMMA ExecutionKept ==
    ASSUME IndInv, Forward, NEW q \in Proc, pc'[q] = pc[q], local'[q] = local[q]
    PROVE  ExecutionInv(q)'
<1> SUFFICES ASSUME pc[q] # "idle" PROVE ExecutionInv(q)'
  BY DEF ExecutionInv
<1>1. local[q] \in Local /\ ExecutionInv(q)
  BY DEF IndInv, TypeOK
<1>2. /\ local[q].op \in Op /\ local[q].selected \in Nat
      /\ Selected[local[q].op] \in Record /\ record[Selected[local[q].op]] \in Row
  BY <1>1, SelectedAssumption DEF Local, IndInv, TypeOK
<1>3. local[q].selected <= record'[Selected[local[q].op]].checksum
  <2>1. record[Selected[local[q].op]].checksum \in Nat
    BY <1>2 DEF Row
  <2>2. local[q].selected <= record[Selected[local[q].op]].checksum
    BY <1>1 DEF ExecutionInv, Rec
  <2> QED BY <1>2, <2>1, <2>2 DEF Forward
<1>4. pc[q] \in {"find", "reserve", "finish", "reread"} => Fresh(local[q].op, local[q].selected)'
  BY <1>1, <1>2, FreshKept DEF ExecutionInv, Fresh
<1>5. pc[q] \in {"mark", "return"} => IsUpdate(local[q].op, local[q].checksum)'
  BY <1>1, <1>2, UpdateKept DEF ExecutionInv, IsUpdate
<1> QED BY <1>1, <1>3, <1>4, <1>5 DEF ExecutionInv, Rec, Fresh, IsUpdate

LEMMA MarkersKept ==
    ASSUME IndInv, Forward, UNCHANGED marker
    PROVE  MarkerIsTrue'
<1> SUFFICES ASSUME NEW o \in Op, marker[o] # None PROVE IsUpdate(o, marker[o])'
  BY DEF MarkerIsTrue, IsUpdate
<1>1. IsUpdate(o, marker[o])
  BY DEF IndInv, MarkerIsTrue, IsUpdate
<1> QED BY <1>1, UpdateKept DEF IsUpdate

LEMMA DoneKept ==
    ASSUME IndInv, Forward, UNCHANGED done
    PROVE  DoneInv'
<1> SUFFICES ASSUME NEW o \in done PROVE \E i : IsUpdate(o, i)'
  BY DEF DoneInv, IsUpdate
<1>1. o \in Op /\ \E i : IsUpdate(o, i)
  BY DEF IndInv, TypeOK, DoneInv, IsUpdate
<1>2. PICK i : IsUpdate(o, i)
  BY <1>1
<1>3. IsUpdate(o, i)'
  BY <1>1, <1>2, UpdateKept
<1> QED BY <1>3

\* A step of one execution.
LEMMA ExecutionStep ==
    ASSUME IndInv, Forward, Database', NEW p \in Proc, NEW l \in Local \cup {Idle},
           NEW label \in {"idle", "read", "find", "reserve", "finish", "reread", "mark", "return"},
           local' = [local EXCEPT ![p] = l], pc' = [pc EXCEPT ![p] = label],
           l = Idle <=> label = "idle",
           marker' \in [Op -> (Nat \ {0}) \cup {None}], MarkerIsTrue',
           inflight' \subseteq Write,
           \A w \in inflight' : w \in inflight \/ Fresh(w.op, w.checksum),
           tries' \in [Op -> 0..MaxTries], done' \subseteq Op, DoneInv',
           ExecutionInv(p)'
    PROVE  IndInv'
<1>1. local' \in [Proc -> Local \cup {Idle}] /\ \A q \in Proc : local'[q] = Idle <=> pc'[q] = "idle"
  BY DEF IndInv, TypeOK
<1>2. pc' \in [Proc -> {"idle", "read", "find", "reserve", "finish", "reread", "mark", "return"}]
  BY DEF IndInv, TypeOK
<1>3. TypeOK'
  BY <1>1, <1>2 DEF TypeOK, Database
<1>4. \A q \in Proc : ExecutionInv(q)'
  <2>1. \A q \in Proc \ {p} : pc'[q] = pc[q] /\ local'[q] = local[q]
    BY DEF IndInv, TypeOK
  <2> QED BY <2>1, ExecutionKept
<1>5. ASSUME NEW w \in inflight' PROVE Fresh(w.op, w.checksum)'
  <2>1. w.op \in Op /\ w.checksum \in Nat
    BY DEF Write
  <2>2. Fresh(w.op, w.checksum)
    BY DEF IndInv
  <2> QED BY <2>1, <2>2, FreshKept
<1> QED BY <1>3, <1>4, <1>5 DEF IndInv, Database


-----------------------------------------------------------------------------
(* One lemma per step of apply_once. *)

LEMMA NotIdle ==
    ASSUME NEW l \in Local
    PROVE  l # Idle /\ l.op \in Op /\ l.selected \in Nat /\ l.checksum \in Nat /\ l.state \in Row
BY NoOpAssumption DEF Local, Idle

LEMMA Running ==
    ASSUME IndInv, NEW p \in Proc, pc[p] # "idle"
    PROVE  /\ local[p] \in Local /\ local[p].op \in Op /\ local[p].selected \in Nat
           /\ local[p].checksum \in Nat /\ local[p].state \in Row
           /\ Rec(p) \in Record /\ Rec(p) = Selected[local[p].op] /\ record[Rec(p)] \in Row
           /\ record[Rec(p)].checksum \in Nat /\ ExecutionInv(p)
<1>1. local[p] \in Local
  BY DEF IndInv, TypeOK
<1>2. local[p].op \in Op
  BY <1>1, NotIdle
<1>3. Rec(p) \in Record /\ Rec(p) = Selected[local[p].op]
  BY <1>2, SelectedAssumption DEF Rec
<1>4. record[Rec(p)] \in Row
  BY <1>3 DEF IndInv, TypeOK
<1>5. record[Rec(p)].checksum \in Nat
  BY <1>4 DEF Row
<1>6. ExecutionInv(p)
  BY DEF IndInv
<1> QED BY <1>1, <1>3, <1>4, <1>5, <1>6, NotIdle

\* A row that an operation changed last names its update.
LEMMA LastIsUpdate ==
    ASSUME IndInv, NEW o \in Op, record[Selected[o]].last = o
    PROVE  IsUpdate(o, record[Selected[o]].checksum)
<1> DEFINE h == history[Selected[o]]
<1>1. Selected[o] \in Record /\ h \in Seq(Op)
  BY SelectedAssumption DEF IndInv, TypeOK
<1>2. record[Selected[o]].checksum = Len(h) /\ h # <<>> /\ h[Len(h)] = o
  BY <1>1, NoOpAssumption DEF IndInv, NoLostUpdate
<1>3. Len(h) \in 1..Len(h)
  BY <1>1, <1>2
<1> QED BY <1>2, <1>3 DEF IsUpdate

LEMMA EndStep ==
    ASSUME IndInv, Forward, Database', NEW p \in Proc, End(p), UNCHANGED <<marker, tries>>,
           inflight' \subseteq Write,
           \A w \in inflight' : w \in inflight \/ Fresh(w.op, w.checksum),
           done' \subseteq Op, DoneInv'
    PROVE  IndInv'
<1>1. local' = [local EXCEPT ![p] = Idle] /\ pc' = [pc EXCEPT ![p] = "idle"]
  BY DEF End, Goto
<1>2. pc'[p] = "idle"
  BY <1>1 DEF IndInv, TypeOK
<1>3. ExecutionInv(p)'
  BY <1>2 DEF ExecutionInv
<1>4. MarkerIsTrue' /\ marker' \in [Op -> (Nat \ {0}) \cup {None}] /\ tries' \in [Op -> 0..MaxTries]
  BY MarkersKept DEF IndInv, TypeOK
<1> QED BY <1>1, <1>3, <1>4, ExecutionStep

\* A step that goes on and leaves the markers and the outcomes alone.
LEMMA GoOnStep ==
    ASSUME IndInv, Forward, Database', NEW p \in Proc, NEW l \in Local,
           NEW label \in {"read", "find", "reserve", "finish", "reread", "mark", "return"},
           local' = [local EXCEPT ![p] = l], Goto(p, label), UNCHANGED <<marker, done>>,
           inflight' \subseteq Write,
           \A w \in inflight' : w \in inflight \/ Fresh(w.op, w.checksum),
           tries' \in [Op -> 0..MaxTries], ExecutionInv(p)'
    PROVE  IndInv'
<1>1. pc' = [pc EXCEPT ![p] = label] /\ l # Idle /\ label # "idle"
  BY NotIdle DEF Goto
<1>2. /\ MarkerIsTrue' /\ marker' \in [Op -> (Nat \ {0}) \cup {None}]
      /\ done' \subseteq Op /\ DoneInv'
  BY MarkersKept, DoneKept DEF IndInv, TypeOK
<1> QED BY <1>1, <1>2, ExecutionStep

LEMMA SelectStep ==
    ASSUME IndInv, NEW p \in Proc, NEW o \in Op, Select(p, o)
    PROVE  IndInv'
<1> DEFINE l == [op |-> o, selected |-> record[Selected[o]].checksum, state |-> EmptyRow, checksum |-> 0]
<1>1. Forward /\ Database'
  BY StandStill DEF Select
<1>2. Selected[o] \in Record /\ record[Selected[o]] \in Row
  BY SelectedAssumption DEF IndInv, TypeOK
<1>3. record[Selected[o]].checksum \in Nat /\ EmptyRow \in Row
  BY <1>2 DEF Row, EmptyRow
<1>4. l \in Local /\ l.op = o /\ l.selected = record[Selected[o]].checksum
  BY <1>3 DEF Local
<1>5. local' = [local EXCEPT ![p] = l] /\ Goto(p, "read") /\ UNCHANGED <<record, marker, inflight, done>>
  BY DEF Select
<1> HIDE DEF l
<1>6. local'[p] = l /\ pc'[p] = "read"
  BY <1>5 DEF IndInv, TypeOK, Goto
<1>7. ExecutionInv(p)'
  BY <1>3, <1>4, <1>5, <1>6 DEF ExecutionInv, Rec
<1>8. tries' \in [Op -> 0..MaxTries]
  BY TriesAssumption DEF Select, IndInv, TypeOK
<1>9. inflight' \subseteq Write
  BY <1>5 DEF IndInv, TypeOK
<1> QED BY <1>1, <1>4, <1>5, <1>7, <1>8, <1>9, GoOnStep

LEMMA ReadStep ==
    ASSUME IndInv, NEW p \in Proc, Read(p)
    PROVE  IndInv'
<1> DEFINE row == record[Rec(p)]
           l == [local[p] EXCEPT !.state = row, !.checksum = row.checksum]
           label == IF row.last = local[p].op THEN "mark" ELSE "find"
<1>1. Forward /\ Database'
  BY StandStill DEF Read
<1>2. /\ local[p] \in Local /\ local[p].op \in Op /\ local[p].selected \in Nat
      /\ row \in Row /\ row.checksum \in Nat /\ Rec(p) = Selected[local[p].op]
      /\ local[p].selected <= row.checksum
  BY Running DEF Read, ExecutionInv
<1>3. local' = [local EXCEPT ![p] = l]
  BY <1>2 DEF Read, Local, IndInv, TypeOK
<1>4. /\ l \in Local /\ l.op = local[p].op /\ l.selected = local[p].selected
      /\ l.state = row /\ l.checksum = row.checksum
  BY <1>2 DEF Local
<1>5. Goto(p, label) /\ UNCHANGED <<record, marker, inflight, done, tries, history>>
  BY DEF Read
<1>6. row.last = local[p].op => IsUpdate(local[p].op, row.checksum)
  BY <1>2, LastIsUpdate
<1>7. label \in {"mark", "find"} /\ (label = "mark" <=> row.last = local[p].op)
  OBVIOUS
<1> HIDE DEF l, label
<1>8. local'[p] = l /\ pc'[p] = label
  BY <1>3, <1>5 DEF IndInv, TypeOK, Goto
<1>9. ExecutionInv(p)'
  <2>1. Rec(p)' = Rec(p) /\ record' = record /\ history' = history
    BY <1>2, <1>4, <1>5, <1>8 DEF Rec
  <2>2. label = "find" => Fresh(l.op, l.selected)
    BY <1>2, <1>4, <1>7 DEF Fresh
  <2>3. label = "mark" => IsUpdate(l.op, l.checksum)
    BY <1>4, <1>6, <1>7
  <2> QED BY <1>2, <1>4, <1>7, <1>8, <2>1, <2>2, <2>3 DEF ExecutionInv, Fresh, IsUpdate
<1>10. tries' \in [Op -> 0..MaxTries] /\ inflight' \subseteq Write
  BY <1>5 DEF IndInv, TypeOK
<1> QED BY <1>1, <1>3, <1>4, <1>5, <1>7, <1>9, <1>10, GoOnStep


\* A step that keeps the execution's memory.
LEMMA JumpStep ==
    ASSUME IndInv, Forward, Database', NEW p \in Proc, local[p] \in Local,
           NEW label \in {"finish", "reserve", "reread", "return"},
           Goto(p, label), UNCHANGED <<local, marker, done, tries>>,
           inflight' \subseteq Write,
           \A w \in inflight' : w \in inflight \/ Fresh(w.op, w.checksum),
           local[p].selected <= record[Rec(p)].checksum,
           label # "return" => Fresh(local[p].op, local[p].selected),
           label = "return" => IsUpdate(local[p].op, local[p].checksum)
    PROVE  IndInv'
<1>1. local' = [local EXCEPT ![p] = local[p]]
  BY DEF IndInv, TypeOK
<1>2. local'[p] = local[p] /\ pc'[p] = label
  BY DEF Goto, IndInv, TypeOK
<1>3. /\ local[p].op \in Op /\ local[p].selected \in Nat
      /\ Selected[local[p].op] \in Record /\ record[Selected[local[p].op]] \in Row
  BY NotIdle, SelectedAssumption DEF IndInv, TypeOK
<1>4. local[p].selected <= record'[Selected[local[p].op]].checksum
  <2>1. record[Selected[local[p].op]].checksum \in Nat
    BY <1>3 DEF Row
  <2> QED BY <1>3, <2>1 DEF Forward, Rec
<1>5. label # "return" => Fresh(local[p].op, local[p].selected)'
  BY <1>3, FreshKept DEF Fresh
<1>6. label = "return" => IsUpdate(local[p].op, local[p].checksum)'
  BY <1>3, UpdateKept DEF IsUpdate
<1>7. ExecutionInv(p)'
  BY <1>2, <1>4, <1>5, <1>6 DEF ExecutionInv, Rec, Fresh, IsUpdate
<1>8. tries' \in [Op -> 0..MaxTries]
  BY DEF IndInv, TypeOK
<1> QED BY <1>1, <1>7, <1>8, GoOnStep

LEMMA FindStep ==
    ASSUME IndInv, NEW p \in Proc, Find(p)
    PROVE  IndInv'
<1> DEFINE l == local[p]
           known == marker[l.op] # None /\ l.state.checksum = marker[l.op]
           label == IF known THEN "return" ELSE IF l.state.pending = l.op THEN "finish" ELSE "reserve"
<1>1. Forward /\ Database' /\ inflight' \subseteq Write /\ inflight' = inflight
  BY StandStill DEF Find, IndInv, TypeOK
<1>2. /\ l \in Local /\ l.op \in Op /\ l.selected <= record[Rec(p)].checksum
      /\ Fresh(l.op, l.selected) /\ l.checksum = l.state.checksum
  BY Running DEF Find, ExecutionInv
<1>3. known => IsUpdate(l.op, l.checksum)
  BY <1>2 DEF IndInv, MarkerIsTrue, IsUpdate
<1>4. Goto(p, label) /\ UNCHANGED <<local, marker, done, tries>>
  BY DEF Find
<1>5. label \in {"finish", "reserve", "return"} /\ (label = "return" => known)
  OBVIOUS
<1> HIDE DEF known, label
<1> QED BY <1>1, <1>2, <1>3, <1>4, <1>5, JumpStep

\* The writes an execution sends.
LEMMA SentWrites ==
    ASSUME IndInv, NEW p \in Proc, pc[p] \in {"reserve", "finish"}
    PROVE  /\ ReserveOf(p) \in Write /\ FinishOf(p) \in Write
           /\ Fresh(ReserveOf(p).op, ReserveOf(p).checksum)
           /\ Fresh(FinishOf(p).op, FinishOf(p).checksum)
           /\ FinishOf(p).op = local[p].op /\ FinishOf(p).checksum = local[p].selected
           /\ FinishOf(p).kind = "finish"
<1>1. /\ local[p].op \in Op /\ local[p].selected \in Nat
      /\ Fresh(local[p].op, local[p].selected)
  BY Running DEF ExecutionInv
<1> QED BY <1>1 DEF ReserveOf, FinishOf, Write

LEMMA ReserveStep ==
    ASSUME IndInv, NEW p \in Proc, Reserve(p)
    PROVE  IndInv'
<1>1. Forward /\ Database'
  BY SentWrites, ApplyForward DEF Reserve
<1>2. inflight' \subseteq Write /\ inflight' = inflight /\ UNCHANGED <<marker, done, tries>>
  BY DEF Reserve, IndInv, TypeOK
<1>3. /\ local[p] \in Local /\ local[p].selected <= record[Rec(p)].checksum
      /\ Fresh(local[p].op, local[p].selected)
  BY Running DEF Reserve, ExecutionInv
<1>4. CASE Applies(ReserveOf(p))
  BY <1>1, <1>2, <1>3, <1>4, JumpStep DEF Reserve
<1>5. CASE ~ Applies(ReserveOf(p))
  <2>1. done' \subseteq Op /\ DoneInv'
    BY <1>1, <1>2, DoneKept DEF IndInv, TypeOK
  <2> QED BY <1>1, <1>2, <1>5, <2>1, EndStep DEF Reserve
<1> QED BY <1>4, <1>5

LEMMA FinishStep ==
    ASSUME IndInv, NEW p \in Proc, Finish(p)
    PROVE  IndInv'
<1> DEFINE l == [local[p] EXCEPT !.checksum = local[p].selected + 1]
<1>1. /\ Forward /\ Database'
      /\ Applies(FinishOf(p)) =>
            \A o, c : o = local[p].op /\ c = local[p].selected + 1 => IsUpdate(o, c)'
  <2>1. /\ FinishOf(p) \in Write /\ Fresh(FinishOf(p).op, FinishOf(p).checksum)
        /\ FinishOf(p).op = local[p].op /\ FinishOf(p).checksum = local[p].selected
        /\ FinishOf(p).kind = "finish" /\ Apply(FinishOf(p))
    BY SentWrites DEF Finish
  <2>2. PICK w \in Write : w = FinishOf(p)
    BY <2>1
  <2>3. Forward /\ Database' /\ (Applies(w) => IsUpdate(w.op, w.checksum + 1)')
    BY <2>1, <2>2, ApplyForward
  <2> QED BY <2>1, <2>2, <2>3
<1>2. /\ inflight' \subseteq Write /\ inflight' = inflight /\ UNCHANGED <<marker, done, tries>>
      /\ done' \subseteq Op /\ tries' \in [Op -> 0..MaxTries]
  BY DEF Finish, IndInv, TypeOK
<1>3. /\ local[p] \in Local /\ local[p].op \in Op /\ local[p].selected \in Nat
      /\ Rec(p) \in Record /\ Rec(p) = Selected[local[p].op]
      /\ local[p].selected <= record[Rec(p)].checksum /\ record[Rec(p)].checksum \in Nat
  BY Running DEF Finish, ExecutionInv
<1>4. CASE Applies(FinishOf(p))
  <2>1. local' = [local EXCEPT ![p] = l]
    BY <1>3, <1>4 DEF Finish, IndInv, TypeOK, Local
  <2>2. /\ l \in Local /\ l.op = local[p].op /\ l.selected = local[p].selected
        /\ l.checksum = local[p].selected + 1
    BY <1>3 DEF Local
  <2> HIDE DEF l
  <2>3. Goto(p, "mark")
    BY <1>4 DEF Finish
  <2>4. local'[p] = l /\ pc'[p] = "mark"
    BY <2>1, <2>3 DEF Goto, IndInv, TypeOK
  <2>5. ExecutionInv(p)'
    <3>1. local[p].selected <= record'[Rec(p)].checksum
      BY <1>1, <1>3 DEF Forward
    <3>2. IsUpdate(local[p].op, local[p].checksum)'
      BY <1>1, <1>4, <2>2, <2>4
    <3> QED BY <1>3, <2>2, <2>4, <3>1, <3>2 DEF ExecutionInv, Rec
  <2> QED BY <1>1, <1>2, <2>1, <2>2, <2>3, <2>5, GoOnStep
<1>5. CASE ~ Applies(FinishOf(p))
  <2>1. DoneInv'
    BY <1>1, <1>2, DoneKept
  <2> QED BY <1>1, <1>2, <1>5, <2>1, EndStep DEF Finish
<1> QED BY <1>4, <1>5

LEMMA TimeoutStep ==
    ASSUME IndInv, NEW p \in Proc, Timeout(p)
    PROVE  IndInv'
<1>1. Forward /\ Database'
  BY StandStill DEF Timeout
<1>2. UNCHANGED <<marker, tries, done>> /\ inflight \subseteq Write /\ done' \subseteq Op /\ DoneInv'
  BY <1>1, DoneKept DEF Timeout, IndInv, TypeOK
<1>3. CASE pc[p] = "reserve" /\ inflight' = inflight \cup {ReserveOf(p)} /\ End(p)
  BY <1>1, <1>2, <1>3, SentWrites, EndStep
<1>4. CASE pc[p] = "finish" /\ inflight' = inflight \cup {FinishOf(p)} /\ Goto(p, "reread") /\ UNCHANGED local
  <2>1. /\ local[p] \in Local /\ local[p].selected <= record[Rec(p)].checksum
        /\ Fresh(local[p].op, local[p].selected)
    BY <1>4, Running DEF ExecutionInv
  <2> QED BY <1>1, <1>2, <1>4, <2>1, SentWrites, JumpStep
<1> QED BY <1>3, <1>4 DEF Timeout

LEMMA RereadStep ==
    ASSUME IndInv, NEW p \in Proc, Reread(p)
    PROVE  IndInv'
<1> DEFINE row == record[Rec(p)]
           l == [local[p] EXCEPT !.checksum = row.checksum]
<1>1. Forward /\ Database'
  BY StandStill DEF Reread
<1>2. /\ UNCHANGED <<record, history, marker, tries, done>> /\ inflight' = inflight /\ inflight' \subseteq Write
      /\ done' \subseteq Op /\ DoneInv' /\ tries' \in [Op -> 0..MaxTries]
  BY <1>1, DoneKept DEF Reread, IndInv, TypeOK
<1>3. /\ local[p] \in Local /\ local[p].op \in Op /\ Rec(p) = Selected[local[p].op]
      /\ row.checksum \in Nat /\ local[p].selected <= row.checksum
  BY Running DEF Reread, ExecutionInv
<1>4. CASE row.last # local[p].op
  BY <1>1, <1>2, <1>4, EndStep DEF Reread
<1>5. CASE row.last = local[p].op
  <2>1. local' = [local EXCEPT ![p] = l] /\ Goto(p, "mark")
    BY <1>3, <1>5 DEF Reread, IndInv, TypeOK, Local
  <2>2. /\ l \in Local /\ l.op = local[p].op /\ l.selected = local[p].selected
        /\ l.checksum = row.checksum
    BY <1>3 DEF Local
  <2>3. IsUpdate(local[p].op, row.checksum)
    BY <1>3, <1>5, LastIsUpdate
  <2> HIDE DEF l
  <2>4. local'[p] = l /\ pc'[p] = "mark"
    BY <2>1 DEF Goto, IndInv, TypeOK
  <2>5. ExecutionInv(p)'
    BY <1>2, <1>3, <2>2, <2>3, <2>4 DEF ExecutionInv, Rec, IsUpdate
  <2> QED BY <1>1, <1>2, <2>1, <2>2, <2>5, GoOnStep
<1> QED BY <1>4, <1>5

LEMMA WriteMarkerStep ==
    ASSUME IndInv, NEW p \in Proc, WriteMarker(p)
    PROVE  IndInv'
<1> DEFINE o == local[p].op
           c == local[p].checksum
<1>1. Forward /\ Database'
  BY StandStill DEF WriteMarker
<1>2. /\ local[p] \in Local /\ o \in Op /\ IsUpdate(o, c) /\ c \in Nat
      /\ local[p].selected <= record[Rec(p)].checksum /\ local[p] # Idle
  BY Running, NotIdle DEF WriteMarker, ExecutionInv
<1>3. /\ UNCHANGED <<record, history, inflight, local, tries, done>>
      /\ marker' = [marker EXCEPT ![o] = c] /\ pc' = [pc EXCEPT ![p] = "return"]
  BY DEF WriteMarker, Goto
<1>4. /\ DoneInv' /\ done' \subseteq Op /\ tries' \in [Op -> 0..MaxTries] /\ inflight' \subseteq Write
      /\ local' = [local EXCEPT ![p] = local[p]]
  BY <1>1, <1>3, DoneKept DEF IndInv, TypeOK
<1>5. c \in Nat \ {0}
  BY <1>2 DEF IsUpdate
<1>6. marker' \in [Op -> (Nat \ {0}) \cup {None}]
  BY <1>2, <1>3, <1>5 DEF IndInv, TypeOK
<1>7. MarkerIsTrue'
  BY <1>2, <1>3 DEF IndInv, TypeOK, MarkerIsTrue, IsUpdate
<1>8. ExecutionInv(p)'
  BY <1>2, <1>3 DEF ExecutionInv, Rec, IsUpdate, IndInv, TypeOK
<1> QED BY <1>1, <1>2, <1>3, <1>4, <1>6, <1>7, <1>8, ExecutionStep

LEMMA CompleteStep ==
    ASSUME IndInv, NEW p \in Proc, Complete(p)
    PROVE  IndInv'
<1>1. Forward /\ Database'
  BY StandStill DEF Complete
<1>2. local[p].op \in Op /\ IsUpdate(local[p].op, local[p].checksum)
  BY Running DEF Complete, ExecutionInv
<1>3. done' = done \cup {local[p].op} /\ UNCHANGED <<record, history, marker, tries, inflight>> /\ End(p)
  BY DEF Complete
<1>4. done' \subseteq Op /\ inflight' \subseteq Write
  BY <1>2, <1>3 DEF IndInv, TypeOK
<1>5. DoneInv'
  BY <1>2, <1>3 DEF IndInv, DoneInv, IsUpdate
<1> QED BY <1>1, <1>3, <1>4, <1>5, EndStep

LEMMA AbortStep ==
    ASSUME IndInv, NEW p \in Proc, Abort(p)
    PROVE  IndInv'
<1>1. Forward /\ Database'
  BY StandStill DEF Abort
<1>2. done' \subseteq Op /\ inflight' \subseteq Write /\ DoneInv'
  BY <1>1, DoneKept DEF Abort, IndInv, TypeOK
<1> QED BY <1>1, <1>2, EndStep DEF Abort

LEMMA DeliverStep ==
    ASSUME IndInv, NEW w \in inflight, Deliver(w)
    PROVE  IndInv'
<1>1. w \in Write /\ Fresh(w.op, w.checksum)
  BY DEF IndInv, TypeOK
<1>2. Forward /\ Database'
  BY <1>1, ApplyForward DEF Deliver
<1>3. inflight' \subseteq inflight /\ UNCHANGED <<marker, pc, local, tries, done>>
  BY DEF Deliver
<1>4. TypeOK'
  BY <1>2, <1>3 DEF IndInv, TypeOK, Database
<1>5. MarkerIsTrue' /\ DoneInv' /\ \A p \in Proc : ExecutionInv(p)'
  BY <1>2, <1>3, MarkersKept, DoneKept, ExecutionKept
<1>6. ASSUME NEW x \in inflight' PROVE Fresh(x.op, x.checksum)'
  <2>1. x.op \in Op /\ x.checksum \in Nat /\ Fresh(x.op, x.checksum)
    BY <1>3 DEF IndInv, TypeOK, Write
  <2> QED BY <1>2, <2>1, FreshKept
<1> QED BY <1>2, <1>4, <1>5, <1>6 DEF IndInv, Database

-----------------------------------------------------------------------------
LEMMA InitIndInv == Init => IndInv
<1> SUFFICES ASSUME Init PROVE IndInv
  OBVIOUS
<1>1. EmptyRow \in Row /\ EmptyRow.checksum = 0 /\ EmptyRow.last = None
  BY DEF EmptyRow, Row
<1>2. TypeOK
  BY <1>1, TriesAssumption DEF Init, TypeOK
<1>3. NoLostUpdate /\ NoImmediateRepeat
  BY <1>1 DEF Init, NoLostUpdate, NoImmediateRepeat
<1>4. MarkerIsTrue /\ DoneInv /\ \A p \in Proc : ExecutionInv(p)
  BY DEF Init, MarkerIsTrue, DoneInv, ExecutionInv
<1> QED BY <1>2, <1>3, <1>4 DEF Init, IndInv

LEMMA StutterStep ==
    ASSUME IndInv, UNCHANGED vars
    PROVE  IndInv'
<1>1. Forward /\ Database'
  BY StandStill DEF vars
<1>2. TypeOK'
  BY <1>1 DEF vars, IndInv, TypeOK
<1>3. MarkerIsTrue' /\ DoneInv' /\ \A p \in Proc : ExecutionInv(p)'
  BY <1>1, MarkersKept, DoneKept, ExecutionKept DEF vars
<1>4. \A w \in inflight' : Fresh(w.op, w.checksum)'
  BY DEF vars, IndInv, Fresh
<1> QED BY <1>1, <1>2, <1>3, <1>4 DEF IndInv, Database

LEMMA NextIndInv ==
    ASSUME IndInv, [Next]_vars
    PROVE  IndInv'
BY SelectStep, ReadStep, FindStep, ReserveStep, FinishStep, TimeoutStep, RereadStep,
   WriteMarkerStep, CompleteStep, AbortStep, DeliverStep, StutterStep DEF Next

LEMMA AlwaysIndInv == Spec => []IndInv
<1>1. IndInv /\ [Next]_vars => IndInv'
  BY NextIndInv
<1> QED BY InitIndInv, <1>1, PTL DEF Spec

-----------------------------------------------------------------------------
\* The rows, the markers and the executions of apply_once stay well typed.
THEOREM TypeCorrect == Spec => []TypeOK
BY AlwaysIndInv, PTL DEF IndInv

\* The reservation and the checksum of apply_once fence the record: the checksum
\* counts every update, however many attempts overlap and writes arrive late.
THEOREM UpdatesAreCounted == Spec => []NoLostUpdate
BY AlwaysIndInv, PTL DEF IndInv

\* last_operation_id is enough to recognise an update that was the last one:
\* no retry and no late write repeats it.
THEOREM LastIsNotRepeated == Spec => []NoImmediateRepeat
BY AlwaysIndInv, PTL DEF IndInv

\* _write_marker never stores a checksum that is not that of the job's update.
THEOREM MarkersAreTrue == Spec => []MarkerIsTrue
BY AlwaysIndInv, PTL DEF IndInv

\* A success that the handler reports stands for an update of its record.
THEOREM SuccessesAreReal == Spec => []SuccessIsReal
<1>1. IndInv => SuccessIsReal
  <2> SUFFICES ASSUME IndInv PROVE SuccessIsReal
    OBVIOUS
  <2>1. MarkerIsTrue
    BY DEF IndInv
  <2>2. \A o \in done : \E i \in 1..Len(history[Selected[o]]) : history[Selected[o]][i] = o
    BY DEF IndInv, DoneInv, IsUpdate
  <2>3. \A p \in Proc : pc[p] = "return" =>
           /\ local[p].checksum \in 1..Len(history[Rec(p)])
           /\ history[Rec(p)][local[p].checksum] = local[p].op
    BY DEF IndInv, ExecutionInv, IsUpdate, Rec
  <2> QED BY <2>1, <2>2, <2>3 DEF SuccessIsReal
<1> QED BY <1>1, AlwaysIndInv, PTL

-----------------------------------------------------------------------------
(* Orphaned reservations. *)

\* A write of another job does not pass the conditions of a reserved record.
LEMMA OthersAreRefused ==
    ASSUME IndInv, NEW r \in Record, NEW w \in Write, Apply(w),
           record[r].pending \in Op, record[r].pending # w.op
    PROVE  record'[r] = record[r]
<1>1. w.op \in Op /\ Selected[w.op] \in Record /\ w.kind \in {"reserve", "finish"}
  BY SelectedAssumption DEF Write
<1>2. CASE Selected[w.op] = r
  BY <1>1, <1>2, NoOpAssumption DEF Apply, Applies, Reserves, Finishes
<1>3. CASE Selected[w.op] # r
  BY <1>1, <1>3 DEF Apply, IndInv, TypeOK
<1> QED BY <1>2, <1>3

\* A reservation whose job will not run again stays, and nothing changes the
\* record: neither apply_once nor anything else takes it over.
THEOREM OrphansStay == Spec => OrphanBlocksForever
<1>1. ASSUME IndInv, [Next]_vars, NEW r \in Record, Orphaned(r)
      PROVE  Orphaned(r)' /\ record'[r] = record[r]
  <2>1. PICK o \in Op :
           /\ record[r].pending = o
           /\ tries[o] = MaxTries \/ o \in done
           /\ \A p \in Proc : local[p].op # o
           /\ \A w \in inflight : w.op # o
    BY <1>1 DEF Orphaned
  <2>2. SUFFICES /\ record'[r] = record[r] /\ tries'[o] = tries[o] /\ done \subseteq done'
                 /\ \A p \in Proc : local'[p].op # o
                 /\ \A w \in inflight' : w.op # o
    BY <2>1 DEF Orphaned
  <2>3. Idle.op # o
    BY NoOpAssumption DEF Idle
  <2>4. /\ local \in [Proc -> Local \cup {Idle}] /\ inflight \subseteq Write
        /\ tries \in [Op -> 0..MaxTries]
    BY <1>1 DEF IndInv, TypeOK
  <2>5. \A p \in Proc : pc[p] # "idle" => local[p] \in Local
    BY <1>1 DEF IndInv, TypeOK
  <2>6. ASSUME NEW p \in Proc, End(p) PROVE \A q \in Proc : local'[q].op # o
    BY <2>1, <2>3, <2>4, <2>6 DEF End
  <2>7. ASSUME NEW p \in Proc, NEW x \in Op, Select(p, x) PROVE <2>2!1
    <3>1. x # o
      BY <2>1, <2>4, <2>7, TriesAssumption DEF Select
    <3>2. tries'[o] = tries[o]
      BY <2>4, <2>7, <3>1 DEF Select
    <3>3. \A q \in Proc : local'[q].op # o
      BY <2>1, <2>4, <2>7, <3>1 DEF Select
    <3> QED BY <2>1, <2>7, <3>2, <3>3 DEF Select
  <2>8. ASSUME NEW p \in Proc, Read(p) \/ Find(p) \/ Reread(p) PROVE <2>2!1
    <3>1. local[p] \in Local
      BY <2>5, <2>8 DEF Read, Find, Reread
    <3>2. \A q \in Proc : local'[q].op # o
      BY <2>1, <2>3, <2>4, <2>6, <2>8, <3>1 DEF Read, Find, Reread, Local
    <3> QED BY <2>1, <2>8, <3>2 DEF Read, Find, Reread
  <2>9. ASSUME NEW p \in Proc, Reserve(p) PROVE <2>2!1
    <3>1. ReserveOf(p) \in Write /\ ReserveOf(p).op # o
      BY <1>1, <2>1, <2>9, SentWrites DEF Reserve, ReserveOf
    <3>2. record'[r] = record[r]
      BY <1>1, <2>1, <2>9, <3>1, OthersAreRefused DEF Reserve
    <3>3. \A q \in Proc : local'[q].op # o
      BY <2>1, <2>6, <2>9 DEF Reserve
    <3> QED BY <2>1, <2>9, <3>2, <3>3 DEF Reserve
  <2>10. ASSUME NEW p \in Proc, Finish(p) PROVE <2>2!1
    <3>1. FinishOf(p) \in Write /\ FinishOf(p).op # o /\ local[p] \in Local
      BY <1>1, <2>1, <2>5, <2>10, SentWrites DEF Finish, FinishOf
    <3>2. record'[r] = record[r]
      BY <1>1, <2>1, <2>10, <3>1, OthersAreRefused DEF Finish
    <3>3. \A q \in Proc : local'[q].op # o
      BY <2>1, <2>4, <2>6, <2>10, <3>1 DEF Finish, Local
    <3> QED BY <2>1, <2>10, <3>2, <3>3 DEF Finish
  <2>11. ASSUME NEW p \in Proc, Timeout(p) PROVE <2>2!1
    <3>1. ReserveOf(p).op # o /\ FinishOf(p).op # o
      BY <2>1 DEF ReserveOf, FinishOf
    <3>2. \A q \in Proc : local'[q].op # o
      BY <2>1, <2>6, <2>11 DEF Timeout
    <3> QED BY <2>1, <2>11, <3>1, <3>2 DEF Timeout
  <2>12. ASSUME NEW p \in Proc, WriteMarker(p) \/ Complete(p) \/ Abort(p) PROVE <2>2!1
    <3>1. \A q \in Proc : local'[q].op # o
      BY <2>1, <2>6, <2>12 DEF WriteMarker, Complete, Abort
    <3> QED BY <2>1, <2>12, <3>1 DEF WriteMarker, Complete, Abort
  <2>13. ASSUME NEW w \in inflight, Deliver(w) PROVE <2>2!1
    <3>1. record'[r] = record[r]
      BY <1>1, <2>1, <2>4, <2>13, OthersAreRefused DEF Deliver
    <3> QED BY <2>1, <2>13, <3>1 DEF Deliver
  <2>14. CASE UNCHANGED vars
    BY <2>1, <2>14 DEF vars
  <2> QED BY <1>1, <2>7, <2>8, <2>9, <2>10, <2>11, <2>12, <2>13, <2>14 DEF Next
<1>2. IndInv /\ [Next]_vars =>
          [\A r \in Record : Orphaned(r) => Orphaned(r)' /\ record'[r] = record[r]]_vars
  BY <1>1
<1> QED BY <1>2, AlwaysIndInv, PTL DEF Spec, OrphanBlocksForever

=============================================================================

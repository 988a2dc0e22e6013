--------------------------- MODULE StorageProofs ---------------------------
(***************************************************************************)
(* Type correctness, mutual exclusion of the flush, and what becomes of    *)
(* the records it moves, for any number of old rows, alerts and errors.    *)
(***************************************************************************)
EXTENDS Storage, SequenceTheorems, FiniteSetTheorems, TLAPS

LEMMA AppendType ==
  ASSUME NEW S, NEW seq \in Seq(S), NEW x \in S
  PROVE  Append(seq, x) \in Seq(S) /\ Len(Append(seq, x)) = Len(seq) + 1
OBVIOUS

LEMMA UncertainType ==
  ASSUME NEW S, NEW table \in Seq(S), NEW row \in S, NEW after \in {table, Append(table, row)}
  PROVE  after \in Seq(S)
BY AppendType

LEMMA EmptyType == \A S : <<>> \in Seq(S)
OBVIOUS

(* alert_id_map only ever yields ids.                                      *)
LEMMA MappedIdType ==
  ASSUME NEW s \in Snapshots, NEW id \in Nat
  PROVE  MappedId(s, id) \in Nat
<1>1. /\ s.newIds \in Seq(Nat)
      /\ \A i \in DOMAIN s.newIds : s.newIds[i] \in Nat
  BY DEF Snapshots
<1> QED
  BY <1>1 DEF MappedId

LEMMA InitType == Init => TypeOK
<1> SUFFICES ASSUME Init PROVE TypeOK
  OBVIOUS
<1>1. alertRows \in Seq(Alerts)
  <2>1. 0 \in Alerts /\ OldRows \in Nat
    BY BoundsAssumption DEF Alerts
  <2> QED
    BY <2>1 DEF Init
<1>2. snap \in [Threads -> Snapshots]
  BY EmptyType DEF Init, NoSnapshot, Snapshots
<1>3. pc \in [Threads -> PCs]
  BY DEF Init, PCs
<1>4. alertBuf \in Seq(Entry) /\ childBuf \in Seq(Child) /\ childRows \in Seq(Child)
  BY EmptyType DEF Init
<1>5. /\ useMemory \in BOOLEAN /\ flushing \in BOOLEAN
      /\ alert \in Alerts /\ kind \in {"alert", "child"} /\ ref \in Nat
      /\ errors \in 0..MaxErrors /\ unlocked \subseteq {"alert", "child"} \X Alerts
  <2>1. 0 \in Alerts /\ 0 \in 0..MaxErrors
    BY BoundsAssumption DEF Alerts
  <2> QED
    BY <2>1 DEF Init
<1> QED
  BY <1>1, <1>2, <1>3, <1>4, <1>5 DEF TypeOK

(***************************************************************************)
(* Type correctness, one step per action.                                  *)
(***************************************************************************)
LEMMA GotoType ==
  ASSUME pc \in [Threads -> PCs], NEW t, NEW where \in PCs, Goto(t, where)
  PROVE  pc' \in [Threads -> PCs]
BY DEF Goto

LEMMA SnapType ==
  ASSUME TypeOK, NEW t \in Threads
  PROVE  /\ snap[t] \in Snapshots
         /\ snap[t].alerts \in Seq(Entry) /\ snap[t].children \in Seq(Child)
         /\ snap[t].newIds \in Seq(Nat) /\ snap[t].sent \in Nat
BY DEF TypeOK, Snapshots

(* What the event loop appends to a buffer, and what it goes on with.      *)
LEMMA BufferType ==
  ASSUME TypeOK, NEW id \in Nat, Buffer(id)
  PROVE  alertBuf' \in Seq(Entry) /\ childBuf' \in Seq(Child)
<1>1. [alert |-> alert, id |-> id] \in Entry /\ [alert |-> alert, ref |-> ref] \in Child
  BY DEF TypeOK, Entry, Child
<1>2. alertBuf \in Seq(Entry) /\ childBuf \in Seq(Child)
  BY DEF TypeOK
<1>3. /\ Append(alertBuf, [alert |-> alert, id |-> id]) \in Seq(Entry)
      /\ Append(childBuf, [alert |-> alert, ref |-> ref]) \in Seq(Child)
  BY <1>1, <1>2, AppendType
<1> QED
  BY <1>2, <1>3 DEF Buffer

LEMMA StoredType ==
  ASSUME TypeOK, NEW id \in Nat, Stored(id)
  PROVE  /\ pc' \in [Threads -> PCs]
         /\ alert' \in Alerts /\ kind' \in {"alert", "child"} /\ ref' \in Nat
<1>1. (IF kind = "alert" THEN "check" ELSE "idle") \in PCs
  BY DEF PCs
<1> QED
  BY <1>1, GotoType DEF TypeOK, Stored

LEMMA ExceptType ==
  ASSUME TypeOK, Except
  PROVE  /\ pc' \in [Threads -> PCs]
         /\ alert' \in Alerts /\ kind' \in {"alert", "child"} /\ ref' \in Nat
<1>1. "fallback" \in PCs /\ Len(alertBuf) \in Nat
  BY DEF PCs, TypeOK
<1> QED
  BY <1>1, GotoType DEF TypeOK, Except

LEMMA FailsType == TypeOK /\ Fails => errors' \in 0..MaxErrors
BY BoundsAssumption DEF TypeOK, Fails

LEMMA RestType == \A t \in Threads : Rest(t) \in PCs
BY DEF Rest, PCs

(* The next row of a flush is a record.                                    *)
LEMMA NextAlertType ==
  ASSUME TypeOK, NEW t \in Threads, Len(snap[t].newIds) < Len(snap[t].alerts)
  PROVE  snap[t].alerts[Len(snap[t].newIds) + 1].alert \in Alerts
<1>1. snap[t].alerts[Len(snap[t].newIds) + 1] \in Entry
  BY SnapType
<1> QED
  BY <1>1 DEF Entry

LEMMA NextChildType ==
  ASSUME TypeOK, NEW t \in Threads, snap[t].sent < Len(snap[t].children)
  PROVE  NextChild(snap[t]) \in Child
<1> DEFINE c == snap[t].children[snap[t].sent + 1]
<1>1. c \in Child
  BY SnapType
<1>2. MappedId(snap[t], c.ref) \in Nat
  BY <1>1, SnapType, MappedIdType DEF Child
<1> QED
  BY <1>1, <1>2 DEF NextChild, Child

LEMMA LoopTypes ==
  ASSUME TypeOK, LoopStep \/ Receive, ~Connect("loop"), ~Flush("loop"), ~PingFails("loop")
  PROVE  TypeOK'
<1>1. CASE Receive
  <2>1. "check" \in PCs /\ alert' \in Alerts
    BY <1>1, BoundsAssumption DEF PCs, Receive, TypeOK, Alerts
  <2> QED
    BY <1>1, <2>1, GotoType DEF Receive, TypeOK, data
<1>2. CASE Check
  <2>1. {"memory", "insert"} \subseteq PCs
    BY DEF PCs
  <2> QED
    BY <1>2, <2>1, GotoType DEF Check, TypeOK, data, caller
<1>3. CASE AddInMemory
  <2>1. Len(alertBuf) + 1 \in Nat
    BY DEF TypeOK
  <2>2. alertBuf' \in Seq(Entry) /\ childBuf' \in Seq(Child)
    BY <1>3, <2>1, BufferType DEF AddInMemory
  <2>3. /\ pc' \in [Threads -> PCs]
        /\ alert' \in Alerts /\ kind' \in {"alert", "child"} /\ ref' \in Nat
    BY <1>3, <2>1, StoredType DEF AddInMemory
  <2> QED
    BY <1>3, <2>2, <2>3 DEF AddInMemory, TypeOK
<1>4. CASE Insert
  <2>1. alertRows' \in Seq(Alerts)
    BY <1>4, AppendType DEF Insert, TypeOK
  <2>2. [alert |-> alert, ref |-> ref] \in Child
    BY DEF TypeOK, Child
  <2>3. childRows' \in Seq(Child)
    BY <1>4, <2>2, AppendType DEF Insert, TypeOK
  <2>4. Len(alertRows') \in Nat
    BY <2>1
  <2>5. /\ pc' \in [Threads -> PCs]
        /\ alert' \in Alerts /\ kind' \in {"alert", "child"} /\ ref' \in Nat
    BY <1>4, <2>4, StoredType DEF Insert
  <2> QED
    BY <1>4, <2>1, <2>3, <2>5 DEF Insert, TypeOK
<1>5. CASE InsertRefused
  BY <1>5, ExceptType DEF InsertRefused, TypeOK, data
<1>6. CASE InsertFails
  <2>1. alertRows' \in Seq(Alerts)
    BY <1>6, UncertainType DEF InsertFails, TypeOK, Uncertain
  <2>2. [alert |-> alert, ref |-> ref] \in Child
    BY DEF TypeOK, Child
  <2>3. childRows' \in Seq(Child)
    BY <1>6, <2>2, UncertainType DEF InsertFails, TypeOK, Uncertain
  <2> QED
    BY <1>6, <2>1, <2>3, ExceptType, FailsType DEF InsertFails, TypeOK
<1>7. CASE FallBack
  <2>1. ref \in Nat
    BY DEF TypeOK
  <2>2. alertBuf' \in Seq(Entry) /\ childBuf' \in Seq(Child)
    BY <1>7, <2>1, BufferType DEF FallBack
  <2>3. /\ pc' \in [Threads -> PCs]
        /\ alert' \in Alerts /\ kind' \in {"alert", "child"} /\ ref' \in Nat
    BY <1>7, <2>1, StoredType DEF FallBack
  <2> QED
    BY <1>7, <2>2, <2>3 DEF FallBack, TypeOK
<1> QED
  BY <1>1, <1>2, <1>3, <1>4, <1>5, <1>6, <1>7 DEF LoopStep

LEMMA ConnectTypes ==
  ASSUME TypeOK, NEW t \in Threads, PingFails(t) \/ Connect(t)
  PROVE  TypeOK'
<1>1. {"connect", "tables", "flush"} \subseteq PCs
  BY DEF PCs, Connecting
<1>2. CASE PingFails(t)
  BY <1>1, <1>2, GotoType, FailsType DEF PingFails, TypeOK, data, caller
<1>3. CASE Connected(t)
  BY <1>1, <1>3, GotoType DEF Connected, TypeOK, data, caller
<1>4. CASE TablesReady(t)
  BY <1>1, <1>4, GotoType DEF TablesReady, TypeOK, data, caller
<1>5. CASE ConnectFails(t)
  <2>1. errors' \in 0..MaxErrors
    BY <1>5, FailsType DEF ConnectFails, TypeOK
  <2> QED
    BY <1>5, <2>1, RestType, GotoType DEF ConnectFails, TypeOK, data, caller
<1> QED
  BY <1>2, <1>3, <1>4, <1>5 DEF Connect

LEMMA FlushTypes ==
  ASSUME TypeOK, NEW t \in Threads, Flush(t)
  PROVE  TypeOK'
<1>1. Flushing \subseteq PCs /\ Rest(t) \in PCs
  BY RestType DEF PCs
<1>2. NoSnapshot \in Snapshots
  BY DEF NoSnapshot, Snapshots
<1>3. CASE SkipFlush(t)
  BY <1>1, <1>3, GotoType DEF SkipFlush, TypeOK, data, caller
<1>4. CASE BeginFlush(t)
  <2>1. [NoSnapshot EXCEPT !.alerts = alertBuf, !.children = childBuf] \in Snapshots
    BY EmptyType DEF NoSnapshot, Snapshots, TypeOK
  <2>2. snap' \in [Threads -> Snapshots]
    BY <1>4, <2>1 DEF BeginFlush, TypeOK
  <2>3. pc' \in [Threads -> PCs]
    BY <1>1, <1>4, GotoType DEF BeginFlush, TypeOK, Flushing
  <2> QED
    BY <1>4, <2>2, <2>3 DEF BeginFlush, TypeOK, data, caller
<1>5. CASE ClearBuffers(t)
  BY <1>1, <1>5, GotoType DEF ClearBuffers, TypeOK, caller, Flushing
<1>6. CASE FlushAlert(t)
  <2>1. alertRows' \in Seq(Alerts)
    BY <1>6, NextAlertType DEF FlushAlert, TypeOK
  <2>2. Append(snap[t].newIds, Len(alertRows')) \in Seq(Nat)
    BY <2>1, SnapType, AppendType
  <2>3. [snap[t] EXCEPT !.newIds = Append(@, Len(alertRows'))] \in Snapshots
    BY <2>2, SnapType DEF Snapshots
  <2>4. snap' \in [Threads -> Snapshots]
    BY <1>6, <2>3 DEF FlushAlert, TypeOK
  <2> QED
    BY <1>6, <2>1, <2>4 DEF FlushAlert, TypeOK, caller
<1>7. CASE AlertsFail(t)
  <2>1. alertRows' \in Seq(Alerts) /\ errors' \in 0..MaxErrors
    BY <1>7, NextAlertType, FailsType, UncertainType DEF AlertsFail, TypeOK, Uncertain
  <2>2. alertBuf' \in Seq(Entry)
    BY <1>7, SnapType DEF AlertsFail, TypeOK
  <2>3. pc' \in [Threads -> PCs]
    BY <1>1, <1>7, GotoType DEF AlertsFail, TypeOK, Flushing
  <2> QED
    BY <1>7, <2>1, <2>2, <2>3 DEF AlertsFail, TypeOK, caller
<1>8. CASE AlertsDone(t)
  BY <1>1, <1>8, GotoType DEF AlertsDone, TypeOK, data, caller, Flushing
<1>9. CASE FlushChild(t)
  <2>1. childRows' \in Seq(Child)
    BY <1>9, NextChildType DEF FlushChild, TypeOK
  <2>2. [snap[t] EXCEPT !.sent = @ + 1] \in Snapshots
    BY SnapType DEF Snapshots
  <2>3. snap' \in [Threads -> Snapshots]
    BY <1>9, <2>2 DEF FlushChild, TypeOK
  <2> QED
    BY <1>9, <2>1, <2>3 DEF FlushChild, TypeOK, caller
<1>10. CASE ChildrenFail(t)
  <2>1. childRows' \in Seq(Child) /\ errors' \in 0..MaxErrors
    BY <1>10, NextChildType, FailsType, UncertainType DEF ChildrenFail, TypeOK, Uncertain
  <2> QED
    BY <1>1, <1>10, <2>1, GotoType DEF ChildrenFail, TypeOK, caller, Flushing
<1>11. CASE ChildrenDone(t)
  BY <1>1, <1>11, GotoType DEF ChildrenDone, TypeOK, data, caller, Flushing
<1>12. CASE RestoreChildren(t)
  <2>1. childBuf' \in Seq(Child)
    BY <1>12, SnapType DEF RestoreChildren, TypeOK
  <2> QED
    BY <1>1, <1>12, <2>1, GotoType DEF RestoreChildren, TypeOK, caller, Flushing
<1>13. CASE EndFlush(t)
  BY <1>1, <1>2, <1>13, GotoType DEF EndFlush, TypeOK, data, caller
<1> QED
  BY <1>3, <1>4, <1>5, <1>6, <1>7, <1>8, <1>9, <1>10, <1>11, <1>12, <1>13 DEF Flush

LEMMA TypeStep == TypeOK /\ [Next]_vars => TypeOK'
<1> SUFFICES ASSUME TypeOK, [Next]_vars PROVE TypeOK'
  OBVIOUS
<1>1. "loop" \in Threads /\ "monitor" \in Threads
  BY DEF Threads
<1>2. CASE MonitorReconnects
  <2>1. "connect" \in PCs
    BY DEF PCs, Connecting
  <2> QED
    BY <1>2, <2>1, GotoType DEF MonitorReconnects, TypeOK, data, caller
<1>3. CASE MonitorPings \/ UNCHANGED vars
  BY <1>3 DEF MonitorPings, vars, TypeOK
<1> QED
  BY <1>1, <1>2, <1>3, LoopTypes, ConnectTypes, FlushTypes DEF Next, LoopStep, MonitorStep

(* The shared state of the storage layer and both threads' locals keep     *)
(* their types.                                                            *)
THEOREM TypeCorrect == Spec => []TypeOK
BY InitType, TypeStep, PTL DEF Spec

(***************************************************************************)
(* One flush at a time. OneFlusher is inductive: the flag goes up under    *)
(* the lock, when it was down, and comes down with the thread that raised  *)
(* it.                                                                     *)
(***************************************************************************)
Unmoved == UNCHANGED <<flushing>> /\ \A u \in Threads : pc'[u] \in Flushing <=> pc[u] \in Flushing

LEMMA GotoElsewhere ==
  ASSUME TypeOK, NEW t \in Threads, NEW where, Goto(t, where), UNCHANGED flushing,
         where \in Flushing <=> pc[t] \in Flushing
  PROVE  Unmoved
BY DEF TypeOK, Goto, Unmoved

LEMMA FlusherLoop ==
  ASSUME TypeOK, Receive \/ Check \/ AddInMemory \/ Insert \/ InsertRefused \/ InsertFails \/ FallBack
  PROVE  Unmoved
<1>1. "loop" \in Threads
  BY DEF Threads
<1>2. PICK where \in {"check", "memory", "insert", "fallback", "idle"} : Goto("loop", where)
  BY DEF Receive, Check, AddInMemory, Insert, InsertRefused, InsertFails, FallBack, Stored, Except
<1>3. pc["loop"] \in {"idle", "check", "recheck", "memory", "insert", "fallback"}
  BY DEF Receive, Check, AddInMemory, Insert, InsertRefused, InsertFails, FallBack
<1>4. UNCHANGED flushing
  BY DEF Receive, Check, AddInMemory, Insert, InsertRefused, InsertFails, FallBack
<1>5. where \notin Flushing /\ pc["loop"] \notin Flushing
  BY <1>3 DEF Flushing
<1> QED
  BY <1>1, <1>2, <1>4, <1>5, GotoElsewhere

LEMMA FlusherConnect ==
  ASSUME TypeOK, NEW t \in Threads, PingFails(t) \/ Connect(t) \/ SkipFlush(t)
  PROVE  Unmoved
<1>1. PICK where \in {"connect", "tables", "flush", "recheck", "sleep"} : Goto(t, where)
  BY DEF PingFails, Connect, Connected, TablesReady, ConnectFails, SkipFlush, Rest
<1>2. pc[t] \in {"check", "sleep", "connect", "tables", "flush"}
  BY DEF PingFails, Connect, Connected, TablesReady, ConnectFails, SkipFlush
<1>3. UNCHANGED flushing
  BY DEF PingFails, Connect, Connected, TablesReady, ConnectFails, SkipFlush
<1>4. where \notin Flushing /\ pc[t] \notin Flushing
  BY <1>2 DEF Flushing
<1> QED
  BY <1>1, <1>3, <1>4, GotoElsewhere

LEMMA FlusherStep == TypeOK /\ OneFlusher /\ [Next]_vars => OneFlusher'
<1> SUFFICES ASSUME TypeOK, OneFlusher, [Next]_vars PROVE OneFlusher'
  OBVIOUS
<1>1. CASE Unmoved
  BY <1>1 DEF Unmoved, OneFlusher
<1>2. CASE MonitorReconnects
  <2>1. "monitor" \in Threads /\ "connect" \notin Flushing /\ "sleep" \notin Flushing
    BY DEF Threads, Flushing
  <2> QED
    BY <1>1, <1>2, <2>1, GotoElsewhere DEF MonitorReconnects
<1>3. CASE MonitorPings \/ UNCHANGED vars
  BY <1>3 DEF MonitorPings, vars, OneFlusher
<1>4. ASSUME NEW t \in Threads, BeginFlush(t) PROVE OneFlusher'
  <2>1. \A u \in Threads : pc[u] \notin Flushing
    BY <1>4 DEF BeginFlush, OneFlusher
  <2>2. flushing' /\ pc' = [pc EXCEPT ![t] = "copied"] /\ "copied" \in Flushing
    BY <1>4 DEF BeginFlush, Goto, Flushing
  <2> QED
    BY <1>4, <2>1, <2>2 DEF OneFlusher, TypeOK
<1>5. ASSUME NEW t \in Threads, EndFlush(t) PROVE OneFlusher'
  <2>1. pc[t] \in Flushing /\ Rest(t) \notin Flushing
    BY <1>5 DEF EndFlush, Flushing, Rest
  <2>2. \A u \in Threads : u # t => pc[u] \notin Flushing
    BY <1>5, <2>1 DEF OneFlusher
  <2>3. ~flushing' /\ pc' = [pc EXCEPT ![t] = Rest(t)]
    BY <1>5 DEF EndFlush, Goto
  <2> QED
    BY <2>1, <2>2, <2>3 DEF OneFlusher, TypeOK
<1>6. ASSUME NEW t \in Threads, Flush(t), ~SkipFlush(t), ~BeginFlush(t), ~EndFlush(t) PROVE Unmoved
  <2>1. CASE FlushAlert(t) \/ FlushChild(t)
    BY <2>1 DEF FlushAlert, FlushChild, Unmoved
  <2>2. CASE ~(FlushAlert(t) \/ FlushChild(t))
    <3>1. PICK where \in Flushing : Goto(t, where)
      BY <1>6, <2>2 DEF Flush, ClearBuffers, AlertsFail, AlertsDone, ChildrenFail, ChildrenDone,
                        RestoreChildren, Flushing
    <3>2. pc[t] \in Flushing /\ UNCHANGED flushing
      BY <1>6, <2>2 DEF Flush, ClearBuffers, AlertsFail, AlertsDone, ChildrenFail, ChildrenDone,
                        RestoreChildren, Flushing
    <3> QED
      BY <3>1, <3>2, GotoElsewhere
  <2> QED
    BY <2>1, <2>2
<1>7. "loop" \in Threads /\ "monitor" \in Threads
  BY DEF Threads
<1>8. ASSUME NEW t \in Threads, PingFails(t) \/ Connect(t) \/ Flush(t) PROVE OneFlusher'
  BY <1>1, <1>4, <1>5, <1>6, <1>8, FlusherConnect
<1> QED
  BY <1>1, <1>2, <1>3, <1>7, <1>8, FlusherLoop DEF Next, LoopStep, MonitorStep

(* At most one thread is between the start and the end of a flush, and     *)
(* _flush_in_progress says whether one is.                                 *)
THEOREM OneFlushAtATime == Spec => []OneFlusher
<1>1. Init => OneFlusher
  BY DEF Init, OneFlusher, Flushing
<1> QED
  BY <1>1, FlusherStep, TypeCorrect, PTL DEF Spec

(***************************************************************************)
(* What every step leaves alone. A thread outside a flush moves no thread  *)
(* in or out of one, and a step of a flush touches only its own locals;    *)
(* the tables only grow, and the buffers shrink only where a flush clears  *)
(* them.                                                                   *)
(***************************************************************************)
Prolongs(new, old) == \A i \in DOMAIN old : i \in DOMAIN new /\ new[i] = old[i]

FlushStep(t) == Flush(t) /\ ~SkipFlush(t)
LoopAlone == Receive \/ Check \/ AddInMemory \/ Insert \/ InsertRefused \/ InsertFails \/ FallBack
Quiet(t) == PingFails(t) \/ Connect(t) \/ SkipFlush(t)
MonitorAlone == MonitorPings \/ MonitorReconnects

LEMMA StepKinds ==
  ASSUME [Next]_vars
  PROVE  \/ LoopAlone
         \/ \E t \in Threads : Quiet(t)
         \/ MonitorAlone \/ UNCHANGED vars
         \/ \E t \in Threads : FlushStep(t)
BY DEF Next, LoopStep, MonitorStep, LoopAlone, Quiet, MonitorAlone, FlushStep, Threads

LEMMA AppendProlongs ==
  ASSUME NEW S, NEW seq \in Seq(S), NEW x \in S
  PROVE  /\ Prolongs(Append(seq, x), seq)
         /\ Len(seq) + 1 \in DOMAIN Append(seq, x)
         /\ Append(seq, x)[Len(seq) + 1] = x
         /\ \A i \in DOMAIN Append(seq, x) : i \in DOMAIN seq \/ i = Len(seq) + 1
BY DEF Prolongs

LEMMA ConcatProlongs ==
  ASSUME NEW S, NEW seq \in Seq(S), NEW tail \in Seq(S)
  PROVE  /\ Prolongs(seq \o tail, seq)
         /\ \A j \in DOMAIN tail : /\ Len(seq) + j \in DOMAIN (seq \o tail)
                                   /\ (seq \o tail)[Len(seq) + j] = tail[j]
         /\ \A i \in DOMAIN (seq \o tail) : \/ i \in DOMAIN seq
                                            \/ \E j \in DOMAIN tail : i = Len(seq) + j
<1>1. /\ DOMAIN seq = 1..Len(seq) /\ DOMAIN tail = 1..Len(tail)
      /\ DOMAIN (seq \o tail) = 1..(Len(seq) + Len(tail))
      /\ Len(seq) \in Nat /\ Len(tail) \in Nat
      /\ \A i \in 1..(Len(seq) + Len(tail)) :
           (seq \o tail)[i] = IF i <= Len(seq) THEN seq[i] ELSE tail[i - Len(seq)]
  OBVIOUS
<1>2. \A i \in 1..(Len(seq) + Len(tail)) : i \in 1..Len(seq) \/ i - Len(seq) \in 1..Len(tail)
  BY <1>1
<1>3. \A j \in 1..Len(tail) : Len(seq) + j \in 1..(Len(seq) + Len(tail))
                              /\ ~(Len(seq) + j <= Len(seq)) /\ Len(seq) + j - Len(seq) = j
  BY <1>1
<1> DEFINE q == seq \o tail
<1>4. \A j \in 1..Len(tail) : q[Len(seq) + j] = tail[j]
  BY <1>1, <1>3
<1>5. \A i \in 1..(Len(seq) + Len(tail)) : i \in 1..Len(seq) \/ \E j \in 1..Len(tail) : i = Len(seq) + j
  <2> SUFFICES ASSUME NEW i \in 1..(Len(seq) + Len(tail)), i \notin 1..Len(seq)
               PROVE  \E j \in 1..Len(tail) : i = Len(seq) + j
    OBVIOUS
  <2>1. i - Len(seq) \in 1..Len(tail) /\ i = Len(seq) + (i - Len(seq))
    BY <1>1, <1>2
  <2> QED
    BY <2>1
<1>6. Prolongs(q, seq)
  BY <1>1 DEF Prolongs
<1> HIDE DEF q
<1> QED
  BY <1>1, <1>3, <1>4, <1>5, <1>6 DEF q

LEMMA SameProlongs ==
  /\ \A seq : Prolongs(seq, seq)
  /\ \A S : \A seq \in Seq(S), x \in S : \A after :
       after \in {seq, Append(seq, x)} => Prolongs(after, seq)
<1>1. \A seq : Prolongs(seq, seq)
  BY DEF Prolongs
<1>2. ASSUME NEW S, NEW seq \in Seq(S), NEW x \in S, NEW after \in {seq, Append(seq, x)}
      PROVE  Prolongs(after, seq)
  BY <1>1, AppendProlongs
<1> QED
  BY <1>1, <1>2

(* Outside a flush.                                                        *)
LEMMA OutsideFlush ==
  ASSUME TypeOK, LoopAlone \/ (\E t \in Threads : Quiet(t)) \/ MonitorAlone \/ UNCHANGED vars
  PROVE  /\ UNCHANGED snap
         /\ \A t \in Threads : pc[t] \in Flushing \/ pc'[t] \in Flushing => pc'[t] = pc[t]
<1>0. "loop" \in Threads /\ "monitor" \in Threads
  BY DEF Threads
<1>1. ASSUME NEW t \in Threads, NEW where, Goto(t, where), where \notin Flushing, pc[t] \notin Flushing
      PROVE  \A u \in Threads : pc[u] \in Flushing \/ pc'[u] \in Flushing => pc'[u] = pc[u]
  BY <1>1 DEF TypeOK, Goto
<1>2. CASE LoopAlone
  <2>1. PICK where \in {"check", "memory", "insert", "fallback", "idle"} : Goto("loop", where)
    BY <1>2 DEF LoopAlone, Receive, Check, AddInMemory, Insert, InsertRefused, InsertFails, FallBack, Stored, Except
  <2>2. pc["loop"] \in {"idle", "check", "recheck", "memory", "insert", "fallback"} /\ UNCHANGED snap
    BY <1>2 DEF LoopAlone, Receive, Check, AddInMemory, Insert, InsertRefused, InsertFails, FallBack
  <2>3. where \notin Flushing /\ pc["loop"] \notin Flushing
    BY <2>2 DEF Flushing
  <2> QED
    BY <1>0, <1>1, <2>1, <2>2, <2>3
<1>3. ASSUME NEW t \in Threads, Quiet(t)
      PROVE  /\ UNCHANGED snap
             /\ \A u \in Threads : pc[u] \in Flushing \/ pc'[u] \in Flushing => pc'[u] = pc[u]
  <2>1. PICK where \in {"connect", "tables", "flush", "recheck", "sleep"} : Goto(t, where)
    BY <1>3 DEF Quiet, PingFails, Connect, Connected, TablesReady, ConnectFails, SkipFlush, Rest
  <2>2. pc[t] \in {"check", "sleep", "connect", "tables", "flush"} /\ UNCHANGED snap
    BY <1>3 DEF Quiet, PingFails, Connect, Connected, TablesReady, ConnectFails, SkipFlush
  <2>3. where \notin Flushing /\ pc[t] \notin Flushing
    BY <2>2 DEF Flushing
  <2> QED
    BY <1>1, <2>1, <2>2, <2>3
<1>4. CASE MonitorReconnects
  <2>1. "connect" \notin Flushing /\ "sleep" \notin Flushing
    BY DEF Flushing
  <2> QED
    BY <1>0, <1>1, <1>4, <2>1 DEF MonitorReconnects
<1>5. CASE MonitorPings \/ UNCHANGED vars
  BY <1>5 DEF MonitorPings, vars
<1> QED
  BY <1>2, <1>3, <1>4, <1>5 DEF MonitorAlone

(* Inside a flush.                                                         *)
LEMMA InsideFlush ==
  ASSUME TypeOK, NEW t \in Threads, FlushStep(t)
  PROVE  /\ UNCHANGED <<caller, unlocked, useMemory>>
         /\ \A u \in Threads : u # t => pc'[u] = pc[u] /\ snap'[u] = snap[u]
         /\ pc[t] \in {"flush"} \cup Flushing /\ pc[t] # "idle" /\ pc'[t] # "idle"
<1>1. /\ UNCHANGED <<caller, unlocked, useMemory>>
      /\ pc[t] \in {"flush"} \cup Flushing
  BY DEF FlushStep, Flush, BeginFlush, ClearBuffers, FlushAlert, AlertsFail, AlertsDone, FlushChild,
         ChildrenFail, ChildrenDone, RestoreChildren, EndFlush, Flushing
<1>2. pc' = pc \/ \E where \in Flushing \cup {"recheck", "sleep"} : Goto(t, where)
  BY DEF FlushStep, Flush, BeginFlush, ClearBuffers, FlushAlert, AlertsFail, AlertsDone, FlushChild,
         ChildrenFail, ChildrenDone, RestoreChildren, EndFlush, Flushing, Rest
<1>3. snap' = snap \/ \E s : snap' = [snap EXCEPT ![t] = s]
  <2>1. CASE FlushAlert(t)
    BY <2>1 DEF FlushAlert
  <2>2. CASE FlushChild(t)
    BY <2>2 DEF FlushChild
  <2> QED
    BY <2>1, <2>2
       DEF FlushStep, Flush, BeginFlush, ClearBuffers, AlertsFail, AlertsDone,
         ChildrenFail, ChildrenDone, RestoreChildren, EndFlush, data
<1>4. "idle" \notin Flushing \cup {"recheck", "sleep", "flush"}
  BY DEF Flushing
<1> QED
  BY <1>1, <1>2, <1>3, <1>4 DEF TypeOK, Goto

LEMMA TablesGrow ==
  ASSUME TypeOK, [Next]_vars
  PROVE  Prolongs(alertRows', alertRows) /\ Prolongs(childRows', childRows)
<1>0. /\ alertRows \in Seq(Alerts) /\ childRows \in Seq(Child)
      /\ alert \in Alerts /\ [alert |-> alert, ref |-> ref] \in Child
  BY DEF TypeOK, Child
<1>1. CASE LoopAlone
  <2>1. alertRows' \in {alertRows, Append(alertRows, alert)}
    BY <1>1 DEF LoopAlone, Receive, Check, AddInMemory, Insert, InsertRefused, InsertFails, FallBack,
                Uncertain, data
  <2>2. childRows' \in {childRows, Append(childRows, [alert |-> alert, ref |-> ref])}
    BY <1>1 DEF LoopAlone, Receive, Check, AddInMemory, Insert, InsertRefused, InsertFails, FallBack,
                Uncertain, data
  <2> QED
    BY <1>0, <2>1, <2>2, SameProlongs
<1>2. ASSUME UNCHANGED <<alertRows, childRows>>
      PROVE  Prolongs(alertRows', alertRows) /\ Prolongs(childRows', childRows)
  BY <1>2, SameProlongs
<1>3. ASSUME NEW t \in Threads, Quiet(t)
      PROVE  UNCHANGED <<alertRows, childRows>>
  BY <1>3 DEF Quiet, PingFails, Connect, Connected, TablesReady, ConnectFails, SkipFlush, data
<1>4. CASE MonitorAlone \/ UNCHANGED vars
  BY <1>2, <1>4 DEF MonitorAlone, MonitorPings, MonitorReconnects, vars, data
<1>5. ASSUME NEW t \in Threads, FlushAlert(t) \/ AlertsFail(t)
      PROVE  Prolongs(alertRows', alertRows) /\ Prolongs(childRows', childRows)
  <2> DEFINE x == snap[t].alerts[Len(snap[t].newIds) + 1].alert
  <2>1. Len(snap[t].newIds) < Len(snap[t].alerts)
        /\ alertRows' \in {alertRows, Append(alertRows, x)} /\ childRows' = childRows
    BY <1>5 DEF FlushAlert, AlertsFail, Uncertain
  <2>2. x \in Alerts
    BY <2>1, NextAlertType
  <2> QED
    BY <1>0, <2>1, <2>2, SameProlongs
<1>6. ASSUME NEW t \in Threads, FlushChild(t) \/ ChildrenFail(t)
      PROVE  Prolongs(alertRows', alertRows) /\ Prolongs(childRows', childRows)
  <2>1. snap[t].sent < Len(snap[t].children)
        /\ childRows' \in {childRows, Append(childRows, NextChild(snap[t]))} /\ alertRows' = alertRows
    BY <1>6 DEF FlushChild, ChildrenFail, Uncertain
  <2>2. NextChild(snap[t]) \in Child
    BY <2>1, NextChildType
  <2> QED
    BY <1>0, <2>1, <2>2, SameProlongs
<1>7. ASSUME NEW t \in Threads, FlushStep(t)
      PROVE  Prolongs(alertRows', alertRows) /\ Prolongs(childRows', childRows)
  <2>1. CASE FlushAlert(t) \/ AlertsFail(t) \/ FlushChild(t) \/ ChildrenFail(t)
    BY <1>5, <1>6, <2>1
  <2>2. CASE ~(FlushAlert(t) \/ AlertsFail(t) \/ FlushChild(t) \/ ChildrenFail(t))
    <3>1. UNCHANGED <<alertRows, childRows>>
      BY <1>7, <2>2 DEF FlushStep, Flush, BeginFlush, ClearBuffers, AlertsDone, ChildrenDone,
                        RestoreChildren, EndFlush, data
    <3> QED
      BY <1>2, <3>1
  <2> QED
    BY <2>1, <2>2
<1> QED
  BY <1>1, <1>2, <1>3, <1>4, <1>7, StepKinds

LEMMA BuffersGrow ==
  ASSUME TypeOK, [Next]_vars, \A t \in Threads : ~ClearBuffers(t)
  PROVE  Prolongs(alertBuf', alertBuf) /\ Prolongs(childBuf', childBuf)
<1>0. /\ alertBuf \in Seq(Entry) /\ childBuf \in Seq(Child)
  BY DEF TypeOK
<1>1. ASSUME UNCHANGED <<alertBuf, childBuf>>
      PROVE  Prolongs(alertBuf', alertBuf) /\ Prolongs(childBuf', childBuf)
  BY <1>1, SameProlongs
<1>2. ASSUME NEW id \in Nat, Buffer(id)
      PROVE  Prolongs(alertBuf', alertBuf) /\ Prolongs(childBuf', childBuf)
  <2>1. [alert |-> alert, id |-> id] \in Entry /\ [alert |-> alert, ref |-> ref] \in Child
    BY DEF TypeOK, Entry, Child
  <2> QED
    BY <1>0, <1>2, <2>1, SameProlongs, AppendProlongs DEF Buffer
<1>3. CASE LoopAlone
  <2>1. CASE AddInMemory \/ FallBack
    <3>1. Len(alertBuf) + 1 \in Nat /\ ref \in Nat
      BY DEF TypeOK
    <3> QED
      BY <1>2, <2>1, <3>1 DEF AddInMemory, FallBack
  <2>2. CASE ~(AddInMemory \/ FallBack)
    <3>1. UNCHANGED <<alertBuf, childBuf>>
      BY <1>3, <2>2 DEF LoopAlone, Receive, Check, Insert, InsertRefused, InsertFails, data
    <3> QED
      BY <1>1, <3>1
  <2> QED
    BY <2>1, <2>2
<1>4. ASSUME NEW t \in Threads, Quiet(t)
      PROVE  UNCHANGED <<alertBuf, childBuf>>
  BY <1>4 DEF Quiet, PingFails, Connect, Connected, TablesReady, ConnectFails, SkipFlush, data
<1>5. CASE MonitorAlone \/ UNCHANGED vars
  BY <1>1, <1>5 DEF MonitorAlone, MonitorPings, MonitorReconnects, vars, data
<1>6. ASSUME NEW t \in Threads, FlushStep(t)
      PROVE  Prolongs(alertBuf', alertBuf) /\ Prolongs(childBuf', childBuf)
  <2>1. CASE AlertsFail(t)
    BY <1>0, <2>1, SnapType, ConcatProlongs, SameProlongs DEF AlertsFail
  <2>2. CASE RestoreChildren(t)
    BY <1>0, <2>2, SnapType, ConcatProlongs, SameProlongs DEF RestoreChildren
  <2>3. CASE ~(AlertsFail(t) \/ RestoreChildren(t))
    <3>1. UNCHANGED <<alertBuf, childBuf>>
      BY <1>6, <2>3 DEF FlushStep, Flush, BeginFlush, FlushAlert, AlertsDone, FlushChild,
                        ChildrenFail, ChildrenDone, EndFlush, data
    <3> QED
      BY <1>1, <3>1
  <2> QED
    BY <2>1, <2>2, <2>3
<1> QED
  BY <1>1, <1>3, <1>4, <1>5, <1>6, StepKinds

(***************************************************************************)
(* Nothing accepted is lost. A record is held by a buffer, by a table, or  *)
(* by the snapshot of a flush that has yet to write it.                    *)
(***************************************************************************)
Holds(seq, a) == \E i \in DOMAIN seq : seq[i].alert = a

AlertHeld(a) ==
    \/ Holds(alertBuf, a)
    \/ \E i \in DOMAIN alertRows : alertRows[i] = a
    \/ \E t \in Threads : /\ pc[t] = "alerts"
                          /\ \E i \in DOMAIN snap[t].alerts :
                               i > Len(snap[t].newIds) /\ snap[t].alerts[i].alert = a

AnalysisHeld(a) ==
    \/ Holds(childBuf, a) \/ Holds(childRows, a)
    \/ \E t \in Threads : /\ pc[t] \in {"alerts", "children", "restore"}
                          /\ Holds(snap[t].children, a)

(* While a thread is between the copy and the clear, what it will clear is *)
(* in its snapshot, or was appended without the lock.                      *)
Copied ==
    \A t \in Threads : pc[t] = "copied" =>
      /\ snap[t].newIds = <<>> /\ snap[t].sent = 0
      /\ \A i \in DOMAIN alertBuf : \/ Holds(snap[t].alerts, alertBuf[i].alert)
                                    \/ <<"alert", alertBuf[i].alert>> \in unlocked
      /\ \A i \in DOMAIN childBuf : \/ Holds(snap[t].children, childBuf[i].alert)
                                    \/ <<"child", childBuf[i].alert>> \in unlocked

(* What a flush counts as sent is in the table.                            *)
Sent ==
    \A t \in Threads :
      /\ pc[t] = "alerts" => snap[t].sent = 0
      /\ pc[t] = "children" => \A k \in DOMAIN snap[t].children :
                                 k <= snap[t].sent => Holds(childRows, snap[t].children[k].alert)

LEMMA HoldsProlonged ==
  ASSUME NEW new, NEW old, Prolongs(new, old), NEW a, Holds(old, a)
  PROVE  Holds(new, a)
BY DEF Prolongs, Holds

LEMMA HoldsAppend ==
  ASSUME NEW S, NEW seq \in Seq(S), NEW x \in S
  PROVE  Holds(Append(seq, x), x.alert)
<1> DEFINE q == Append(seq, x)
<1>1. Len(seq) + 1 \in DOMAIN q /\ q[Len(seq) + 1] = x
  BY AppendProlongs
<1> HIDE DEF q
<1> QED
  BY <1>1 DEF Holds, q

LEMMA HoldsConcat ==
  ASSUME NEW S, NEW seq \in Seq(S), NEW tail \in Seq(S), NEW a, Holds(tail, a)
  PROVE  Holds(seq \o tail, a)
<1> DEFINE q == seq \o tail
<1>1. PICK j \in DOMAIN tail : tail[j].alert = a
  BY DEF Holds
<1>2. Len(seq) + j \in DOMAIN q /\ q[Len(seq) + j] = tail[j]
  BY ConcatProlongs
<1> HIDE DEF q
<1> QED
  BY <1>1, <1>2 DEF Holds, q

(* The lock keeps AddInMemory and the restores away from a copied buffer;  *)
(* only FallBack ignores it, and what it appends is noted as unlocked.     *)

LEMMA CopiedFallBack ==
  ASSUME TypeOK, Copied, FallBack
  PROVE  Copied'
<1>0. "loop" \in Threads /\ [alert |-> alert, id |-> ref] \in Entry
      /\ [alert |-> alert, ref |-> ref] \in Child
  BY DEF Threads, TypeOK, Entry, Child
<1> SUFFICES ASSUME NEW t \in Threads, pc'[t] = "copied"
             PROVE  /\ snap'[t].newIds = <<>> /\ snap'[t].sent = 0
                    /\ \A i \in DOMAIN alertBuf' : \/ Holds(snap'[t].alerts, alertBuf'[i].alert)
                                                   \/ <<"alert", alertBuf'[i].alert>> \in unlocked'
                    /\ \A i \in DOMAIN childBuf' : \/ Holds(snap'[t].children, childBuf'[i].alert)
                                                   \/ <<"child", childBuf'[i].alert>> \in unlocked'
  BY DEF Copied
<1>1. UNCHANGED snap /\ pc[t] = "copied"
  BY OutsideFlush DEF LoopAlone, Flushing
<1>2. unlocked' = unlocked \cup {<<kind, alert>>} /\ Buffer(ref)
  BY DEF FallBack
<1>3. /\ \A i \in DOMAIN alertBuf : \/ Holds(snap[t].alerts, alertBuf[i].alert)
                                    \/ <<"alert", alertBuf[i].alert>> \in unlocked
      /\ \A i \in DOMAIN childBuf : \/ Holds(snap[t].children, childBuf[i].alert)
                                    \/ <<"child", childBuf[i].alert>> \in unlocked
      /\ snap[t].newIds = <<>> /\ snap[t].sent = 0
  BY <1>1 DEF Copied
<1>4. ASSUME NEW i \in DOMAIN alertBuf'
      PROVE  \/ Holds(snap[t].alerts, alertBuf'[i].alert)
             \/ <<"alert", alertBuf'[i].alert>> \in unlocked'
  <2>1. CASE kind = "alert"
    <3> DEFINE e == [alert |-> alert, id |-> ref]
    <3>1. alertBuf' = Append(alertBuf, e) /\ e.alert = alert
      BY <1>2, <2>1 DEF Buffer
    <3> HIDE DEF e
    <3>2. alertBuf \in Seq(Entry) /\ e \in Entry
      BY <1>0 DEF TypeOK, e
    <3>3. \/ i \in DOMAIN alertBuf /\ alertBuf'[i] = alertBuf[i]
          \/ alertBuf'[i] = e
      BY <3>1, <3>2, AppendProlongs DEF Prolongs
    <3> QED
      BY <1>2, <1>3, <2>1, <3>1, <3>3
  <2>2. CASE kind # "alert"
    BY <1>2, <1>3, <2>2 DEF Buffer
  <2> QED
    BY <2>1, <2>2
<1>5. ASSUME NEW i \in DOMAIN childBuf'
      PROVE  \/ Holds(snap[t].children, childBuf'[i].alert)
             \/ <<"child", childBuf'[i].alert>> \in unlocked'
  <2>1. CASE kind # "alert"
    <3> DEFINE c == [alert |-> alert, ref |-> ref]
    <3>1. childBuf' = Append(childBuf, c) /\ c.alert = alert
      BY <1>2, <2>1 DEF Buffer
    <3> HIDE DEF c
    <3>2. childBuf \in Seq(Child) /\ c \in Child /\ kind = "child"
      BY <1>0, <2>1 DEF TypeOK, c
    <3>3. \/ i \in DOMAIN childBuf /\ childBuf'[i] = childBuf[i]
          \/ childBuf'[i] = c
      BY <3>1, <3>2, AppendProlongs DEF Prolongs
    <3> QED
      BY <1>2, <1>3, <3>1, <3>2, <3>3
  <2>2. CASE kind = "alert"
    BY <1>2, <1>3, <2>2 DEF Buffer
  <2> QED
    BY <2>1, <2>2
<1> QED
  BY <1>1, <1>3, <1>4, <1>5

LEMMA CopiedStep == TypeOK /\ Copied /\ [Next]_vars => Copied'
<1> SUFFICES ASSUME TypeOK, Copied, [Next]_vars PROVE Copied'
  OBVIOUS
<1>1. CASE FallBack
  BY <1>1, CopiedFallBack
<1>2. CASE LoopAlone /\ ~FallBack
  <2>1. CASE AddInMemory
    <3>1. \A t \in Threads : pc[t] # "copied"
      BY <2>1 DEF AddInMemory, LockFree
    <3>2. \A t \in Threads : pc'[t] # "copied"
      BY <1>2, <3>1, OutsideFlush DEF Flushing
    <3> QED
      BY <3>2 DEF Copied
  <2>2. CASE ~AddInMemory
    <3>1. UNCHANGED <<alertBuf, childBuf, unlocked>>
      BY <1>2, <2>2 DEF LoopAlone, Receive, Check, Insert, InsertRefused, InsertFails, data
    <3>2. UNCHANGED snap /\ \A t \in Threads : pc'[t] = "copied" => pc[t] = "copied"
      BY <1>2, OutsideFlush DEF Flushing
    <3> QED
      BY <3>1, <3>2 DEF Copied
  <2> QED
    BY <2>1, <2>2
<1>3. CASE (\E t \in Threads : Quiet(t)) \/ MonitorAlone \/ UNCHANGED vars
  <2>1. UNCHANGED <<alertBuf, childBuf, unlocked>>
    <3>1. ASSUME NEW t \in Threads, Quiet(t) PROVE UNCHANGED <<alertBuf, childBuf, unlocked>>
      BY <3>1 DEF Quiet, PingFails, Connect, Connected, TablesReady, ConnectFails, SkipFlush, data
    <3>2. CASE MonitorAlone \/ UNCHANGED vars
      BY <3>2 DEF MonitorAlone, MonitorPings, MonitorReconnects, vars, data
    <3> QED
      BY <1>3, <3>1, <3>2
  <2>2. UNCHANGED snap /\ \A t \in Threads : pc'[t] = "copied" => pc[t] = "copied"
    BY <1>3, OutsideFlush DEF Flushing
  <2> QED
    BY <2>1, <2>2 DEF Copied
<1>4. ASSUME NEW t \in Threads, FlushStep(t)
      PROVE  Copied'
  <2>1. CASE BeginFlush(t)
    <3>1. /\ \A u \in Threads : pc[u] # "copied"
          /\ UNCHANGED <<alertBuf, childBuf>>
          /\ snap'[t] = [NoSnapshot EXCEPT !.alerts = alertBuf, !.children = childBuf]
      BY <2>1 DEF BeginFlush, LockFree, data, TypeOK
    <3>2. /\ snap'[t].alerts = alertBuf' /\ snap'[t].children = childBuf'
          /\ snap'[t].newIds = <<>> /\ snap'[t].sent = 0
      BY <3>1 DEF NoSnapshot
    <3>3. \A u \in Threads : pc'[u] = "copied" => u = t
      BY <1>4, <3>1, InsideFlush
    <3> QED
      BY <3>2, <3>3 DEF Copied, Holds
  <2>2. CASE ~BeginFlush(t)
    <3>1. pc'[t] # "copied"
      BY <1>4, <2>2 DEF FlushStep, Flush, ClearBuffers, FlushAlert, AlertsFail, AlertsDone, FlushChild,
           ChildrenFail, ChildrenDone, RestoreChildren, EndFlush, Goto, Rest, TypeOK
    <3>2. UNCHANGED unlocked
          /\ \A u \in Threads : u # t => pc'[u] = pc[u] /\ snap'[u] = snap[u]
      BY <1>4, InsideFlush
    <3>3. CASE AlertsFail(t) \/ RestoreChildren(t)
      <4>1. \A u \in Threads : pc[u] # "copied"
        BY <3>3 DEF AlertsFail, RestoreChildren, LockFree
      <4> QED
        BY <3>1, <3>2, <4>1 DEF Copied
    <3>4. CASE ClearBuffers(t)
      <4>1. alertBuf' = <<>> /\ childBuf' = <<>>
        BY <3>4 DEF ClearBuffers
      <4>2. \A u \in Threads : pc'[u] = "copied" =>
              pc[u] = "copied" /\ snap'[u] = snap[u]
        BY <3>1, <3>2
      <4> QED
        BY <4>1, <4>2 DEF Copied
    <3>5. CASE ~(AlertsFail(t) \/ RestoreChildren(t) \/ ClearBuffers(t))
      <4>1. UNCHANGED <<alertBuf, childBuf>>
        BY <1>4, <2>2, <3>5 DEF FlushStep, Flush, FlushAlert, AlertsDone, FlushChild,
                          ChildrenFail, ChildrenDone, EndFlush, data
      <4> QED
        BY <3>1, <3>2, <4>1 DEF Copied
    <3> QED
      BY <3>3, <3>4, <3>5
  <2> QED
    BY <2>1, <2>2
<1> QED
  BY <1>1, <1>2, <1>3, <1>4, StepKinds

(* FlushChild writes the next child under its own alert.                   *)
LEMMA SentStep == TypeOK /\ Copied /\ Sent /\ [Next]_vars => Sent'
<1> SUFFICES ASSUME TypeOK, Copied, Sent, [Next]_vars, NEW t \in Threads
             PROVE  /\ pc'[t] = "alerts" => snap'[t].sent = 0
                    /\ pc'[t] = "children" => \A k \in DOMAIN snap'[t].children :
                           k <= snap'[t].sent => Holds(childRows', snap'[t].children[k].alert)
  BY DEF Sent
<1>1. \A a : Holds(childRows, a) => Holds(childRows', a)
  BY TablesGrow, HoldsProlonged
<1>2. CASE ~\E u \in Threads : FlushStep(u)
  <2>1. /\ UNCHANGED snap
        /\ pc'[t] = "alerts" => pc[t] = "alerts"
        /\ pc'[t] = "children" => pc[t] = "children"
    BY <1>2, StepKinds, OutsideFlush DEF Flushing
  <2>2. /\ pc[t] = "alerts" => snap[t].sent = 0
        /\ pc[t] = "children" => \A k \in DOMAIN snap[t].children :
               k <= snap[t].sent => Holds(childRows, snap[t].children[k].alert)
    BY DEF Sent
  <2>3. snap'[t] = snap[t]
    BY <2>1
  <2> QED
    BY <1>1, <2>1, <2>2, <2>3
<1>3. ASSUME NEW u \in Threads, FlushStep(u), u # t
      PROVE  snap'[t] = snap[t] /\ pc'[t] = pc[t]
  BY <1>3, InsideFlush
<1>4. CASE FlushChild(t)
  <2> DEFINE n == snap[t].sent
             c == snap[t].children[n + 1]
  <2>1. /\ pc[t] = "children" /\ pc'[t] = "children"
        /\ snap'[t].children = snap[t].children /\ snap'[t].sent = n + 1
        /\ childRows' = Append(childRows, NextChild(snap[t])) /\ n < Len(snap[t].children)
    BY <1>4, SnapType DEF FlushChild, TypeOK, Snapshots
  <2>2. NextChild(snap[t]) \in Child /\ c \in Child /\ n \in Nat
    BY <2>1, SnapType, NextChildType
  <2>3. NextChild(snap[t]).alert = c.alert
    BY <2>2 DEF NextChild, Child
  <2>4. Holds(childRows', c.alert)
    BY <2>1, <2>2, <2>3, AppendProlongs DEF Holds, TypeOK
  <2>5. ASSUME NEW k \in DOMAIN snap[t].children, k <= n + 1
        PROVE  Holds(childRows', snap[t].children[k].alert)
    <3>1. k <= n \/ k = n + 1
      BY <2>2, <2>5, SnapType
    <3> QED
      BY <1>1, <2>1, <2>4, <3>1 DEF Sent
  <2> QED
    BY <2>1, <2>5
<1>5. CASE FlushStep(t) /\ ~FlushChild(t)
  <2>1. CASE ClearBuffers(t)
    <3>1. pc'[t] = "alerts" /\ snap' = snap /\ pc[t] = "copied"
      BY <2>1 DEF ClearBuffers, Goto, TypeOK
    <3> QED
      BY <3>1 DEF Copied
  <2>2. CASE FlushAlert(t)
    <3>1. pc'[t] = "alerts" /\ pc[t] = "alerts" /\ snap'[t].sent = snap[t].sent
      BY <2>2, SnapType DEF FlushAlert, TypeOK, Snapshots
    <3> QED
      BY <3>1 DEF Sent
  <2>3. CASE AlertsDone(t)
    <3>1. pc'[t] = "children" /\ pc[t] = "alerts" /\ snap'[t] = snap[t]
      BY <2>3 DEF AlertsDone, Goto, TypeOK
    <3>2. snap[t].sent = 0 /\ \A k \in DOMAIN snap[t].children : k \in Nat /\ k > 0
      BY <3>1, SnapType DEF Sent
    <3> QED
      BY <3>1, <3>2
  <2>4. CASE ~(ClearBuffers(t) \/ FlushAlert(t) \/ AlertsDone(t))
    <3>1. pc'[t] \notin {"alerts", "children"}
      BY <1>5, <2>4 DEF FlushStep, Flush, BeginFlush, AlertsFail, ChildrenFail, ChildrenDone,
             RestoreChildren, EndFlush, Goto, Rest, TypeOK
    <3> QED
      BY <3>1
  <2> QED
    BY <2>1, <2>2, <2>3, <2>4
<1>6. CASE \E u \in Threads : FlushStep(u) /\ u # t
  BY <1>1, <1>3, <1>6 DEF Sent
<1> QED
  BY <1>2, <1>4, <1>5, <1>6

(* A record once held stays held, or was appended without the lock.        *)
LEMMA AlertKept ==
  ASSUME TypeOK, Copied, [Next]_vars, NEW a, AlertHeld(a)
  PROVE  AlertHeld(a)' \/ <<"alert", a>> \in unlocked
<1>1. CASE \E i \in DOMAIN alertRows : alertRows[i] = a
  BY <1>1, TablesGrow DEF Prolongs, AlertHeld
<1>2. ASSUME NEW t \in Threads, ClearBuffers(t), Holds(alertBuf, a)
      PROVE  AlertHeld(a)' \/ <<"alert", a>> \in unlocked
  <2>1. pc[t] = "copied" /\ pc'[t] = "alerts" /\ snap' = snap
    BY <1>2 DEF ClearBuffers, Goto, TypeOK
  <2>2. snap[t].newIds = <<>> /\ (Holds(snap[t].alerts, a) \/ <<"alert", a>> \in unlocked)
    BY <1>2, <2>1 DEF Copied, Holds
  <2>3. \A i \in DOMAIN snap[t].alerts : i > Len(snap[t].newIds)
    BY <2>2, SnapType
  <2> QED
    BY <2>1, <2>2, <2>3 DEF AlertHeld, Holds
<1>3. CASE Holds(alertBuf, a) /\ \A t \in Threads : ~ClearBuffers(t)
  BY <1>3, BuffersGrow, HoldsProlonged DEF AlertHeld
<1>4. ASSUME NEW t \in Threads, pc[t] = "alerts",
             NEW i \in DOMAIN snap[t].alerts,
             i > Len(snap[t].newIds), snap[t].alerts[i].alert = a
      PROVE  AlertHeld(a)'
  <2>1. CASE pc'[t] = pc[t] /\ snap'[t] = snap[t]
    BY <1>4, <2>1 DEF AlertHeld
  <2>2. CASE ~\E u \in Threads : FlushStep(u)
    <3>1. snap' = snap /\ pc'[t] = pc[t]
      BY <1>4, <2>2, StepKinds, OutsideFlush DEF Flushing
    <3> QED
      BY <2>1, <3>1
  <2>3. ASSUME NEW u \in Threads, FlushStep(u), u # t
        PROVE  AlertHeld(a)'
    BY <2>1, <2>3, InsideFlush
  <2>4. CASE FlushAlert(t)
    <3> DEFINE n == Len(snap[t].newIds)
               x == snap[t].alerts[n + 1].alert
    <3>1. /\ pc'[t] = "alerts" /\ snap'[t].alerts = snap[t].alerts
          /\ snap'[t].newIds = Append(snap[t].newIds, Len(alertRows'))
          /\ alertRows' = Append(alertRows, x) /\ n < Len(snap[t].alerts)
      BY <1>4, <2>4 DEF FlushAlert, TypeOK, Snapshots
    <3>2. x \in Alerts /\ alertRows \in Seq(Alerts)
      BY <3>1, NextAlertType DEF TypeOK
    <3>3. \E j \in DOMAIN alertRows' : alertRows'[j] = x
      <4> HIDE DEF x
      <4> QED
        BY <3>1, <3>2, AppendProlongs
    <3>4. n \in Nat /\ i \in Nat
      BY <1>4, SnapType
    <3>5. CASE i = n + 1
      BY <1>4, <3>3, <3>5 DEF AlertHeld
    <3>6. CASE i > n + 1
      <4>1. Len(alertRows') \in Nat
        BY TypeStep DEF TypeOK
      <4>2. Len(snap'[t].newIds) = n + 1
        BY <3>1, <4>1, SnapType, AppendType
      <4> QED
        BY <1>4, <3>1, <3>6, <4>2 DEF AlertHeld
    <3> QED
      BY <1>4, <3>4, <3>5, <3>6
  <2>5. CASE AlertsFail(t)
    <3>1. alertBuf' = alertBuf \o snap[t].alerts
      BY <2>5 DEF AlertsFail
    <3>2. alertBuf \in Seq(Entry) /\ snap[t].alerts \in Seq(Entry) /\ Holds(snap[t].alerts, a)
      BY <1>4, SnapType DEF Holds, TypeOK
    <3>3. Holds(alertBuf', a)
      BY <3>1, <3>2, HoldsConcat
    <3> QED
      BY <3>3 DEF AlertHeld
  <2>6. CASE AlertsDone(t)
    BY <1>4, <2>6, SnapType DEF AlertsDone
  <2>7. CASE FlushStep(t) /\ ~(FlushAlert(t) \/ AlertsFail(t) \/ AlertsDone(t))
    BY <1>4, <2>7 DEF FlushStep, Flush, BeginFlush, ClearBuffers, FlushChild, ChildrenFail, ChildrenDone,
                      RestoreChildren, EndFlush
  <2> QED
    BY <2>2, <2>3, <2>4, <2>5, <2>6, <2>7
<1> QED
  BY <1>1, <1>2, <1>3, <1>4 DEF AlertHeld

LEMMA AnalysisKept ==
  ASSUME TypeOK, Copied, Sent, [Next]_vars, NEW a, AnalysisHeld(a)
  PROVE  AnalysisHeld(a)' \/ <<"child", a>> \in unlocked
<1>1. CASE Holds(childRows, a)
  BY <1>1, TablesGrow, HoldsProlonged DEF AnalysisHeld
<1>2. ASSUME NEW t \in Threads, ClearBuffers(t), Holds(childBuf, a)
      PROVE  AnalysisHeld(a)' \/ <<"child", a>> \in unlocked
  <2>1. pc[t] = "copied" /\ pc'[t] = "alerts" /\ snap' = snap
    BY <1>2 DEF ClearBuffers, Goto, TypeOK
  <2>2. Holds(snap[t].children, a) \/ <<"child", a>> \in unlocked
    BY <1>2, <2>1 DEF Copied, Holds
  <2> QED
    BY <2>1, <2>2 DEF AnalysisHeld
<1>3. CASE Holds(childBuf, a) /\ \A t \in Threads : ~ClearBuffers(t)
  BY <1>3, BuffersGrow, HoldsProlonged DEF AnalysisHeld
<1>4. ASSUME NEW t \in Threads, pc[t] \in {"alerts", "children", "restore"}, Holds(snap[t].children, a)
      PROVE  AnalysisHeld(a)'
  <2>1. CASE pc'[t] \in {"alerts", "children", "restore"} /\ snap'[t].children = snap[t].children
    BY <1>4, <2>1 DEF AnalysisHeld, Holds
  <2>2. CASE ~\E u \in Threads : FlushStep(u)
    <3>1. snap' = snap /\ pc'[t] = pc[t]
      BY <1>4, <2>2, StepKinds, OutsideFlush DEF Flushing
    <3> QED
      BY <1>4, <2>1, <3>1
  <2>3. ASSUME NEW u \in Threads, FlushStep(u), u # t
        PROVE  AnalysisHeld(a)'
    BY <1>4, <2>1, <2>3, InsideFlush
  <2>4. CASE FlushAlert(t) \/ FlushChild(t)
    <3>1. pc' = pc /\ snap'[t].children = snap[t].children
      BY <2>4, SnapType DEF FlushAlert, FlushChild, TypeOK, Snapshots
    <3> QED
      BY <1>4, <2>1, <3>1
  <2>5. CASE AlertsFail(t) \/ AlertsDone(t) \/ ChildrenFail(t)
    <3>1. snap' = snap /\ pc'[t] \in {"children", "restore"}
      BY <2>5 DEF AlertsFail, AlertsDone, ChildrenFail, Goto, TypeOK
    <3> QED
      BY <2>1, <3>1
  <2>6. CASE ChildrenDone(t)
    <3>1. pc[t] = "children" /\ snap[t].sent = Len(snap[t].children)
      BY <2>6 DEF ChildrenDone
    <3>2. \A k \in DOMAIN snap[t].children : k <= snap[t].sent
      BY <3>1, SnapType
    <3>3. Holds(childRows, a)
      BY <1>4, <3>1, <3>2 DEF Sent, Holds
    <3> QED
      BY <1>1, <3>3, TablesGrow, HoldsProlonged DEF AnalysisHeld
  <2>7. CASE RestoreChildren(t)
    <3>1. childBuf' = childBuf \o snap[t].children
      BY <2>7 DEF RestoreChildren
    <3>2. childBuf \in Seq(Child) /\ snap[t].children \in Seq(Child)
      BY SnapType DEF TypeOK
    <3>3. Holds(childBuf', a)
      BY <1>4, <3>1, <3>2, HoldsConcat
    <3> QED
      BY <3>3 DEF AnalysisHeld
  <2>8. CASE FlushStep(t) /\ ~(FlushAlert(t) \/ AlertsFail(t) \/ AlertsDone(t) \/ FlushChild(t)
                                \/ ChildrenFail(t) \/ ChildrenDone(t) \/ RestoreChildren(t))
    BY <1>4, <2>8 DEF FlushStep, Flush, BeginFlush, ClearBuffers, EndFlush
  <2> QED
    BY <2>2, <2>3, <2>4, <2>5, <2>6, <2>7, <2>8
<1> QED
  BY <1>1, <1>2, <1>3, <1>4 DEF AnalysisHeld

(* A record counts as accepted only once it is held.                       *)
LEMMA AcceptedSame ==
  ASSUME TypeOK, [Next]_vars, ~(AddInMemory \/ Insert \/ FallBack)
  PROVE  AcceptedAlerts' = AcceptedAlerts /\ AcceptedChildren' = AcceptedChildren
<1>0. alert \in Nat /\ "loop" \in Threads
  BY BoundsAssumption DEF TypeOK, Alerts, Threads
<1>1. ASSUME UNCHANGED <<alert, kind>>, pc'["loop"] = "idle" <=> pc["loop"] = "idle"
      PROVE  AcceptedAlerts' = AcceptedAlerts /\ AcceptedChildren' = AcceptedChildren
  BY <1>1 DEF AcceptedAlerts, AcceptedChildren
<1>2. ASSUME Receive
      PROVE  AcceptedAlerts' = AcceptedAlerts /\ AcceptedChildren' = AcceptedChildren
  <2>1. pc["loop"] = "idle" /\ pc'["loop"] = "check" /\ alert' = alert + 1 /\ kind' = "alert"
    BY <1>0, <1>2 DEF Receive, Goto, TypeOK
  <2>2. alert' - 1 = alert
    BY <1>0, <2>1
  <2> QED
    BY <2>1, <2>2 DEF AcceptedAlerts, AcceptedChildren
<1>3. ASSUME Check \/ InsertRefused \/ InsertFails
      PROVE  AcceptedAlerts' = AcceptedAlerts /\ AcceptedChildren' = AcceptedChildren
  <2>1. UNCHANGED <<alert, kind>> /\ pc'["loop"] # "idle" /\ pc["loop"] # "idle"
    BY <1>3 DEF Check, InsertRefused, InsertFails, Except, Goto, TypeOK, Threads, caller
  <2> QED
    BY <1>1, <2>1
<1>5. ASSUME NEW t \in Threads, Quiet(t)
      PROVE  AcceptedAlerts' = AcceptedAlerts /\ AcceptedChildren' = AcceptedChildren
  <2>1. PICK where \in {"connect", "tables", "flush", "recheck", "sleep"} : Goto(t, where)
    BY <1>5 DEF Quiet, PingFails, Connect, Connected, TablesReady, ConnectFails, SkipFlush, Rest
  <2>2. pc[t] # "idle" /\ UNCHANGED <<alert, kind>>
    BY <1>5 DEF Quiet, PingFails, Connect, Connected, TablesReady, ConnectFails, SkipFlush, caller
  <2>3. pc'["loop"] = "idle" <=> pc["loop"] = "idle"
    BY <1>0, <2>1, <2>2 DEF Goto, TypeOK
  <2> QED
    BY <1>1, <2>2, <2>3
<1>6. CASE MonitorAlone \/ UNCHANGED vars
  <2>1. UNCHANGED <<alert, kind>> /\ pc'["loop"] = pc["loop"]
    BY <1>6 DEF MonitorAlone, MonitorPings, MonitorReconnects, vars, caller, Goto, TypeOK, Threads
  <2> QED
    BY <1>1, <2>1
<1>7. ASSUME NEW t \in Threads, FlushStep(t)
      PROVE  AcceptedAlerts' = AcceptedAlerts /\ AcceptedChildren' = AcceptedChildren
  <2>1. UNCHANGED <<alert, kind>> /\ pc[t] # "idle" /\ pc'[t] # "idle"
        /\ \A u \in Threads : u # t => pc'[u] = pc[u]
    BY <1>7, InsideFlush DEF caller
  <2> QED
    BY <1>0, <1>1, <2>1
<1> QED
  BY <1>2, <1>3, <1>5, <1>6, <1>7, StepKinds DEF LoopAlone

LEMMA Accepted ==
  ASSUME TypeOK, [Next]_vars
  PROVE  /\ \A a \in AcceptedAlerts' : a \in AcceptedAlerts \/ AlertHeld(a)'
         /\ \A a \in AcceptedChildren' : a \in AcceptedChildren \/ AnalysisHeld(a)'
<1>0. /\ alertRows \in Seq(Alerts) /\ childRows \in Seq(Child) /\ alertBuf \in Seq(Entry)
      /\ childBuf \in Seq(Child) /\ alert \in Alerts /\ alert \in Nat
      /\ [alert |-> alert, ref |-> ref] \in Child /\ "loop" \in Threads
      /\ kind \in {"alert", "child"}
  BY BoundsAssumption DEF TypeOK, Child, Alerts, Threads
<1>1. ASSUME AddInMemory \/ Insert \/ FallBack
      PROVE  /\ \A a \in AcceptedAlerts' : a \in AcceptedAlerts \/ AlertHeld(a)'
             /\ \A a \in AcceptedChildren' : a \in AcceptedChildren \/ AnalysisHeld(a)'
  <2>1. pc["loop"] # "idle" /\ kind' = "child" /\ alert' = alert
        /\ pc'["loop"] = (IF kind = "alert" THEN "check" ELSE "idle")
    BY <1>0, <1>1 DEF AddInMemory, Insert, FallBack, Stored, Goto, TypeOK
  <2>2. CASE kind = "alert"
    <3>1. AlertHeld(alert)'
      <4>1. CASE Insert
        <5>1. alertRows' = Append(alertRows, alert)
          BY <2>2, <4>1 DEF Insert
        <5> QED
          BY <1>0, <2>1, <5>1, AppendProlongs DEF AlertHeld
      <4>2. CASE AddInMemory \/ FallBack
        <5>1. PICK id \in Nat : alertBuf' = Append(alertBuf, [alert |-> alert, id |-> id])
          BY <2>2, <4>2, <1>0 DEF AddInMemory, FallBack, Buffer, TypeOK
        <5> DEFINE e == [alert |-> alert, id |-> id]
        <5>2. e \in Entry /\ e.alert = alert /\ alertBuf' = Append(alertBuf, e)
          BY <1>0, <5>1 DEF Entry
        <5> HIDE DEF e
        <5>3. Holds(alertBuf', alert)
          BY <1>0, <5>2, HoldsAppend
        <5> QED
          BY <2>1, <5>3 DEF AlertHeld
      <4> QED
        BY <1>1, <4>1, <4>2
    <3>2. \A a \in 1..alert : a \in 1..(alert - 1) \/ a = alert
      BY <1>0
    <3> QED
      BY <2>1, <2>2, <3>1, <3>2 DEF AcceptedAlerts, AcceptedChildren
  <2>3. CASE kind = "child"
    <3> DEFINE c == [alert |-> alert, ref |-> ref]
    <3>1. c \in Child /\ c.alert = alert
      BY <1>0
    <3>2. childRows' = Append(childRows, c) \/ childBuf' = Append(childBuf, c)
      BY <1>1, <2>3 DEF AddInMemory, Insert, FallBack, Buffer
    <3> HIDE DEF c
    <3>3. Holds(childRows', alert) \/ Holds(childBuf', alert)
      BY <1>0, <3>1, <3>2, AppendProlongs DEF Holds
    <3>4. AnalysisHeld(alert)'
      BY <2>1, <3>3 DEF AnalysisHeld
    <3>5. \A a \in 1..alert : a \in 1..(alert - 1) \/ a = alert
      BY <1>0
    <3> QED
      BY <2>1, <2>3, <3>4, <3>5 DEF AcceptedAlerts, AcceptedChildren
  <2> QED
    BY <1>0, <2>2, <2>3
<1> QED
  BY <1>1, AcceptedSame

NothingLost ==
    /\ \A a \in AcceptedAlerts : AlertHeld(a) \/ <<"alert", a>> \in unlocked
    /\ \A a \in AcceptedChildren : AnalysisHeld(a) \/ <<"child", a>> \in unlocked

LEMMA NotesKept ==
  ASSUME [Next]_vars
  PROVE  unlocked \subseteq unlocked'
BY DEF Next, LoopStep, MonitorStep, Receive, Check, AddInMemory, Insert, InsertRefused, InsertFails,
       FallBack, PingFails, Connect, Connected, TablesReady, ConnectFails, Flush, SkipFlush, BeginFlush,
       ClearBuffers, FlushAlert, AlertsFail, AlertsDone, FlushChild, ChildrenFail, ChildrenDone,
       RestoreChildren, EndFlush, MonitorPings, MonitorReconnects, vars

(***************************************************************************)
(* Counting the entries of a sequence by the alert they are about.         *)
(***************************************************************************)
LEMMA Positions ==
  ASSUME NEW S, NEW seq \in Seq(S), NEW P \in SUBSET DOMAIN seq
  PROVE  IsFiniteSet(P) /\ Cardinality(P) \in Nat /\ (Cardinality(P) > 0 <=> P # {})
<1>1. IsFiniteSet(1..Len(seq)) /\ DOMAIN seq = 1..Len(seq)
  BY FS_Interval
<1>2. IsFiniteSet(P)
  BY <1>1, FS_Subset
<1>3. Cardinality(P) \in Nat /\ (Cardinality(P) = 0 <=> P = {})
  BY <1>2, FS_CardinalityType, FS_EmptySet
<1> QED
  BY <1>2, <1>3

LEMMA CountType ==
  ASSUME NEW S, NEW seq \in Seq(S), NEW a
  PROVE  Count(seq, a) \in Nat /\ (Count(seq, a) > 0 <=> Holds(seq, a))
<1> DEFINE P == {i \in DOMAIN seq : seq[i].alert = a}
<1>1. Cardinality(P) \in Nat /\ (Cardinality(P) > 0 <=> P # {})
  BY Positions
<1> QED
  BY <1>1 DEF Count, Holds

(* The entries after the first n, counted in place.                        *)
After(s, n, a) == {i \in DOMAIN s : i > n /\ s[i].alert = a}

LEMMA CountSuffix ==
  ASSUME NEW s \in Seq(Entry), NEW n \in Nat, NEW a
  PROVE  Count(SubSeq(s, n + 1, Len(s)), a) = Cardinality(After(s, n, a))
<1> DEFINE m == Len(s)
           q == SubSeq(s, n + 1, m)
           P == {j \in DOMAIN q : q[j].alert = a}
           f == [i \in After(s, n, a) |-> i - n]
<1>1. m \in Nat /\ DOMAIN s = 1..m
  OBVIOUS
<1>2. /\ q \in Seq(Entry)
      /\ Len(q) = IF n + 1 <= m THEN m - n ELSE 0
      /\ \A j \in 1..(m - n) : q[j] = s[n + j]
  <2>1. \A i \in (n + 1)..m : s[i] \in Entry
    BY <1>1
  <2>2. n + 1 \in Int /\ m \in Int
    BY <1>1
  <2> HIDE DEF m
  <2>3. /\ SubSeq(s, n + 1, m) \in Seq(Entry)
        /\ Len(SubSeq(s, n + 1, m)) = IF n + 1 <= m THEN m - (n + 1) + 1 ELSE 0
        /\ \A i \in 1 .. m - (n + 1) + 1 : SubSeq(s, n + 1, m)[i] = s[(n + 1) + i - 1]
    BY <2>1, <2>2, SubSeqProperties
  <2>4. m - (n + 1) + 1 = m - n /\ \A j \in 1..(m - n) : (n + 1) + j - 1 = n + j
    BY <1>1
  <2> QED
    BY <2>3, <2>4
<1>3. DOMAIN q = {j \in Nat : 1 <= j /\ n + j <= m}
  <2> HIDE DEF q, m
  <2>1. DOMAIN q = 1..Len(q) /\ Len(q) \in Nat
    BY <1>2
  <2> QED
    BY <1>1, <1>2, <2>1
<1>4. After(s, n, a) = {i \in 1..m : i > n /\ s[i].alert = a}
  BY <1>1 DEF After
<1> HIDE DEF q, m
<1>5. \A j \in DOMAIN q : j \in 1..(m - n) /\ n + j \in 1..m /\ n + j > n /\ (n + j) - n = j
  BY <1>1, <1>3
<1>6. f \in Bijection(After(s, n, a), P)
  <2>1. \A i \in After(s, n, a) : f[i] \in P /\ f[i] = i - n /\ i \in Int
    <3> SUFFICES ASSUME NEW i \in After(s, n, a)
                 PROVE  i - n \in P /\ i \in Int
      OBVIOUS
    <3>1. i \in 1..m /\ i > n /\ s[i].alert = a
      BY <1>4
    <3>2. i - n \in DOMAIN q /\ n + (i - n) = i
      BY <1>1, <1>3, <3>1
    <3> QED
      BY <1>1, <1>2, <1>5, <3>1, <3>2
  <2>2. \A j \in P : n + j \in After(s, n, a) /\ f[n + j] = j
    <3> SUFFICES ASSUME NEW j \in P
                 PROVE  n + j \in After(s, n, a) /\ (n + j) - n = j
      OBVIOUS
    <3> QED
      BY <1>2, <1>4, <1>5
  <2>3. \A i, k \in After(s, n, a) : f[i] = f[k] => i = k
    BY <1>1, <2>1
  <2> HIDE DEF P
  <2>4. f \in [After(s, n, a) -> P]
    BY <2>1
  <2> HIDE DEF f
  <2>5. \A j \in P : \E i \in After(s, n, a) : f[i] = j
    BY <2>2
  <2> QED
    BY <2>3, <2>4, <2>5 DEF Bijection, Injection, Surjection, IsInjective
<1>7. IsFiniteSet(After(s, n, a))
  BY <1>4, FS_Interval, FS_Subset, <1>1
<1>8. Cardinality(P) = Cardinality(After(s, n, a))
  <2> HIDE DEF P, f
  <2> QED
    BY <1>6, <1>7, FS_Bijection DEF ExistsBijection
<1> QED
  BY <1>8 DEF Count, q, m

LEMMA EmptyCount == \A a : Count(<<>>, a) = 0
<1>1. \A a : {i \in DOMAIN <<>> : <<>>[i].alert = a} = {}
  OBVIOUS
<1> QED
  BY <1>1, FS_EmptySet DEF Count

(* What a thread at p with the snapshot s has yet to write of an alert.    *)
Pending(p, s, a) == IF p = "alerts" THEN Cardinality(After(s.alerts, Len(s.newIds), a)) ELSE 0

LEMMA PendingCounts ==
  ASSUME NEW p, NEW s \in Snapshots, NEW a
  PROVE  /\ Count(IF p = "alerts" THEN SubSeq(s.alerts, Len(s.newIds) + 1, Len(s.alerts)) ELSE <<>>, a)
               = Pending(p, s, a)
         /\ Pending(p, s, a) \in Nat
         /\ Pending(p, s, a) > 0 <=> p = "alerts" /\ After(s.alerts, Len(s.newIds), a) # {}
<1>1. s.alerts \in Seq(Entry) /\ Len(s.newIds) \in Nat
  BY DEF Snapshots
<1>2. After(s.alerts, Len(s.newIds), a) \in SUBSET DOMAIN s.alerts
  BY DEF After
<1>3. /\ Cardinality(After(s.alerts, Len(s.newIds), a)) \in Nat
      /\ Cardinality(After(s.alerts, Len(s.newIds), a)) > 0 <=> After(s.alerts, Len(s.newIds), a) # {}
  BY <1>1, <1>2, Positions
<1>4. Count(SubSeq(s.alerts, Len(s.newIds) + 1, Len(s.alerts)), a)
        = Cardinality(After(s.alerts, Len(s.newIds), a))
  BY <1>1, CountSuffix
<1> QED
  BY <1>3, <1>4, EmptyCount DEF Pending

RowsOf(rows, a) == {i \in DOMAIN rows : rows[i] = a}

LEMMA CopiesType ==
  ASSUME TypeOK, NEW a
  PROVE  /\ Copies(a) = Count(alertBuf, a) + Pending(pc["loop"], snap["loop"], a)
                          + Pending(pc["monitor"], snap["monitor"], a) + Cardinality(RowsOf(alertRows, a))
         /\ Count(alertBuf, a) \in Nat /\ Cardinality(RowsOf(alertRows, a)) \in Nat
         /\ \A t \in Threads : Pending(pc[t], snap[t], a) \in Nat
         /\ Copies(a) > 0 <=> AlertHeld(a)
<1>1. Count(alertBuf, a) \in Nat /\ (Count(alertBuf, a) > 0 <=> Holds(alertBuf, a))
  BY CountType DEF TypeOK
<1>2. /\ Cardinality(RowsOf(alertRows, a)) \in Nat
      /\ Cardinality(RowsOf(alertRows, a)) > 0 <=> RowsOf(alertRows, a) # {}
  <2>1. RowsOf(alertRows, a) \in SUBSET DOMAIN alertRows /\ alertRows \in Seq(Alerts)
    BY DEF RowsOf, TypeOK
  <2> QED
    BY <2>1, Positions
<1>3. ASSUME NEW t \in Threads
      PROVE  /\ Count(UnsentAlerts(t), a) = Pending(pc[t], snap[t], a)
             /\ Pending(pc[t], snap[t], a) \in Nat
             /\ Pending(pc[t], snap[t], a) > 0
                  <=> pc[t] = "alerts" /\ After(snap[t].alerts, Len(snap[t].newIds), a) # {}
  BY SnapType, PendingCounts DEF UnsentAlerts
<1>4. "loop" \in Threads /\ "monitor" \in Threads /\ \A t \in Threads : t = "loop" \/ t = "monitor"
  BY DEF Threads
<1>5. Copies(a) = Count(alertBuf, a) + Pending(pc["loop"], snap["loop"], a)
                    + Pending(pc["monitor"], snap["monitor"], a) + Cardinality(RowsOf(alertRows, a))
  BY <1>3, <1>4 DEF Copies, RowsOf
<1>6. AlertHeld(a) <=> \/ Holds(alertBuf, a) \/ RowsOf(alertRows, a) # {}
                       \/ \E t \in Threads : /\ pc[t] = "alerts"
                                             /\ After(snap[t].alerts, Len(snap[t].newIds), a) # {}
  BY DEF AlertHeld, RowsOf, After
<1>7. Copies(a) > 0 <=> \/ Count(alertBuf, a) > 0 \/ Cardinality(RowsOf(alertRows, a)) > 0
                        \/ Pending(pc["loop"], snap["loop"], a) > 0
                        \/ Pending(pc["monitor"], snap["monitor"], a) > 0
  BY <1>1, <1>2, <1>3, <1>4, <1>5
<1>8. AlertHeld(a) <=> \/ Count(alertBuf, a) > 0 \/ Cardinality(RowsOf(alertRows, a)) > 0
                       \/ Pending(pc["loop"], snap["loop"], a) > 0
                       \/ Pending(pc["monitor"], snap["monitor"], a) > 0
  BY <1>1, <1>2, <1>3, <1>4, <1>6
<1> QED
  BY <1>1, <1>2, <1>3, <1>5, <1>7, <1>8

LEMMA ChildHeldMeans ==
  ASSUME TypeOK, NEW a
  PROVE  AnalysisHeld(a) <=> ChildHeld(a)
<1>1. /\ Count(childBuf, a) \in Nat /\ (Count(childBuf, a) > 0 <=> Holds(childBuf, a))
      /\ Count(childRows, a) \in Nat /\ (Count(childRows, a) > 0 <=> Holds(childRows, a))
  BY CountType DEF TypeOK
<1>2. ASSUME NEW t \in Threads
      PROVE  Count(UnsentChildren(t), a) > 0
                <=> pc[t] \in {"alerts", "children", "restore"} /\ Holds(snap[t].children, a)
  <2>1. CASE pc[t] \in {"alerts", "children", "restore"}
    <3>1. UnsentChildren(t) = snap[t].children
      BY <2>1 DEF UnsentChildren
    <3> QED
      BY <2>1, <3>1, SnapType, CountType
  <2>2. CASE pc[t] \notin {"alerts", "children", "restore"}
    <3>1. UnsentChildren(t) = <<>>
      BY <2>2 DEF UnsentChildren
    <3> QED
      BY <2>2, <3>1, EmptyCount
  <2> QED
    BY <2>1, <2>2
<1>3. Count(childBuf, a) + Count(childRows, a) > 0 <=> Holds(childBuf, a) \/ Holds(childRows, a)
  BY <1>1
<1> QED
  BY <1>2, <1>3 DEF AnalysisHeld, ChildHeld

(* An accepted alert or analysis is at every moment in a buffer, in its    *)
(* table, or in the snapshot of a flush that has yet to write it, unless   *)
(* an except branch appended it without _memory_lock: whatever calls fail  *)
(* and however the loop and the monitor take turns at reconnecting.        *)
THEOREM AcceptedNotLost == Spec => []LostOnlyUnlocked
<1> DEFINE Inv == Copied /\ Sent /\ NothingLost
<1>1. Init => Inv
  <2>1. Init => \A t \in Threads : pc[t] \in {"idle", "sleep"}
    BY DEF Init
  <2>2. Init => AcceptedAlerts = 1..0 /\ AcceptedChildren = 1..0
    BY DEF Init, AcceptedAlerts, AcceptedChildren, Threads
  <2> QED
    BY <2>1, <2>2 DEF Copied, Sent, NothingLost
<1>2. TypeOK /\ Inv /\ [Next]_vars => Inv'
  <2> SUFFICES ASSUME TypeOK, Inv, [Next]_vars PROVE Inv'
    OBVIOUS
  <2>1. \A a \in AcceptedAlerts : AlertHeld(a)' \/ <<"alert", a>> \in unlocked'
    BY AlertKept, NotesKept DEF NothingLost
  <2>2. \A a \in AcceptedChildren : AnalysisHeld(a)' \/ <<"child", a>> \in unlocked'
    BY AnalysisKept, NotesKept DEF NothingLost
  <2>3. NothingLost'
    BY <2>1, <2>2, Accepted DEF NothingLost
  <2> QED
    BY <2>3, CopiedStep, SentStep
<1>3. TypeOK /\ NothingLost => LostOnlyUnlocked
  <2> SUFFICES ASSUME TypeOK, NothingLost PROVE LostOnlyUnlocked
    OBVIOUS
  <2>1. \A a : (AlertHeld(a) => Copies(a) > 0) /\ (AnalysisHeld(a) => ChildHeld(a))
    BY CopiesType, ChildHeldMeans
  <2> QED
    BY <2>1 DEF NothingLost, LostOnlyUnlocked
<1> QED
  BY <1>1, <1>2, <1>3, TypeCorrect, PTL DEF Spec

(***************************************************************************)
(* Links within one flush. An analysis carries the id add_alert returned,  *)
(* so it agrees with every copy of its alert that is still in memory; and  *)
(* the ids a flush has been given name the rows of the alerts it wrote.    *)
(***************************************************************************)
EntriesHeld == {e \in Entry : \/ \E i \in DOMAIN alertBuf : alertBuf[i] = e
                              \/ \E t \in Threads : \E i \in DOMAIN snap[t].alerts : snap[t].alerts[i] = e}
ChildrenHeld == {c \in Child : \/ \E i \in DOMAIN childBuf : childBuf[i] = c
                               \/ \E t \in Threads : \E i \in DOMAIN snap[t].children : snap[t].children[i] = c}

RefsAgree ==
    /\ \A e \in EntriesHeld : e.alert <= alert /\ (e.alert = alert => kind = "child" /\ e.id = ref)
    /\ \A c \in ChildrenHeld : c.alert <= alert /\ (c.alert = alert => kind = "child" /\ c.ref = ref)
    /\ \A e \in EntriesHeld : \A c \in ChildrenHeld : e.alert = c.alert => e.id = c.ref

RowsGiven ==
    \A t \in Threads :
      /\ Len(snap[t].newIds) <= Len(snap[t].alerts)
      /\ pc[t] = "children" => Len(snap[t].newIds) = Len(snap[t].alerts)
      /\ \A i \in DOMAIN snap[t].newIds :
           /\ snap[t].newIds[i] \in DOMAIN alertRows
           /\ alertRows[snap[t].newIds[i]] = snap[t].alerts[i].alert

(* No step but the loop's appends brings a record into memory.             *)
LEMMA NothingNew ==
  ASSUME TypeOK, [Next]_vars, ~AddInMemory, ~FallBack
  PROVE  EntriesHeld' \subseteq EntriesHeld /\ ChildrenHeld' \subseteq ChildrenHeld
<1>1. ASSUME UNCHANGED <<alertBuf, childBuf, snap>>
      PROVE  EntriesHeld' = EntriesHeld /\ ChildrenHeld' = ChildrenHeld
  BY <1>1 DEF EntriesHeld, ChildrenHeld
<1>2. CASE ~\E t \in Threads : FlushStep(t)
  <2>1. UNCHANGED <<alertBuf, childBuf>>
    <3>1. CASE LoopAlone
      BY <3>1 DEF LoopAlone, Receive, Check, Insert, InsertRefused, InsertFails, data
    <3>2. ASSUME NEW t \in Threads, Quiet(t) PROVE UNCHANGED <<alertBuf, childBuf>>
      BY <3>2 DEF Quiet, PingFails, Connect, Connected, TablesReady, ConnectFails, SkipFlush, data
    <3>3. CASE MonitorAlone \/ UNCHANGED vars
      BY <3>3 DEF MonitorAlone, MonitorPings, MonitorReconnects, vars, data
    <3> QED
      BY <1>2, <3>1, <3>2, <3>3, StepKinds
  <2>2. UNCHANGED snap
    BY <1>2, StepKinds, OutsideFlush
  <2> QED
    BY <1>1, <2>1, <2>2
<1>3. ASSUME NEW t \in Threads, FlushStep(t)
      PROVE  EntriesHeld' \subseteq EntriesHeld /\ ChildrenHeld' \subseteq ChildrenHeld
  <2>0. \A u \in Threads : u # t => snap'[u] = snap[u]
    BY <1>3, InsideFlush
  <2>1. CASE BeginFlush(t)
    <3>1. /\ UNCHANGED <<alertBuf, childBuf>>
          /\ snap'[t] = [NoSnapshot EXCEPT !.alerts = alertBuf, !.children = childBuf]
      BY <2>1 DEF BeginFlush, data, TypeOK
    <3>2. snap'[t].alerts = alertBuf /\ snap'[t].children = childBuf
      BY <3>1 DEF NoSnapshot
    <3>3. ASSUME NEW u \in Threads
          PROVE  /\ snap'[u].alerts \in {alertBuf, snap[u].alerts}
                 /\ snap'[u].children \in {childBuf, snap[u].children}
      BY <2>0, <3>2
    <3>4. EntriesHeld' \subseteq EntriesHeld
      BY <3>1, <3>3 DEF EntriesHeld
    <3>5. ChildrenHeld' \subseteq ChildrenHeld
      BY <3>1, <3>3 DEF ChildrenHeld
    <3> QED
      BY <3>4, <3>5
  <2>2. CASE ClearBuffers(t)
    <3>1. alertBuf' = <<>> /\ childBuf' = <<>> /\ snap' = snap
      BY <2>2 DEF ClearBuffers
    <3> QED
      BY <3>1 DEF EntriesHeld, ChildrenHeld
  <2>3. CASE FlushAlert(t) \/ FlushChild(t)
    <3>1. /\ UNCHANGED <<alertBuf, childBuf>>
          /\ snap'[t].alerts = snap[t].alerts /\ snap'[t].children = snap[t].children
      BY <2>3, SnapType DEF FlushAlert, FlushChild, TypeOK, Snapshots
    <3> QED
      BY <2>0, <3>1 DEF EntriesHeld, ChildrenHeld
  <2>4. CASE AlertsFail(t)
    <3> DEFINE s == snap[t].alerts
               q == alertBuf \o s
    <3>1. alertBuf' = q /\ childBuf' = childBuf /\ snap' = snap
      BY <2>4 DEF AlertsFail
    <3>2. \A i \in DOMAIN q : \/ i \in DOMAIN alertBuf /\ q[i] = alertBuf[i]
                              \/ \E j \in DOMAIN s : q[i] = s[j]
      <4>1. alertBuf \in Seq(Entry) /\ s \in Seq(Entry)
        BY SnapType DEF TypeOK
      <4> HIDE DEF s
      <4> QED
        BY <4>1, ConcatProlongs DEF Prolongs
    <3> HIDE DEF q
    <3> QED
      BY <3>1, <3>2 DEF EntriesHeld, ChildrenHeld
  <2>5. CASE RestoreChildren(t)
    <3> DEFINE s == snap[t].children
               q == childBuf \o s
    <3>1. childBuf' = q /\ alertBuf' = alertBuf /\ snap' = snap
      BY <2>5 DEF RestoreChildren
    <3>2. \A i \in DOMAIN q : \/ i \in DOMAIN childBuf /\ q[i] = childBuf[i]
                              \/ \E j \in DOMAIN s : q[i] = s[j]
      <4>1. childBuf \in Seq(Child) /\ s \in Seq(Child)
        BY SnapType DEF TypeOK
      <4> HIDE DEF s
      <4> QED
        BY <4>1, ConcatProlongs DEF Prolongs
    <3> HIDE DEF q
    <3> QED
      BY <3>1, <3>2 DEF EntriesHeld, ChildrenHeld
  <2>6. CASE EndFlush(t)
    <3>1. UNCHANGED <<alertBuf, childBuf>> /\ snap'[t] = NoSnapshot
      BY <2>6 DEF EndFlush, data, TypeOK
    <3>2. DOMAIN snap'[t].alerts = {} /\ DOMAIN snap'[t].children = {}
      BY <3>1 DEF NoSnapshot
    <3> QED
      BY <2>0, <3>1, <3>2 DEF EntriesHeld, ChildrenHeld
  <2>7. CASE AlertsDone(t) \/ ChildrenFail(t) \/ ChildrenDone(t)
    <3>1. UNCHANGED <<alertBuf, childBuf, snap>>
      BY <2>7 DEF AlertsDone, ChildrenFail, ChildrenDone, data
    <3> QED
      BY <1>1, <3>1
  <2> QED
    BY <1>3, <2>1, <2>2, <2>3, <2>4, <2>5, <2>6, <2>7 DEF FlushStep, Flush
<1> QED
  BY <1>2, <1>3

(* What the loop appends, and with which id it goes on.                    *)
LEMMA NewRecord ==
  ASSUME TypeOK, AddInMemory \/ FallBack
  PROVE  /\ alert' = alert /\ kind' = "child"
         /\ kind = "alert" => /\ EntriesHeld' \subseteq EntriesHeld \cup {[alert |-> alert, id |-> ref']}
                              /\ ChildrenHeld' = ChildrenHeld
         /\ kind = "child" => /\ ChildrenHeld' \subseteq ChildrenHeld \cup {[alert |-> alert, ref |-> ref]}
                              /\ EntriesHeld' = EntriesHeld /\ ref' = ref
<1>1. PICK id \in Nat : Buffer(id) /\ Stored(id)
  BY DEF AddInMemory, FallBack, TypeOK
<1>2. UNCHANGED snap /\ alertBuf \in Seq(Entry) /\ childBuf \in Seq(Child) /\ kind \in {"alert", "child"}
  BY DEF AddInMemory, FallBack, TypeOK
<1>3. CASE kind = "alert"
  <2> DEFINE e == [alert |-> alert, id |-> id]
  <2>1. alertBuf' = Append(alertBuf, e) /\ childBuf' = childBuf /\ ref' = id /\ e \in Entry
    BY <1>1, <1>3 DEF Buffer, Stored, Entry, TypeOK
  <2> HIDE DEF e
  <2>2. \A i \in DOMAIN alertBuf' : (i \in DOMAIN alertBuf /\ alertBuf'[i] = alertBuf[i]) \/ alertBuf'[i] = e
    BY <1>2, <2>1, AppendProlongs DEF Prolongs
  <2>3. EntriesHeld' \subseteq EntriesHeld \cup {e} /\ ChildrenHeld' = ChildrenHeld
    BY <1>2, <2>1, <2>2 DEF EntriesHeld, ChildrenHeld
  <2>4. e = [alert |-> alert, id |-> ref']
    BY <2>1 DEF e
  <2> QED
    BY <1>1, <1>3, <2>3, <2>4 DEF Stored
<1>4. CASE kind = "child"
  <2> DEFINE c == [alert |-> alert, ref |-> ref]
  <2>1. childBuf' = Append(childBuf, c) /\ alertBuf' = alertBuf /\ ref' = ref /\ c \in Child
    BY <1>1, <1>4 DEF Buffer, Stored, Child, TypeOK
  <2> HIDE DEF c
  <2>2. \A i \in DOMAIN childBuf' : (i \in DOMAIN childBuf /\ childBuf'[i] = childBuf[i]) \/ childBuf'[i] = c
    BY <1>2, <2>1, AppendProlongs DEF Prolongs
  <2>3. ChildrenHeld' \subseteq ChildrenHeld \cup {c} /\ EntriesHeld' = EntriesHeld
    BY <1>2, <2>1, <2>2 DEF EntriesHeld, ChildrenHeld
  <2> QED
    BY <1>1, <1>4, <2>1, <2>3 DEF Stored, c
<1> QED
  BY <1>1, <1>2, <1>3, <1>4 DEF Stored

LEMMA RefsStep == TypeOK /\ RefsAgree /\ [Next]_vars => RefsAgree'
<1> SUFFICES ASSUME TypeOK, RefsAgree, [Next]_vars PROVE RefsAgree'
  OBVIOUS
<1>0. /\ alert \in Nat /\ kind \in {"alert", "child"}
      /\ \A e \in EntriesHeld \cup ChildrenHeld : e.alert \in Nat
  BY BoundsAssumption DEF TypeOK, Alerts, EntriesHeld, ChildrenHeld, Entry, Child
<1>1. CASE AddInMemory \/ FallBack
  <2>1. CASE kind = "alert"
    <3>1. \A e \in EntriesHeld \cup ChildrenHeld : e.alert # alert
      BY <2>1 DEF RefsAgree
    <3>2. /\ alert' = alert /\ kind' = "child" /\ ChildrenHeld' = ChildrenHeld
          /\ EntriesHeld' \subseteq EntriesHeld \cup {[alert |-> alert, id |-> ref']}
      BY <1>1, <2>1, NewRecord
    <3>3. \A e \in EntriesHeld' : e \in EntriesHeld \/ (e.alert = alert /\ e.id = ref')
      BY <3>2
    <3> QED
      BY <1>0, <3>1, <3>2, <3>3 DEF RefsAgree
  <2>2. CASE kind = "child"
    <3>1. /\ alert' = alert /\ kind' = "child" /\ ref' = ref /\ EntriesHeld' = EntriesHeld
          /\ ChildrenHeld' \subseteq ChildrenHeld \cup {[alert |-> alert, ref |-> ref]}
      BY <1>1, <2>2, NewRecord
    <3>2. \A c \in ChildrenHeld' : c \in ChildrenHeld \/ (c.alert = alert /\ c.ref = ref)
      BY <3>1
    <3> QED
      BY <1>0, <2>2, <3>1, <3>2 DEF RefsAgree
  <2> QED
    BY <1>0, <2>1, <2>2
<1>2. CASE ~(AddInMemory \/ FallBack)
  <2>1. EntriesHeld' \subseteq EntriesHeld /\ ChildrenHeld' \subseteq ChildrenHeld
    BY <1>2, NothingNew
  <2>2. CASE Receive
    <3>1. alert' = alert + 1
      BY <2>2 DEF Receive
    <3>2. \A e \in EntriesHeld \cup ChildrenHeld : e.alert <= alert' /\ e.alert # alert'
      BY <1>0, <3>1 DEF RefsAgree
    <3>3. \A e \in EntriesHeld' \cup ChildrenHeld' : e.alert <= alert' /\ e.alert # alert'
      BY <2>1, <3>2
    <3> QED
      BY <2>1, <3>3 DEF RefsAgree
  <2>3. CASE Insert \/ InsertRefused \/ InsertFails
    <3>1. /\ alert' = alert
          /\ kind = "child" => kind' = "child" /\ ref' = ref
      BY <2>3 DEF Insert, InsertRefused, InsertFails, Stored, Except
    <3>2. kind = "alert" => \A e \in EntriesHeld \cup ChildrenHeld : e.alert # alert
      BY DEF RefsAgree
    <3> QED
      BY <1>0, <2>1, <3>1, <3>2 DEF RefsAgree
  <2>4. CASE ~(Receive \/ Insert \/ InsertRefused \/ InsertFails)
    <3>1. UNCHANGED <<alert, kind, ref>>
      <4>1. CASE LoopAlone
        BY <1>2, <2>4, <4>1 DEF LoopAlone, Check, caller
      <4>2. ASSUME NEW t \in Threads, Quiet(t) PROVE UNCHANGED <<alert, kind, ref>>
        BY <4>2 DEF Quiet, PingFails, Connect, Connected, TablesReady, ConnectFails, SkipFlush, caller
      <4>3. CASE MonitorAlone \/ UNCHANGED vars
        BY <4>3 DEF MonitorAlone, MonitorPings, MonitorReconnects, vars, caller
      <4>4. ASSUME NEW t \in Threads, FlushStep(t) PROVE UNCHANGED <<alert, kind, ref>>
        BY <4>4, InsideFlush DEF caller
      <4> QED
        BY <4>1, <4>2, <4>3, <4>4, StepKinds
    <3> QED
      BY <2>1, <3>1 DEF RefsAgree
  <2> QED
    BY <2>2, <2>3, <2>4
<1> QED
  BY <1>1, <1>2

LEMMA RowsStep == TypeOK /\ RowsGiven /\ [Next]_vars => RowsGiven'
<1> SUFFICES ASSUME TypeOK, RowsGiven, [Next]_vars, NEW t \in Threads
             PROVE  /\ Len(snap'[t].newIds) <= Len(snap'[t].alerts)
                    /\ pc'[t] = "children" => Len(snap'[t].newIds) = Len(snap'[t].alerts)
                    /\ \A i \in DOMAIN snap'[t].newIds :
                         /\ snap'[t].newIds[i] \in DOMAIN alertRows'
                         /\ alertRows'[snap'[t].newIds[i]] = snap'[t].alerts[i].alert
  BY DEF RowsGiven
<1>1. /\ Len(snap[t].newIds) <= Len(snap[t].alerts)
      /\ pc[t] = "children" => Len(snap[t].newIds) = Len(snap[t].alerts)
      /\ \A i \in DOMAIN snap[t].newIds :
           /\ snap[t].newIds[i] \in DOMAIN alertRows'
           /\ alertRows'[snap[t].newIds[i]] = snap[t].alerts[i].alert
  BY TablesGrow DEF RowsGiven, Prolongs
<1>2. ASSUME snap'[t].newIds = snap[t].newIds, snap'[t].alerts = snap[t].alerts,
             pc'[t] = "children" => pc[t] = "children"
      PROVE  /\ Len(snap'[t].newIds) <= Len(snap'[t].alerts)
             /\ pc'[t] = "children" => Len(snap'[t].newIds) = Len(snap'[t].alerts)
             /\ \A i \in DOMAIN snap'[t].newIds :
                  /\ snap'[t].newIds[i] \in DOMAIN alertRows'
                  /\ alertRows'[snap'[t].newIds[i]] = snap'[t].alerts[i].alert
  BY <1>1, <1>2
<1>3. CASE ~\E u \in Threads : FlushStep(u)
  <2>1. /\ UNCHANGED snap
        /\ pc'[t] = "children" => pc[t] = "children"
    BY <1>3, StepKinds, OutsideFlush DEF Flushing
  <2>2. snap'[t] = snap[t]
    BY <2>1
  <2> QED
    BY <1>2, <2>1, <2>2
<1>4. CASE \E u \in Threads : FlushStep(u) /\ u # t
  <2>1. snap'[t] = snap[t] /\ pc'[t] = pc[t]
    BY <1>4, InsideFlush
  <2> QED
    BY <1>2, <2>1
<1>5. CASE FlushAlert(t)
  <2> DEFINE ids == snap[t].newIds
             n == Len(ids)
             s == snap[t].alerts
             r == Len(alertRows')
  <2>1. /\ pc'[t] # "children" /\ n < Len(s) /\ snap'[t].alerts = s
        /\ snap'[t].newIds = Append(ids, r)
        /\ alertRows' = Append(alertRows, s[n + 1].alert)
    BY <1>5, SnapType DEF FlushAlert, TypeOK, Snapshots
  <2>2. ids \in Seq(Nat) /\ s \in Seq(Entry) /\ n \in Nat /\ Len(s) \in Nat
        /\ alertRows \in Seq(Alerts) /\ s[n + 1].alert \in Alerts
    BY <2>1, SnapType, NextAlertType DEF TypeOK
  <2> HIDE DEF s
  <2>3. r = Len(alertRows) + 1 /\ r \in Nat /\ r \in DOMAIN alertRows' /\ alertRows'[r] = s[n + 1].alert
    BY <2>1, <2>2, AppendProlongs, AppendType
  <2> HIDE DEF r
  <2>4. /\ Len(snap'[t].newIds) = n + 1
        /\ \A i \in DOMAIN snap'[t].newIds :
             \/ i \in DOMAIN ids /\ snap'[t].newIds[i] = ids[i]
             \/ i = n + 1 /\ snap'[t].newIds[i] = r
    <3>1. /\ Len(Append(ids, r)) = n + 1 /\ Prolongs(Append(ids, r), ids)
          /\ Append(ids, r)[n + 1] = r
          /\ \A i \in DOMAIN Append(ids, r) : i \in DOMAIN ids \/ i = n + 1
      BY <2>2, <2>3, AppendType, AppendProlongs
    <3> HIDE DEF n, ids
    <3> QED
      BY <2>1, <3>1 DEF Prolongs
  <2>5. \A i \in DOMAIN ids : ids[i] \in DOMAIN alertRows' /\ alertRows'[ids[i]] = s[i].alert
    BY <1>1 DEF s
  <2>6. n + 1 <= Len(s)
    BY <2>1, <2>2
  <2> HIDE DEF n, ids
  <2> QED
    BY <2>1, <2>3, <2>4, <2>5, <2>6
<1>6. CASE BeginFlush(t) \/ EndFlush(t)
  <2>0. pc'[t] # "children"
    BY <1>6 DEF BeginFlush, EndFlush, TypeOK, Goto, Rest
  <2>1. snap'[t].newIds = <<>> /\ snap'[t].alerts \in {alertBuf, <<>>}
    <3>1. CASE BeginFlush(t)
      <4>1. snap'[t] = [NoSnapshot EXCEPT !.alerts = alertBuf, !.children = childBuf]
        BY <3>1 DEF BeginFlush, TypeOK
      <4> QED
        BY <4>1 DEF NoSnapshot
    <3>2. CASE EndFlush(t)
      <4>1. snap'[t] = NoSnapshot
        BY <3>2 DEF EndFlush, TypeOK
      <4> QED
        BY <4>1 DEF NoSnapshot
    <3> QED
      BY <1>6, <3>1, <3>2
  <2>2. Len(snap'[t].alerts) \in Nat
    BY <2>1 DEF TypeOK
  <2> QED
    BY <2>0, <2>1, <2>2
<1>7. CASE AlertsDone(t)
  <2>1. snap'[t] = snap[t] /\ Len(snap[t].newIds) = Len(snap[t].alerts)
    BY <1>7 DEF AlertsDone
  <2> QED
    BY <1>1, <2>1
<1>8. CASE FlushChild(t)
  <2>1. pc' = pc /\ snap'[t].newIds = snap[t].newIds /\ snap'[t].alerts = snap[t].alerts
    BY <1>8, SnapType DEF FlushChild, TypeOK, Snapshots
  <2> QED
    BY <1>2, <2>1
<1>9. CASE ClearBuffers(t) \/ AlertsFail(t) \/ ChildrenFail(t) \/ ChildrenDone(t) \/ RestoreChildren(t)
  <2>1. snap' = snap /\ pc'[t] # "children"
    BY <1>9 DEF ClearBuffers, AlertsFail, ChildrenFail, ChildrenDone, RestoreChildren, Goto, TypeOK
  <2>2. snap'[t] = snap[t]
    BY <2>1
  <2> QED
    BY <1>2, <2>1, <2>2
<1> QED
  BY <1>3, <1>4, <1>5, <1>6, <1>7, <1>8, <1>9 DEF FlushStep, Flush

(* MappedId finds the id the batch was given for an entry, if the batch    *)
(* numbers its entries without repetition.                                 *)
LEMMA MappedIdFinds ==
  ASSUME NEW s, DOMAIN s.newIds = DOMAIN s.alerts, DOMAIN s.newIds \subseteq Nat,
         \A i, j \in DOMAIN s.alerts : s.alerts[i].id = s.alerts[j].id => i = j,
         NEW i \in DOMAIN s.alerts
  PROVE  MappedId(s, s.alerts[i].id) = s.newIds[i]
<1> DEFINE id == s.alerts[i].id
           last == {k \in DOMAIN s.newIds :
                      /\ s.alerts[k].id = id
                      /\ \A j \in DOMAIN s.newIds : s.alerts[j].id = id => j <= k}
<1>1. \A k \in DOMAIN s.newIds : s.alerts[k].id = id => k = i
  OBVIOUS
<1>2. last = {i}
  BY <1>1
<1>3. MappedId(s, id) = IF last = {} THEN id ELSE s.newIds[CHOOSE k \in last : TRUE]
  BY DEF MappedId
<1> HIDE DEF last, id
<1>4. last # {} /\ (CHOOSE k \in last : TRUE) = i
  BY <1>2
<1> QED
  BY <1>3, <1>4 DEF id

(* While a flush writes the analyses of a batch whose ids do not repeat,   *)
(* the id alert_id_map gives for an analysis is the row of its own alert,  *)
(* for any batch and any interleaving.                                     *)
THEOREM LinksInOneRound == Spec => []SameRoundLinks
<1>1. Init => RefsAgree /\ RowsGiven
  <2>1. ASSUME Init PROVE EntriesHeld = {} /\ ChildrenHeld = {} /\ RowsGiven
    <3>1. /\ \A t \in Threads : snap[t] = NoSnapshot /\ pc[t] # "children"
          /\ alertBuf = <<>> /\ childBuf = <<>>
      BY <2>1 DEF Init
    <3> QED
      BY <3>1 DEF EntriesHeld, ChildrenHeld, RowsGiven, NoSnapshot
  <2> QED
    BY <2>1 DEF RefsAgree
<1>2. TypeOK /\ RefsAgree /\ RowsGiven => SameRoundLinks
  <2> SUFFICES ASSUME TypeOK, RefsAgree, RowsGiven, NEW t \in Threads, pc[t] = "children",
                      \A i, j \in DOMAIN snap[t].alerts :
                        snap[t].alerts[i].id = snap[t].alerts[j].id => i = j,
                      NEW i \in DOMAIN snap[t].alerts, NEW k \in DOMAIN snap[t].children,
                      snap[t].alerts[i].alert = snap[t].children[k].alert
               PROVE  alertRows[MappedId(snap[t], snap[t].children[k].ref)] = snap[t].children[k].alert
    BY DEF SameRoundLinks
  <2>1. snap[t].alerts[i] \in EntriesHeld /\ snap[t].children[k] \in ChildrenHeld
    BY SnapType DEF EntriesHeld, ChildrenHeld
  <2>2. snap[t].alerts[i].id = snap[t].children[k].ref
    BY <2>1 DEF RefsAgree
  <2>3. DOMAIN snap[t].newIds = DOMAIN snap[t].alerts /\ DOMAIN snap[t].newIds \subseteq Nat
    <3>1. Len(snap[t].newIds) = Len(snap[t].alerts)
      BY DEF RowsGiven
    <3>2. snap[t].newIds \in Seq(Nat) /\ snap[t].alerts \in Seq(Entry)
      BY SnapType
    <3> QED
      BY <3>1, <3>2
  <2>4. MappedId(snap[t], snap[t].children[k].ref) = snap[t].newIds[i]
    <3>1. MappedId(snap[t], snap[t].alerts[i].id) = snap[t].newIds[i]
      BY <2>3, MappedIdFinds
    <3> QED
      BY <2>2, <3>1
  <2>5. alertRows[snap[t].newIds[i]] = snap[t].alerts[i].alert
    BY <2>3 DEF RowsGiven
  <2> QED
    BY <2>4, <2>5
<1> QED
  BY <1>1, <1>2, RefsStep, RowsStep, TypeCorrect, PTL DEF Spec

(***************************************************************************)
(* Exactly once. As long as no call has failed, memory mode is only ever   *)
(* left, so an alert is appended under the lock or inserted, and a flush   *)
(* moves what it copied.                                                   *)
(***************************************************************************)
LEMMA CopiesNext ==
  ASSUME TypeOK', NEW a
  PROVE  Copies(a)' = Count(alertBuf', a) + Pending(pc'["loop"], snap'["loop"], a)
                        + Pending(pc'["monitor"], snap'["monitor"], a)
                        + Cardinality(RowsOf(alertRows', a))
<1>1. "loop" \in Threads /\ "monitor" \in Threads
  BY DEF Threads
<1>2. ASSUME NEW t \in Threads
      PROVE  Count(UnsentAlerts(t)', a) = Pending(pc'[t], snap'[t], a)
  <2>1. snap'[t] \in Snapshots
    BY DEF TypeOK
  <2> QED
    BY <2>1, PendingCounts DEF UnsentAlerts
<1> QED
  BY <1>1, <1>2 DEF Copies, RowsOf

LEMMA CountAppend ==
  ASSUME NEW S, NEW seq \in Seq(S), NEW x \in S, NEW a
  PROVE  Count(Append(seq, x), a) = Count(seq, a) + IF x.alert = a THEN 1 ELSE 0
<1> DEFINE q == Append(seq, x)
           P == {i \in DOMAIN seq : seq[i].alert = a}
           Q == {i \in DOMAIN q : q[i].alert = a}
<1>1. /\ q \in Seq(S) /\ Len(seq) \in Nat /\ DOMAIN seq = 1..Len(seq) /\ DOMAIN q = 1..(Len(seq) + 1)
      /\ q[Len(seq) + 1] = x /\ \A i \in 1..Len(seq) : q[i] = seq[i]
  OBVIOUS
<1>2. P \in SUBSET DOMAIN seq /\ Len(seq) + 1 \notin P
  BY <1>1
<1>3. IsFiniteSet(P) /\ Cardinality(P) \in Nat
  BY <1>2, Positions
<1> HIDE DEF q
<1>4. Q = IF x.alert = a THEN P \cup {Len(seq) + 1} ELSE P
  BY <1>1
<1> HIDE DEF P, Q
<1>5. Cardinality(P \cup {Len(seq) + 1}) = Cardinality(P) + 1
  BY <1>2, <1>3, FS_AddElement
<1>6. Cardinality(Q) = Cardinality(P) + IF x.alert = a THEN 1 ELSE 0
  BY <1>3, <1>4, <1>5
<1> QED
  BY <1>6 DEF Count, q, P, Q

LEMMA RowsAppend ==
  ASSUME NEW S, NEW rows \in Seq(S), NEW x \in S, NEW a
  PROVE  Cardinality(RowsOf(Append(rows, x), a)) = Cardinality(RowsOf(rows, a)) + IF x = a THEN 1 ELSE 0
<1> DEFINE q == Append(rows, x)
           P == {i \in DOMAIN rows : rows[i] = a}
           Q == {i \in DOMAIN q : q[i] = a}
<1>1. /\ q \in Seq(S) /\ Len(rows) \in Nat /\ DOMAIN rows = 1..Len(rows) /\ DOMAIN q = 1..(Len(rows) + 1)
      /\ q[Len(rows) + 1] = x /\ \A i \in 1..Len(rows) : q[i] = rows[i]
  OBVIOUS
<1>2. P \in SUBSET DOMAIN rows /\ Len(rows) + 1 \notin P
  BY <1>1
<1>3. IsFiniteSet(P) /\ Cardinality(P) \in Nat
  BY <1>2, Positions
<1> HIDE DEF q
<1>4. Q = IF x = a THEN P \cup {Len(rows) + 1} ELSE P
  BY <1>1
<1> HIDE DEF P, Q
<1>5. Cardinality(P \cup {Len(rows) + 1}) = Cardinality(P) + 1
  BY <1>2, <1>3, FS_AddElement
<1>6. Cardinality(Q) = Cardinality(P) + IF x = a THEN 1 ELSE 0
  BY <1>3, <1>4, <1>5
<1> QED
  BY <1>6 DEF RowsOf, q, P, Q

(* Writing the next entry of a batch takes it off what is pending.         *)
LEMMA AfterNext ==
  ASSUME NEW s \in Seq(Entry), NEW n \in Nat, n < Len(s), NEW a
  PROVE  Cardinality(After(s, n, a))
           = Cardinality(After(s, n + 1, a)) + IF s[n + 1].alert = a THEN 1 ELSE 0
<1>1. /\ After(s, n + 1, a) \in SUBSET DOMAIN s /\ n + 1 \notin After(s, n + 1, a)
      /\ n + 1 \in DOMAIN s /\ DOMAIN s \subseteq Nat
  BY DEF After
<1>2. IsFiniteSet(After(s, n + 1, a)) /\ Cardinality(After(s, n + 1, a)) \in Nat
  BY <1>1, Positions
<1>3. \A i \in Nat : i > n <=> i > n + 1 \/ i = n + 1
  OBVIOUS
<1>4. After(s, n, a) = IF s[n + 1].alert = a THEN After(s, n + 1, a) \cup {n + 1}
                                            ELSE After(s, n + 1, a)
  BY <1>1, <1>3 DEF After
<1>5. Cardinality(After(s, n + 1, a) \cup {n + 1}) = Cardinality(After(s, n + 1, a)) + 1
  BY <1>1, <1>2, FS_AddElement
<1> QED
  BY <1>2, <1>4, <1>5

LEMMA AfterEnds ==
  ASSUME NEW s \in Seq(Entry), NEW a
  PROVE  /\ Cardinality(After(s, Len(s), a)) = 0
         /\ Cardinality(After(s, 0, a)) = Count(s, a)
<1>1. After(s, Len(s), a) = {} /\ After(s, 0, a) = {i \in DOMAIN s : s[i].alert = a}
  BY DEF After
<1> QED
  BY <1>1, FS_EmptySet DEF Count

Untroubled ==
    /\ pc["loop"] = "insert" => ~useMemory
    /\ pc["loop"] = "fallback" => kind = "child"
    /\ \A t \in Threads : pc[t] \in {"tables", "flush"} \cup Flushing => ~useMemory
    /\ \A t \in Threads : pc[t] = "copied" => alertBuf = snap[t].alerts
    /\ \A a \in Alerts \ {0} : Copies(a) = IF a \in AcceptedAlerts THEN 1 ELSE 0

Taken == kind = "alert" /\ (AddInMemory \/ Insert)

LEMMA ErrorsGrow ==
  ASSUME TypeOK, [Next]_vars, errors' = 0
  PROVE  /\ errors = 0
         /\ ~InsertFails
         /\ \A t \in Threads : ~PingFails(t)
<1>1. errors \in Nat
  BY BoundsAssumption DEF TypeOK
<1>2. ~Fails
  BY <1>1 DEF Fails
<1>3. UNCHANGED errors
  BY <1>2 DEF Next, LoopStep, MonitorStep, Receive, Check, AddInMemory, Insert, InsertRefused, InsertFails,
       FallBack, PingFails, Connect, Connected, TablesReady, ConnectFails, Flush, SkipFlush, BeginFlush,
       ClearBuffers, FlushAlert, AlertsFail, AlertsDone, FlushChild, ChildrenFail, ChildrenDone,
       RestoreChildren, EndFlush, MonitorPings, MonitorReconnects, MonitorPings, vars
<1> QED
  BY <1>2, <1>3 DEF InsertFails, PingFails

(* Without failures memory mode is not entered, no insert is refused an    *)
(* alert, and no batch of alerts is put back.                              *)
LEMMA NoTrouble ==
  ASSUME TypeOK, Untroubled, [Next]_vars, errors' = 0
  PROVE  /\ useMemory' => useMemory
         /\ \A t \in Threads : ~ConnectFails(t) /\ ~AlertsFail(t)
         /\ InsertRefused => kind = "child"
         /\ FallBack => kind = "child"
<1>1. errors \in Nat /\ errors = 0 /\ ~Fails
  BY BoundsAssumption, ErrorsGrow DEF TypeOK, Fails
<1>2. ASSUME NEW t \in Threads PROVE ~ConnectFails(t) /\ ~AlertsFail(t)
  <2>1. ~(pc[t] = "tables" /\ useMemory) /\ ~(pc[t] = "alerts" /\ useMemory)
    BY DEF Untroubled, Flushing
  <2> QED
    BY <1>1, <2>1 DEF ConnectFails, AlertsFail, HasCursor
<1>3. InsertRefused => kind = "child"
  BY DEF InsertRefused, Untroubled
<1>4. FallBack => kind = "child"
  BY DEF FallBack, Untroubled
<1>5. useMemory' => useMemory
  <2>1. "loop" \in Threads /\ "monitor" \in Threads
    BY DEF Threads
  <2>2. ASSUME NEW t \in Threads, Quiet(t) PROVE useMemory' => useMemory
    BY <1>2, <2>2, ErrorsGrow DEF Quiet, Connect, Connected, TablesReady, SkipFlush
  <2>3. CASE LoopAlone
    BY <2>3 DEF LoopAlone, Receive, Check, AddInMemory, Insert, InsertRefused, InsertFails, FallBack
  <2>4. CASE MonitorAlone \/ UNCHANGED vars
    BY <2>4 DEF MonitorAlone, MonitorPings, MonitorReconnects, vars
  <2>5. ASSUME NEW t \in Threads, FlushStep(t) PROVE useMemory' => useMemory
    BY <2>5, InsideFlush
  <2> QED
    BY <2>2, <2>3, <2>4, <2>5, StepKinds
<1> QED
  BY <1>2, <1>3, <1>4, <1>5

(* How a step of one thread changes the number of copies.                  *)
LEMMA CopiesChange ==
  ASSUME TypeOK, TypeOK', NEW a, NEW t \in Threads, NEW buf \in Int, NEW sent \in Int, NEW rows \in Int,
         \A u \in Threads : u # t => Pending(pc'[u], snap'[u], a) = Pending(pc[u], snap[u], a),
         Count(alertBuf', a) = Count(alertBuf, a) + buf,
         Pending(pc'[t], snap'[t], a) = Pending(pc[t], snap[t], a) + sent,
         Cardinality(RowsOf(alertRows', a)) = Cardinality(RowsOf(alertRows, a)) + rows
  PROVE  Copies(a)' = Copies(a) + buf + sent + rows
<1>1. t = "loop" \/ t = "monitor"
  BY DEF Threads
<1>2. "loop" \in Threads /\ "monitor" \in Threads
  BY DEF Threads
<1>3. /\ Count(alertBuf, a) \in Nat /\ Cardinality(RowsOf(alertRows, a)) \in Nat
      /\ Pending(pc["loop"], snap["loop"], a) \in Nat /\ Pending(pc["monitor"], snap["monitor"], a) \in Nat
      /\ Copies(a) = Count(alertBuf, a) + Pending(pc["loop"], snap["loop"], a)
                       + Pending(pc["monitor"], snap["monitor"], a) + Cardinality(RowsOf(alertRows, a))
  BY <1>2, CopiesType
<1>4. Copies(a)' = Count(alertBuf', a) + Pending(pc'["loop"], snap'["loop"], a)
                     + Pending(pc'["monitor"], snap'["monitor"], a) + Cardinality(RowsOf(alertRows', a))
  BY CopiesNext
<1>5. CASE t = "loop"
  BY <1>2, <1>3, <1>4, <1>5
<1>6. CASE t = "monitor"
  BY <1>2, <1>3, <1>4, <1>6
<1> QED
  BY <1>1, <1>5, <1>6

LEMMA CopiesSame ==
  ASSUME TypeOK, TypeOK', NEW a, UNCHANGED <<alertBuf, alertRows>>,
         \A t \in Threads : Pending(pc'[t], snap'[t], a) = Pending(pc[t], snap[t], a)
  PROVE  Copies(a)' = Copies(a)
<1>1. Copies(a)' = Copies(a) + 0 + 0 + 0
  <2>1. "loop" \in Threads
    BY DEF Threads
  <2>2. /\ Count(alertBuf, a) \in Nat /\ Cardinality(RowsOf(alertRows, a)) \in Nat
        /\ \A t \in Threads : Pending(pc[t], snap[t], a) \in Nat
    BY CopiesType
  <2>3. /\ Count(alertBuf', a) = Count(alertBuf, a) + 0
        /\ Pending(pc'["loop"], snap'["loop"], a) = Pending(pc["loop"], snap["loop"], a) + 0
        /\ Cardinality(RowsOf(alertRows', a)) = Cardinality(RowsOf(alertRows, a)) + 0
    BY <2>1, <2>2
  <2>4. 0 \in Int
    OBVIOUS
  <2> QED
    BY <2>1, <2>3, <2>4, CopiesChange
<1>2. Copies(a) \in Nat
  <2>1. "loop" \in Threads /\ "monitor" \in Threads
    BY DEF Threads
  <2> QED
    BY <2>1, CopiesType
<1> QED
  BY <1>1, <1>2

LEMMA CopiesLoop ==
  ASSUME TypeOK, TypeOK', Untroubled, [Next]_vars, errors' = 0, NEW a \in Alerts \ {0},
         ~\E t \in Threads : FlushStep(t)
  PROVE  Copies(a)' = Copies(a) + IF Taken /\ a = alert THEN 1 ELSE 0
<1>1. \A t \in Threads : Pending(pc'[t], snap'[t], a) = Pending(pc[t], snap[t], a)
  <2>1. ASSUME NEW t \in Threads
        PROVE  /\ snap'[t] = snap[t]
               /\ pc'[t] = "alerts" => pc[t] = "alerts"
               /\ pc[t] = "alerts" => pc'[t] = "alerts"
    BY StepKinds, OutsideFlush DEF Flushing
  <2> QED
    BY <2>1 DEF Pending
<1>2. "loop" \in Threads /\ "monitor" \in Threads
  BY DEF Threads
<1>3. /\ Count(alertBuf, a) \in Nat /\ Cardinality(RowsOf(alertRows, a)) \in Nat
      /\ \A t \in Threads : Pending(pc[t], snap[t], a) \in Nat
      /\ Copies(a) \in Nat
  BY <1>2, CopiesType
<1>4. CASE Taken /\ AddInMemory
  <2> DEFINE e == [alert |-> alert, id |-> Len(alertBuf) + 1]
             d == IF alert = a THEN 1 ELSE 0
  <2>1. alertBuf' = Append(alertBuf, e) /\ alertRows' = alertRows /\ e.alert = alert
    BY <1>4 DEF Taken, AddInMemory, Buffer
  <2>2. alertBuf \in Seq(Entry) /\ e \in Entry
    BY DEF TypeOK, Entry
  <2> HIDE DEF e
  <2>3. Count(alertBuf', a) = Count(alertBuf, a) + d
    BY <2>1, <2>2, CountAppend
  <2>4. d \in Int
    OBVIOUS
  <2> HIDE DEF d
  <2>5. /\ Pending(pc'["loop"], snap'["loop"], a) = Pending(pc["loop"], snap["loop"], a) + 0
        /\ Cardinality(RowsOf(alertRows', a)) = Cardinality(RowsOf(alertRows, a)) + 0 /\ 0 \in Int
    BY <1>1, <1>2, <1>3, <2>1
  <2>6. Copies(a)' = Copies(a) + d + 0 + 0
    BY <1>1, <1>2, <2>3, <2>4, <2>5, CopiesChange
  <2> QED
    BY <1>3, <1>4, <2>6 DEF d
<1>5. CASE Taken /\ Insert
  <2> DEFINE d == IF alert = a THEN 1 ELSE 0
  <2>1. alertRows' = Append(alertRows, alert) /\ alertBuf' = alertBuf
    BY <1>5 DEF Taken, Insert
  <2>2. alertRows \in Seq(Alerts) /\ alert \in Alerts
    BY DEF TypeOK
  <2>3. Cardinality(RowsOf(alertRows', a)) = Cardinality(RowsOf(alertRows, a)) + d
    BY <2>1, <2>2, RowsAppend
  <2>4. d \in Int
    OBVIOUS
  <2> HIDE DEF d
  <2>5. /\ Pending(pc'["loop"], snap'["loop"], a) = Pending(pc["loop"], snap["loop"], a) + 0
        /\ Count(alertBuf', a) = Count(alertBuf, a) + 0 /\ 0 \in Int
    BY <1>1, <1>2, <1>3, <2>1
  <2>6. Copies(a)' = Copies(a) + 0 + 0 + d
    BY <1>1, <1>2, <2>3, <2>4, <2>5, CopiesChange
  <2> QED
    BY <1>3, <1>5, <2>4, <2>6 DEF d
<1>6. CASE ~Taken
  <2>1. UNCHANGED <<alertBuf, alertRows>>
    <3>1. CASE LoopAlone
      <4>1. FallBack => kind # "alert"
        BY NoTrouble
      <4>2. ~InsertFails
        BY ErrorsGrow
      <4> QED
        BY <1>6, <3>1, <4>1, <4>2 DEF LoopAlone, Taken, Receive, Check, AddInMemory, Insert, InsertRefused,
                                      FallBack, Buffer, data
    <3>2. ASSUME NEW t \in Threads, Quiet(t) PROVE UNCHANGED <<alertBuf, alertRows>>
      BY <3>2 DEF Quiet, PingFails, Connect, Connected, TablesReady, ConnectFails, SkipFlush, data
    <3>3. CASE MonitorAlone \/ UNCHANGED vars
      BY <3>3 DEF MonitorAlone, MonitorPings, MonitorReconnects, vars, data
    <3> QED
      BY <3>1, <3>2, <3>3, StepKinds
  <2>2. Copies(a)' = Copies(a)
    BY <1>1, <2>1, CopiesSame
  <2> QED
    BY <1>3, <1>6, <2>2
<1> QED
  BY <1>4, <1>5, <1>6 DEF Taken

LEMMA CopiesFlush ==
  ASSUME TypeOK, TypeOK', Copied, Untroubled, [Next]_vars, errors' = 0, NEW a \in Alerts \ {0},
         NEW t \in Threads, FlushStep(t)
  PROVE  Copies(a)' = Copies(a)
<1>1. \A u \in Threads : u # t => Pending(pc'[u], snap'[u], a) = Pending(pc[u], snap[u], a)
  BY InsideFlush
<1>2. /\ Count(alertBuf, a) \in Nat /\ Cardinality(RowsOf(alertRows, a)) \in Nat
      /\ Pending(pc[t], snap[t], a) \in Nat
      /\ Copies(a) \in Nat
  <2>1. "loop" \in Threads /\ "monitor" \in Threads
    BY DEF Threads
  <2> QED
    BY <2>1, CopiesType
<1>3. CASE ClearBuffers(t)
  <2> DEFINE n == Count(alertBuf, a)
  <2>1. /\ pc[t] = "copied" /\ pc'[t] = "alerts" /\ snap' = snap
        /\ alertBuf' = <<>> /\ alertRows' = alertRows
    BY <1>3 DEF ClearBuffers, Goto, TypeOK
  <2>2. /\ alertBuf = snap[t].alerts /\ snap[t].newIds = <<>> /\ Len(snap[t].newIds) = 0
    BY <2>1 DEF Untroubled, Copied
  <2>3. /\ Pending(pc[t], snap[t], a) = 0 /\ Pending(pc'[t], snap'[t], a) = n
        /\ Count(alertBuf', a) = 0
    BY <2>1, <2>2, AfterEnds, EmptyCount DEF Pending, TypeOK
  <2> HIDE DEF n
  <2>4. n \in Nat /\ n = Count(alertBuf, a)
    BY <1>2 DEF n
  <2>5. /\ Count(alertBuf', a) = Count(alertBuf, a) + (0 - n)
        /\ Pending(pc'[t], snap'[t], a) = Pending(pc[t], snap[t], a) + n
        /\ Cardinality(RowsOf(alertRows', a)) = Cardinality(RowsOf(alertRows, a)) + 0
    BY <1>2, <2>1, <2>3, <2>4
  <2>6. n \in Int /\ 0 - n \in Int /\ 0 \in Int
    BY <2>4
  <2>7. Copies(a)' = Copies(a) + (0 - n) + n + 0
    BY <1>1, <2>5, <2>6, CopiesChange
  <2> QED
    BY <1>2, <2>4, <2>7
<1>4. CASE FlushAlert(t)
  <2> DEFINE ids == snap[t].newIds
             n == Len(ids)
             s == snap[t].alerts
             d == IF s[n + 1].alert = a THEN 1 ELSE 0
  <2>1. /\ pc[t] = "alerts" /\ pc'[t] = "alerts" /\ n < Len(s) /\ snap'[t].alerts = s
        /\ snap'[t].newIds = Append(ids, Len(alertRows')) /\ alertBuf' = alertBuf
        /\ alertRows' = Append(alertRows, s[n + 1].alert)
    BY <1>4, SnapType DEF FlushAlert, TypeOK, Snapshots
  <2>2. ids \in Seq(Nat) /\ s \in Seq(Entry) /\ n \in Nat /\ Len(alertRows') \in Nat
        /\ alertRows \in Seq(Alerts) /\ s[n + 1].alert \in Alerts
    BY <2>1, SnapType, NextAlertType DEF TypeOK
  <2>3. Len(snap'[t].newIds) = n + 1
    BY <2>1, <2>2, AppendType
  <2>4. Pending(pc[t], snap[t], a) = Cardinality(After(s, n, a))
        /\ Pending(pc'[t], snap'[t], a) = Cardinality(After(s, n + 1, a))
    BY <2>1, <2>3 DEF Pending
  <2>5. Cardinality(RowsOf(alertRows', a)) = Cardinality(RowsOf(alertRows, a)) + d
    BY <2>1, <2>2, RowsAppend
  <2>6. Cardinality(After(s, n, a)) = Cardinality(After(s, n + 1, a)) + d
    BY <2>1, <2>2, AfterNext
  <2>7. d \in Int /\ Cardinality(After(s, n + 1, a)) \in Nat
    <3>1. After(s, n + 1, a) \in SUBSET DOMAIN s
      BY DEF After
    <3> QED
      BY <2>2, <3>1, Positions
  <2> HIDE DEF d, s, n, ids
  <2>8. Pending(pc'[t], snap'[t], a) = Pending(pc[t], snap[t], a) + (0 - d)
    BY <2>4, <2>6, <2>7
  <2>9. Count(alertBuf', a) = Count(alertBuf, a) + 0
    BY <1>2, <2>1
  <2>10. 0 - d \in Int
    BY <2>7
  <2>11. Copies(a)' = Copies(a) + 0 + (0 - d) + d
    BY <1>1, <2>5, <2>7, <2>8, <2>9, <2>10, CopiesChange
  <2> QED
    BY <1>2, <2>7, <2>11
<1>5. CASE AlertsDone(t)
  <2>1. /\ pc[t] = "alerts" /\ pc'[t] = "children" /\ snap' = snap
        /\ Len(snap[t].newIds) = Len(snap[t].alerts) /\ UNCHANGED <<alertBuf, alertRows>>
    BY <1>5 DEF AlertsDone, Goto, TypeOK, data
  <2>2. Pending(pc[t], snap[t], a) = 0 /\ Pending(pc'[t], snap'[t], a) = 0
    BY <2>1, SnapType, AfterEnds DEF Pending
  <2> QED
    BY <1>1, <2>1, <2>2, CopiesSame
<1>6. CASE ~(ClearBuffers(t) \/ FlushAlert(t) \/ AlertsDone(t))
  <2>1. ~AlertsFail(t)
    BY NoTrouble
  <2>2. pc[t] # "alerts" /\ pc'[t] # "alerts" /\ UNCHANGED <<alertBuf, alertRows>>
    BY <1>6, <2>1 DEF FlushStep, Flush, BeginFlush, FlushChild, ChildrenFail, ChildrenDone,
                      RestoreChildren, EndFlush, Goto, Rest, TypeOK, data
  <2>3. Pending(pc[t], snap[t], a) = 0 /\ Pending(pc'[t], snap'[t], a) = 0
    BY <2>2 DEF Pending
  <2> QED
    BY <1>1, <2>2, <2>3, CopiesSame
<1> QED
  BY <1>3, <1>4, <1>5, <1>6

LEMMA AcceptedExactly ==
  ASSUME TypeOK, [Next]_vars, FallBack => kind = "child", NEW a \in Alerts \ {0}
  PROVE  /\ a \in AcceptedAlerts' <=> a \in AcceptedAlerts \/ (Taken /\ a = alert)
         /\ Taken => alert \notin AcceptedAlerts
<1>0. /\ alert \in Nat /\ a \in Nat /\ a > 0 /\ "loop" \in Threads
      /\ kind \in {"alert", "child"}
  BY BoundsAssumption DEF TypeOK, Alerts, Threads
<1>1. CASE AddInMemory \/ Insert \/ FallBack
  <2>1. pc["loop"] # "idle" /\ kind' = "child" /\ alert' = alert
    BY <1>1 DEF AddInMemory, Insert, FallBack, Stored
  <2>2. AcceptedAlerts' = 1..alert
    BY <2>1 DEF AcceptedAlerts
  <2>3. CASE kind = "alert"
    <3>1. AcceptedAlerts = 1..(alert - 1) /\ Taken
      BY <1>1, <2>1, <2>3 DEF AcceptedAlerts, Taken
    <3>2. a \in 1..alert <=> a \in 1..(alert - 1) \/ a = alert
      BY <1>0
    <3>3. alert \notin 1..(alert - 1)
      BY <1>0
    <3> QED
      BY <2>2, <3>1, <3>2, <3>3
  <2>4. CASE kind = "child"
    BY <2>2, <2>4 DEF AcceptedAlerts, Taken
  <2> QED
    BY <1>0, <2>3, <2>4
<1>2. CASE ~(AddInMemory \/ Insert \/ FallBack)
  BY <1>2, AcceptedSame DEF Taken
<1> QED
  BY <1>1, <1>2

(* Each part of Untroubled in turn.                                        *)
LEMMA MemoryLeft ==
  ASSUME TypeOK, Untroubled, [Next]_vars, errors' = 0
  PROVE  /\ pc'["loop"] = "insert" => ~useMemory'
         /\ pc'["loop"] = "fallback" => kind' = "child"
         /\ \A t \in Threads : pc'[t] \in {"tables", "flush"} \cup Flushing => ~useMemory'
<1>0. "loop" \in Threads /\ "monitor" \in Threads /\ kind \in {"alert", "child"}
  BY DEF Threads, TypeOK
<1>1. useMemory' => useMemory
  BY NoTrouble
<1> DEFINE Busy == {"tables", "flush"} \cup Flushing
<1>2. /\ \A t \in Threads : pc[t] \in Busy => ~useMemory
      /\ pc["loop"] = "insert" => ~useMemory
      /\ pc["loop"] = "fallback" => kind = "child"
  BY DEF Untroubled
<1>3. {"connect", "recheck", "sleep", "check", "idle", "memory", "fallback", "insert"} \cap Busy = {}
  BY DEF Flushing
<1>4. CASE LoopAlone
  <2>1. \A t \in Threads : t # "loop" => pc'[t] = pc[t]
    <3>1. PICK where : Goto("loop", where)
      BY <1>4 DEF LoopAlone, Receive, Check, AddInMemory, Insert, InsertRefused, InsertFails, FallBack, Stored, Except
    <3> QED
      BY <1>0, <3>1 DEF Goto, TypeOK
  <2>2. pc'["loop"] \notin Busy
    <3>1. PICK where \in {"check", "memory", "insert", "fallback", "idle"} : Goto("loop", where)
      BY <1>4 DEF LoopAlone, Receive, Check, AddInMemory, Insert, InsertRefused, InsertFails, FallBack, Stored, Except
    <3> QED
      BY <1>0, <1>3, <3>1 DEF Goto, TypeOK
  <2>3. pc'["loop"] = "insert" => ~useMemory
    BY <1>0, <1>4 DEF LoopAlone, Receive, Check, AddInMemory, Insert, InsertRefused, InsertFails, FallBack, Stored, Except, Goto, TypeOK
  <2>4. pc'["loop"] = "fallback" => kind' = "child"
    <3>1. CASE InsertRefused
      BY <3>1, NoTrouble DEF InsertRefused, Except
    <3>2. CASE ~InsertRefused
      <4>1. ~InsertFails
        BY ErrorsGrow
      <4> QED
        BY <1>0, <1>4, <3>2, <4>1 DEF LoopAlone, Receive, Check, AddInMemory, Insert, FallBack, Stored, Goto, TypeOK
    <3> QED
      BY <3>1, <3>2
  <2> HIDE DEF Busy
  <2>5. \A t \in Threads : pc'[t] \in Busy => ~useMemory'
    BY <1>1, <1>2, <2>1, <2>2
  <2> QED
    BY <1>1, <2>3, <2>4, <2>5 DEF Busy
<1>5. ASSUME NEW t \in Threads, Quiet(t)
      PROVE  /\ pc'["loop"] \notin {"insert", "fallback"} \/ pc'["loop"] = pc["loop"]
             /\ \A u \in Threads : pc'[u] \in Busy => pc'[u] = pc[u] \/ ~useMemory'
             /\ kind' = kind
  <2>1. ~PingFails(t) /\ ~ConnectFails(t)
    BY ErrorsGrow, NoTrouble
  <2>2. PICK where : Goto(t, where) /\ (where \in {"recheck", "sleep"} \/ ~useMemory') /\ where \notin {"insert", "fallback"}
    BY <1>5, <2>1 DEF Quiet, Connect, Connected, TablesReady, SkipFlush, Rest
  <2>3. kind' = kind
    BY <1>5, <2>1 DEF Quiet, Connect, Connected, TablesReady, SkipFlush, caller
  <2>4. "recheck" \notin Busy /\ "sleep" \notin Busy
    BY <1>3
  <2> HIDE DEF Busy
  <2> QED
    BY <1>0, <2>2, <2>3, <2>4 DEF Goto, TypeOK
<1>6. CASE MonitorAlone \/ UNCHANGED vars
  <2>1. /\ pc'["loop"] = pc["loop"] /\ kind' = kind
        /\ \A u \in Threads : pc'[u] \in Busy => pc'[u] = pc[u]
    BY <1>0, <1>3, <1>6 DEF MonitorAlone, MonitorPings, MonitorReconnects, vars, Goto, caller, TypeOK
  <2> QED
    BY <1>1, <1>2, <2>1
<1>7. ASSUME NEW t \in Threads, FlushStep(t)
      PROVE  /\ pc'["loop"] \notin {"insert", "fallback"} \/ pc'["loop"] = pc["loop"]
             /\ \A u \in Threads : pc'[u] \in Busy => pc[u] \in Busy
             /\ kind' = kind
  <2>1. /\ kind' = kind /\ \A u \in Threads : u # t => pc'[u] = pc[u]
    BY <1>7, InsideFlush DEF caller
  <2>2. pc[t] \in Busy
    BY <1>7, InsideFlush
  <2>3. pc'[t] \notin {"insert", "fallback"}
    BY <1>7 DEF FlushStep, Flush, BeginFlush, ClearBuffers, FlushAlert, AlertsFail, AlertsDone, FlushChild,
           ChildrenFail, ChildrenDone, RestoreChildren, EndFlush, Goto, Rest, TypeOK
  <2> HIDE DEF Busy
  <2> QED
    BY <1>0, <2>1, <2>2, <2>3
<1> HIDE DEF Busy
<1>8. /\ pc'["loop"] = "insert" => ~useMemory'
      /\ pc'["loop"] = "fallback" => kind' = "child"
      /\ \A t \in Threads : pc'[t] \in Busy => ~useMemory'
  BY <1>1, <1>2, <1>5, <1>6, <1>7, <1>4, StepKinds DEF Busy
<1> QED
  BY <1>8 DEF Busy

LEMMA CopyCurrent ==
  ASSUME TypeOK, OneFlusher, Untroubled, [Next]_vars, errors' = 0, NEW t \in Threads, pc'[t] = "copied"
  PROVE  alertBuf' = snap'[t].alerts
<1>1. CASE LoopAlone \/ (\E u \in Threads : Quiet(u)) \/ MonitorAlone \/ UNCHANGED vars
  <2>1. snap' = snap /\ pc[t] = "copied"
    BY <1>1, OutsideFlush DEF Flushing
  <2>2. alertBuf = snap[t].alerts
    BY <2>1 DEF Untroubled
  <2>3. alertBuf' = alertBuf
    <3>1. CASE LoopAlone
      <4>1. ~AddInMemory /\ (FallBack => kind # "alert")
        BY <2>1, NoTrouble DEF AddInMemory, LockFree
      <4> QED
        BY <3>1, <4>1 DEF LoopAlone, Receive, Check, Insert, InsertRefused, InsertFails, FallBack, Buffer, data
    <3>2. ASSUME NEW u \in Threads, Quiet(u) PROVE alertBuf' = alertBuf
      BY <3>2 DEF Quiet, PingFails, Connect, Connected, TablesReady, ConnectFails, SkipFlush, data
    <3>3. CASE MonitorAlone \/ UNCHANGED vars
      BY <3>3 DEF MonitorAlone, MonitorPings, MonitorReconnects, vars, data
    <3> QED
      BY <1>1, <3>1, <3>2, <3>3
  <2> QED
    BY <2>1, <2>2, <2>3
<1>2. CASE FlushStep(t)
  <2>1. BeginFlush(t)
    BY <1>2 DEF FlushStep, Flush, ClearBuffers, FlushAlert, AlertsFail, AlertsDone, FlushChild,
           ChildrenFail, ChildrenDone, RestoreChildren, EndFlush, Goto, Rest, TypeOK
  <2>2. alertBuf' = alertBuf /\ snap'[t] = [NoSnapshot EXCEPT !.alerts = alertBuf, !.children = childBuf]
    BY <2>1 DEF BeginFlush, data, TypeOK
  <2> QED
    BY <2>2 DEF NoSnapshot
<1>3. ASSUME NEW u \in Threads, u # t, FlushStep(u)
      PROVE  alertBuf' = snap'[t].alerts
  <2>1. pc[t] = "copied" /\ snap'[t] = snap[t]
    BY <1>3, InsideFlush
  <2>2. pc[u] \notin Flushing
    BY <1>3, <2>1 DEF OneFlusher, Flushing
  <2>3. BeginFlush(u)
    BY <1>3, <2>2 DEF FlushStep, Flush, ClearBuffers, FlushAlert, AlertsFail, AlertsDone, FlushChild,
           ChildrenFail, ChildrenDone, RestoreChildren, EndFlush, Flushing
  <2> QED
    BY <2>1, <2>3 DEF BeginFlush, LockFree
<1> QED
  BY <1>1, <1>2, <1>3, StepKinds

LEMMA UntroubledStep ==
  ASSUME TypeOK, OneFlusher, Copied, errors = 0 => Untroubled, [Next]_vars, errors' = 0
  PROVE  Untroubled'
<1>1. Untroubled /\ TypeOK'
  BY ErrorsGrow, TypeStep
<1>2. ASSUME NEW a \in Alerts \ {0}
      PROVE  Copies(a)' = IF a \in AcceptedAlerts' THEN 1 ELSE 0
  <2>1. Copies(a) = IF a \in AcceptedAlerts THEN 1 ELSE 0
    BY <1>1 DEF Untroubled
  <2>2. /\ a \in AcceptedAlerts' <=> a \in AcceptedAlerts \/ (Taken /\ a = alert)
        /\ Taken => alert \notin AcceptedAlerts
    BY <1>1, NoTrouble, AcceptedExactly
  <2>3. CASE ~\E t \in Threads : FlushStep(t)
    <3>1. Copies(a)' = Copies(a) + IF Taken /\ a = alert THEN 1 ELSE 0
      BY <1>1, <2>3, CopiesLoop
    <3> QED
      BY <2>1, <2>2, <3>1
  <2>4. ASSUME NEW t \in Threads, FlushStep(t)
        PROVE  Copies(a)' = IF a \in AcceptedAlerts' THEN 1 ELSE 0
    <3>1. Copies(a)' = Copies(a)
      BY <1>1, <2>4, CopiesFlush
    <3>2. AcceptedAlerts' = AcceptedAlerts
      <4>1. UNCHANGED <<alert, kind>> /\ pc[t] # "idle" /\ pc'[t] # "idle"
            /\ \A u \in Threads : u # t => pc'[u] = pc[u]
        BY <2>4, InsideFlush DEF caller
      <4>2. pc'["loop"] = "idle" <=> pc["loop"] = "idle"
        BY <4>1 DEF Threads
      <4> QED
        BY <4>1, <4>2 DEF AcceptedAlerts
    <3> QED
      BY <2>1, <3>1, <3>2
  <2> QED
    BY <2>3, <2>4
<1> QED
  BY <1>1, <1>2, MemoryLeft, CopyCurrent DEF Untroubled

(* As long as no database call has failed, every accepted alert is held    *)
(* exactly once at every moment: neither lost nor flushed twice, the       *)
(* switch from memory to PostgreSQL included.                              *)
THEOREM OnceWithoutFailures == Spec => []AlertsExactlyOnce
<1> DEFINE Inv == errors = 0 => Untroubled
<1>1. Init => Copied /\ Inv
  <2> SUFFICES ASSUME Init PROVE Copied /\ Untroubled
    OBVIOUS
  <2>1. /\ \A t \in Threads : pc[t] \in {"idle", "sleep"} /\ snap[t] = NoSnapshot
        /\ "loop" \in Threads /\ "monitor" \in Threads
    BY DEF Init, Threads
  <2>2. \A p \in {"idle", "sleep"} : p \notin {"insert", "fallback", "tables", "flush", "alerts"} \cup Flushing
    BY DEF Flushing
  <2>3. ASSUME NEW a \in Alerts \ {0}
        PROVE  Copies(a) = 0 /\ a \notin AcceptedAlerts
    <3>1. Count(alertBuf, a) = 0
      BY EmptyCount DEF Init
    <3>2. \A t \in Threads : Pending(pc[t], snap[t], a) = 0
      BY <2>1, <2>2 DEF Pending
    <3>3. RowsOf(alertRows, a) = {}
      BY DEF Init, RowsOf
    <3>4. AcceptedAlerts = 1..0
      BY DEF Init, AcceptedAlerts
    <3>5. Copies(a) = 0 + 0 + 0 + 0
      BY <2>1, <3>1, <3>2, <3>3, CopiesType, InitType, FS_EmptySet
    <3> QED
      BY <3>4, <3>5
  <2> QED
    BY <2>1, <2>2, <2>3 DEF Copied, Untroubled, Flushing
<1>2. TypeOK /\ OneFlusher /\ Copied /\ Inv /\ [Next]_vars => Copied' /\ Inv'
  BY CopiedStep, UntroubledStep
<1>3. TypeOK /\ Inv => AlertsExactlyOnce
  <2> SUFFICES ASSUME TypeOK, Untroubled, NEW a \in AcceptedAlerts PROVE Copies(a) = 1
    BY DEF AlertsExactlyOnce
  <2>1. a \in Alerts \ {0}
    BY BoundsAssumption DEF AcceptedAlerts, TypeOK, Alerts
  <2> QED
    BY <2>1 DEF Untroubled
<1> QED
  BY <1>1, <1>2, <1>3, TypeCorrect, OneFlushAtATime, PTL DEF Spec
=============================================================================

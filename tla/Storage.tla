------------------------------ MODULE Storage ------------------------------
(***************************************************************************)
(* database.py: records accepted while PostgreSQL is away are kept in      *)
(* memory and flushed when it is back. Two threads run this code on shared *)
(* lists: the event loop, which stores an alert and then the analysis that *)
(* points at it (process_falco_alert), and the reconnect monitor. Either   *)
(* one may reconnect, and whoever reconnects flushes.                      *)
(*                                                                         *)
(* An alert is known by its number. In memory its id is its place in the   *)
(* buffer, in the database the next row id: two unrelated numberings, and  *)
(* the analysis carries whichever one add_alert returned.                  *)
(***************************************************************************)
EXTENDS Naturals, Sequences, FiniteSets

CONSTANTS
    OldRows,             \* alert rows of earlier runs of the service
    MaxAlerts,           \* bound: alerts received
    MaxErrors            \* bound: database calls that fail

ASSUME BoundsAssumption == OldRows \in Nat /\ MaxAlerts \in Nat /\ MaxErrors \in Nat

VARIABLES
    useMemory,           \* use_memory
    flushing,            \* _flush_in_progress
    alertBuf,            \* _memory_alerts
    childBuf,            \* _memory_analysis_results
    alertRows,           \* table alerts: the alert stored at each row id
    childRows,           \* table analysis_results
    pc,                  \* where each thread is
    snap,                \* the locals of its _flush_memory_buffers
    alert, kind, ref,    \* the event loop: alert number, what it stores, alert_id
    unlocked,            \* history: records appended without _memory_lock
    errors

data   == <<alertBuf, childBuf, alertRows, childRows>>
caller == <<alert, kind, ref>>
vars   == <<useMemory, flushing, alertBuf, childBuf, alertRows, childRows, pc, snap,
            alert, kind, ref, unlocked, errors>>

Threads == {"loop", "monitor"}
Rest(t) == IF t = "loop" THEN "recheck" ELSE "sleep"
Connecting == {"connect", "tables", "flush"}
Flushing == {"copied", "alerts", "children", "restore", "unflag"}
PCs == {"idle", "check", "recheck", "memory", "insert", "fallback", "sleep"}
         \cup Connecting \cup Flushing

Alerts == 0..MaxAlerts               \* 0 stands for the alerts of earlier runs
Entry == [alert : Alerts, id : Nat]
Child == [alert : Alerts, ref : Nat]
Snapshots == [alerts : Seq(Entry), children : Seq(Child), newIds : Seq(Nat), sent : Nat]
NoSnapshot == [alerts |-> <<>>, children |-> <<>>, newIds |-> <<>>, sent |-> 0]

(* _memory_lock is held between the copy and the clear of the buffers.     *)
LockFree == \A t \in Threads : pc[t] # "copied"

(* Fault: the last alert of the batch is looked up under every id.         *)
LastId(s, id) == IF s.newIds = <<>> THEN id ELSE s.newIds[Len(s.newIds)]

(* alert_id_map.get(old_id, old_id): the last alert flushed under that id. *)
MappedId(s, id) ==
    LET last == {i \in DOMAIN s.newIds :
                   /\ s.alerts[i].id = id
                   /\ \A j \in DOMAIN s.newIds : s.alerts[j].id = id => j <= i}
    IN  IF last = {} THEN id ELSE s.newIds[CHOOSE i \in last : TRUE]

(* The foreign key of analysis_results.                                    *)
Linkable(id) == id \in DOMAIN alertRows

Fails == errors < MaxErrors /\ errors' = errors + 1

(* A failed INSERT may have been committed all the same.                   *)
Uncertain(table, row) == table' \in {table, Append(table, row)}

-----------------------------------------------------------------------------
Init ==
    /\ useMemory \in BOOLEAN              \* __init__ has tried to connect
    /\ flushing = FALSE
    /\ alertBuf = <<>> /\ childBuf = <<>>
    /\ alertRows = [i \in 1..OldRows |-> 0] /\ childRows = <<>>
    /\ pc = [t \in Threads |-> IF t = "loop" THEN "idle" ELSE "sleep"]
    /\ snap = [t \in Threads |-> NoSnapshot]
    /\ alert = 0 /\ kind = "alert" /\ ref = 0
    /\ unlocked = {}
    /\ errors = 0

Goto(t, where) == pc' = [pc EXCEPT ![t] = where]

(***************************************************************************)
(* The event loop: add_alert, then add_analysis_result with the alert's id *)
(***************************************************************************)
Receive ==
    /\ pc["loop"] = "idle" /\ alert < MaxAlerts
    /\ alert' = alert + 1 /\ kind' = "alert" /\ ref' = 0
    /\ Goto("loop", "check")
    /\ UNCHANGED <<useMemory, flushing, data, snap, unlocked, errors>>

(* The database or the buffer has taken the record under this id.          *)
Stored(id) ==
    /\ kind' = "child"
    /\ ref' = IF kind = "alert" THEN id ELSE ref
    /\ Goto("loop", IF kind = "alert" THEN "check" ELSE "idle")
    /\ UNCHANGED alert

(* use_memory or not _ensure_connection(), the connection being fine.      *)
Check ==
    /\ pc["loop"] \in {"check", "recheck"}
    /\ Goto("loop", IF useMemory THEN "memory" ELSE "insert")
    /\ UNCHANGED <<useMemory, flushing, data, snap, caller, unlocked, errors>>

Buffer(id) ==
    IF kind = "alert"
    THEN alertBuf' = Append(alertBuf, [alert |-> alert, id |-> id]) /\ UNCHANGED childBuf
    ELSE childBuf' = Append(childBuf, [alert |-> alert, ref |-> ref]) /\ UNCHANGED alertBuf

(* Fault: the memory path, too, appends without the lock.                  *)
AddWithoutLock ==
    /\ pc["loop"] = "memory"
    /\ LET id == Len(alertBuf) + 1 IN Buffer(id) /\ Stored(id)
    /\ UNCHANGED <<useMemory, flushing, alertRows, childRows, snap, unlocked, errors>>

AddInMemory ==
    /\ pc["loop"] = "memory" /\ LockFree
    /\ LET id == Len(alertBuf) + 1 IN Buffer(id) /\ Stored(id)
    /\ UNCHANGED <<useMemory, flushing, alertRows, childRows, snap, unlocked, errors>>

Insert ==
    /\ pc["loop"] = "insert" /\ ~useMemory
    /\ IF kind = "alert"
       THEN alertRows' = Append(alertRows, alert) /\ UNCHANGED childRows
       ELSE /\ Linkable(ref)
            /\ childRows' = Append(childRows, [alert |-> alert, ref |-> ref])
            /\ UNCHANGED alertRows
    /\ Stored(Len(alertRows'))
    /\ UNCHANGED <<useMemory, flushing, alertBuf, childBuf, snap, unlocked, errors>>

(* The except branches of add_alert and add_analysis_result do not take    *)
(* the lock: the length they number by may be stale when they append.      *)
Except ==
    /\ Goto("loop", "fallback")
    /\ ref' = IF kind = "alert" THEN Len(alertBuf) + 1 ELSE ref
    /\ UNCHANGED <<alert, kind>>

(* _cursor refuses in memory mode, and the database an unknown alert_id.   *)
InsertRefused ==
    /\ pc["loop"] = "insert"
    /\ useMemory \/ (kind = "child" /\ ~Linkable(ref))
    /\ Except
    /\ UNCHANGED <<useMemory, flushing, data, snap, unlocked, errors>>

InsertFails ==
    /\ pc["loop"] = "insert" /\ ~useMemory /\ Fails
    /\ IF kind = "alert"
       THEN Uncertain(alertRows, alert) /\ UNCHANGED childRows
       ELSE /\ Linkable(ref) /\ Uncertain(childRows, [alert |-> alert, ref |-> ref])
            /\ UNCHANGED alertRows
    /\ Except
    /\ UNCHANGED <<useMemory, flushing, alertBuf, childBuf, snap, unlocked>>

FallBack ==
    /\ pc["loop"] = "fallback"
    /\ Buffer(ref) /\ Stored(ref)
    /\ unlocked' = unlocked \cup {<<kind, alert>>}
    /\ UNCHANGED <<useMemory, flushing, alertRows, childRows, snap, errors>>

-----------------------------------------------------------------------------
(***************************************************************************)
(* Losing and finding the database                                         *)
(***************************************************************************)

(* _ensure_connection: SELECT 1 fails, on the loop or on the monitor.      *)
PingFails(t) ==
    /\ pc[t] \in {"check", "sleep"} /\ ~useMemory /\ Fails
    /\ useMemory' = TRUE
    /\ Goto(t, "connect")
    /\ UNCHANGED <<flushing, data, snap, caller, unlocked>>

MonitorPings ==
    /\ pc["monitor"] = "sleep" /\ ~useMemory
    /\ UNCHANGED vars

(* Fault: the monitor only verifies the connection, a no-op in memory mode. *)
MonitorOnlyChecks ==
    /\ pc["monitor"] = "sleep" /\ useMemory
    /\ UNCHANGED vars

MonitorReconnects ==
    /\ pc["monitor"] = "sleep" /\ useMemory
    /\ Goto("monitor", "connect")
    /\ UNCHANGED <<useMemory, flushing, data, snap, caller, unlocked, errors>>

Connected(t) ==
    /\ pc[t] = "connect"
    /\ useMemory' = FALSE
    /\ Goto(t, "tables")
    /\ UNCHANGED <<flushing, data, snap, caller, unlocked, errors>>

(* _init_tables goes through _cursor, which looks at use_memory again.     *)
TablesReady(t) ==
    /\ pc[t] = "tables" /\ ~useMemory
    /\ Goto(t, "flush")
    /\ UNCHANGED <<useMemory, flushing, data, snap, caller, unlocked, errors>>

ConnectFails(t) ==
    /\ \/ pc[t] \in {"connect", "tables"} /\ Fails
       \/ pc[t] = "tables" /\ useMemory /\ UNCHANGED errors
    /\ useMemory' = TRUE
    /\ Goto(t, Rest(t))
    /\ UNCHANGED <<flushing, data, snap, caller, unlocked>>

-----------------------------------------------------------------------------
(***************************************************************************)
(* _flush_memory_buffers                                                   *)
(***************************************************************************)
Buffered == alertBuf # <<>> \/ childBuf # <<>>

SkipFlush(t) ==
    /\ pc[t] = "flush"
    /\ useMemory \/ (LockFree /\ (flushing \/ ~Buffered))
    /\ Goto(t, Rest(t))
    /\ UNCHANGED <<useMemory, flushing, data, snap, caller, unlocked, errors>>

(* Fault: the flush does not look whether another one is in progress.      *)
BeginAnyFlush(t) ==
    /\ pc[t] = "flush" /\ LockFree
    /\ ~useMemory /\ Buffered
    /\ flushing' = TRUE
    /\ snap' = [snap EXCEPT ![t] = [NoSnapshot EXCEPT !.alerts = alertBuf, !.children = childBuf]]
    /\ Goto(t, "copied")
    /\ UNCHANGED <<useMemory, data, caller, unlocked, errors>>

BeginFlush(t) ==
    /\ pc[t] = "flush" /\ LockFree
    /\ ~useMemory /\ ~flushing /\ Buffered
    /\ flushing' = TRUE
    /\ snap' = [snap EXCEPT ![t] = [NoSnapshot EXCEPT !.alerts = alertBuf, !.children = childBuf]]
    /\ Goto(t, "copied")
    /\ UNCHANGED <<useMemory, data, caller, unlocked, errors>>

(* Fault: the copied alerts stay in the buffer.                            *)
ClearChildren(t) ==
    /\ pc[t] = "copied"
    /\ childBuf' = <<>>
    /\ Goto(t, "alerts")
    /\ UNCHANGED <<useMemory, flushing, alertBuf, alertRows, childRows, snap, caller, unlocked, errors>>

ClearBuffers(t) ==
    /\ pc[t] = "copied"
    /\ alertBuf' = <<>> /\ childBuf' = <<>>
    /\ Goto(t, "alerts")
    /\ UNCHANGED <<useMemory, flushing, alertRows, childRows, snap, caller, unlocked, errors>>

(* Only the first statement of a block asks _cursor for a connection.      *)
HasCursor(done) == done > 0 \/ ~useMemory

FlushAlert(t) ==
    LET s == snap[t]  done == Len(s.newIds) IN
    /\ pc[t] = "alerts" /\ done < Len(s.alerts) /\ HasCursor(done)
    /\ alertRows' = Append(alertRows, s.alerts[done + 1].alert)
    /\ snap' = [snap EXCEPT ![t].newIds = Append(@, Len(alertRows'))]
    /\ UNCHANGED <<useMemory, flushing, alertBuf, childBuf, childRows, pc, caller, unlocked, errors>>

(* The whole snapshot goes back to the buffers, sent or not.               *)
AlertsFail(t) ==
    LET s == snap[t]  done == Len(s.newIds) IN
    /\ pc[t] = "alerts" /\ done < Len(s.alerts) /\ LockFree
    /\ \/ ~HasCursor(done) /\ UNCHANGED <<alertRows, errors>>
       \/ HasCursor(done) /\ Fails /\ Uncertain(alertRows, s.alerts[done + 1].alert)
    /\ alertBuf' = alertBuf \o s.alerts
    /\ Goto(t, "restore")
    /\ UNCHANGED <<useMemory, flushing, childBuf, childRows, snap, caller, unlocked>>

AlertsDone(t) ==
    /\ pc[t] = "alerts" /\ Len(snap[t].newIds) = Len(snap[t].alerts)
    /\ Goto(t, "children")
    /\ UNCHANGED <<useMemory, flushing, data, snap, caller, unlocked, errors>>

NextChild(s) ==
    LET c == s.children[s.sent + 1] IN [c EXCEPT !.ref = MappedId(s, c.ref)]

FlushChild(t) ==
    LET s == snap[t] IN
    /\ pc[t] = "children" /\ s.sent < Len(s.children) /\ HasCursor(s.sent)
    /\ Linkable(NextChild(s).ref)
    /\ childRows' = Append(childRows, NextChild(s))
    /\ snap' = [snap EXCEPT ![t].sent = @ + 1]
    /\ UNCHANGED <<useMemory, flushing, alertBuf, childBuf, alertRows, pc, caller, unlocked, errors>>

ChildrenFail(t) ==
    LET s == snap[t] IN
    /\ pc[t] = "children" /\ s.sent < Len(s.children)
    /\ \/ ~HasCursor(s.sent) /\ UNCHANGED <<childRows, errors>>
       \/ HasCursor(s.sent) /\ ~Linkable(NextChild(s).ref) /\ UNCHANGED <<childRows, errors>>
       \/ /\ HasCursor(s.sent) /\ Linkable(NextChild(s).ref)
          /\ Fails /\ Uncertain(childRows, NextChild(s))
    /\ Goto(t, "restore")
    /\ UNCHANGED <<useMemory, flushing, alertBuf, childBuf, alertRows, snap, caller, unlocked>>

ChildrenDone(t) ==
    /\ pc[t] = "children" /\ snap[t].sent = Len(snap[t].children)
    /\ Goto(t, "unflag")
    /\ UNCHANGED <<useMemory, flushing, data, snap, caller, unlocked, errors>>

(* Fault: a failed flush ends at the restore, the flag still up.           *)
RestoreAndReturn(t) ==
    /\ pc[t] = "restore" /\ LockFree
    /\ childBuf' = childBuf \o snap[t].children
    /\ Goto(t, Rest(t))
    /\ snap' = [snap EXCEPT ![t] = NoSnapshot]
    /\ UNCHANGED <<useMemory, flushing, alertBuf, alertRows, childRows, caller, unlocked, errors>>

RestoreChildren(t) ==
    /\ pc[t] = "restore" /\ LockFree
    /\ childBuf' = childBuf \o snap[t].children
    /\ Goto(t, "unflag")
    /\ UNCHANGED <<useMemory, flushing, alertBuf, alertRows, childRows, snap, caller, unlocked, errors>>

EndFlush(t) ==
    /\ pc[t] = "unflag" /\ LockFree
    /\ flushing' = FALSE
    /\ snap' = [snap EXCEPT ![t] = NoSnapshot]
    /\ Goto(t, Rest(t))
    /\ UNCHANGED <<useMemory, data, caller, unlocked, errors>>

-----------------------------------------------------------------------------
Connect(t) == Connected(t) \/ TablesReady(t) \/ ConnectFails(t)

Flush(t) ==
    \/ SkipFlush(t) \/ BeginFlush(t) \/ ClearBuffers(t)
    \/ FlushAlert(t) \/ AlertsFail(t) \/ AlertsDone(t)
    \/ FlushChild(t) \/ ChildrenFail(t) \/ ChildrenDone(t)
    \/ RestoreChildren(t) \/ EndFlush(t)

LoopStep ==
    \/ Check \/ AddInMemory \/ Insert \/ InsertRefused \/ InsertFails \/ FallBack
    \/ PingFails("loop") \/ Connect("loop") \/ Flush("loop")

MonitorStep ==
    \/ MonitorPings \/ MonitorReconnects
    \/ PingFails("monitor") \/ Connect("monitor") \/ Flush("monitor")

Next == Receive \/ LoopStep \/ MonitorStep

(* Neither thread stops: the loop returns from each call, and the monitor  *)
(* sleeps for a bounded time and never ends.                               *)
Spec == Init /\ [][Next]_vars /\ WF_vars(LoopStep) /\ WF_vars(MonitorStep)

-----------------------------------------------------------------------------
(* The types of the shared state and of each thread's locals.              *)
TypeOK ==
    /\ useMemory \in BOOLEAN /\ flushing \in BOOLEAN
    /\ alertBuf \in Seq(Entry) /\ childBuf \in Seq(Child)
    /\ alertRows \in Seq(Alerts) /\ childRows \in Seq(Child)
    /\ pc \in [Threads -> PCs]
    /\ snap \in [Threads -> Snapshots]
    /\ alert \in Alerts /\ kind \in {"alert", "child"} /\ ref \in Nat
    /\ unlocked \subseteq {"alert", "child"} \X Alerts
    /\ errors \in 0..MaxErrors

(* What add_alert and add_analysis_result have returned for.               *)
AcceptedAlerts == 1..(IF kind = "alert" /\ pc["loop"] # "idle" THEN alert - 1 ELSE alert)
AcceptedChildren == 1..(IF pc["loop"] = "idle" THEN alert ELSE alert - 1)

Count(seq, a) == Cardinality({i \in DOMAIN seq : seq[i].alert = a})

(* Entries of a thread's snapshot that are in neither buffer nor table.    *)
UnsentAlerts(t) ==
    IF pc[t] = "alerts"
    THEN SubSeq(snap[t].alerts, Len(snap[t].newIds) + 1, Len(snap[t].alerts))
    ELSE <<>>
UnsentChildren(t) ==
    IF pc[t] \in {"alerts", "children", "restore"} THEN snap[t].children ELSE <<>>

(* How often an alert is held: buffered, on its way, or stored.            *)
Copies(a) ==
    Count(alertBuf, a) + Count(UnsentAlerts("loop"), a) + Count(UnsentAlerts("monitor"), a)
      + Cardinality({i \in DOMAIN alertRows : alertRows[i] = a})

ChildHeld(a) ==
    \/ Count(childBuf, a) + Count(childRows, a) > 0
    \/ \E t \in Threads : Count(UnsentChildren(t), a) > 0

(* An accepted record is never dropped, whatever fails and whichever       *)
(* threads reconnect, except one that the except branch of add_alert or    *)
(* add_analysis_result appended without the lock, between another thread's *)
(* copy of the buffers and its clear.                                      *)
LostOnlyUnlocked ==
    /\ \A a \in AcceptedAlerts : Copies(a) > 0 \/ <<"alert", a>> \in unlocked
    /\ \A a \in AcceptedChildren : ChildHeld(a) \/ <<"child", a>> \in unlocked

(* As long as no database call has failed, an alert is held exactly once   *)
(* at every moment, the switch from memory to PostgreSQL included.         *)
AlertsExactlyOnce == errors = 0 => \A a \in AcceptedAlerts : Copies(a) = 1

(* At most one flush is under way, and the flag says whether one is.       *)
OneFlusher ==
    /\ \A t, u \in Threads : pc[t] \in Flushing /\ pc[u] \in Flushing => t = u
    /\ flushing <=> \E t \in Threads : pc[t] \in Flushing

(* A flush that carries an analysis and its alert links the analysis to    *)
(* the row the alert has just been given, if the batch numbers its alerts  *)
(* without repetition.                                                     *)
SameRoundLinks ==
    \A t \in Threads : pc[t] = "children" =>
      LET s == snap[t] IN
      (\A i, j \in DOMAIN s.alerts : s.alerts[i].id = s.alerts[j].id => i = j) =>
        \A i \in DOMAIN s.alerts : \A k \in DOMAIN s.children :
          s.alerts[i].alert = s.children[k].alert =>
            alertRows[MappedId(s, s.children[k].ref)] = s.children[k].alert

(* Once the database stays reachable the service leaves memory mode for    *)
(* good: the monitor keeps trying.                                         *)
Recovers == <>[](~useMemory)

(* A flush that has begun ends, and lets the next one begin.               *)
FlushEnds == flushing ~> ~flushing

(* Every stored analysis points at the row of its own alert (alerts.py,    *)
(* "a separate record linked to the alert"). It does not: the id add_alert *)
(* returned in memory mode is used in the database after a reconnect.      *)
ChildrenLinked == \A i \in DOMAIN childRows : alertRows[childRows[i].ref] = childRows[i].alert
=============================================================================

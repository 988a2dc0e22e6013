---------------------------- MODULE IotRegistry ----------------------------
(***************************************************************************)
(* api/iot.py and its records in database.py. A device is kept in three    *)
(* places, each with a count of its own: the dashboard's registry, the     *)
(* table, and the fallback buffer; its events are in the table, where they *)
(* must refer to a stored device, or in the other fallback buffer.         *)
(*                                                                         *)
(* The routes run on the event loop and do not await the database; only    *)
(* the flush, on the thread that has reconnected, runs between two of      *)
(* their calls. Reconnecting and the flush's exclusion of other flushes    *)
(* are Storage's subject: here the database comes and goes, and one flush  *)
(* is under way at most.                                                   *)
(***************************************************************************)
EXTENDS Naturals, Sequences, FiniteSets

CONSTANTS
    Devices,             \* device ids
    LongIds,             \* those longer than the column allows
    None,
    MaxMessages,         \* bound: requests received
    MaxFaults            \* bound: calls that fail, and restarts

ASSUME RegistryAssumption ==
    /\ IsFiniteSet(Devices) /\ LongIds \subseteq Devices /\ None \notin Nat
    /\ MaxMessages \in Nat /\ MaxFaults \in Nat

VARIABLES
    useMemory,           \* use_memory
    table, eventRows,    \* iot_devices' event_count; rows of each event in iot_events
    memDevices, memEvents,               \* _memory_iot_devices, _memory_iot_events
    due,                 \* a thread has reconnected and is about to flush
    flush,               \* the locals of _flush_memory_buffers
    registry,            \* _state.iot_devices: the event_count of each device listed
    sender,              \* the device of each message; the message's event is its number
    kind, at,            \* the route that runs, and where it is
    refused,             \* history: devices whose registration failed without a trace
    dropped,             \* history: events that the unlocked append or a restart may lose
    faults

tables  == <<table, eventRows>>
buffers == <<memDevices, memEvents>>
request == <<sender, kind>>
history == <<refused, dropped>>
vars    == <<useMemory, tables, buffers, due, flush, registry, request, at, history, faults>>

Kinds  == {"sensor", "register", "heartbeat"}
Events == 1..MaxMessages
NoCounts == [d \in Devices |-> None]
NoFlush  == [pc |-> "idle", devices |-> NoCounts, left |-> {}, events |-> <<>>, done |-> 0]

Elements(s) == {s[i] : i \in DOMAIN s}
Known(counts) == {d \in Devices : counts[d] # None}

Init ==
    /\ useMemory \in BOOLEAN
    /\ table = NoCounts /\ eventRows = [e \in Events |-> 0]
    /\ memDevices = NoCounts /\ memEvents = <<>>
    /\ due = FALSE /\ flush = NoFlush
    /\ registry = NoCounts
    /\ sender = <<>> /\ kind = "sensor" /\ at = "idle"
    /\ refused = {} /\ dropped = {} /\ faults = 0

Fails == faults < MaxFaults /\ faults' = faults + 1

(* _memory_lock is held from the copy of the buffers to their clearing.     *)
LockFree == flush.pc # "copied"

(* One more message: a new record counts none.                              *)
Counted(counts, d) == [counts EXCEPT ![d] = IF @ = None THEN 0 ELSE @ + 1]

-----------------------------------------------------------------------------
(* The three routes                                                         *)
event  == Len(sender)
device == sender[event]

(* Only the sensor's model limits the id to what the column takes. The      *)
(* heartbeat of a device that is listed does not register it.               *)
Receive(d, k) ==
    /\ at = "idle" /\ Len(sender) < MaxMessages
    /\ k = "sensor" => d \notin LongIds
    /\ sender' = Append(sender, d) /\ kind' = k
    /\ at' = IF k = "heartbeat" /\ registry[d] # None THEN "event" ELSE "device"
    /\ UNCHANGED <<useMemory, tables, buffers, due, flush, registry, history, faults>>

(* use_memory or not _ensure_connection()                                   *)
Check ==
    /\ \/ at = "device" /\ at' = IF useMemory THEN "device memory" ELSE "device table"
       \/ at = "event"  /\ at' = IF useMemory THEN "event memory" ELSE "event table"
    /\ UNCHANGED <<useMemory, tables, buffers, due, flush, registry, request, history, faults>>

(* What the route lists once the registration has answered whether it was   *)
(* new: a sensor's count starts anew then, an announced device keeps its    *)
(* own.                                                                     *)
List(isNew) ==
    /\ registry' = [registry EXCEPT ![device] =
           IF kind = "sensor" THEN (IF @ = None \/ isNew THEN 0 ELSE @) + 1
           ELSE IF @ = None THEN 0 ELSE @]
    /\ at' = "event"

RegisterInMemory ==
    /\ at = "device memory" /\ LockFree
    /\ memDevices' = Counted(memDevices, device)
    /\ List(memDevices[device] = None)
    /\ UNCHANGED <<useMemory, tables, memEvents, due, flush, request, history, faults>>

RegisterInTable ==
    /\ at = "device table" /\ ~useMemory /\ device \notin LongIds
    /\ table' = Counted(table, device)
    /\ List(table[device] = None)
    /\ UNCHANGED <<useMemory, eventRows, buffers, due, flush, request, history, faults>>

(* The mode has changed, the id is too long, or the statement failed and    *)
(* may have been committed: False, nothing buffered, and the device listed. *)
RegistrationRefused ==
    /\ at = "device table"
    /\ \/ (useMemory \/ device \in LongIds) /\ UNCHANGED <<table, faults>>
       \/ /\ ~useMemory /\ device \notin LongIds /\ Fails
          /\ table' \in {table, Counted(table, device)}
    /\ List(FALSE)
    /\ refused' = refused \cup {device}
    /\ UNCHANGED <<useMemory, eventRows, buffers, due, flush, request, dropped>>

AddEventInMemory ==
    /\ at = "event memory" /\ LockFree
    /\ memEvents' = Append(memEvents, event) /\ at' = "idle"
    /\ UNCHANGED <<useMemory, tables, memDevices, due, flush, registry, request, history, faults>>

Stored(e) == eventRows' = [eventRows EXCEPT ![e] = @ + 1]

(* The foreign key of iot_events                                            *)
Linkable(e) == table[sender[e]] # None

AddEventInTable ==
    /\ at = "event table" /\ ~useMemory /\ Linkable(event)
    /\ Stored(event) /\ at' = "idle"
    /\ UNCHANGED <<useMemory, table, buffers, due, flush, registry, request, history, faults>>

EventRefused ==
    /\ at = "event table" /\ at' = "event fallback"
    /\ \/ (useMemory \/ ~Linkable(event)) /\ UNCHANGED <<eventRows, faults>>
       \/ ~useMemory /\ Linkable(event) /\ Fails /\ (Stored(event) \/ UNCHANGED eventRows)
    /\ UNCHANGED <<useMemory, table, buffers, due, flush, registry, request, history>>

(* The except branch appends without the lock.                              *)
FallBack ==
    /\ at = "event fallback" /\ at' = "idle"
    /\ memEvents' = Append(memEvents, event)
    /\ dropped' = IF LockFree THEN dropped ELSE dropped \cup {event}
    /\ UNCHANGED <<useMemory, tables, memDevices, due, flush, registry, request, refused, faults>>

-----------------------------------------------------------------------------
(* The database comes and goes                                              *)
Lose ==
    /\ ~useMemory /\ Fails /\ useMemory' = TRUE
    /\ UNCHANGED <<tables, buffers, due, flush, registry, request, at, history>>

Reconnect ==
    /\ useMemory /\ useMemory' = FALSE /\ due' = TRUE
    /\ UNCHANGED <<tables, buffers, flush, registry, request, at, history, faults>>

Buffered == Known(memDevices) # {} \/ memEvents # <<>>

SkipFlush ==
    /\ due /\ due' = FALSE
    /\ useMemory \/ flush.pc # "idle" \/ ~Buffered
    /\ UNCHANGED <<useMemory, tables, buffers, flush, registry, request, at, history, faults>>

(* Records of other kinds are a reason to flush, too.                       *)
BeginFlush ==
    /\ due /\ due' = FALSE
    /\ ~useMemory /\ flush.pc = "idle"
    /\ flush' = [pc |-> "copied", devices |-> memDevices, left |-> Known(memDevices),
                 events |-> memEvents, done |-> 0]
    /\ UNCHANGED <<useMemory, tables, buffers, registry, request, at, history, faults>>

ClearBuffers ==
    /\ flush.pc = "copied" /\ flush' = [flush EXCEPT !.pc = "devices"]
    /\ memDevices' = NoCounts /\ memEvents' = <<>>
    /\ UNCHANGED <<useMemory, tables, due, registry, request, at, history, faults>>

(* Fault: the buffered count is added to the stored one.                    *)
Added(counts, d, n) == [counts EXCEPT ![d] = IF @ = None THEN n ELSE @ + n]

(* ON CONFLICT ... GREATEST                                                 *)
Merged(counts, d, n) == [counts EXCEPT ![d] = IF @ = None \/ @ < n THEN n ELSE @]

(* _cursor looks at use_memory before the first statement of a block only.  *)
DeviceCursor == ~useMemory \/ flush.left # Known(flush.devices)
EventCursor  == ~useMemory \/ flush.done > 0

FlushDevice(d) ==
    /\ flush.pc = "devices" /\ d \in flush.left \ LongIds /\ DeviceCursor
    /\ table' = Merged(table, d, flush.devices[d])
    /\ flush' = [flush EXCEPT !.left = @ \ {d}]
    /\ UNCHANGED <<useMemory, eventRows, buffers, due, registry, request, at, history, faults>>

(* Fault: the batch is put back only if nothing was buffered meanwhile.     *)
RestoredIfEmpty == IF Known(memDevices) = {} THEN flush.devices ELSE memDevices

(* _restore_dict: all that was copied, over what was buffered meanwhile.    *)
RestoredDevices ==
    [d \in Devices |-> IF flush.devices[d] # None THEN flush.devices[d] ELSE memDevices[d]]

DevicesFail ==
    /\ flush.pc = "devices" /\ flush.left # {}
    /\ \/ (~DeviceCursor \/ flush.left \cap LongIds # {}) /\ UNCHANGED <<table, faults>>
       \/ /\ DeviceCursor /\ Fails
          /\ \E d \in flush.left \ LongIds :
                table' \in {table, Merged(table, d, flush.devices[d])}
    /\ memDevices' = RestoredDevices
    /\ flush' = [flush EXCEPT !.pc = "events", !.left = {}]
    /\ UNCHANGED <<useMemory, eventRows, memEvents, due, registry, request, at, history>>

DevicesDone ==
    /\ flush.pc = "devices" /\ flush.left = {}
    /\ flush' = [flush EXCEPT !.pc = "events"]
    /\ UNCHANGED <<useMemory, tables, buffers, due, registry, request, at, history, faults>>

ToSend == flush.pc = "events" /\ flush.done < Len(flush.events)
Next1  == flush.events[flush.done + 1]

FlushEvent ==
    /\ ToSend /\ EventCursor /\ Linkable(Next1)
    /\ Stored(Next1)
    /\ flush' = [flush EXCEPT !.done = @ + 1]
    /\ UNCHANGED <<useMemory, table, buffers, due, registry, request, at, history, faults>>

(* Fault: the event that was refused is not put back.                       *)
RestoreWithout ==
    memEvents' = memEvents \o SubSeq(flush.events, 1, flush.done)
                           \o SubSeq(flush.events, flush.done + 2, Len(flush.events))

(* _restore_list: the whole batch, behind what was buffered meanwhile.      *)
RestoreEvents == memEvents' = memEvents \o flush.events

EventsFail ==
    /\ ToSend
    /\ \/ (~EventCursor \/ ~Linkable(Next1)) /\ UNCHANGED <<eventRows, faults>>
       \/ EventCursor /\ Linkable(Next1) /\ Fails /\ (Stored(Next1) \/ UNCHANGED eventRows)
    /\ RestoreEvents
    /\ flush' = [NoFlush EXCEPT !.pc = "rest"]
    /\ UNCHANGED <<useMemory, table, memDevices, due, registry, request, at, history>>

EventsDone ==
    /\ flush.pc = "events" /\ flush.done = Len(flush.events)
    /\ flush' = [NoFlush EXCEPT !.pc = "rest"]
    /\ UNCHANGED <<useMemory, tables, buffers, due, registry, request, at, history, faults>>

(* The records of other kinds; then the flag goes down.                     *)
EndFlush ==
    /\ flush.pc = "rest" /\ flush' = NoFlush
    /\ UNCHANGED <<useMemory, tables, buffers, due, registry, request, at, history, faults>>

-----------------------------------------------------------------------------
(* Memory is lost; _init_iot_from_db lists what the table holds, unless it  *)
(* cannot be read.                                                          *)
Restart ==
    /\ Fails
    /\ useMemory' \in BOOLEAN
    /\ registry' \in IF useMemory' THEN {NoCounts} ELSE {NoCounts, table}
    /\ memDevices' = NoCounts /\ memEvents' = <<>>
    /\ due' = FALSE /\ flush' = NoFlush /\ at' = "idle"
    /\ dropped' = dropped \cup {e \in 1..event : eventRows[e] = 0}
    /\ UNCHANGED <<tables, request, refused>>

Route ==
    \/ \E d \in Devices, k \in Kinds : Receive(d, k)
    \/ Check \/ RegisterInMemory \/ RegisterInTable \/ RegistrationRefused
    \/ AddEventInMemory \/ AddEventInTable \/ EventRefused \/ FallBack

Flush ==
    \/ BeginFlush \/ SkipFlush \/ ClearBuffers
    \/ \E d \in Devices : FlushDevice(d)
    \/ DevicesFail \/ DevicesDone \/ FlushEvent \/ EventsFail \/ EventsDone \/ EndFlush

Next == Route \/ Flush \/ Lose \/ Reconnect \/ Restart

Spec == Init /\ [][Next]_vars

-----------------------------------------------------------------------------
(* Where a device's record is, a batch that is being written included.      *)
Kept ==
    Known(table) \cup Known(memDevices)
      \cup IF flush.pc \in {"copied", "devices"} THEN Known(flush.devices) ELSE {}

Messages(d) == Cardinality({e \in DOMAIN sender : sender[e] = d})

(* A count is never more than the messages the device has sent, however     *)
(* often outages, half-written batches put back and written again, lost     *)
(* answers and restarts move it between table, buffer and registry.         *)
CountsJustified ==
    \A d \in Devices :
       /\ \A counts \in {table, memDevices, flush.devices} :
             counts[d] # None => counts[d] < Messages(d)
       /\ registry[d] # None => registry[d] <= Messages(d)

(* An event of a request that was answered is in the table, in the buffer   *)
(* or in the batch being written; only an append without the lock, between  *)
(* the copy and the clearing of the buffers, or a restart lose it. While    *)
(* nothing fails and no id is too long, it is stored once at most.          *)
EventsKept ==
    /\ \A e \in 1..event : at = "idle" \/ e # event =>
          eventRows[e] > 0 \/ e \in Elements(memEvents) \cup Elements(flush.events) \cup dropped
    /\ faults = 0 /\ LongIds \cap Elements(sender) = {} => \A e \in Events : eventRows[e] <= 1

(* A device that is listed, or that a buffered event needs for its foreign  *)
(* key, is in the table or goes there before the event does, unless the     *)
(* database refused its registration, which nobody is told.                 *)
DevicesKnown ==
    /\ Known(registry) \subseteq Kept \cup refused
    /\ \A e \in Elements(memEvents) \cup Elements(flush.events) :
          sender[e] \in Kept \cup refused
============================================================================

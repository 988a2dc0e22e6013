------------------------- MODULE IotRegistryProofs -------------------------
(***************************************************************************)
(* Proofs about IotRegistry.tla, for any finite set of devices, any bound  *)
(* on messages and on faults.                                              *)
(***************************************************************************)
EXTENDS IotRegistry, FiniteSetTheorems, SequenceTheorems, TLAPS

(***************************************************************************)
(* Type correctness.                                                       *)
(***************************************************************************)
Counts == [Devices -> Nat \cup {None}]
Places == {"idle", "device", "device memory", "device table",
           "event", "event memory", "event table", "event fallback"}
Received == 1 .. Len(sender)

FlushType ==
    /\ flush \in [pc : {"idle", "copied", "devices", "events", "rest"}, devices : Counts,
                 left : SUBSET Devices, events : Seq(Received), done : Nat]
    /\ flush.left \subseteq Known(flush.devices)
    /\ flush.done <= Len(flush.events)

TypeOK ==
    /\ useMemory \in BOOLEAN /\ due \in BOOLEAN
    /\ table \in Counts /\ memDevices \in Counts /\ registry \in Counts
    /\ eventRows \in [Events -> Nat]
    /\ sender \in Seq(Devices) /\ Len(sender) <= MaxMessages
    /\ memEvents \in Seq(Received)
    /\ FlushType
    /\ kind \in Kinds /\ at \in Places
    /\ at # "idle" => Len(sender) > 0
    /\ refused \subseteq Devices /\ dropped \subseteq Received
    /\ faults \in Nat

(***************************************************************************)
(* The inductive invariants.                                               *)
(***************************************************************************)
Flushing == {"copied", "devices"}
Linking  == {"event", "event memory", "event table", "event fallback"}

(* The batch holds what the buffers held when it was copied; what is no    *)
(* longer to be written has been written; between batches it is empty.     *)
Batch ==
    /\ flush.pc \in {"idle", "rest"} => flush.devices = NoCounts /\ flush.events = <<>>
    /\ flush.pc = "copied" =>
          /\ Known(memDevices) \subseteq Known(flush.devices)
          /\ Elements(memEvents) \subseteq Elements(flush.events) \cup dropped
          /\ flush.left = Known(flush.devices)
    /\ flush.pc # "events" => flush.done = 0
    /\ flush.pc \in Flushing => Known(flush.devices) \ flush.left \subseteq Known(table)
    /\ \A k \in 1 .. flush.done : eventRows[flush.events[k]] > 0

EventsHeld ==
    \A e \in Received : at = "idle" \/ e # event =>
       eventRows[e] > 0 \/ e \in Elements(memEvents) \cup Elements(flush.events) \cup dropped

(* The route lists a device before it adds the event.                      *)
Listed == at \in Linking => registry[device] # None

(* The message that is being registered does not count yet.                *)
Registering(d) == at \in {"device", "device memory", "device table"} /\ d = device
Uncounted(d) == IF Registering(d) THEN 1 ELSE 0

(* While nothing fails the database, once there, stays, and every          *)
(* registration succeeds before the event of its request is written.       *)
Clean == faults = 0 /\ LongIds \cap Elements(sender) = {}

Senders(s) == {sender[e] : e \in Elements(s)}

Reachable ==
    /\ due \/ flush.pc # "idle" \/ at \in {"device table", "event table", "event fallback"}
         => ~useMemory
    /\ refused = {}
    /\ flush.pc \in Flushing => Senders(flush.events) \subseteq Known(table) \cup Known(flush.devices)
    /\ flush.pc = "events" => Senders(flush.events) \subseteq Known(table)

Distinct(s) == \A i, j \in DOMAIN s : s[i] = s[j] => i = j

(* Every event that is not stored yet is in one place.                     *)
InOnePlace ==
    /\ Distinct(memEvents) /\ Distinct(flush.events)
    /\ flush.pc # "copied" => Elements(memEvents) \cap Elements(flush.events) = {}
    /\ \A e \in Elements(memEvents) : eventRows[e] = 0
    /\ \A k \in flush.done + 1 .. Len(flush.events) : eventRows[flush.events[k]] = 0
    /\ at # "idle" => /\ eventRows[event] = 0
                      /\ event \notin Elements(memEvents) \cup Elements(flush.events)
    /\ \A e \in Events : e > event => eventRows[e] = 0
    /\ \A e \in Events : eventRows[e] <= 1

StoredOnce == Clean => Reachable /\ InOnePlace

(***************************************************************************)
(* Lemmas about the sequences of events.                                   *)
(***************************************************************************)
(* An event that is appended joins those already there.                    *)
LEMMA ElementsAppend ==
    ASSUME NEW S, NEW s \in Seq(S), NEW e \in S
    PROVE  /\ Append(s, e) \in Seq(S) /\ Elements(Append(s, e)) = Elements(s) \cup {e}
           /\ (Distinct(s) /\ e \notin Elements(s) => Distinct(Append(s, e)))
<1>. DEFINE t == Append(s, e)
<1>1. /\ t \in Seq(S) /\ Len(s) \in Nat /\ DOMAIN s = 1 .. Len(s)
      /\ DOMAIN t = 1 .. Len(s) + 1
      /\ \A k \in DOMAIN s : t[k] = s[k]
      /\ t[Len(s) + 1] = e
  OBVIOUS
<1>. HIDE DEF t
<1>2. Elements(t) = Elements(s) \cup {e}
  <2>1. \A k \in DOMAIN t : k \in DOMAIN s \/ k = Len(s) + 1
    BY <1>1
  <2>2. \A k \in DOMAIN s : k \in DOMAIN t
    BY <1>1
  <2>3. Len(s) + 1 \in DOMAIN t
    BY <1>1
  <2>. QED BY <1>1, <2>1, <2>2, <2>3 DEF Elements
<1>3. ASSUME Distinct(s), e \notin Elements(s) PROVE Distinct(t)
  <2>1. \A k \in DOMAIN s : s[k] # e
    BY <1>3 DEF Elements
  <2>2. \A k \in DOMAIN t : k \in DOMAIN s \/ k = Len(s) + 1
    BY <1>1
  <2>. QED BY <1>1, <1>3, <2>1, <2>2 DEF Distinct
<1>. QED BY <1>1, <1>2, <1>3 DEF t

LEMMA ElementsConcat ==
    ASSUME NEW S, NEW s \in Seq(S), NEW t \in Seq(S)
    PROVE  s \o t \in Seq(S) /\ Elements(s \o t) = Elements(s) \cup Elements(t)
<1>. DEFINE u == s \o t
<1>1. /\ u \in Seq(S) /\ Len(s) \in Nat /\ Len(t) \in Nat
      /\ DOMAIN s = 1 .. Len(s) /\ DOMAIN t = 1 .. Len(t)
      /\ DOMAIN u = 1 .. Len(s) + Len(t)
      /\ \A k \in DOMAIN s : u[k] = s[k]
      /\ \A k \in DOMAIN t : u[Len(s) + k] = t[k]
  OBVIOUS
<1>. HIDE DEF u
<1>2. ASSUME NEW x \in Elements(u) PROVE x \in Elements(s) \cup Elements(t)
  <2>1. PICK k \in DOMAIN u : x = u[k]
    BY <1>2 DEF Elements
  <2>2. CASE k \in DOMAIN s
    BY <1>1, <2>1, <2>2 DEF Elements
  <2>3. CASE k \notin DOMAIN s
    <3>1. k - Len(s) \in DOMAIN t /\ Len(s) + (k - Len(s)) = k
      BY <1>1, <2>1, <2>3
    <3>2. x = t[k - Len(s)]
      BY <1>1, <2>1, <3>1
    <3>. QED BY <3>1, <3>2 DEF Elements
  <2>. QED BY <2>2, <2>3
<1>3. ASSUME NEW x \in Elements(s) PROVE x \in Elements(u)
  <2>1. PICK k \in DOMAIN s : x = s[k]
    BY <1>3 DEF Elements
  <2>2. k \in DOMAIN u
    BY <1>1, <2>1
  <2>. QED BY <1>1, <2>1, <2>2 DEF Elements
<1>4. ASSUME NEW x \in Elements(t) PROVE x \in Elements(u)
  <2>1. PICK k \in DOMAIN t : x = t[k]
    BY <1>4 DEF Elements
  <2>2. Len(s) + k \in DOMAIN u
    BY <1>1, <2>1
  <2>. QED BY <1>1, <2>1, <2>2 DEF Elements
<1>. QED BY <1>1, <1>2, <1>3, <1>4 DEF u

(* No event, no element; and the elements of a sequence are of its type.   *)
LEMMA ElementsFacts ==
    /\ Elements(<<>>) = {} /\ Distinct(<<>>)
    /\ \A S : \A s \in Seq(S) : Elements(s) \subseteq S
<1>1. ASSUME NEW S, NEW s \in Seq(S) PROVE Elements(s) \subseteq S
  BY <1>1 DEF Elements
<1>. QED BY <1>1 DEF Elements, Distinct

(* A longer range of numbers has the shorter one's sequences.              *)
LEMMA SeqGrows ==
    ASSUME NEW m \in Nat, NEW n \in Nat, m <= n, NEW s \in Seq(1 .. m)
    PROVE  s \in Seq(1 .. n)
<1>1. /\ Len(s) \in Nat /\ DOMAIN s = 1 .. Len(s) /\ s = [i \in 1 .. Len(s) |-> s[i]]
      /\ \A i \in 1 .. Len(s) : s[i] \in 1 .. n
  OBVIOUS
<1>. QED BY <1>1, IsASeq

(* A message that arrives is the last of the sequence.                     *)
LEMMA SenderAppend ==
    ASSUME NEW S, NEW s \in Seq(S), NEW d \in S
    PROVE  /\ Append(s, d) \in Seq(S) /\ Len(Append(s, d)) = Len(s) + 1
           /\ \A e \in 1 .. Len(s) : Append(s, d)[e] = s[e]
           /\ Append(s, d)[Len(s) + 1] = d
OBVIOUS

(***************************************************************************)
(* Every step keeps the types.                                             *)
(***************************************************************************)
(* One more message, and the merge of two counts, are counts.              *)
LEMMA CountsType ==
    /\ NoCounts \in Counts
    /\ \A counts \in Counts, d \in Devices : Counted(counts, d) \in Counts
    /\ \A counts \in Counts, d \in Devices, n \in Nat : Merged(counts, d, n) \in Counts
BY RegistryAssumption DEF Counts, NoCounts, Counted, Merged

LEMMA InitType == Init => TypeOK
<1>. SUFFICES ASSUME Init PROVE TypeOK
  OBVIOUS
<1>1. FlushType
  <2>1. NoFlush \in [pc : {"idle", "copied", "devices", "events", "rest"}, devices : Counts,
                     left : SUBSET Devices, events : Seq(Received), done : Nat]
    BY CountsType DEF NoFlush
  <2>2. flush = NoFlush
    BY DEF Init
  <2>. QED BY <2>1, <2>2 DEF FlushType, NoFlush
<1>2. eventRows \in [Events -> Nat]
  BY DEF Init
<1>3. /\ sender \in Seq(Devices) /\ Len(sender) <= MaxMessages
      /\ memEvents \in Seq(Received)
  BY RegistryAssumption DEF Init
<1>. QED
  BY <1>1, <1>2, <1>3, CountsType DEF Init, TypeOK, Kinds, Places

(* What a registration lists is a count.                                   *)
LEMMA ListType ==
    ASSUME TypeOK, device \in Devices, NEW isNew \in BOOLEAN, List(isNew)
    PROVE  registry' \in Counts /\ at' = "event"
BY RegistryAssumption DEF List, TypeOK, Counts

(* The message that is being handled has a number and a device.            *)
LEMMA Handled ==
    ASSUME TypeOK, at # "idle"
    PROVE  event \in Received /\ event \in Events /\ device \in Devices
<1>1. Len(sender) \in Nat /\ Len(sender) \in 1 .. Len(sender)
  BY DEF TypeOK
<1>. QED BY <1>1, RegistryAssumption DEF TypeOK, event, device, Received, Events

LEMMA StoredType ==
    ASSUME eventRows \in [Events -> Nat], NEW e \in Events, Stored(e)
    PROVE  eventRows' \in [Events -> Nat]
BY DEF Stored

(* The event that the flush has come to.                                   *)
LEMMA NextEvent ==
    ASSUME TypeOK, ToSend
    PROVE  /\ Next1 \in Received /\ Next1 \in Events /\ Next1 \in Elements(flush.events)
           /\ flush.done + 1 \in DOMAIN flush.events /\ flush.done \in Nat
           /\ Len(flush.events) \in Nat /\ DOMAIN flush.events = 1 .. Len(flush.events)
<1>1. /\ flush.events \in Seq(Received) /\ flush.done \in Nat
      /\ flush.done < Len(flush.events)
  BY DEF TypeOK, FlushType, ToSend
<1>. DEFINE s == flush.events
            n == flush.done
<1>. HIDE DEF s, n
<1>2. s \in Seq(Received) /\ n \in Nat /\ n < Len(s)
  BY <1>1 DEF s, n
<1>3. n + 1 \in DOMAIN s /\ s[n + 1] \in Received /\ Len(s) \in Nat /\ DOMAIN s = 1 .. Len(s)
  BY <1>2
<1>4. Received \subseteq Events
  BY RegistryAssumption DEF TypeOK, Received, Events
<1>. QED BY <1>2, <1>3, <1>4 DEF s, n, Next1, Elements

LEMMA NextType == TypeOK /\ [Next]_vars => TypeOK'
<1>. SUFFICES ASSUME TypeOK, [Next]_vars PROVE TypeOK'
  OBVIOUS
<1>. USE DEF tables, buffers, request, history, Fails
<1>a. /\ table \in Counts /\ memDevices \in Counts /\ registry \in Counts /\ flush.devices \in Counts
      /\ eventRows \in [Events -> Nat] /\ memEvents \in Seq(Received)
      /\ sender \in Seq(Devices) /\ flush.events \in Seq(Received) /\ flush.left \subseteq Devices
      /\ flush.done \in Nat
  BY DEF TypeOK, FlushType
<1>b. /\ faults \in Nat /\ faults + 1 \in Nat /\ useMemory \in BOOLEAN /\ due \in BOOLEAN
      /\ refused \subseteq Devices /\ dropped \subseteq Received
      /\ kind \in Kinds /\ at \in Places /\ (at # "idle" => Len(sender) > 0)
      /\ Len(sender) <= MaxMessages
  BY DEF TypeOK
<1>s. sender' = sender => Received' = Received
  BY DEF Received
<1>f. ASSUME UNCHANGED <<flush, sender>> PROVE FlushType'
  BY <1>f DEF TypeOK, FlushType, Received
<1>i. NoFlush \in [pc : {"idle", "copied", "devices", "events", "rest"}, devices : Counts,
                   left : SUBSET Devices, events : Seq(Received), done : Nat]
  BY CountsType DEF NoFlush
<1>j. ASSUME sender' = sender,
             flush' = NoFlush \/ flush' = [NoFlush EXCEPT !.pc = "rest"]
      PROVE  FlushType'
  <2>1. flush' = [NoFlush EXCEPT !.pc = flush'.pc] /\ Received' = Received
    BY <1>j, <1>s DEF NoFlush
  <2>2. /\ flush' \in [pc : {"idle", "copied", "devices", "events", "rest"}, devices : Counts,
                       left : SUBSET Devices, events : Seq(Received), done : Nat]
        /\ flush'.left = {} /\ flush'.done = 0 /\ Len(flush'.events) = 0
    <3>1. NoFlush.left = {} /\ NoFlush.done = 0 /\ Len(NoFlush.events) = 0
      BY DEF NoFlush
    <3>2. flush' = NoFlush \/ flush' = [NoFlush EXCEPT !.pc = "rest"]
      BY <1>j
    <3>. QED BY <1>i, <3>1, <3>2
  <2>. QED BY <2>1, <2>2 DEF FlushType
<1>1. ASSUME NEW d \in Devices, NEW k \in Kinds, Receive(d, k) PROVE TypeOK'
  <2>1. sender' = Append(sender, d) /\ Len(sender) < MaxMessages
    BY <1>1 DEF Receive
  <2>2. sender' \in Seq(Devices) /\ Len(sender') = Len(sender) + 1 /\ Len(sender) \in Nat
    BY <1>a, <2>1
  <2>3. memEvents' \in Seq(Received') /\ flush'.events \in Seq(Received')
    BY <1>1, <1>a, <2>2, SeqGrows DEF Receive, Received
  <2>4. dropped' \subseteq Received' /\ Len(sender') <= MaxMessages /\ Len(sender') > 0
    BY <1>1, <2>1, <2>2, RegistryAssumption DEF Receive, TypeOK, Received
  <2>5. FlushType'
    BY <1>1, <2>3 DEF Receive, TypeOK, FlushType
  <2>. QED BY <1>1, <2>2, <2>3, <2>4, <2>5 DEF Receive, TypeOK, Kinds, Places
<1>2. CASE Check
  BY <1>2, <1>f DEF Check, TypeOK, Received, Places
<1>3. CASE RegisterInMemory
  <2>1. device \in Devices
    BY <1>3, Handled DEF RegisterInMemory
  <2>2. memDevices' \in Counts /\ registry' \in Counts /\ at' = "event"
    BY <1>3, <1>a, <2>1, CountsType, ListType DEF RegisterInMemory
  <2>. QED BY <1>3, <1>f, <2>2 DEF RegisterInMemory, TypeOK, Received, Places
<1>4. CASE RegisterInTable
  <2>1. device \in Devices
    BY <1>4, Handled DEF RegisterInTable
  <2>2. table' \in Counts /\ registry' \in Counts /\ at' = "event"
    BY <1>4, <1>a, <2>1, CountsType, ListType DEF RegisterInTable
  <2>. QED BY <1>4, <1>f, <2>2 DEF RegisterInTable, TypeOK, Received, Places
<1>5. CASE RegistrationRefused
  <2>1. device \in Devices
    BY <1>5, Handled DEF RegistrationRefused
  <2>2. table' \in Counts /\ registry' \in Counts /\ at' = "event"
    BY <1>5, <1>a, <2>1, CountsType, ListType DEF RegistrationRefused
  <2>3. faults' \in Nat /\ refused' \subseteq Devices
    BY <1>5, <1>b, <2>1 DEF RegistrationRefused
  <2>. QED BY <1>5, <1>f, <2>2, <2>3 DEF RegistrationRefused, TypeOK, Received, Places
<1>6. CASE AddEventInMemory \/ FallBack
  <2>1. event \in Received
    BY <1>6, Handled DEF AddEventInMemory, FallBack
  <2>2. Append(memEvents, event) \in Seq(Received)
    BY <1>a, <2>1, ElementsAppend
  <2>4. memEvents' \in Seq(Received)
    BY <1>6, <2>2 DEF AddEventInMemory, FallBack
  <2>3. dropped' \subseteq Received
    BY <1>6, <1>b, <2>1 DEF AddEventInMemory, FallBack
  <2>. QED BY <1>6, <1>f, <2>3, <2>4 DEF AddEventInMemory, FallBack, TypeOK, Received, Places
<1>7. CASE AddEventInTable \/ EventRefused
  <2>1. event \in Events
    BY <1>7, Handled DEF AddEventInTable, EventRefused
  <2>2. eventRows' \in [Events -> Nat]
    BY <1>7, <1>a, <2>1, StoredType DEF AddEventInTable, EventRefused
  <2>3. faults' \in Nat /\ at' \in Places /\ (at' # "idle" => Len(sender) > 0)
    BY <1>7, <1>b DEF AddEventInTable, EventRefused, Places
  <2>. QED BY <1>7, <1>f, <2>2, <2>3 DEF AddEventInTable, EventRefused, TypeOK, Received
<1>8. CASE Lose \/ Reconnect \/ SkipFlush
  <2>1. faults' \in Nat /\ useMemory' \in BOOLEAN /\ due' \in BOOLEAN
    BY <1>8, <1>b DEF Lose, Reconnect, SkipFlush
  <2>. QED BY <1>8, <1>f, <2>1 DEF Lose, Reconnect, SkipFlush, TypeOK, Received
<1>9. CASE BeginFlush
  <2>1. FlushType'
    BY <1>9, <1>a DEF BeginFlush, FlushType, Received, Known, TypeOK
  <2>. QED BY <1>9, <2>1 DEF BeginFlush, TypeOK, Received
<1>10. CASE ClearBuffers
  <2>1. FlushType'
    BY <1>10 DEF ClearBuffers, TypeOK, FlushType, Received
  <2>. QED BY <1>10, <2>1, CountsType DEF ClearBuffers, TypeOK, Received
<1>11. ASSUME NEW d \in Devices, FlushDevice(d) PROVE TypeOK'
  <2>1. flush.devices[d] \in Nat
    BY <1>11, <1>a, RegistryAssumption DEF FlushDevice, TypeOK, FlushType, Known, Counts
  <2>2. table' \in Counts
    BY <1>11, <1>a, <2>1, CountsType DEF FlushDevice
  <2>3. FlushType'
    BY <1>11 DEF FlushDevice, TypeOK, FlushType, Received
  <2>. QED BY <1>11, <2>2, <2>3 DEF FlushDevice, TypeOK, Received
<1>12. CASE DevicesFail
  <2>1. \A d \in flush.left : d \in Devices /\ flush.devices[d] \in Nat
    BY <1>a, RegistryAssumption DEF TypeOK, FlushType, Known, Counts
  <2>2. \A d \in flush.left : Merged(table, d, flush.devices[d]) \in Counts
    BY <1>a, <2>1, CountsType
  <2>3. table' \in Counts /\ faults' \in Nat
    BY <1>12, <1>a, <2>2 DEF DevicesFail, TypeOK
  <2>4. memDevices' \in Counts
    BY <1>12, <1>a DEF DevicesFail, RestoredDevices, Counts
  <2>5. FlushType'
    BY <1>12 DEF DevicesFail, TypeOK, FlushType, Received
  <2>. QED BY <1>12, <2>3, <2>4, <2>5 DEF DevicesFail, TypeOK, Received
<1>13. CASE DevicesDone
  <2>1. FlushType'
    BY <1>13 DEF DevicesDone, TypeOK, FlushType, Received
  <2>. QED BY <1>13, <2>1 DEF DevicesDone, TypeOK, Received
<1>14. CASE FlushEvent
  <2>1. eventRows' \in [Events -> Nat]
    BY <1>14, <1>a, NextEvent, StoredType DEF FlushEvent
  <2>2. flush.done + 1 <= Len(flush.events)
    BY <1>14, NextEvent DEF FlushEvent
  <2>3. FlushType'
    <3>1. /\ flush' = [flush EXCEPT !.done = flush.done + 1] /\ flush.done + 1 \in Nat
          /\ Received' = Received
      BY <1>14, <1>a, <1>s DEF FlushEvent
    <3>. QED BY <2>2, <3>1 DEF TypeOK, FlushType
  <2>. QED BY <1>14, <2>1, <2>3 DEF FlushEvent, TypeOK, Received
<1>15. CASE EventsFail
  <2>1. eventRows' \in [Events -> Nat]
    BY <1>15, <1>a, NextEvent, StoredType DEF EventsFail
  <2>2. memEvents' \in Seq(Received)
    BY <1>15, <1>a, ElementsConcat DEF EventsFail, RestoreEvents
  <2>3. FlushType'
    BY <1>15, <1>j DEF EventsFail
  <2>. QED BY <1>15, <2>1, <2>2, <2>3 DEF EventsFail, TypeOK, Received
<1>16. CASE EventsDone \/ EndFlush
  <2>1. FlushType'
    BY <1>16, <1>j DEF EventsDone, EndFlush
  <2>. QED BY <1>16, <2>1 DEF EventsDone, EndFlush, TypeOK, Received
<1>17. CASE Restart
  <2>1. FlushType'
    BY <1>17, <1>j DEF Restart
  <2>2. dropped' \subseteq Received
    BY <1>17, <1>b DEF Restart, Received, event
  <2>3. registry' \in Counts /\ useMemory' \in BOOLEAN
    BY <1>17, <1>a, CountsType DEF Restart
  <2>4. memDevices' \in Counts /\ memEvents' \in Seq(Received)
    BY <1>17, CountsType DEF Restart
  <2>5. faults' \in Nat /\ at' \in Places /\ at' = "idle" /\ UNCHANGED <<table, eventRows, sender,
                                                                kind, refused>>
        /\ due' \in BOOLEAN
    BY <1>17, <1>b DEF Restart, Places
  <2>. QED BY <2>1, <2>2, <2>3, <2>4, <2>5 DEF TypeOK, Received
<1>18. CASE UNCHANGED vars
  BY <1>18, <1>f DEF vars, TypeOK, Received
<1>. QED
  BY <1>1, <1>2, <1>3, <1>4, <1>5, <1>6, <1>7, <1>8, <1>9, <1>10, <1>11, <1>12, <1>13,
     <1>14, <1>15, <1>16, <1>17, <1>18 DEF Next, Route, Flush

(* Counts, rows, buffers, the batch and the suspended request keep their   *)
(* types, whatever routes, flushes and restarts do.                        *)
THEOREM TypeCorrect == Spec => []TypeOK
<1>. QED BY InitType, NextType, PTL DEF Spec

(***************************************************************************)
(* What the tables hold stays there, and the batch of the flush.           *)
(***************************************************************************)
LEMMA CountedKnown ==
    ASSUME NEW counts \in Counts, NEW d \in Devices, NEW n \in Nat
    PROVE  /\ Known(Counted(counts, d)) = Known(counts) \cup {d}
           /\ Known(Merged(counts, d, n)) = Known(counts) \cup {d}
BY RegistryAssumption DEF Known, Counted, Merged, Counts

(* The count in the batch of a device that is still to be written.         *)
LEMMA LeftCount ==
    ASSUME TypeOK, NEW d \in flush.left
    PROVE  d \in Devices /\ flush.devices[d] \in Nat
BY RegistryAssumption DEF TypeOK, FlushType, Known, Counts

(* The table after any step: as it was, or with one device counted.        *)
LEMMA TableStep ==
    ASSUME TypeOK, [Next]_vars
    PROVE  Known(table) \subseteq Known(table')
<1>. USE DEF tables, buffers, request, history
<1>a. table \in Counts
  BY DEF TypeOK
<1>1. CASE RegisterInTable \/ RegistrationRefused
  <2>1. device \in Devices
    BY <1>1, Handled DEF RegisterInTable, RegistrationRefused
  <2>2. table' \in {table, Counted(table, device)}
    BY <1>1 DEF RegisterInTable, RegistrationRefused
  <2>. QED BY <1>a, <2>1, <2>2, CountedKnown
<1>2. ASSUME NEW d \in Devices, FlushDevice(d) PROVE Known(table) \subseteq Known(table')
  <2>1. flush.devices[d] \in Nat /\ table' = Merged(table, d, flush.devices[d])
    BY <1>2, LeftCount DEF FlushDevice
  <2>. QED BY <1>a, <2>1, CountedKnown
<1>3. CASE DevicesFail
  <2>1. table' = table \/ \E d \in flush.left : table' = Merged(table, d, flush.devices[d])
    BY <1>3 DEF DevicesFail
  <2>. QED BY <1>a, <2>1, LeftCount, CountedKnown
<1>4. CASE table' = table
  BY <1>4
<1>. QED
  BY <1>1, <1>2, <1>3, <1>4
     DEF Next, Route, Flush, Receive, Check, RegisterInMemory, AddEventInMemory,
         AddEventInTable, EventRefused, FallBack, BeginFlush, SkipFlush, ClearBuffers,
         DevicesDone, FlushEvent, EventsFail, EventsDone, EndFlush, Lose, Reconnect,
         Restart, vars

(* The rows of the events after any step: as they were, or one more.       *)
LEMMA RowsStep ==
    ASSUME TypeOK, [Next]_vars, NEW e \in Events
    PROVE  eventRows'[e] \in Nat /\ eventRows'[e] >= eventRows[e] /\ eventRows[e] \in Nat
<1>. USE DEF tables, buffers, request, history
<1>a. eventRows \in [Events -> Nat]
  BY DEF TypeOK
<1>1. CASE eventRows' = eventRows
  BY <1>a, <1>1
<1>2. ASSUME NEW x \in Events, Stored(x)
      PROVE  eventRows'[e] \in Nat /\ eventRows'[e] >= eventRows[e] /\ eventRows[e] \in Nat
  BY <1>a, <1>2 DEF Stored
<1>3. CASE AddEventInTable \/ EventRefused
  BY <1>1, <1>2, <1>3, Handled DEF AddEventInTable, EventRefused
<1>4. CASE FlushEvent \/ EventsFail
  BY <1>1, <1>2, <1>4, NextEvent DEF FlushEvent, EventsFail
<1>. QED
  BY <1>1, <1>3, <1>4
     DEF Next, Route, Flush, Receive, Check, RegisterInMemory, RegisterInTable,
         RegistrationRefused, AddEventInMemory, FallBack, BeginFlush, SkipFlush,
         ClearBuffers, FlushDevice, DevicesFail, DevicesDone, EventsDone, EndFlush, Lose,
         Reconnect, Restart, vars

(* The events of the batch are among the events received.                  *)
LEMMA BatchEvents ==
    ASSUME TypeOK
    PROVE  /\ Elements(memEvents) \subseteq Received /\ Elements(flush.events) \subseteq Received
           /\ Received \subseteq Events
           /\ DOMAIN flush.events = 1 .. Len(flush.events) /\ Len(flush.events) \in Nat
           /\ \A k \in 1 .. flush.done :
                 k \in DOMAIN flush.events /\ flush.events[k] \in Elements(flush.events)
<1>1. memEvents \in Seq(Received) /\ flush.events \in Seq(Received)
  BY DEF TypeOK, FlushType
<1>2. Received \subseteq Events
  BY RegistryAssumption DEF TypeOK, Received, Events
<1>3. flush.done \in Nat /\ flush.done <= Len(flush.events)
  BY DEF TypeOK, FlushType
<1>4. DOMAIN flush.events = 1 .. Len(flush.events) /\ Len(flush.events) \in Nat
  BY <1>1
<1>. QED BY <1>1, <1>2, <1>3, <1>4, ElementsFacts DEF Elements

LEMMA NextBatch == TypeOK /\ Batch /\ [Next]_vars => Batch'
<1>. SUFFICES ASSUME TypeOK, Batch, [Next]_vars PROVE Batch'
  OBVIOUS
<1>. USE DEF tables, buffers, request, history
<1>t. Known(table) \subseteq Known(table')
  BY TableStep
<1>r. \A e \in Events : eventRows'[e] \in Nat /\ eventRows[e] \in Nat /\ eventRows'[e] >= eventRows[e]
  BY RowsStep
<1>w. \A k \in 1 .. flush.done : flush.events[k] \in Events /\ eventRows'[flush.events[k]] > 0
  BY <1>r, BatchEvents DEF Batch
<1>n. ASSUME flush' = NoFlush \/ flush' = [NoFlush EXCEPT !.pc = "rest"] PROVE Batch'
  <2>1. /\ flush'.pc \in {"idle", "rest"} /\ flush'.done = 0
        /\ flush'.devices = NoCounts /\ flush'.events = <<>>
    BY <1>n DEF NoFlush
  <2>2. 1 .. flush'.done = {}
    BY <2>1
  <2>. QED BY <2>1, <2>2 DEF Batch, Flushing
<1>q. ASSUME flush' = flush,
             flush.pc = "copied" =>
                /\ memDevices' = memDevices
                /\ FallBack \/ (memEvents' = memEvents /\ dropped' = dropped)
      PROVE  Batch'
  <2>1. flush.pc = "copied" =>
          /\ Known(memDevices') \subseteq Known(flush.devices)
          /\ Elements(memEvents') \subseteq Elements(flush.events) \cup dropped'
    <3>1. CASE memEvents' = memEvents /\ dropped' = dropped
      BY <1>q, <3>1 DEF Batch
    <3>2. CASE flush.pc = "copied" /\ FallBack
      <4>1. /\ memEvents' = Append(memEvents, event) /\ dropped' = dropped \cup {event}
            /\ memDevices' = memDevices
        BY <3>2 DEF FallBack, LockFree
      <4>2. event \in Received /\ memEvents \in Seq(Received)
        BY <3>2, Handled DEF FallBack, TypeOK
      <4>3. Elements(memEvents') = Elements(memEvents) \cup {event}
        BY <4>1, <4>2, ElementsAppend
      <4>. QED BY <3>2, <4>1, <4>3 DEF Batch
    <3>. QED BY <1>q, <3>1, <3>2
  <2>. QED BY <1>q, <1>t, <1>w, <2>1 DEF Batch
<1>2. CASE \/ \E d \in Devices, k \in Kinds : Receive(d, k)
           \/ Check \/ RegisterInTable \/ RegistrationRefused \/ AddEventInTable \/ EventRefused
           \/ Lose \/ Reconnect \/ SkipFlush
  BY <1>2, <1>q DEF Receive, Check, RegisterInTable, RegistrationRefused, AddEventInTable,
                    EventRefused, Lose, Reconnect, SkipFlush
<1>3. CASE RegisterInMemory \/ AddEventInMemory
  BY <1>3, <1>q DEF RegisterInMemory, AddEventInMemory, LockFree
<1>4. CASE FallBack
  BY <1>4, <1>q DEF FallBack
<1>5. CASE BeginFlush
  <2>1. flush' = [pc |-> "copied", devices |-> memDevices, left |-> Known(memDevices),
                  events |-> memEvents, done |-> 0]
        /\ UNCHANGED <<memDevices, memEvents>>
    BY <1>5 DEF BeginFlush
  <2>. QED BY <2>1 DEF Batch, Flushing
<1>6. CASE ClearBuffers
  <2>1. flush.pc = "copied" /\ flush' = [flush EXCEPT !.pc = "devices"] /\ table' = table
        /\ UNCHANGED eventRows
    BY <1>6 DEF ClearBuffers
  <2>2. flush.done = 0 /\ flush.left = Known(flush.devices)
    BY <2>1 DEF Batch
  <2>. QED BY <1>w, <2>1, <2>2 DEF Batch, Flushing, TypeOK, FlushType
<1>7. ASSUME NEW d \in Devices, FlushDevice(d) PROVE Batch'
  <2>1. /\ flush.pc = "devices" /\ d \in flush.left /\ flush' = [flush EXCEPT !.left = @ \ {d}]
        /\ table' = Merged(table, d, flush.devices[d])
    BY <1>7 DEF FlushDevice
  <2>2. d \in Known(table')
    BY <2>1, LeftCount, CountedKnown DEF TypeOK
  <2>3. /\ flush'.pc = "devices" /\ flush'.left = flush.left \ {d} /\ flush'.done = flush.done
        /\ flush'.devices = flush.devices /\ flush'.events = flush.events
    BY <2>1 DEF TypeOK, FlushType
  <2>. QED BY <1>t, <1>w, <2>1, <2>2, <2>3 DEF Batch, Flushing
<1>8. CASE DevicesFail \/ DevicesDone
  <2>1. /\ flush.pc = "devices" /\ flush'.pc = "events" /\ flush'.done = flush.done
        /\ flush'.events = flush.events
    BY <1>8 DEF DevicesFail, DevicesDone, TypeOK, FlushType
  <2>. QED BY <1>w, <2>1 DEF Batch, Flushing
<1>9. CASE FlushEvent
  <2>1. /\ flush'.pc = "events" /\ flush'.done = flush.done + 1 /\ flush'.events = flush.events
    BY <1>9 DEF FlushEvent, ToSend, TypeOK, FlushType
  <2>2. eventRows'[flush.events[flush.done + 1]] > 0
    BY <1>9, <1>r, NextEvent DEF FlushEvent, Stored, Next1, TypeOK
  <2>3. \A k \in 1 .. flush.done + 1 : k \in 1 .. flush.done \/ k = flush.done + 1
    BY DEF TypeOK, FlushType
  <2>. QED BY <1>w, <2>1, <2>2, <2>3 DEF Batch, Flushing
<1>10. CASE EventsFail \/ EventsDone \/ EndFlush \/ Restart
  BY <1>10, <1>n DEF EventsFail, EventsDone, EndFlush, Restart
<1>11. CASE UNCHANGED vars
  BY <1>11, <1>q DEF vars
<1>. QED
  BY <1>2, <1>3, <1>4, <1>5, <1>6, <1>7, <1>8, <1>9, <1>10, <1>11 DEF Next, Route, Flush

LEMMA InitBatch == Init => Batch
<1>. SUFFICES ASSUME Init PROVE Batch
  OBVIOUS
<1>1. /\ flush.pc = "idle" /\ flush.done = 0
      /\ flush.devices = NoCounts /\ flush.events = <<>>
  BY DEF Init, NoFlush
<1>2. 1 .. flush.done = {}
  BY <1>1
<1>. QED BY <1>1, <1>2 DEF Batch, Flushing

(* The batch has all that its buffers held until they are cleared, and     *)
(* what it no longer has to write is in the tables.                        *)
THEOREM BatchHolds == Spec => []Batch
<1>. QED BY InitBatch, NextBatch, TypeCorrect, PTL DEF Spec

(***************************************************************************)
(* No event of an answered request is lost.                                *)
(***************************************************************************)
Held(e) == eventRows[e] > 0 \/ e \in Elements(memEvents) \cup Elements(flush.events) \cup dropped

(* An event that is held stays held: it is cleared from the buffer only    *)
(* when the batch has it, and leaves the batch only for table or buffer.   *)
LEMMA HeldStays ==
    ASSUME TypeOK, Batch, [Next]_vars, NEW e \in Received, Held(e)
    PROVE  Held(e)'
<1>. USE DEF tables, buffers, request, history
<1>r. e \in Events /\ eventRows'[e] \in Nat /\ eventRows[e] \in Nat /\ eventRows'[e] >= eventRows[e]
  BY RowsStep, BatchEvents
<1>m. memEvents \in Seq(Received) /\ flush.events \in Seq(Received)
  BY DEF TypeOK, FlushType
<1>q. ASSUME Elements(memEvents) \subseteq Elements(memEvents)',
             flush'.events = flush.events, dropped \subseteq dropped'
      PROVE  Held(e)'
  BY <1>q, <1>r DEF Held
<1>1. CASE AddEventInMemory \/ FallBack
  <2>1. event \in Received
    BY <1>1, Handled DEF AddEventInMemory, FallBack
  <2>2. /\ memEvents' = Append(memEvents, event) /\ flush' = flush /\ dropped \subseteq dropped'
    BY <1>1 DEF AddEventInMemory, FallBack
  <2>3. Elements(Append(memEvents, event)) = Elements(memEvents) \cup {event}
    BY <1>m, <2>1, ElementsAppend
  <2>. QED BY <1>q, <2>2, <2>3
<1>2. CASE BeginFlush
  <2>1. flush'.events = memEvents /\ memEvents' = memEvents /\ flush.pc = "idle" /\ dropped' = dropped
    BY <1>2 DEF BeginFlush
  <2>2. Elements(flush.events) = {}
    BY <2>1, ElementsFacts DEF Batch
  <2>. QED BY <1>r, <2>1, <2>2 DEF Held
<1>3. CASE ClearBuffers
  <2>1. flush'.events = flush.events /\ flush.pc = "copied" /\ dropped' = dropped
    BY <1>3 DEF ClearBuffers, TypeOK, FlushType
  <2>. QED BY <1>r, <2>1 DEF Held, Batch
<1>4. CASE EventsFail
  <2>1. memEvents' = memEvents \o flush.events /\ dropped' = dropped
    BY <1>4 DEF EventsFail, RestoreEvents
  <2>2. Elements(memEvents \o flush.events) = Elements(memEvents) \cup Elements(flush.events)
    BY <1>m, ElementsConcat
  <2>. QED BY <1>r, <2>1, <2>2 DEF Held
<1>5. CASE EventsDone
  <2>1. flush.done = Len(flush.events) /\ memEvents' = memEvents /\ dropped' = dropped
        /\ eventRows' = eventRows
    BY <1>5 DEF EventsDone
  <2>2. ASSUME e \in Elements(flush.events) PROVE eventRows[e] > 0
    <3>1. PICK k \in DOMAIN flush.events : e = flush.events[k]
      BY <2>2 DEF Elements
    <3>2. k \in 1 .. flush.done
      BY <2>1, <3>1, BatchEvents
    <3>. QED BY <3>1, <3>2 DEF Batch
  <2>. QED BY <2>1, <2>2 DEF Held
<1>6. CASE EndFlush
  <2>1. flush.pc = "rest" /\ memEvents' = memEvents /\ dropped' = dropped
    BY <1>6 DEF EndFlush
  <2>2. Elements(flush.events) = {}
    BY <2>1, ElementsFacts DEF Batch
  <2>. QED BY <1>r, <2>1, <2>2 DEF Held
<1>7. CASE Restart
  <2>1. dropped' = dropped \cup {x \in Received : eventRows[x] = 0} /\ eventRows' = eventRows
    BY <1>7 DEF Restart, Received, event
  <2>. QED BY <1>r, <2>1 DEF Held
<1>8. ASSUME NEW d \in Devices, FlushDevice(d) PROVE Held(e)'
  <2>1. flush'.events = flush.events
    BY <1>8 DEF FlushDevice, TypeOK, FlushType
  <2>. QED BY <1>8, <1>q, <2>1 DEF FlushDevice
<1>9. CASE DevicesFail \/ DevicesDone \/ FlushEvent
  <2>1. flush'.events = flush.events
    BY <1>9 DEF DevicesFail, DevicesDone, FlushEvent, TypeOK, FlushType
  <2>. QED BY <1>9, <1>q, <2>1 DEF DevicesFail, DevicesDone, FlushEvent
<1>10. CASE UNCHANGED <<memEvents, flush, dropped>>
  BY <1>10, <1>q
<1>. QED
  BY <1>1, <1>2, <1>3, <1>4, <1>5, <1>6, <1>7, <1>8, <1>9, <1>10
     DEF Next, Route, Flush, Receive, Check, RegisterInMemory, RegisterInTable,
         RegistrationRefused, AddEventInTable, EventRefused, SkipFlush, Lose, Reconnect, vars

LEMMA NextHeld == TypeOK /\ Batch /\ EventsHeld /\ [Next]_vars => EventsHeld'
<1>. SUFFICES ASSUME TypeOK, Batch, EventsHeld, [Next]_vars PROVE EventsHeld'
  OBVIOUS
<1>. USE DEF tables, buffers, request, history
<1>1. ASSUME NEW d \in Devices, NEW k \in Kinds, Receive(d, k) PROVE EventsHeld'
  <2>1. sender' = Append(sender, d) /\ at = "idle"
    BY <1>1 DEF Receive
  <2>2. Len(sender') = Len(sender) + 1 /\ Len(sender) \in Nat
    BY <2>1 DEF TypeOK
  <2>3. ASSUME NEW e \in Received', at' = "idle" \/ e # event' PROVE Held(e)'
    <3>1. at' # "idle"
      BY <1>1 DEF Receive
    <3>2. e \in Received
      BY <2>2, <2>3, <3>1 DEF Received, event
    <3>3. Held(e)
      BY <2>1, <3>2 DEF EventsHeld, Held
    <3>. QED BY <3>2, <3>3, HeldStays
  <2>. QED BY <2>3 DEF EventsHeld, Held
<1>2. ASSUME sender' = sender, at # "idle" /\ at' = "idle" => Held(event)',
             at = "idle" => at' = "idle"
      PROVE  EventsHeld'
  <2>1. ASSUME NEW e \in Received', at' = "idle" \/ e # event' PROVE Held(e)'
    <3>1. e \in Received /\ event' = event
      BY <1>2, <2>1 DEF Received, event
    <3>2. CASE at = "idle" \/ e # event
      <4>1. Held(e)
        BY <3>1, <3>2 DEF EventsHeld, Held
      <4>. QED BY <3>1, <4>1, HeldStays
    <3>3. CASE at # "idle" /\ e = event
      BY <1>2, <2>1, <3>1, <3>3 DEF Held
    <3>. QED BY <3>2, <3>3
  <2>. QED BY <2>1 DEF EventsHeld, Held
<1>3. CASE AddEventInMemory \/ FallBack
  <2>1. event \in Received /\ memEvents \in Seq(Received)
    BY <1>3, Handled DEF AddEventInMemory, FallBack, TypeOK
  <2>2. memEvents' = Append(memEvents, event) /\ sender' = sender /\ event' = event /\ at # "idle"
    BY <1>3 DEF AddEventInMemory, FallBack, event
  <2>3. Elements(Append(memEvents, event)) = Elements(memEvents) \cup {event}
    BY <2>1, ElementsAppend
  <2>4. event' \in Elements(memEvents')
    BY <2>2, <2>3
  <2>. QED BY <1>2, <2>2, <2>4 DEF Held
<1>4. CASE AddEventInTable
  <2>1. event \in Events /\ eventRows \in [Events -> Nat]
    BY <1>4, Handled DEF AddEventInTable, TypeOK
  <2>2. eventRows' = [eventRows EXCEPT ![event] = @ + 1]
    BY <1>4 DEF AddEventInTable, Stored
  <2>3. eventRows'[event] > 0
    BY <2>1, <2>2
  <2>4. sender' = sender /\ event' = event /\ at # "idle"
    BY <1>4 DEF AddEventInTable, event
  <2>. QED BY <1>2, <2>3, <2>4 DEF Held
<1>5. CASE Restart
  <2>1. CASE at = "idle"
    BY <1>2, <1>5, <2>1 DEF Restart
  <2>2. CASE at # "idle"
    <3>1. event \in Events /\ event' = event /\ eventRows'[event] = eventRows[event]
          /\ eventRows[event] \in Nat /\ event \in Received
      BY <1>5, <2>2, Handled DEF Restart, event, TypeOK
    <3>2. eventRows[event] = 0 => event \in dropped'
      BY <1>5, <3>1 DEF Restart, Received, event
    <3>3. Held(event)'
      BY <3>1, <3>2 DEF Held
    <3>. QED BY <1>2, <1>5, <3>3 DEF Restart
  <2>. QED BY <2>1, <2>2
<1>6. CASE sender' = sender /\ (at' = at \/ (at # "idle" /\ at' # "idle"))
  BY <1>2, <1>6
<1>7. CASE RegisterInMemory \/ RegisterInTable \/ RegistrationRefused
  BY <1>6, <1>7 DEF RegisterInMemory, RegisterInTable, RegistrationRefused, List
<1>8. CASE Check \/ EventRefused
  BY <1>6, <1>8 DEF Check, EventRefused
<1>9. CASE Flush \/ Lose \/ Reconnect
  BY <1>6, <1>9 DEF Flush, BeginFlush, SkipFlush, ClearBuffers, FlushDevice, DevicesFail,
                    DevicesDone, FlushEvent, EventsFail, EventsDone, EndFlush, Lose, Reconnect
<1>10. CASE UNCHANGED vars
  BY <1>6, <1>10 DEF vars
<1>. QED
  BY <1>1, <1>3, <1>4, <1>5, <1>7, <1>8, <1>9, <1>10 DEF Next, Route

LEMMA InitHeld == Init => EventsHeld
BY DEF Init, EventsHeld, Received

(* The event of an answered request is in the table, the buffer or the     *)
(* batch, or was dropped by the unlocked append or a restart.              *)
THEOREM EventsNotLost == Spec => []EventsHeld
<1>. QED BY InitHeld, NextHeld, TypeCorrect, BatchHolds, PTL DEF Spec

(***************************************************************************)
(* No record without its device.                                           *)
(***************************************************************************)
Accepted == Kept \cup refused

(* A device that is kept, or was refused, is so after every step but a     *)
(* restart.                                                                *)
LEMMA AcceptedStays ==
    ASSUME TypeOK, Batch, [Next]_vars, ~Restart
    PROVE  Accepted \subseteq Accepted'
<1>. USE DEF tables, buffers, request, history
<1>t. Known(table) \subseteq Known(table')
  BY TableStep
<1>q. ASSUME Known(memDevices) \subseteq Known(memDevices'), refused \subseteq refused',
             flush'.pc = flush.pc, flush'.devices = flush.devices
      PROVE  Accepted \subseteq Accepted'
  BY <1>t, <1>q DEF Accepted, Kept
<1>1. CASE RegisterInMemory
  <2>1. device \in Devices /\ memDevices \in Counts /\ memDevices' = Counted(memDevices, device)
    BY <1>1, Handled DEF RegisterInMemory, TypeOK
  <2>2. Known(memDevices') = Known(memDevices) \cup {device}
    BY <2>1, CountedKnown
  <2>. QED BY <1>1, <1>q, <2>2 DEF RegisterInMemory
<1>2. CASE BeginFlush
  <2>1. flush.pc = "idle" /\ flush'.pc = "copied" /\ memDevices' = memDevices /\ refused' = refused
    BY <1>2 DEF BeginFlush
  <2>. QED BY <1>t, <2>1 DEF Accepted, Kept
<1>3. CASE ClearBuffers
  <2>1. flush.pc = "copied" /\ flush'.pc = "devices" /\ flush'.devices = flush.devices
        /\ refused' = refused
    BY <1>3 DEF ClearBuffers, TypeOK, FlushType
  <2>2. Known(memDevices) \subseteq Known(flush.devices)
    BY <2>1 DEF Batch
  <2>. QED BY <1>t, <2>1, <2>2 DEF Accepted, Kept
<1>4. ASSUME NEW d \in Devices, FlushDevice(d) PROVE Accepted \subseteq Accepted'
  <2>1. flush'.pc = flush.pc /\ flush'.devices = flush.devices
    BY <1>4 DEF FlushDevice, TypeOK, FlushType
  <2>. QED BY <1>4, <1>q, <2>1 DEF FlushDevice
<1>5. CASE DevicesFail
  <2>1. memDevices' = RestoredDevices /\ refused' = refused
    BY <1>5 DEF DevicesFail
  <2>2. Known(memDevices) \cup Known(flush.devices) \subseteq Known(memDevices')
    BY <2>1 DEF RestoredDevices, Known
  <2>. QED BY <1>t, <2>1, <2>2 DEF Accepted, Kept
<1>6. CASE DevicesDone
  <2>1. flush.pc = "devices" /\ flush.left = {} /\ memDevices' = memDevices /\ refused' = refused
    BY <1>6 DEF DevicesDone
  <2>2. Known(flush.devices) \subseteq Known(table)
    BY <2>1 DEF Batch, Flushing
  <2>. QED BY <1>t, <2>1, <2>2 DEF Accepted, Kept
<1>7. CASE FlushEvent \/ EventsFail \/ EventsDone \/ EndFlush
  <2>1. /\ flush.pc \notin {"copied", "devices"}
        /\ memDevices' = memDevices /\ refused' = refused
    BY <1>7 DEF FlushEvent, EventsFail, EventsDone, EndFlush, ToSend
  <2>. QED BY <1>t, <2>1 DEF Accepted, Kept
<1>8. CASE memDevices' = memDevices /\ refused \subseteq refused' /\ flush' = flush
  BY <1>8, <1>q
<1>. QED
  BY <1>1, <1>2, <1>3, <1>4, <1>5, <1>6, <1>7, <1>8
     DEF Next, Route, Flush, Receive, Check, RegisterInTable, RegistrationRefused,
         AddEventInMemory, AddEventInTable, EventRefused, FallBack, SkipFlush, Lose,
         Reconnect, vars

(* A registration ends with its device kept or refused, and listed.        *)
LEMMA RegistrationLists ==
    ASSUME TypeOK, RegisterInMemory \/ RegisterInTable \/ RegistrationRefused
    PROVE  /\ device \in Accepted' /\ registry'[device] # None
           /\ Known(registry') = Known(registry) \cup {device}
           /\ at' = "event"
<1>1. device \in Devices
  BY Handled DEF RegisterInMemory, RegisterInTable, RegistrationRefused
<1>2. PICK isNew : List(isNew)
  BY DEF RegisterInMemory, RegisterInTable, RegistrationRefused
<1>3. registry'[device] # None /\ Known(registry') = Known(registry) \cup {device} /\ at' = "event"
  BY <1>1, <1>2, RegistryAssumption DEF List, TypeOK, Counts, Known
<1>4. device \in Accepted'
  <2>1. CASE RegisterInMemory
    <3>1. memDevices' = Counted(memDevices, device) /\ memDevices \in Counts
      BY <2>1 DEF RegisterInMemory, TypeOK
    <3>2. device \in Known(memDevices')
      BY <1>1, <3>1, CountedKnown
    <3>. QED BY <3>2 DEF Accepted, Kept
  <2>2. CASE RegisterInTable
    <3>1. table' = Counted(table, device) /\ table \in Counts
      BY <2>2 DEF RegisterInTable, TypeOK
    <3>2. device \in Known(table')
      BY <1>1, <3>1, CountedKnown
    <3>. QED BY <3>2 DEF Accepted, Kept
  <2>3. CASE RegistrationRefused
    BY <2>3 DEF RegistrationRefused, Accepted
  <2>. QED BY <2>1, <2>2, <2>3
<1>. QED BY <1>3, <1>4

KnownInv == DevicesKnown /\ Listed

LEMMA InitKnown == Init => KnownInv
<1>. SUFFICES ASSUME Init PROVE KnownInv
  OBVIOUS
<1>1. Known(registry) = {} /\ memEvents = <<>> /\ flush.events = <<>> /\ at = "idle"
  BY DEF Init, NoFlush, NoCounts, Known
<1>2. Elements(memEvents) = {} /\ Elements(flush.events) = {}
  BY <1>1, ElementsFacts
<1>. QED BY <1>1, <1>2 DEF KnownInv, DevicesKnown, Listed, Linking

LEMMA NextKnown == TypeOK /\ Batch /\ KnownInv /\ [Next]_vars => KnownInv'
<1>. SUFFICES ASSUME TypeOK, Batch, KnownInv, [Next]_vars PROVE KnownInv'
  OBVIOUS
<1>. USE DEF tables, buffers, request, history
<1>m. /\ memEvents \in Seq(Received) /\ flush.events \in Seq(Received)
      /\ Elements(memEvents) \subseteq Received /\ Elements(flush.events) \subseteq Received
  BY BatchEvents DEF TypeOK, FlushType
<1>k. /\ Known(registry) \subseteq Accepted
      /\ \A e \in Elements(memEvents) \cup Elements(flush.events) : sender[e] \in Accepted
      /\ Listed
  BY DEF KnownInv, DevicesKnown, Accepted
<1>d. ASSUME ~Restart, Known(registry') \subseteq Known(registry) \cup Accepted',
             Elements(memEvents') \cup Elements(flush'.events)
               \subseteq Elements(memEvents) \cup Elements(flush.events),
             \A e \in Received : sender'[e] = sender[e]
      PROVE  DevicesKnown'
  <2>1. Accepted \subseteq Accepted'
    BY <1>d, AcceptedStays
  <2>. QED BY <1>d, <1>k, <1>m, <2>1 DEF DevicesKnown, Accepted
<1>q. ASSUME ~Restart, UNCHANGED <<registry, sender, at>>,
             Elements(memEvents') \cup Elements(flush'.events)
               \subseteq Elements(memEvents) \cup Elements(flush.events)
      PROVE  KnownInv'
  <2>1. Listed'
    BY <1>q, <1>k DEF Listed, device, event
  <2>. QED BY <1>q, <1>d, <2>1 DEF KnownInv
<1>1. ASSUME NEW d \in Devices, NEW k \in Kinds, Receive(d, k) PROVE KnownInv'
  <2>1. /\ sender' = Append(sender, d)
        /\ UNCHANGED <<registry, memEvents, flush, memDevices, table, refused>>
        /\ at' = IF k = "heartbeat" /\ registry[d] # None THEN "event" ELSE "device"
    BY <1>1 DEF Receive
  <2>2. /\ Len(sender) \in Nat /\ Len(sender') = Len(sender) + 1
        /\ \A e \in Received : sender'[e] = sender[e]
        /\ sender'[Len(sender')] = d
    BY <2>1 DEF TypeOK, Received
  <2>3. Listed'
    BY <2>1, <2>2 DEF Listed, Linking, device, event
  <2>4. Accepted' = Accepted
    BY <2>1 DEF Accepted, Kept
  <2>5. DevicesKnown'
    BY <1>k, <1>m, <2>1, <2>2, <2>4 DEF DevicesKnown, Accepted
  <2>. QED BY <2>3, <2>5 DEF KnownInv
<1>2. CASE Check
  <2>1. /\ UNCHANGED <<registry, sender, memEvents, flush, memDevices, table, refused>>
        /\ at' \in Linking => at \in Linking
    BY <1>2 DEF Check, Linking
  <2>2. Listed'
    BY <1>k, <2>1 DEF Listed, device, event
  <2>3. DevicesKnown'
    BY <1>k, <2>1 DEF DevicesKnown, Accepted, Kept
  <2>. QED BY <2>2, <2>3 DEF KnownInv
<1>3. CASE RegisterInMemory \/ RegisterInTable \/ RegistrationRefused
  <2>1. UNCHANGED <<sender, memEvents, flush>>
    BY <1>3 DEF RegisterInMemory, RegisterInTable, RegistrationRefused
  <2>2. Listed'
    BY <1>3, <2>1, RegistrationLists DEF Listed, device, event
  <2>3. ~Restart
    BY <1>3, RegistrationLists DEF Restart
  <2>4. DevicesKnown'
    BY <1>3, <1>d, <2>1, <2>3, RegistrationLists
  <2>. QED BY <2>2, <2>4 DEF KnownInv
<1>4. CASE AddEventInMemory \/ FallBack
  <2>1. event \in Received /\ device \in Devices /\ at \in Linking /\ at' = "idle"
        /\ memEvents' = Append(memEvents, event)
        /\ UNCHANGED <<registry, sender, flush, memDevices, table, refused>>
    BY <1>4, Handled DEF AddEventInMemory, FallBack, Linking
  <2>2. Elements(Append(memEvents, event)) = Elements(memEvents) \cup {event}
    BY <1>m, <2>1, ElementsAppend
  <2>3. device \in Accepted
    BY <1>k, <2>1 DEF Listed, Known
  <2>4. sender[event] \in Accepted
    BY <2>3 DEF device
  <2>5. Accepted' = Accepted
    BY <2>1 DEF Accepted, Kept
  <2>6. DevicesKnown'
    BY <1>k, <2>1, <2>2, <2>4, <2>5 DEF DevicesKnown, Accepted
  <2>. QED BY <2>1, <2>6 DEF KnownInv, Listed, Linking
<1>5. CASE AddEventInTable \/ EventRefused
  <2>1. /\ UNCHANGED <<registry, sender, memEvents, flush, memDevices, table, refused>>
        /\ at' \in Linking => at \in Linking
    BY <1>5 DEF AddEventInTable, EventRefused, Linking
  <2>2. Listed'
    BY <1>k, <2>1 DEF Listed, device, event
  <2>3. DevicesKnown'
    BY <1>k, <2>1 DEF DevicesKnown, Accepted, Kept
  <2>. QED BY <2>2, <2>3 DEF KnownInv
<1>6. CASE Restart
  <2>1. at' = "idle" /\ memEvents' = <<>> /\ flush'.events = <<>> /\ table' = table
    BY <1>6 DEF Restart, NoFlush
  <2>2. registry' = NoCounts \/ registry' = table
    BY <1>6 DEF Restart
  <2>3. Known(registry') \subseteq Known(table')
    BY <2>1, <2>2 DEF Known, NoCounts
  <2>4. Elements(memEvents') = {} /\ Elements(flush'.events) = {}
    BY <2>1, ElementsFacts
  <2>. QED BY <2>1, <2>3, <2>4 DEF KnownInv, DevicesKnown, Listed, Linking, Kept
<1>7. CASE BeginFlush
  <2>1. flush'.events = memEvents /\ UNCHANGED <<registry, sender, at, memEvents>>
    BY <1>7 DEF BeginFlush
  <2>. QED BY <1>6, <1>q, <2>1
<1>8. CASE ClearBuffers
  <2>1. flush'.events = flush.events /\ memEvents' = <<>> /\ UNCHANGED <<registry, sender, at>>
    BY <1>8 DEF ClearBuffers, TypeOK, FlushType
  <2>2. Elements(memEvents') = {}
    BY <2>1, ElementsFacts
  <2>. QED BY <1>6, <1>q, <2>1, <2>2
<1>9. ASSUME NEW d \in Devices, FlushDevice(d) PROVE KnownInv'
  <2>1. flush'.events = flush.events /\ UNCHANGED <<registry, sender, at, memEvents>>
    BY <1>9 DEF FlushDevice, TypeOK, FlushType
  <2>. QED BY <1>6, <1>q, <2>1
<1>10. CASE DevicesFail \/ DevicesDone \/ FlushEvent
  <2>1. flush'.events = flush.events /\ UNCHANGED <<registry, sender, at, memEvents>>
    BY <1>10 DEF DevicesFail, DevicesDone, FlushEvent, TypeOK, FlushType
  <2>. QED BY <1>6, <1>q, <2>1
<1>11. CASE EventsFail
  <2>1. memEvents' = memEvents \o flush.events /\ flush'.events = <<>>
        /\ UNCHANGED <<registry, sender, at>>
    BY <1>11 DEF EventsFail, RestoreEvents, NoFlush
  <2>2. Elements(memEvents \o flush.events) = Elements(memEvents) \cup Elements(flush.events)
    BY <1>m, ElementsConcat
  <2>. QED BY <1>6, <1>q, <2>1, <2>2, ElementsFacts
<1>12. CASE EventsDone \/ EndFlush
  <2>1. flush'.events = <<>> /\ UNCHANGED <<registry, sender, at, memEvents>>
    BY <1>12 DEF EventsDone, EndFlush, NoFlush
  <2>. QED BY <1>6, <1>q, <2>1, ElementsFacts
<1>13. CASE Lose \/ Reconnect \/ SkipFlush
  BY <1>6, <1>13, <1>q DEF Lose, Reconnect, SkipFlush
<1>14. CASE UNCHANGED vars
  BY <1>6, <1>14, <1>q DEF vars
<1>. QED
  BY <1>1, <1>2, <1>3, <1>4, <1>5, <1>6, <1>7, <1>8, <1>9, <1>10, <1>11, <1>12, <1>13, <1>14
     DEF Next, Route, Flush

(* Together with the route's order: it lists a device before its event.    *)
THEOREM KnownHolds == Spec => []KnownInv
<1>. QED BY InitKnown, NextKnown, TypeCorrect, BatchHolds, PTL DEF Spec

(* A listed device, and the device of every event that is buffered, is in  *)
(* the table or goes there before the event, or was refused.               *)
THEOREM EveryRecordHasItsDevice == Spec => []DevicesKnown
<1>1. KnownInv => DevicesKnown
  BY DEF KnownInv
<1>. QED BY <1>1, KnownHolds, PTL

(***************************************************************************)
(* No count is invented.                                                   *)
(***************************************************************************)
From(s, d) == {e \in DOMAIN s : s[e] = d}
Limit(d) == Messages(d) - Uncounted(d)

(* One more message of a device counts once, for that device.              *)
LEMMA FromAppend ==
    ASSUME NEW s \in Seq(Devices), NEW d \in Devices, NEW x \in Devices
    PROVE  /\ Cardinality(From(s, x)) \in Nat
           /\ Cardinality(From(Append(s, d), x))
                = Cardinality(From(s, x)) + (IF x = d THEN 1 ELSE 0)
<1>. DEFINE t == Append(s, d)
<1>1. /\ Len(s) \in Nat /\ DOMAIN s = 1 .. Len(s) /\ DOMAIN t = 1 .. Len(s) + 1
      /\ \A e \in DOMAIN s : t[e] = s[e]
      /\ t[Len(s) + 1] = d
  OBVIOUS
<1>. HIDE DEF t
<1>2. IsFiniteSet(From(s, x)) /\ Cardinality(From(s, x)) \in Nat
  <2>1. From(s, x) \subseteq 1 .. Len(s) /\ IsFiniteSet(1 .. Len(s))
    BY <1>1, FS_Interval DEF From
  <2>. QED BY <2>1, FS_Subset, FS_CardinalityType
<1>3. \A e : e \in DOMAIN t <=> e \in DOMAIN s \/ e = Len(s) + 1
  BY <1>1
<1>4. CASE x = d
  <2>1. From(t, x) = From(s, x) \cup {Len(s) + 1} /\ Len(s) + 1 \notin From(s, x)
    BY <1>1, <1>3, <1>4 DEF From
  <2>2. Cardinality(From(s, x) \cup {Len(s) + 1}) = Cardinality(From(s, x)) + 1
    BY <1>2, <2>1, FS_AddElement
  <2>. QED BY <1>2, <1>4, <2>1, <2>2 DEF t
<1>5. CASE x # d
  <2>1. From(t, x) = From(s, x)
    BY <1>1, <1>3, <1>5 DEF From
  <2>. QED BY <1>2, <1>5, <2>1 DEF t
<1>. QED BY <1>4, <1>5

(* A device has as many messages as it sent, at least the one handled.     *)
LEMMA MessagesCount ==
    ASSUME TypeOK, NEW d \in Devices
    PROVE  Messages(d) \in Nat /\ Limit(d) \in Nat
<1>1. Messages(d) = Cardinality(From(sender, d)) /\ sender \in Seq(Devices)
  BY DEF Messages, From, TypeOK
<1>2. Messages(d) \in Nat
  BY <1>1, FromAppend
<1>3. ASSUME Uncounted(d) = 1 PROVE Messages(d) # 0
  <2>0. Registering(d)
    BY <1>3 DEF Uncounted
  <2>1. at # "idle" /\ d = device
    BY <2>0 DEF Registering
  <2>2. event \in DOMAIN sender
    BY <1>1, <2>1, Handled DEF Received
  <2>3. event \in From(sender, d)
    BY <2>1, <2>2 DEF From, device
  <2>4. IsFiniteSet(From(sender, d))
    <3>1. From(sender, d) \subseteq 1 .. Len(sender) /\ IsFiniteSet(1 .. Len(sender))
      BY <1>1, FS_Interval DEF From
    <3>. QED BY <3>1, FS_Subset
  <2>. QED BY <1>1, <2>3, <2>4, FS_EmptySet
<1>4. Uncounted(d) \in {0, 1}
  BY DEF Uncounted
<1>. QED BY <1>2, <1>3, <1>4 DEF Limit

LEMMA LimitType == TypeOK => \A d \in Devices : Messages(d) \in Nat /\ Limit(d) \in Nat
BY MessagesCount

LEMMA LimitTypeNext == TypeOK' => (\A d \in Devices : Messages(d) \in Nat /\ Limit(d) \in Nat)'
BY LimitType, PTL

(* Limits only grow, with the message that a registration counts.          *)
LEMMA LimitStep ==
    ASSUME TypeOK, TypeOK', [Next]_vars, NEW d \in Devices
    PROVE  /\ Limit(d) \in Nat /\ Limit(d)' \in Nat /\ Limit(d)' >= Limit(d)
           /\ (RegisterInMemory \/ RegisterInTable \/ RegistrationRefused) /\ d = device
                => Limit(d)' = Limit(d) + 1
<1>. USE DEF tables, buffers, request, history
<1>1. /\ Messages(d) \in Nat /\ Limit(d) \in Nat /\ Messages(d)' \in Nat /\ Limit(d)' \in Nat
      /\ Uncounted(d) \in {0, 1} /\ Uncounted(d)' \in {0, 1}
  <2>1. Messages(d) \in Nat /\ Limit(d) \in Nat
    BY MessagesCount
  <2>2. (Messages(d) \in Nat /\ Limit(d) \in Nat)'
    BY LimitTypeNext
  <2>3. Uncounted(d) \in {0, 1} /\ Uncounted(d)' \in {0, 1}
    BY DEF Uncounted
  <2>. QED BY <2>1, <2>2, <2>3
<1>2. ASSUME NEW x \in Devices, NEW k \in Kinds, Receive(x, k) PROVE Limit(d)' >= Limit(d)
  <2>1. /\ sender' = Append(sender, x) /\ at = "idle" /\ sender \in Seq(Devices)
        /\ at' \in {"device", "event"}
    BY <1>2 DEF Receive, TypeOK
  <2>2. Messages(d) = Cardinality(From(sender, d)) /\ Messages(d)' = Cardinality(From(sender', d))
    BY DEF Messages, From
  <2>3. Messages(d)' = Messages(d) + (IF d = x THEN 1 ELSE 0)
    BY <2>1, <2>2, FromAppend
  <2>4. device' = x
    <3>1. Len(sender') = Len(sender) + 1 /\ sender'[Len(sender) + 1] = x
      BY <2>1
    <3>. QED BY <3>1 DEF device, event
  <2>5. ~Registering(d) /\ (Registering(d)' => d = x)
    BY <2>1, <2>4 DEF Registering
  <2>6. Uncounted(d) = 0 /\ (d # x => Uncounted(d)' = 0)
    BY <2>5 DEF Uncounted
  <2>. QED BY <1>1, <2>3, <2>6 DEF Limit
<1>3. ASSUME sender' = sender,
             at' = at \/ at' \in {"idle", "event fallback"} \/ Check
      PROVE  Limit(d)' >= Limit(d)
  <2>1. Messages(d)' = Messages(d) /\ (Registering(d)' => Registering(d))
    BY <1>3 DEF Messages, Registering, device, event, Check
  <2>2. Uncounted(d)' <= Uncounted(d)
    BY <2>1 DEF Uncounted
  <2>. QED BY <1>1, <2>1, <2>2 DEF Limit
<1>4. ASSUME RegisterInMemory \/ RegisterInTable \/ RegistrationRefused
      PROVE  Limit(d)' = Limit(d) + (IF d = device THEN 1 ELSE 0)
  <2>1. sender' = sender /\ at \in {"device memory", "device table"} /\ at' = "event"
    BY <1>4, RegistrationLists DEF RegisterInMemory, RegisterInTable, RegistrationRefused
  <2>2. /\ Messages(d)' = Messages(d)
        /\ Uncounted(d)' = 0 /\ Uncounted(d) = IF d = device THEN 1 ELSE 0
    BY <2>1 DEF Messages, Uncounted, Registering
  <2>. QED BY <1>1, <2>2 DEF Limit
<1>5. CASE Check \/ AddEventInMemory \/ AddEventInTable \/ EventRefused \/ FallBack \/ Restart
  BY <1>1, <1>3, <1>4, <1>5 DEF Check, AddEventInMemory, AddEventInTable, EventRefused, FallBack, Restart
<1>6. CASE Flush \/ Lose \/ Reconnect \/ UNCHANGED vars
  <2>1. sender' = sender /\ at' = at
    BY <1>6 DEF Flush, BeginFlush, SkipFlush, ClearBuffers, FlushDevice, DevicesFail,
                DevicesDone, FlushEvent, EventsFail, EventsDone, EndFlush, Lose, Reconnect, vars
  <2>. QED BY <1>1, <1>3, <1>4, <2>1
<1>. QED BY <1>1, <1>2, <1>4, <1>5, <1>6 DEF Next, Route

Below(counts, d, n) == counts[d] # None => counts[d] < n
AllBelow ==
    \A d \in Devices :
       /\ Below(table, d, Limit(d)) /\ Below(memDevices, d, Limit(d))
       /\ Below(flush.devices, d, Limit(d))
       /\ registry[d] # None => registry[d] <= Limit(d)

(* Counting a message, and merging two counts, stays below the limit.      *)
LEMMA CountedBelow ==
    ASSUME NEW counts \in Counts, NEW x \in Devices, NEW d \in Devices,
           NEW m \in Nat, NEW n \in Nat, Below(counts, d, m), n >= m,
           d = x => n = m + 1
    PROVE  Below(Counted(counts, x), d, n)
<1>1. counts[d] \in Nat \/ counts[d] = None
  BY DEF Counts
<1>. QED BY <1>1, RegistryAssumption DEF Below, Counted, Counts

LEMMA MergedBelow ==
    ASSUME NEW counts \in Counts, NEW x \in Devices, NEW d \in Devices, NEW k \in Nat,
           NEW n \in Nat, Below(counts, d, n), d = x => k < n
    PROVE  Below(Merged(counts, x, k), d, n)
<1>1. counts[d] \in Nat \/ counts[d] = None
  BY DEF Counts
<1>. QED BY <1>1, RegistryAssumption DEF Below, Merged, Counts

LEMMA Raised ==
    ASSUME NEW counts \in Counts, NEW d \in Devices, NEW m \in Nat, NEW n \in Nat,
           n >= m, Below(counts, d, m)
    PROVE  Below(counts, d, n)
<1>1. counts[d] \in Nat \/ counts[d] = None
  BY DEF Counts
<1>. QED BY <1>1 DEF Below

LEMMA NextBelow == TypeOK /\ TypeOK' /\ AllBelow /\ [Next]_vars => AllBelow'
<1>. SUFFICES ASSUME TypeOK, TypeOK', AllBelow, [Next]_vars PROVE AllBelow'
  OBVIOUS
<1>. USE DEF tables, buffers, request, history
<1>a. /\ table \in Counts /\ memDevices \in Counts /\ registry \in Counts
      /\ flush.devices \in Counts
  BY DEF TypeOK, FlushType
<1>m. \A d \in Devices : Limit(d) \in Nat /\ Limit(d)' \in Nat /\ Limit(d)' >= Limit(d)
  BY LimitStep
<1>b. \A d \in Devices :
        /\ Below(table, d, Limit(d)') /\ Below(memDevices, d, Limit(d)')
        /\ Below(flush.devices, d, Limit(d)')
        /\ registry[d] # None => registry[d] <= Limit(d)'
  <2>. SUFFICES ASSUME NEW d \in Devices
                PROVE  /\ Below(table, d, Limit(d)') /\ Below(memDevices, d, Limit(d)')
                       /\ Below(flush.devices, d, Limit(d)')
                       /\ registry[d] # None => registry[d] <= Limit(d)'
    OBVIOUS
  <2>. DEFINE m == Limit(d)
              n == Limit(d)'
  <2>1. m \in Nat /\ n \in Nat /\ n >= m
    BY <1>m
  <2>2. /\ Below(table, d, m) /\ Below(memDevices, d, m) /\ Below(flush.devices, d, m)
        /\ registry[d] # None => registry[d] <= m
    BY DEF AllBelow
  <2>. HIDE DEF m, n
  <2>3. /\ Below(table, d, n) /\ Below(memDevices, d, n) /\ Below(flush.devices, d, n)
    BY <1>a, <2>1, <2>2, Raised
  <2>4. registry[d] \in Nat \/ registry[d] = None
    BY <1>a DEF Counts
  <2>5. registry[d] # None => registry[d] <= n
    BY <2>1, <2>2, <2>4
  <2>. QED BY <2>3, <2>5 DEF n
<1>n. \A d \in Devices, n \in Nat : Below(NoCounts, d, n)
  BY DEF Below, NoCounts
<1>1. CASE RegisterInMemory \/ RegisterInTable \/ RegistrationRefused
  <2>. SUFFICES ASSUME NEW d \in Devices
                PROVE  /\ Below(table', d, Limit(d)') /\ Below(memDevices', d, Limit(d)')
                       /\ Below(flush'.devices, d, Limit(d)')
                       /\ registry'[d] # None => registry'[d] <= Limit(d)'
    BY DEF AllBelow, Below
  <2>. DEFINE m == Limit(d)
              n == Limit(d)'
  <2>1. m \in Nat /\ n \in Nat /\ n >= m /\ (d = device => n = m + 1)
    BY <1>1, <1>m, LimitStep
  <2>2. /\ Below(table, d, m) /\ Below(memDevices, d, m) /\ Below(flush.devices, d, n)
        /\ registry[d] # None => registry[d] <= m
        /\ Below(table, d, n) /\ Below(memDevices, d, n)
    BY <1>b DEF AllBelow
  <2>. HIDE DEF m, n
  <2>3. device \in Devices
    BY <1>1, Handled DEF RegisterInMemory, RegisterInTable, RegistrationRefused
  <2>4. /\ Below(Counted(table, device), d, n) /\ Below(Counted(memDevices, device), d, n)
    BY <1>a, <2>1, <2>2, <2>3, CountedBelow
  <2>5. /\ flush' = flush /\ table' \in {table, Counted(table, device)}
        /\ memDevices' \in {memDevices, Counted(memDevices, device)}
        /\ \E isNew : List(isNew)
    BY <1>1 DEF RegisterInMemory, RegisterInTable, RegistrationRefused
  <2>6. registry'[d] # None => registry'[d] <= n
    <3>1. PICK isNew : List(isNew)
      BY <2>5
    <3>2. CASE d # device
      <4>1. registry'[d] = registry[d]
        BY <1>a, <3>1, <3>2 DEF List, Counts
      <4>2. registry[d] \in Nat \/ registry[d] = None
        BY <1>a DEF Counts
      <4>. QED BY <2>1, <2>2, <4>1, <4>2
    <3>3. CASE d = device
      <4>1. registry[d] \in Nat \/ registry[d] = None
        BY <1>a DEF Counts
      <4>2. registry'[d] \in {0, 1} \/ registry'[d] = registry[d] \/
              (registry[d] # None /\ registry'[d] = registry[d] + 1)
        BY <1>a, <2>3, <3>1, <3>3 DEF List, Counts
      <4>. QED BY <2>1, <2>2, <3>3, <4>1, <4>2
    <3>. QED BY <3>2, <3>3
  <2>. QED BY <2>2, <2>4, <2>5, <2>6 DEF n
<1>q. ASSUME table' = table \/ \E d \in flush.left : table' = Merged(table, d, flush.devices[d]),
             memDevices' \in {memDevices, NoCounts, RestoredDevices},
             flush'.devices \in {flush.devices, memDevices, NoCounts},
             registry' \in {registry, NoCounts, table}
      PROVE  AllBelow'
  <2>. SUFFICES ASSUME NEW d \in Devices
                PROVE  /\ Below(table', d, Limit(d)') /\ Below(memDevices', d, Limit(d)')
                       /\ Below(flush'.devices, d, Limit(d)')
                       /\ registry'[d] # None => registry'[d] <= Limit(d)'
    BY DEF AllBelow, Below
  <2>. DEFINE n == Limit(d)'
  <2>1. /\ n \in Nat /\ Below(table, d, n) /\ Below(memDevices, d, n)
        /\ Below(flush.devices, d, n) /\ Below(NoCounts, d, n)
        /\ registry[d] # None => registry[d] <= n
    BY <1>b, <1>m, <1>n
  <2>. HIDE DEF n
  <2>2. Below(table', d, n)
    <3>1. ASSUME NEW x \in flush.left PROVE Below(Merged(table, x, flush.devices[x]), d, n)
      <4>1. x \in Devices /\ flush.devices[x] \in Nat
        BY <3>1, LeftCount
      <4>2. d = x => flush.devices[x] < n
        BY <2>1, <4>1, RegistryAssumption DEF Below
      <4>. DEFINE k == flush.devices[x]
      <4>3. k \in Nat /\ (d = x => k < n)
        BY <4>1, <4>2
      <4>. HIDE DEF k
      <4>4. Below(Merged(table, x, k), d, n)
        BY <1>a, <2>1, <4>1, <4>3, MergedBelow
      <4>. QED BY <4>4 DEF k
    <3>. QED BY <1>q, <2>1, <3>1
  <2>3. Below(RestoredDevices, d, n)
    BY <2>1 DEF RestoredDevices, Below
  <2>4. registry'[d] # None => registry'[d] <= n
    <3>1. table[d] \in Nat \/ table[d] = None
      BY <1>a DEF Counts
    <3>2. table[d] # None => table[d] <= n
      BY <2>1, <3>1 DEF Below
    <3>. QED BY <1>q, <2>1, <3>2 DEF NoCounts
  <2>. QED BY <1>q, <2>1, <2>2, <2>3, <2>4 DEF n
<1>2. CASE Flush
  <2>1. ASSUME NEW d \in Devices, FlushDevice(d) PROVE AllBelow'
    <3>1. flush'.devices = flush.devices
      BY <2>1 DEF FlushDevice, TypeOK, FlushType
    <3>. QED BY <1>q, <2>1, <3>1 DEF FlushDevice
  <2>2. CASE DevicesFail
    <3>1. flush'.devices = flush.devices
      BY <2>2 DEF DevicesFail, TypeOK, FlushType
    <3>2. /\ table' = table \/ \E d \in flush.left : table' = Merged(table, d, flush.devices[d])
          /\ memDevices' = RestoredDevices /\ registry' = registry
      BY <2>2 DEF DevicesFail
    <3>. QED BY <1>q, <3>1, <3>2
  <2>3. CASE ClearBuffers \/ DevicesDone \/ FlushEvent
    <3>1. flush'.devices = flush.devices
      BY <2>3 DEF ClearBuffers, DevicesDone, FlushEvent, TypeOK, FlushType
    <3>. QED BY <1>q, <2>3, <3>1 DEF ClearBuffers, DevicesDone, FlushEvent
  <2>4. CASE BeginFlush
    <3>1. flush'.devices = memDevices
      BY <2>4 DEF BeginFlush
    <3>. QED BY <1>q, <2>4, <3>1 DEF BeginFlush
  <2>5. CASE EventsFail \/ EventsDone \/ EndFlush
    <3>1. flush'.devices = NoCounts
      BY <2>5 DEF EventsFail, EventsDone, EndFlush, NoFlush
    <3>. QED BY <1>q, <2>5, <3>1 DEF EventsFail, EventsDone, EndFlush
  <2>6. CASE SkipFlush
    BY <1>q, <2>6 DEF SkipFlush
  <2>. QED BY <1>2, <2>1, <2>2, <2>3, <2>4, <2>5, <2>6 DEF Flush
<1>3. CASE Restart
  <2>1. flush'.devices = NoCounts
    BY <1>3 DEF Restart, NoFlush
  <2>2. registry' \in {registry, NoCounts, table} /\ memDevices' = NoCounts /\ table' = table
    BY <1>3 DEF Restart
  <2>. QED BY <1>q, <2>1, <2>2
<1>4. CASE UNCHANGED <<table, memDevices, flush, registry>>
  BY <1>4, <1>q
<1>. QED
  BY <1>1, <1>2, <1>3, <1>4
     DEF Next, Route, Receive, Check, AddEventInMemory, AddEventInTable, EventRefused, FallBack,
         Lose, Reconnect, vars

LEMMA InitBelow == Init => AllBelow
<1>1. Init => /\ table = NoCounts /\ memDevices = NoCounts /\ registry = NoCounts
              /\ flush.devices = NoCounts
  BY DEF Init, NoFlush
<1>. QED BY <1>1 DEF AllBelow, Below, NoCounts

LEMMA BelowJustified == TypeOK /\ AllBelow => CountsJustified
<1>. SUFFICES ASSUME TypeOK, AllBelow, NEW d \in Devices
              PROVE  /\ \A counts \in {table, memDevices, flush.devices} :
                           counts[d] # None => counts[d] < Messages(d)
                     /\ registry[d] # None => registry[d] <= Messages(d)
  BY DEF CountsJustified
<1>1. /\ table[d] \in Nat \cup {None} /\ memDevices[d] \in Nat \cup {None}
      /\ flush.devices[d] \in Nat \cup {None} /\ registry[d] \in Nat \cup {None}
  BY DEF TypeOK, FlushType, Counts
<1>2. Messages(d) \in Nat /\ Limit(d) \in Nat /\ Limit(d) <= Messages(d)
  <2>1. Uncounted(d) \in {0, 1}
    BY DEF Uncounted
  <2>. QED BY <2>1, MessagesCount DEF Limit
<1>3. /\ table[d] # None => table[d] < Limit(d)
      /\ memDevices[d] # None => memDevices[d] < Limit(d)
      /\ flush.devices[d] # None => flush.devices[d] < Limit(d)
      /\ registry[d] # None => registry[d] <= Limit(d)
  BY DEF AllBelow, Below
<1>. QED BY <1>1, <1>2, <1>3

(* The counts stay below the messages, the one being registered excluded.  *)
THEOREM BelowHolds == Spec => []AllBelow
<1>. QED BY InitBelow, NextBelow, TypeCorrect, PTL DEF Spec

(* No count is ever more than the messages the device has sent, however    *)
(* often the batches that hold it are put back and written again.          *)
THEOREM CountsAreJustified == Spec => []CountsJustified
<1>. QED BY BelowHolds, BelowJustified, TypeCorrect, PTL

(***************************************************************************)
(* While nothing fails and no id is too long, an event is stored once.     *)
(***************************************************************************)
LEMMA CleanBefore ==
    ASSUME TypeOK, [Next]_vars, Clean'
    PROVE  Clean /\ faults' = 0
<1>. USE DEF tables, buffers, request, history
<1>1. faults \in Nat /\ (faults' = faults \/ faults' = faults + 1)
  BY DEF Next, Route, Flush, Receive, Check, RegisterInMemory, RegisterInTable,
         RegistrationRefused, AddEventInMemory, AddEventInTable, EventRefused, FallBack,
         BeginFlush, SkipFlush, ClearBuffers, FlushDevice, DevicesFail, DevicesDone,
         FlushEvent, EventsFail, EventsDone, EndFlush, Lose, Reconnect, Restart, Fails, vars,
         TypeOK
<1>2. sender' = sender \/ \E d \in Devices : sender' = Append(sender, d)
  BY DEF Next, Route, Flush, Receive, Check, RegisterInMemory, RegisterInTable,
         RegistrationRefused, AddEventInMemory, AddEventInTable, EventRefused, FallBack,
         BeginFlush, SkipFlush, ClearBuffers, FlushDevice, DevicesFail, DevicesDone,
         FlushEvent, EventsFail, EventsDone, EndFlush, Lose, Reconnect, Restart, vars
<1>3. Elements(sender) \subseteq Elements(sender')
  <2>1. ASSUME NEW d \in Devices, sender' = Append(sender, d)
        PROVE  Elements(sender) \subseteq Elements(sender')
    <3>1. sender \in Seq(Devices)
      BY DEF TypeOK
    <3>2. Elements(Append(sender, d)) = Elements(sender) \cup {d}
      BY <3>1, ElementsAppend
    <3>. QED BY <2>1, <3>2
  <2>2. sender' = sender => Elements(sender) \subseteq Elements(sender')
    OBVIOUS
  <2>. QED BY <1>2, <2>1, <2>2
<1>. QED BY <1>1, <1>3 DEF Clean

(* No id that is too long waits to be written.                             *)
LEMMA LeftFits ==
    ASSUME TypeOK, AllBelow, Clean
    PROVE  flush.left \cap LongIds = {}
<1>. SUFFICES ASSUME NEW d \in flush.left PROVE d \in Elements(sender)
  BY DEF Clean
<1>1. d \in Devices /\ flush.devices[d] \in Nat
  BY LeftCount
<1>2. flush.devices[d] < Limit(d) /\ Limit(d) \in Nat /\ Messages(d) \in Nat
  BY <1>1, MessagesCount, RegistryAssumption DEF AllBelow, Below
<1>3. Limit(d) <= Messages(d)
  <2>1. Uncounted(d) \in {0, 1}
    BY DEF Uncounted
  <2>. QED BY <1>2, <2>1 DEF Limit
<1>4. Messages(d) # 0
  BY <1>1, <1>2, <1>3
<1>5. PICK e \in DOMAIN sender : sender[e] = d
  <2>1. From(sender, d) # {}
    BY <1>4, FS_EmptySet DEF Messages, From
  <2>. QED BY <2>1 DEF From
<1>. QED BY <1>5 DEF Elements

(* What cannot happen while nothing fails: the database does not go away,  *)
(* it refuses no registration, and the batch goes through.                 *)
LEMMA CleanSteps ==
    ASSUME TypeOK, AllBelow, Clean, Reachable, faults' = 0
    PROVE  /\ ~Lose /\ ~Restart /\ ~RegistrationRefused /\ ~DevicesFail /\ ~EventsFail
           /\ EventRefused => UNCHANGED eventRows
<1>1. ~Fails
  BY DEF Fails, TypeOK
<1>2. ~RegistrationRefused
  <2>. SUFFICES ASSUME RegistrationRefused PROVE FALSE
    OBVIOUS
  <2>1. ~useMemory /\ at # "idle"
    BY DEF RegistrationRefused, Reachable
  <2>2. device \notin LongIds
    <3>1. event \in DOMAIN sender
      BY <2>1, Handled DEF Received, TypeOK
    <3>2. device \in Elements(sender)
      BY <3>1 DEF Elements, device
    <3>. QED BY <3>2 DEF Clean
  <2>. QED BY <1>1, <2>1, <2>2 DEF RegistrationRefused
<1>3. ~DevicesFail
  <2>. SUFFICES ASSUME DevicesFail PROVE FALSE
    OBVIOUS
  <2>1. DeviceCursor
    BY DEF DevicesFail, Reachable, DeviceCursor
  <2>. QED BY <1>1, <2>1, LeftFits DEF DevicesFail
<1>4. ~EventsFail
  <2>. SUFFICES ASSUME EventsFail PROVE FALSE
    OBVIOUS
  <2>1. ToSend /\ flush.pc = "events"
    BY DEF EventsFail, ToSend
  <2>2. EventCursor
    BY <2>1 DEF Reachable, EventCursor
  <2>3. sender[Next1] \in Known(table)
    BY <2>1, NextEvent DEF Reachable, Senders
  <2>. QED BY <1>1, <2>2, <2>3 DEF EventsFail, Linkable, Known
<1>. QED BY <1>1, <1>2, <1>3, <1>4 DEF Lose, Restart, EventRefused, tables

LEMMA NextReachable ==
    ASSUME TypeOK, Batch, KnownInv, AllBelow, Clean, Reachable, faults' = 0, [Next]_vars
    PROVE  Reachable'
<1>. USE DEF tables, buffers, request, history
<1>t. Known(table) \subseteq Known(table')
  BY TableStep
<1>c. /\ ~Lose /\ ~Restart /\ ~RegistrationRefused /\ ~DevicesFail /\ ~EventsFail
  BY CleanSteps
<1>q. ASSUME due' = due, flush' = flush, useMemory' = useMemory, refused' = refused,
             sender' = sender,
             at' \in {"device table", "event table", "event fallback"} =>
               ~useMemory \/ at' = at
      PROVE  Reachable'
  BY <1>q, <1>t DEF Reachable, Senders
<1>1. ASSUME NEW d \in Devices, NEW k \in Kinds, Receive(d, k) PROVE Reachable'
  <2>1. /\ sender' = Append(sender, d) /\ UNCHANGED <<flush, due, useMemory, refused, table>>
        /\ at' \in {"event", "device"}
    BY <1>1 DEF Receive
  <2>2. \A e \in Received : sender'[e] = sender[e]
    BY <2>1 DEF TypeOK, Received
  <2>3. {sender'[e] : e \in Elements(flush.events)} = Senders(flush.events)
    BY <2>2, BatchEvents DEF Senders
  <2>. QED BY <2>1, <2>3 DEF Reachable, Senders
<1>2. CASE Check
  BY <1>2, <1>q DEF Check
<1>3. CASE RegisterInMemory \/ RegisterInTable
  BY <1>3, <1>q, RegistrationLists DEF RegisterInMemory, RegisterInTable
<1>4. CASE AddEventInMemory \/ AddEventInTable \/ FallBack
  BY <1>4, <1>q DEF AddEventInMemory, AddEventInTable, FallBack
<1>5. CASE EventRefused
  <2>1. ~useMemory
    BY <1>5 DEF EventRefused, Reachable
  <2>. QED BY <1>5, <2>1, <1>q DEF EventRefused
<1>6. CASE Reconnect \/ SkipFlush
  <2>1. /\ UNCHANGED <<sender, flush, table, refused, at>>
        /\ useMemory' => useMemory /\ ~due'
    BY <1>6 DEF Reconnect, SkipFlush
  <2>2. useMemory' \in BOOLEAN
    BY <1>6 DEF Reconnect, SkipFlush, TypeOK
  <2>. QED BY <2>1, <2>2 DEF Reachable, Senders
<1>7. CASE BeginFlush
  <2>1. /\ flush'.pc = "copied" /\ flush'.events = memEvents /\ flush'.devices = memDevices
        /\ ~useMemory /\ flush.pc = "idle"
        /\ UNCHANGED <<sender, table, refused, at, useMemory>>
    BY <1>7 DEF BeginFlush
  <2>2. Senders(memEvents) \subseteq Known(table) \cup Known(memDevices)
    BY <2>1 DEF KnownInv, DevicesKnown, Kept, Reachable, Senders
  <2>. QED BY <2>1, <2>2 DEF Reachable, Senders
<1>8. CASE ClearBuffers
  <2>1. /\ flush'.pc = "devices" /\ flush'.events = flush.events /\ flush'.devices = flush.devices
        /\ flush.pc = "copied"
        /\ UNCHANGED <<sender, table, refused, at, useMemory, due>>
    BY <1>8 DEF ClearBuffers, TypeOK, FlushType
  <2>. QED BY <2>1 DEF Reachable, Senders, Flushing
<1>9. ASSUME NEW d \in Devices, FlushDevice(d) PROVE Reachable'
  <2>1. /\ flush'.pc = flush.pc /\ flush'.events = flush.events /\ flush'.devices = flush.devices
        /\ UNCHANGED <<sender, refused, at, useMemory, due>>
    BY <1>9 DEF FlushDevice, TypeOK, FlushType
  <2>. QED BY <2>1, <1>t DEF Reachable, Senders, Flushing
<1>10. CASE DevicesDone
  <2>1. /\ flush'.pc = "events" /\ flush'.events = flush.events
        /\ flush.pc = "devices" /\ flush.left = {}
        /\ UNCHANGED <<sender, table, refused, at, useMemory, due>>
    BY <1>10 DEF DevicesDone, TypeOK, FlushType
  <2>2. Known(flush.devices) \subseteq Known(table)
    BY <2>1 DEF Batch, Flushing
  <2>. QED BY <2>1, <2>2 DEF Reachable, Senders, Flushing
<1>11. CASE FlushEvent
  <2>1. /\ flush'.pc = "events" /\ flush'.events = flush.events /\ flush.pc = "events"
        /\ UNCHANGED <<sender, table, refused, at, useMemory, due>>
    BY <1>11 DEF FlushEvent, ToSend, TypeOK, FlushType
  <2>. QED BY <2>1 DEF Reachable, Senders, Flushing
<1>12. CASE EventsDone \/ EndFlush
  <2>1. /\ flush.pc \in {"events", "rest"} /\ flush'.pc \in {"rest", "idle"}
        /\ UNCHANGED <<sender, table, refused, at, useMemory, due>>
    BY <1>12 DEF EventsDone, EndFlush, NoFlush
  <2>. QED BY <2>1 DEF Reachable, Senders, Flushing
<1>13. CASE UNCHANGED vars
  BY <1>13, <1>q DEF vars
<1>. QED
  BY <1>c, <1>1, <1>2, <1>3, <1>4, <1>5, <1>6, <1>7, <1>8, <1>9, <1>10, <1>11, <1>12, <1>13
     DEF Next, Route, Flush

(* Storing an event that has no row gives that event one row.              *)
LEMMA StoredOne ==
    ASSUME eventRows \in [Events -> Nat], NEW x \in Events, Stored(x), eventRows[x] = 0
    PROVE  /\ eventRows'[x] = 1
           /\ \A e \in Events \ {x} : eventRows'[e] = eventRows[e]
BY DEF Stored

LEMMA NextInOnePlace ==
    ASSUME TypeOK, Batch, KnownInv, AllBelow, Clean, Reachable, InOnePlace, faults' = 0,
           [Next]_vars
    PROVE  InOnePlace'
<1>. USE DEF tables, buffers, request, history
<1>c. /\ ~Lose /\ ~Restart /\ ~RegistrationRefused /\ ~DevicesFail /\ ~EventsFail
      /\ EventRefused => UNCHANGED eventRows
  BY CleanSteps
<1>m. /\ memEvents \in Seq(Received) /\ flush.events \in Seq(Received)
      /\ Elements(memEvents) \subseteq Received /\ Elements(flush.events) \subseteq Received
      /\ Received \subseteq Events /\ eventRows \in [Events -> Nat]
      /\ DOMAIN flush.events = 1 .. Len(flush.events) /\ Len(flush.events) \in Nat
      /\ flush.done \in Nat /\ Len(sender) \in Nat
  BY BatchEvents DEF TypeOK, FlushType
<1>q. ASSUME UNCHANGED <<eventRows, memEvents, sender>>,
             flush'.events = flush.events, flush'.done = flush.done,
             flush.pc = "copied" => flush'.pc = "copied",
             at' # "idle" => at # "idle"
      PROVE  InOnePlace'
  BY <1>q DEF InOnePlace, event
<1>1. ASSUME NEW d \in Devices, NEW k \in Kinds, Receive(d, k) PROVE InOnePlace'
  <2>1. /\ sender' = Append(sender, d) /\ UNCHANGED <<flush, memEvents, eventRows>>
        /\ Len(sender) < MaxMessages
    BY <1>1 DEF Receive
  <2>2. event' = event + 1 /\ event = Len(sender)
    BY <2>1 DEF event, TypeOK
  <2>3. event' \in Events /\ event' > event /\ event' \notin Received
    BY <1>m, <2>1, <2>2, RegistryAssumption DEF Events, Received
  <2>4. eventRows[event'] = 0
    BY <2>3 DEF InOnePlace
  <2>5. event' \notin Elements(memEvents) \cup Elements(flush.events)
    BY <1>m, <2>3
  <2>6. \A e \in Events : e > event' => e > event
    BY <1>m, <2>2 DEF Events
  <2>. QED BY <2>1, <2>4, <2>5, <2>6 DEF InOnePlace
<1>2. CASE Check
  BY <1>2, <1>q DEF Check
<1>3. CASE RegisterInMemory \/ RegisterInTable
  BY <1>3, <1>q, RegistrationLists DEF RegisterInMemory, RegisterInTable
<1>4. CASE AddEventInMemory \/ FallBack
  <2>1. /\ memEvents' = Append(memEvents, event) /\ at # "idle" /\ at' = "idle"
        /\ UNCHANGED <<flush, eventRows, sender>>
    BY <1>4 DEF AddEventInMemory, FallBack
  <2>2. /\ event \in Received /\ event' = event /\ eventRows[event] = 0
        /\ event \notin Elements(memEvents) \cup Elements(flush.events)
    BY <2>1, Handled DEF InOnePlace, event
  <2>3. /\ Elements(Append(memEvents, event)) = Elements(memEvents) \cup {event}
        /\ Distinct(Append(memEvents, event))
    BY <1>m, <2>2, ElementsAppend DEF InOnePlace
  <2>. QED BY <2>1, <2>2, <2>3 DEF InOnePlace
<1>5. CASE AddEventInTable
  <2>1. Stored(event) /\ at # "idle" /\ at' = "idle" /\ UNCHANGED <<flush, memEvents, sender>>
    BY <1>5 DEF AddEventInTable
  <2>2. /\ event \in Events /\ event' = event /\ eventRows[event] = 0 /\ event = Len(sender)
        /\ event \notin Elements(memEvents) \cup Elements(flush.events)
    BY <2>1, Handled DEF InOnePlace, event
  <2>3. /\ eventRows'[event] = 1
        /\ \A e \in Events \ {event} : eventRows'[e] = eventRows[e]
    BY <1>m, <2>1, <2>2, StoredOne
  <2>4. \A e \in Elements(memEvents) \cup Elements(flush.events) : eventRows'[e] = eventRows[e]
    BY <1>m, <2>2, <2>3
  <2>5. \A k \in flush.done + 1 .. Len(flush.events) : eventRows'[flush.events[k]] = 0
    <3>1. ASSUME NEW k \in flush.done + 1 .. Len(flush.events)
          PROVE  eventRows'[flush.events[k]] = 0
      <4>1. k \in DOMAIN flush.events
        BY <1>m, <3>1
      <4>2. flush.events[k] \in Elements(flush.events)
        BY <4>1 DEF Elements
      <4>. QED BY <2>4, <3>1, <4>2 DEF InOnePlace
    <3>. QED BY <3>1
  <2>6. \A e \in Events : e > event => e # event
    BY <1>m, <2>2
  <2>7. \A e \in Events : eventRows'[e] <= 1
    BY <2>3 DEF InOnePlace
  <2>. QED BY <2>1, <2>2, <2>3, <2>4, <2>5, <2>6, <2>7 DEF InOnePlace
<1>6. CASE EventRefused
  BY <1>6, <1>c, <1>q DEF EventRefused
<1>7. CASE Reconnect \/ SkipFlush
  BY <1>7, <1>q DEF Reconnect, SkipFlush
<1>8. CASE BeginFlush
  <2>1. /\ flush'.pc = "copied" /\ flush'.events = memEvents /\ flush'.done = 0
        /\ UNCHANGED <<memEvents, eventRows, sender, at>>
    BY <1>8 DEF BeginFlush
  <2>2. \A k \in 1 .. Len(memEvents) : memEvents[k] \in Elements(memEvents)
    BY <1>m DEF Elements
  <2>. QED BY <2>1, <2>2 DEF InOnePlace, event
<1>9. CASE ClearBuffers
  <2>1. /\ flush'.events = flush.events /\ flush'.done = flush.done /\ memEvents' = <<>>
        /\ UNCHANGED <<eventRows, sender, at>>
    BY <1>9 DEF ClearBuffers, TypeOK, FlushType
  <2>. QED BY <2>1, ElementsFacts DEF InOnePlace, event
<1>10. ASSUME NEW d \in Devices, FlushDevice(d) PROVE InOnePlace'
  <2>1. /\ flush'.pc = flush.pc /\ flush'.events = flush.events /\ flush'.done = flush.done
        /\ UNCHANGED <<eventRows, memEvents, sender, at>>
    BY <1>10 DEF FlushDevice, TypeOK, FlushType
  <2>. QED BY <1>q, <2>1
<1>11. CASE DevicesDone
  <2>1. /\ flush.pc = "devices" /\ flush'.events = flush.events /\ flush'.done = flush.done
        /\ UNCHANGED <<eventRows, memEvents, sender, at>>
    BY <1>11 DEF DevicesDone, TypeOK, FlushType
  <2>. QED BY <1>q, <2>1
<1>12. CASE FlushEvent
  <2>. DEFINE x == Next1
  <2>1. /\ ToSend /\ Stored(x) /\ flush.pc = "events" /\ flush'.pc = "events"
        /\ flush'.events = flush.events /\ flush'.done = flush.done + 1
        /\ UNCHANGED <<memEvents, sender, at>>
    BY <1>12 DEF FlushEvent, ToSend, TypeOK, FlushType
  <2>2. /\ x \in Received /\ x \in Events /\ x \in Elements(flush.events)
        /\ flush.done + 1 \in DOMAIN flush.events /\ x = flush.events[flush.done + 1]
    BY <2>1, NextEvent DEF Next1
  <2>. HIDE DEF x
  <2>3. eventRows[x] = 0
    <3>1. flush.done + 1 \in flush.done + 1 .. Len(flush.events)
      BY <1>m, <2>2
    <3>. QED BY <2>2, <3>1 DEF InOnePlace
  <2>4. eventRows'[x] = 1 /\ \A e \in Events \ {x} : eventRows'[e] = eventRows[e]
    BY <1>m, <2>1, <2>2, <2>3, StoredOne
  <2>5. x \notin Elements(memEvents)
    BY <2>1, <2>2 DEF InOnePlace
  <2>6. \A e \in Elements(memEvents) : eventRows'[e] = 0
    BY <1>m, <2>4, <2>5 DEF InOnePlace
  <2>7. \A k \in flush.done + 2 .. Len(flush.events) : eventRows'[flush.events[k]] = 0
    <3>1. ASSUME NEW k \in flush.done + 2 .. Len(flush.events)
          PROVE  eventRows'[flush.events[k]] = 0
      <4>1. /\ k \in DOMAIN flush.events /\ k # flush.done + 1
            /\ k \in flush.done + 1 .. Len(flush.events)
        BY <1>m, <3>1
      <4>2. flush.events[k] # x /\ flush.events[k] \in Elements(flush.events)
        BY <2>2, <4>1 DEF InOnePlace, Distinct, Elements
      <4>3. eventRows[flush.events[k]] = 0
        BY <4>1 DEF InOnePlace
      <4>. QED BY <1>m, <2>4, <4>2, <4>3
    <3>. QED BY <3>1
  <2>8. at # "idle" => x # event /\ event \in Events
    BY <2>2, Handled DEF InOnePlace
  <2>9. at' # "idle" => eventRows'[event] = 0
    BY <2>1, <2>4, <2>8 DEF InOnePlace
  <2>10. \A e \in Events : e > event => eventRows'[e] = 0
    <3>1. x <= event
      BY <1>m, <2>2 DEF Received, event
    <3>2. \A e \in Events : e > event => e # x
      BY <1>m, <2>2, <3>1 DEF Events, event
    <3>. QED BY <2>4, <3>2 DEF InOnePlace
  <2>11. \A e \in Events : eventRows'[e] <= 1
    BY <2>4 DEF InOnePlace
  <2>12. event' = event /\ flush.done + 1 + 1 = flush.done + 2
    BY <1>m, <2>1 DEF event
  <2>. QED BY <2>1, <2>6, <2>7, <2>9, <2>10, <2>11, <2>12 DEF InOnePlace
<1>13. CASE EventsDone \/ EndFlush
  <2>1. /\ flush'.events = <<>> /\ flush'.done = 0
        /\ UNCHANGED <<eventRows, memEvents, sender, at>>
    BY <1>13 DEF EventsDone, EndFlush, NoFlush
  <2>2. 0 + 1 .. Len(<<>>) = {}
    OBVIOUS
  <2>. QED BY <2>1, <2>2, ElementsFacts DEF InOnePlace, event
<1>14. CASE UNCHANGED vars
  BY <1>14, <1>q DEF vars
<1>. QED
  BY <1>c, <1>1, <1>2, <1>3, <1>4, <1>5, <1>6, <1>7, <1>8, <1>9, <1>10, <1>11, <1>12, <1>13,
     <1>14 DEF Next, Route, Flush

LEMMA InitStoredOnce == Init => StoredOnce
<1>. SUFFICES ASSUME Init PROVE Reachable /\ InOnePlace
  BY DEF StoredOnce
<1>1. /\ flush.pc = "idle" /\ flush.events = <<>> /\ flush.done = 0 /\ memEvents = <<>>
      /\ at = "idle" /\ due = FALSE /\ refused = {}
      /\ \A e \in Events : eventRows[e] = 0
  BY DEF Init, NoFlush
<1>2. Reachable
  BY <1>1 DEF Reachable, Flushing
<1>3. 0 + 1 .. Len(<<>>) = {}
  OBVIOUS
<1>. QED BY <1>1, <1>2, <1>3, ElementsFacts DEF InOnePlace

LEMMA NextStoredOnce ==
    TypeOK /\ Batch /\ KnownInv /\ AllBelow /\ StoredOnce /\ [Next]_vars => StoredOnce'
<1>. SUFFICES ASSUME TypeOK, Batch, KnownInv, AllBelow, StoredOnce, [Next]_vars, Clean'
              PROVE  Reachable' /\ InOnePlace'
  BY DEF StoredOnce
<1>1. Clean /\ faults' = 0
  BY CleanBefore
<1>2. Reachable /\ InOnePlace
  BY <1>1 DEF StoredOnce
<1>. QED BY <1>1, <1>2, NextReachable, NextInOnePlace

(* While nothing fails every event is in one place, and stored once.       *)
THEOREM StoredAtMostOnce == Spec => []StoredOnce
<1>. QED BY InitStoredOnce, NextStoredOnce, TypeCorrect, BatchHolds, KnownHolds, BelowHolds, PTL
         DEF Spec

(* No event of an answered request is lost but by the unlocked append or a *)
(* restart, and while nothing fails none is stored twice.                  *)
THEOREM EventsAreKept == Spec => []EventsKept
<1>1. EventsHeld /\ StoredOnce => EventsKept
  BY DEF EventsHeld, StoredOnce, EventsKept, Clean, InOnePlace, Received, event
<1>. QED BY <1>1, EventsNotLost, StoredAtMostOnce, PTL
=============================================================================

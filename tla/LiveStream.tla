---------------------------- MODULE LiveStream ----------------------------
(***************************************************************************)
(* sse_broadcast and GET /api/alerts/live: every connected client has a    *)
(* bounded queue of its own; a client that lets it fill is dropped from    *)
(* the list of clients, while its generator lives on.                      *)
(***************************************************************************)
EXTENDS Naturals, Sequences

CONSTANTS
    Clients,             \* connections of the dashboard
    Events,              \* what is broadcast
    MaxQueue             \* maxsize of a client's queue

ASSUME QueueAssumption == MaxQueue \in Nat \ {0}

VARIABLES
    generator,           \* of each connection's event_generator
    registered,          \* sse_clients
    queue,               \* q, per connection
    sent,                \* history: the alert frames a client was sent
    log,                 \* history: everything that was broadcast
    joined               \* history: how much had been, when a client came

streamVars == <<generator, registered, queue, sent, log, joined>>

GeneratorStates == {"absent", "created", "running", "closed"}

StreamInit ==
    /\ generator = [c \in Clients |-> "absent"]
    /\ registered = {}
    /\ queue = [c \in Clients |-> <<>>] /\ sent = queue
    /\ log = <<>>
    /\ joined = [c \in Clients |-> 0]

Full == {c \in registered : Len(queue[c]) >= MaxQueue}

(* Fault: a client that is too slow misses the event and stays.            *)
BroadcastSkips(e) ==
    /\ queue' = [c \in Clients |-> IF c \in registered \ Full THEN Append(queue[c], e)
                                   ELSE queue[c]]
    /\ log' = Append(log, e)
    /\ UNCHANGED <<registered, generator, sent, joined>>

(* No await: one step.                                                     *)
Broadcast(e) ==
    /\ queue' = [c \in Clients |-> IF c \in registered \ Full THEN Append(queue[c], e)
                                   ELSE queue[c]]
    /\ registered' = registered \ Full
    /\ log' = Append(log, e)
    /\ UNCHANGED <<generator, sent, joined>>

(* The handler registers the queue before the generator has begun.         *)
Connect(c) ==
    /\ generator[c] = "absent"
    /\ generator' = [generator EXCEPT ![c] = "created"]
    /\ registered' = registered \cup {c}
    /\ joined' = [joined EXCEPT ![c] = Len(log)]
    /\ UNCHANGED <<queue, sent, log>>

(* The connected frame; from here on finally will run.                     *)
Start(c) ==
    /\ generator[c] = "created"
    /\ generator' = [generator EXCEPT ![c] = "running"]
    /\ UNCHANGED <<registered, queue, sent, log, joined>>

SendEvent(c) ==
    /\ generator[c] = "running" /\ queue[c] # <<>>
    /\ sent' = [sent EXCEPT ![c] = Append(@, Head(queue[c]))]
    /\ queue' = [queue EXCEPT ![c] = Tail(@)]
    /\ UNCHANGED <<generator, registered, log, joined>>

Disconnect(c) ==
    /\ generator[c] = "running"
    /\ generator' = [generator EXCEPT ![c] = "closed"]
    /\ registered' = registered \ {c}
    /\ UNCHANGED <<queue, sent, log, joined>>

(* A generator that never began has no finally: its queue stays in the list *)
(* until it is full.                                                        *)
Abandon(c) ==
    /\ generator[c] = "created"
    /\ generator' = [generator EXCEPT ![c] = "closed"]
    /\ UNCHANGED <<registered, queue, sent, log, joined>>

ClientStep(c) == Connect(c) \/ Start(c) \/ SendEvent(c) \/ Disconnect(c) \/ Abandon(c)

StreamNext == (\E e \in Events : Broadcast(e)) \/ \E c \in Clients : ClientStep(c)

StreamSpec == StreamInit /\ [][StreamNext]_streamVars

-----------------------------------------------------------------------------
(* What a client was sent or is about to be sent, in order.                *)
Received(c) == sent[c] \o queue[c]

(* However slow a client and whenever it came: it is sent what was         *)
(* broadcast since, in order, without a gap and nothing twice, up to where *)
(* it was dropped; as long as it is in the list, all of it. Its queue is   *)
(* bounded, that of a client that is gone too.                             *)
StreamContiguous ==
    \A c \in Clients :
       /\ joined[c] + Len(Received(c)) <= Len(log)
       /\ \A i \in 1..Len(Received(c)) : Received(c)[i] = log[joined[c] + i]
       /\ c \in registered => joined[c] + Len(Received(c)) = Len(log)
       /\ Len(queue[c]) <= MaxQueue
============================================================================

----------------------------- MODULE Delivery -----------------------------
(***************************************************************************)
(* An alert's way to the dashboard: Suricata's datagrams through the       *)
(* forwarder, and other senders, to the two ingest routes; the token       *)
(* bucket, the request queue, the pipeline, the answer and the broadcast.  *)
(* The forwarder waits for an answer for a while, and the API works on.    *)
(***************************************************************************)
EXTENDS LiveStream, FiniteSets

CONSTANTS
    Suricata,            \* the alerts that come through the forwarder
    Burst,               \* burst_size
    MaxRequests,         \* max_queue_size
    Buffer,              \* the kernel's socket buffer, in datagrams
    NoAlert              \* the forwarder's hands are free

ASSUME DeliveryAssumption ==
    /\ IsFiniteSet(Events) /\ Suricata \subseteq Events
    /\ NoAlert \notin Events
    /\ Burst \in Nat /\ MaxRequests \in Nat /\ Buffer \in Nat

VARIABLES
    request,             \* of each alert: its POST
    tokens,              \* rate_limiter.tokens
    queueSize,           \* request_queue.queue_size
    socket,              \* datagrams that wait for recvfrom
    hand,                \* the alert the forwarder is posting
    received, forwarded, failed,         \* the forwarder's counters
    unconverted          \* history: received, but not convertible

forwarder == <<socket, hand, received, forwarded, failed, unconverted>>
vars == <<streamVars, forwarder, request, tokens, queueSize>>

(* The three that end in the pipeline are all 200. rejected: 429 or 503.    *)
(* raised: 500, the error path could not store the alert either.            *)
Accepted == {"processed", "throttled", "error"}
Refused  == {"rejected", "raised"}
Requests == Accepted \cup Refused \cup {"none", "buffered", "posted", "core", "lost"}

Init ==
    /\ StreamInit
    /\ request = [a \in Events |-> "none"]
    /\ tokens = Burst /\ queueSize = 0
    /\ socket = <<>> /\ hand = NoAlert
    /\ received = 0 /\ forwarded = 0 /\ failed = 0 /\ unconverted = 0

Becomes(a, what) == request' = [request EXCEPT ![a] = what]

-----------------------------------------------------------------------------
(* The forwarder: one loop, which does not read while it posts.             *)
Datagram(a) ==
    /\ a \in Suricata /\ request[a] = "none"
    /\ IF Len(socket) < Buffer
       THEN socket' = Append(socket, a) /\ Becomes(a, "buffered")
       ELSE UNCHANGED socket /\ Becomes(a, "lost")
    /\ UNCHANGED <<streamVars, tokens, queueSize, hand, received, forwarded, failed, unconverted>>

Take(a) ==
    /\ hand = NoAlert /\ socket # <<>> /\ a = Head(socket)
    /\ socket' = Tail(socket)
    /\ UNCHANGED <<streamVars, tokens, queueSize, forwarded, failed>>

Unreadable(a) ==
    /\ Take(a) /\ Becomes(a, "lost")
    /\ UNCHANGED <<hand, received, unconverted>>

Unconvertible(a) ==
    /\ Take(a) /\ Becomes(a, "lost")
    /\ received' = received + 1 /\ unconverted' = unconverted + 1
    /\ UNCHANGED hand

Forward(a) ==
    /\ Take(a) /\ Becomes(a, "posted")
    /\ received' = received + 1 /\ hand' = a
    /\ UNCHANGED unconverted

Responded(a) ==
    /\ hand = a /\ hand' = NoAlert
    /\ \/ request[a] \in Accepted /\ forwarded' = forwarded + 1 /\ UNCHANGED failed
       \/ request[a] \in Refused /\ failed' = failed + 1 /\ UNCHANGED forwarded
    /\ UNCHANGED <<streamVars, tokens, queueSize, request, socket, received, unconverted>>

(* The timeout, or no connection: the request may be under way, or done.    *)
GiveUp(a) ==
    /\ hand = a /\ hand' = NoAlert
    /\ failed' = failed + 1
    /\ UNCHANGED <<streamVars, tokens, queueSize, request, socket, received, forwarded, unconverted>>

-----------------------------------------------------------------------------
(* The ingest routes                                                        *)
Post(a) ==
    /\ a \notin Suricata /\ request[a] = "none"
    /\ Becomes(a, "posted")
    /\ UNCHANGED <<streamVars, tokens, queueSize, forwarder>>

NeverArrives(a) ==
    /\ request[a] = "posted" /\ Becomes(a, "lost")
    /\ UNCHANGED <<streamVars, tokens, queueSize, forwarder>>

(* acquire: a token for every second that passes.                           *)
Refill ==
    /\ tokens < Burst /\ tokens' = tokens + 1
    /\ UNCHANGED <<streamVars, forwarder, request, queueSize>>

TooMany(a) ==
    /\ request[a] = "posted" /\ tokens = 0
    /\ Becomes(a, "rejected")
    /\ UNCHANGED <<streamVars, forwarder, tokens, queueSize>>

(* The token is spent.                                                      *)
Overloaded(a) ==
    /\ request[a] = "posted" /\ tokens > 0 /\ queueSize >= MaxRequests
    /\ tokens' = tokens - 1 /\ Becomes(a, "rejected")
    /\ UNCHANGED <<streamVars, forwarder, queueSize>>

Enter(a) ==
    /\ request[a] = "posted" /\ tokens > 0 /\ queueSize < MaxRequests
    /\ tokens' = tokens - 1 /\ queueSize' = queueSize + 1
    /\ Becomes(a, "core")
    /\ UNCHANGED <<streamVars, forwarder>>

Dequeue == queueSize' = IF queueSize > 0 THEN queueSize - 1 ELSE 0

(* Core, broadcast, answer and finally have no await between them.          *)
Processed(a) ==
    /\ request[a] = "core" /\ Becomes(a, "processed")
    /\ Broadcast(a) /\ Dequeue
    /\ UNCHANGED <<forwarder, tokens>>

(* Fault: the slot is freed after the error path, not in a finally.         *)
UnheardLeaks(a) ==
    /\ request[a] = "core"
    /\ \/ (Becomes(a, "throttled") \/ Becomes(a, "error")) /\ Dequeue
       \/ Becomes(a, "raised") /\ UNCHANGED queueSize
    /\ UNCHANGED <<streamVars, forwarder, tokens>>

(* Throttled, stored as an error, or not even that: nothing is broadcast.   *)
Unheard(a) ==
    /\ request[a] = "core"
    /\ \E what \in {"throttled", "error", "raised"} : Becomes(a, what)
    /\ Dequeue
    /\ UNCHANGED <<streamVars, forwarder, tokens>>

Route(a) ==
    \/ Post(a) \/ NeverArrives(a) \/ TooMany(a) \/ Overloaded(a)
    \/ Enter(a) \/ Processed(a) \/ Unheard(a)

Forwarder(a) ==
    Datagram(a) \/ Unreadable(a) \/ Unconvertible(a) \/ Forward(a) \/ Responded(a) \/ GiveUp(a)

Next ==
    \/ \E a \in Events : Route(a) \/ Forwarder(a)
    \/ Refill
    \/ \E c \in Clients : ClientStep(c) /\ UNCHANGED <<forwarder, request, tokens, queueSize>>

Spec == Init /\ [][Next]_vars

-----------------------------------------------------------------------------
InCore == {a \in Events : request[a] = "core"}

(* The counters that the health pages show are true however requests are    *)
(* answered, refused, given up or left behind: the request queue counts the *)
(* requests in the pipeline, never more than it may, and what the forwarder *)
(* received is forwarded, failed, not convertible or in its hand.           *)
CountersTruthful ==
    /\ queueSize = Cardinality(InCore) /\ queueSize <= MaxRequests
    /\ received = forwarded + failed + unconverted + (IF hand = NoAlert THEN 0 ELSE 1)
    /\ tokens \in 0..Burst
============================================================================

-------------------------- MODULE DeliveryProofs --------------------------
(***************************************************************************)
(* For any number of clients, alerts and limits: the delivery drives the   *)
(* live stream as the stream's own specification allows, no client has a   *)
(* gap, and the counters are true.                                         *)
(***************************************************************************)
EXTENDS Delivery, SequenceTheorems, FiniteSetTheorems, TLAPS

(***************************************************************************)
(* Sequences                                                               *)
(***************************************************************************)
LEMMA AppendAfter ==
    ASSUME NEW S, NEW s \in Seq(S), NEW q \in Seq(S), NEW e \in S
    PROVE  s \o Append(q, e) = Append(s \o q, e)
<1>1. /\ Append(q, e) \in Seq(S) /\ Len(Append(q, e)) = Len(q) + 1
      /\ \A i \in 1..Len(q) : Append(q, e)[i] = q[i]
      /\ Append(q, e)[Len(q) + 1] = e
  OBVIOUS
<1>2. /\ s \o q \in Seq(S) /\ Len(s \o q) = Len(s) + Len(q)
      /\ \A i \in 1..(Len(s) + Len(q)) :
            (s \o q)[i] = IF i <= Len(s) THEN s[i] ELSE q[i - Len(s)]
  BY ConcatProperties
<1>3. /\ s \o Append(q, e) \in Seq(S) /\ Len(s \o Append(q, e)) = Len(s) + Len(q) + 1
      /\ \A i \in 1..(Len(s) + Len(q) + 1) :
            (s \o Append(q, e))[i] = IF i <= Len(s) THEN s[i] ELSE Append(q, e)[i - Len(s)]
  <2>1. Len(s) + Len(Append(q, e)) = Len(s) + Len(q) + 1
    BY <1>1, LenProperties
  <2>2. Append(q, e) \in Seq(S)
    BY <1>1
  <2> DEFINE r == Append(q, e)
  <2>3. /\ s \o r \in Seq(S) /\ Len(s \o r) = Len(s) + Len(r)
        /\ \A i \in 1..(Len(s) + Len(r)) :
              (s \o r)[i] = IF i <= Len(s) THEN s[i] ELSE r[i - Len(s)]
    <3> HIDE DEF r
    <3> QED
      BY <2>2, ConcatProperties DEF r
  <2> QED
    BY <2>1, <2>3
<1>4. /\ Append(s \o q, e) \in Seq(S) /\ Len(Append(s \o q, e)) = Len(s) + Len(q) + 1
      /\ \A i \in 1..(Len(s) + Len(q)) : Append(s \o q, e)[i] = (s \o q)[i]
      /\ Append(s \o q, e)[Len(s) + Len(q) + 1] = e
  BY <1>2
<1>5. \A i \in 1..(Len(s) + Len(q) + 1) : (s \o Append(q, e))[i] = Append(s \o q, e)[i]
  <2> SUFFICES ASSUME NEW i \in 1..(Len(s) + Len(q) + 1)
               PROVE  (s \o Append(q, e))[i] = Append(s \o q, e)[i]
    OBVIOUS
  <2>1. Len(s) \in Nat /\ Len(q) \in Nat
    BY LenProperties
  <2>2. CASE i <= Len(s)
    BY <1>2, <1>3, <1>4, <2>1, <2>2
  <2>3. CASE i > Len(s) /\ i <= Len(s) + Len(q)
    BY <1>1, <1>2, <1>3, <1>4, <2>1, <2>3
  <2>4. CASE i = Len(s) + Len(q) + 1
    BY <1>1, <1>3, <1>4, <2>1, <2>4
  <2> QED
    BY <2>1, <2>2, <2>3, <2>4
<1> QED
  BY <1>3, <1>4, <1>5, SeqEqual

LEMMA HeadOver ==
    ASSUME NEW S, NEW s \in Seq(S), NEW q \in Seq(S), q # <<>>
    PROVE  Append(s, Head(q)) \o Tail(q) = s \o q
<1>1. /\ Head(q) \in S /\ Tail(q) \in Seq(S) /\ Len(Tail(q)) = Len(q) - 1
      /\ \A i \in 1..(Len(q) - 1) : Tail(q)[i] = q[i + 1]
      /\ Head(q) = q[1] /\ Len(q) \in Nat \ {0} /\ Len(s) \in Nat
  BY HeadTailProperties, LenProperties, EmptySeq
<1> DEFINE t == Append(s, Head(q))
<1>2. /\ t \in Seq(S) /\ Len(t) = Len(s) + 1
      /\ \A i \in 1..Len(s) : t[i] = s[i]
      /\ t[Len(s) + 1] = q[1]
  BY <1>1
<1>3. /\ s \o q \in Seq(S) /\ Len(s \o q) = Len(s) + Len(q)
      /\ \A i \in 1..(Len(s) + Len(q)) :
            (s \o q)[i] = IF i <= Len(s) THEN s[i] ELSE q[i - Len(s)]
  BY ConcatProperties
<1> HIDE DEF t
<1>4. /\ t \o Tail(q) \in Seq(S) /\ Len(t \o Tail(q)) = Len(s) + Len(q)
      /\ \A i \in 1..(Len(s) + Len(q)) :
            (t \o Tail(q))[i] = IF i <= Len(s) + 1 THEN t[i] ELSE Tail(q)[i - (Len(s) + 1)]
  <2>1. Len(t) + Len(Tail(q)) = Len(s) + Len(q)
    BY <1>1, <1>2
  <2> DEFINE r == Tail(q)
  <2>2. /\ t \o r \in Seq(S) /\ Len(t \o r) = Len(t) + Len(r)
        /\ \A i \in 1..(Len(t) + Len(r)) :
              (t \o r)[i] = IF i <= Len(t) THEN t[i] ELSE r[i - Len(t)]
    <3>1. r \in Seq(S) /\ t \in Seq(S)
      BY <1>1, <1>2
    <3> HIDE DEF r
    <3> QED
      BY <3>1, ConcatProperties
  <2>3. Len(t) = Len(s) + 1
    BY <1>2
  <2> QED
    BY <2>1, <2>2, <2>3
<1>5. \A i \in 1..(Len(s) + Len(q)) : (t \o Tail(q))[i] = (s \o q)[i]
  <2> SUFFICES ASSUME NEW i \in 1..(Len(s) + Len(q)) PROVE (t \o Tail(q))[i] = (s \o q)[i]
    OBVIOUS
  <2>1. CASE i <= Len(s)
    BY <1>1, <1>2, <1>3, <1>4, <2>1
  <2>2. CASE i = Len(s) + 1
    BY <1>1, <1>2, <1>3, <1>4, <2>2
  <2>3. CASE i > Len(s) + 1
    <3>1. (i - (Len(s) + 1)) \in 1..(Len(q) - 1) /\ i - (Len(s) + 1) + 1 = i - Len(s)
      BY <1>1, <2>3
    <3> QED
      BY <1>1, <1>3, <1>4, <2>3, <3>1
  <2>4. i \in Int /\ Len(s) \in Int
    BY <1>1
  <2>5. i <= Len(s) \/ i = Len(s) + 1 \/ i > Len(s) + 1
    BY <2>4
  <2> QED
    BY <2>1, <2>2, <2>3, <2>5
<1>6. t \o Tail(q) = s \o q
  BY <1>3, <1>4, <1>5, SeqEqual
<1> QED
  BY <1>6 DEF t

(* What is a stretch of a history stays one when the history goes on, and  *)
(* one that reaches its end can go on with it.                             *)
Follows(r, l, j) == j + Len(r) <= Len(l) /\ \A i \in 1..Len(r) : r[i] = l[j + i]

LEMMA FollowsOn ==
    ASSUME NEW S, NEW r \in Seq(S), NEW l \in Seq(S), NEW j \in Nat, NEW e \in S,
           Follows(r, l, j)
    PROVE  /\ Follows(r, Append(l, e), j)
           /\ j + Len(r) = Len(l) => Follows(Append(r, e), Append(l, e), j)
<1> DEFINE rr == Append(r, e)
<1> DEFINE ll == Append(l, e)
<1>1. /\ Len(r) \in Nat /\ Len(l) \in Nat
      /\ Len(ll) = Len(l) + 1 /\ ll[Len(l) + 1] = e
      /\ \A i \in 1..Len(l) : ll[i] = l[i]
      /\ Len(rr) = Len(r) + 1 /\ rr[Len(r) + 1] = e
      /\ \A i \in 1..Len(r) : rr[i] = r[i]
  OBVIOUS
<1> HIDE DEF rr, ll
<1>2. ASSUME NEW i \in 1..Len(r) PROVE r[i] = ll[j + i]
  <2>1. j + Len(r) <= Len(l) /\ r[i] = l[j + i]
    BY DEF Follows
  <2>2. j + i \in 1..Len(l)
    BY <1>1, <2>1
  <2> QED
    BY <1>1, <2>1, <2>2
<1>3. ASSUME j + Len(r) = Len(l), NEW i \in 1..(Len(r) + 1)
      PROVE  rr[i] = ll[j + i]
  <2>1. CASE i \in 1..Len(r)
    BY <1>1, <1>2, <2>1
  <2>2. CASE i = Len(r) + 1
    <3>1. j + i = Len(l) + 1
      BY <1>1, <1>3, <2>2
    <3> QED
      BY <1>1, <2>2, <3>1
  <2> QED
    BY <1>1, <2>1, <2>2
<1>4. Follows(r, ll, j)
  BY <1>1, <1>2 DEF Follows
<1>5. j + Len(r) = Len(l) => Follows(rr, ll, j)
  BY <1>1, <1>3 DEF Follows
<1> QED
  BY <1>4, <1>5 DEF rr, ll

(***************************************************************************)
(* The live stream                                                         *)
(***************************************************************************)
StreamTypes ==
    /\ generator \in [Clients -> GeneratorStates]
    /\ registered \subseteq Clients
    /\ queue \in [Clients -> Seq(Events)] /\ sent \in [Clients -> Seq(Events)]
    /\ log \in Seq(Events)
    /\ joined \in [Clients -> Nat]

(* A client that has not come holds nothing.                               *)
NotYetHere ==
    \A c \in Clients : generator[c] = "absent" =>
       c \notin registered /\ queue[c] = <<>> /\ sent[c] = <<>>

StreamInv == StreamTypes /\ StreamContiguous /\ NotYetHere

LEMMA ReceivedTyped ==
    ASSUME StreamTypes, NEW c \in Clients
    PROVE  /\ Received(c) \in Seq(Events)
           /\ Len(Received(c)) = Len(sent[c]) + Len(queue[c])
           /\ Len(sent[c]) \in Nat /\ Len(queue[c]) \in Nat
<1>1. sent[c] \in Seq(Events) /\ queue[c] \in Seq(Events)
  BY DEF StreamTypes
<1> QED
  BY <1>1, ConcatProperties, LenProperties DEF Received

LEMMA StreamStarts == StreamInit => StreamInv
<1> SUFFICES ASSUME StreamInit PROVE StreamInv
  OBVIOUS
<1>1. StreamTypes /\ NotYetHere
  BY DEF StreamInit, StreamTypes, NotYetHere, GeneratorStates
<1>2. ASSUME NEW c \in Clients
      PROVE  Len(Received(c)) = 0 /\ joined[c] = 0 /\ Len(queue[c]) = 0 /\ c \notin registered
  BY <1>1, ReceivedTyped DEF StreamInit
<1>3. Len(log) = 0
  BY DEF StreamInit
<1> QED
  BY <1>1, <1>2, <1>3, QueueAssumption DEF StreamInv, StreamContiguous

LEMMA BroadcastKeeps ==
    ASSUME StreamInv, NEW e \in Events, Broadcast(e)
    PROVE  StreamInv'
<1>1. StreamTypes'
  BY DEF StreamInv, StreamTypes, Broadcast, Full
<1>2. NotYetHere'
  BY DEF StreamInv, StreamTypes, NotYetHere, Broadcast, Full
<1>3. StreamContiguous'
  <2> SUFFICES ASSUME NEW c \in Clients
               PROVE  /\ Follows(Received(c)', log', joined[c])
                      /\ c \in registered' => joined[c] + Len(Received(c)') = Len(log')
                      /\ Len(queue'[c]) <= MaxQueue
    BY DEF StreamContiguous, Follows, Broadcast
  <2>1. /\ log' = Append(log, e) /\ sent'[c] = sent[c] /\ log \in Seq(Events)
        /\ sent[c] \in Seq(Events) /\ queue[c] \in Seq(Events) /\ joined[c] \in Nat
        /\ Len(log') = Len(log) + 1
    BY DEF Broadcast, StreamInv, StreamTypes
  <2>2. /\ Follows(Received(c), log, joined[c]) /\ Received(c) \in Seq(Events)
        /\ c \in registered => joined[c] + Len(Received(c)) = Len(log)
        /\ Len(queue[c]) <= MaxQueue
    BY ReceivedTyped DEF StreamInv, StreamContiguous, Follows
  <2>3. CASE c \in registered \ Full
    <3>1. queue'[c] = Append(queue[c], e) /\ Len(queue'[c]) = Len(queue[c]) + 1
      BY <2>1, <2>3 DEF Broadcast, StreamInv, StreamTypes
    <3>2. Received(c)' = Append(Received(c), e)
      <4>1. sent[c] \o Append(queue[c], e) = Append(sent[c] \o queue[c], e)
        <5>1. sent[c] \in Seq(Events) /\ queue[c] \in Seq(Events) /\ e \in Events
          BY <2>1
        <5>2. ASSUME NEW s \in Seq(Events), NEW q \in Seq(Events)
              PROVE  s \o Append(q, e) = Append(s \o q, e)
          BY AppendAfter
        <5> QED
          BY <5>1, <5>2
      <4>2. Received(c)' = sent'[c] \o queue'[c]
        BY DEF Received
      <4> QED
        BY <2>1, <3>1, <4>1, <4>2 DEF Received
    <3>3. Len(Received(c)') = Len(Received(c)) + 1 /\ Len(Received(c)) \in Nat
      BY <2>2, <3>2
    <3>4. Follows(Append(Received(c), e), Append(log, e), joined[c])
      BY <2>1, <2>2, <2>3, FollowsOn
    <3>5. Len(queue[c]) < MaxQueue /\ Len(queue[c]) \in Nat
      BY <2>1, <2>3, QueueAssumption, LenProperties DEF Full
    <3> QED
      <4>1. Follows(Received(c)', log', joined[c])
        BY <2>1, <3>2, <3>4
      <4>2. joined[c] + Len(Received(c)') = Len(log')
        BY <2>1, <2>2, <2>3, <3>3
      <4>3. Len(queue'[c]) <= MaxQueue
        BY <3>1, <3>5, QueueAssumption
      <4> QED
        BY <4>1, <4>2, <4>3
  <2>4. CASE c \notin registered \ Full
    <3>1. queue'[c] = queue[c] /\ c \notin registered'
      BY <2>4 DEF Broadcast, StreamInv, StreamTypes
    <3>2. Received(c)' = Received(c)
      BY <2>1, <3>1 DEF Received
    <3> QED
      BY <2>1, <2>2, <3>1, <3>2, FollowsOn
  <2> QED
    BY <2>3, <2>4
<1> QED
  BY <1>1, <1>2, <1>3 DEF StreamInv

(* A client's own steps leave the history alone and other clients, too.    *)
LEMMA ClientKeeps ==
    ASSUME StreamInv, NEW c \in Clients, ClientStep(c)
    PROVE  StreamInv'
<1>1. ASSUME Connect(c)
      PROVE  StreamInv'
  <2>1. /\ StreamTypes' /\ NotYetHere'
        /\ queue[c] = <<>> /\ sent[c] = <<>> /\ Len(log) \in Nat
    BY <1>1 DEF Connect, StreamInv, StreamTypes, NotYetHere, GeneratorStates
  <2>2. ASSUME NEW d \in Clients
        PROVE  Received(d)' = Received(d) /\ queue'[d] = queue[d] /\ log' = log
    BY <1>1 DEF Connect, Received
  <2>3. ASSUME NEW d \in Clients, d # c
        PROVE  joined'[d] = joined[d] /\ (d \in registered' <=> d \in registered)
    BY <1>1, <2>3 DEF Connect, StreamInv, StreamTypes
  <2>4. joined'[c] = Len(log) /\ Len(Received(c)) = 0 /\ joined[c] \in Nat
    BY <1>1, <2>1, ReceivedTyped DEF Connect, StreamInv, StreamTypes
  <2>5. StreamContiguous'
    <3> SUFFICES ASSUME NEW d \in Clients
                 PROVE  /\ joined'[d] + Len(Received(d)) <= Len(log)
                        /\ \A i \in 1..Len(Received(d)) : Received(d)[i] = log[joined'[d] + i]
                        /\ d \in registered' => joined'[d] + Len(Received(d)) = Len(log)
                        /\ Len(queue[d]) <= MaxQueue
      BY <2>2 DEF StreamContiguous
    <3>1. CASE d = c
      BY <2>1, <2>4, <3>1 DEF StreamInv, StreamContiguous
    <3>2. CASE d # c
      BY <2>3, <3>2 DEF StreamInv, StreamContiguous
    <3> QED
      BY <3>1, <3>2
  <2> QED
    BY <2>1, <2>5 DEF StreamInv
<1>2. ASSUME Start(c) \/ Disconnect(c) \/ Abandon(c)
      PROVE  StreamInv'
  <2>1. StreamTypes' /\ NotYetHere'
    BY <1>2 DEF Start, Disconnect, Abandon, StreamInv, StreamTypes, NotYetHere, GeneratorStates
  <2>2. /\ log' = log /\ joined' = joined /\ queue' = queue /\ sent' = sent
        /\ registered' \subseteq registered
    BY <1>2 DEF Start, Disconnect, Abandon
  <2>3. StreamContiguous'
    BY <2>2 DEF StreamInv, StreamContiguous, Received
  <2> QED
    BY <2>1, <2>3 DEF StreamInv
<1>3. ASSUME SendEvent(c)
      PROVE  StreamInv'
  <2>1. /\ queue[c] \in Seq(Events) /\ sent[c] \in Seq(Events) /\ queue[c] # <<>>
        /\ queue' = [queue EXCEPT ![c] = Tail(queue[c])]
        /\ sent' = [sent EXCEPT ![c] = Append(sent[c], Head(queue[c]))]
        /\ log' = log /\ joined' = joined /\ registered' = registered /\ generator' = generator
        /\ generator[c] = "running"
    BY <1>3 DEF SendEvent, StreamInv, StreamTypes
  <2>2. /\ Tail(queue[c]) \in Seq(Events) /\ Len(Tail(queue[c])) = Len(queue[c]) - 1
        /\ Append(sent[c], Head(queue[c])) \in Seq(Events)
    BY <2>1, EmptySeq
  <2>3. StreamTypes' /\ NotYetHere'
    BY <2>1, <2>2 DEF StreamInv, StreamTypes, NotYetHere
  <2>4. ASSUME NEW d \in Clients
        PROVE  Received(d)' = Received(d) /\ Len(queue'[d]) <= MaxQueue
    <3>1. CASE d = c
      <4>1. ASSUME NEW s \in Seq(Events), NEW q \in Seq(Events), q # <<>>
            PROVE  Append(s, Head(q)) \o Tail(q) = s \o q
        BY <4>1, HeadOver
      <4>2. queue'[c] = Tail(queue[c]) /\ sent'[c] = Append(sent[c], Head(queue[c]))
        BY <2>1 DEF StreamInv, StreamTypes
      <4>3. Received(c)' = sent'[c] \o queue'[c]
        BY DEF Received
      <4>4. Received(c)' = Received(c)
        BY <2>1, <4>1, <4>2, <4>3 DEF Received
      <4>5. Len(queue[c]) <= MaxQueue /\ Len(queue[c]) \in Nat
        BY <2>1, LenProperties DEF StreamInv, StreamContiguous
      <4> QED
        BY <2>2, <3>1, <4>2, <4>4, <4>5, QueueAssumption
    <3>2. CASE d # c
      BY <2>1, <3>2 DEF Received, StreamInv, StreamTypes, StreamContiguous
    <3> QED
      BY <3>1, <3>2
  <2>5. StreamContiguous'
    BY <2>1, <2>4 DEF StreamInv, StreamContiguous
  <2> QED
    BY <2>3, <2>5 DEF StreamInv
<1> QED
  BY <1>1, <1>2, <1>3 DEF ClientStep

LEMMA StreamIdle ==
    ASSUME StreamInv, UNCHANGED streamVars
    PROVE  StreamInv'
  BY DEF StreamInv, StreamTypes, StreamContiguous, NotYetHere, Received, streamVars

(* However many clients and however slow: what each is sent is what was    *)
(* broadcast since it came, in order, without a gap or a repetition.       *)
THEOREM StreamNeverGaps == StreamSpec => []StreamContiguous
<1>1. StreamInit => StreamInv
  BY StreamStarts
<1>2. StreamInv /\ [StreamNext]_streamVars => StreamInv'
  BY BroadcastKeeps, ClientKeeps, StreamIdle DEF StreamNext
<1>3. StreamInv => StreamContiguous
  BY DEF StreamInv
<1> QED
  BY <1>1, <1>2, <1>3, PTL DEF StreamSpec

(* The routes and the forwarder drive the stream as its own specification  *)
(* allows: only an alert that was processed is broadcast, whole.           *)
THEOREM DeliveryIsStream == Spec => StreamSpec
<1>1. Init => StreamInit
  BY DEF Init
<1>2. [Next]_vars => [StreamNext]_streamVars
  <2> SUFFICES ASSUME [Next]_vars PROVE [StreamNext]_streamVars
    OBVIOUS
  <2>1. ASSUME NEW a \in Events, Route(a)
        PROVE  [StreamNext]_streamVars
    BY <2>1 DEF Route, Post, NeverArrives, TooMany, Overloaded, Enter, Processed, Unheard,
       StreamNext
  <2>2. ASSUME NEW a \in Events, Forwarder(a)
        PROVE  [StreamNext]_streamVars
    BY <2>2 DEF Forwarder, Datagram, Unreadable, Unconvertible, Forward, Take, Responded, GiveUp
  <2>3. CASE Refill
    BY <2>3 DEF Refill
  <2>4. ASSUME NEW c \in Clients, ClientStep(c)
        PROVE  [StreamNext]_streamVars
    BY <2>4 DEF StreamNext
  <2>5. CASE UNCHANGED vars
    BY <2>5 DEF vars
  <2> QED
    BY <2>1, <2>2, <2>3, <2>4, <2>5 DEF Next
<1> QED
  BY <1>1, <1>2, PTL DEF Spec, StreamSpec

(* Hence no client of the running system has a gap.                        *)
THEOREM ClientsNeverGap == Spec => []StreamContiguous
  BY DeliveryIsStream, StreamNeverGaps, PTL

(***************************************************************************)
(* The counters                                                            *)
(***************************************************************************)
CounterTypes ==
    /\ request \in [Events -> Requests]
    /\ queueSize \in Nat /\ tokens \in Nat
    /\ hand \in Events \cup {NoAlert}
    /\ received \in Nat /\ forwarded \in Nat /\ failed \in Nat /\ unconverted \in Nat

(* What waits in the socket is there once, and nothing has been done with  *)
(* it: what the forwarder takes is in no queue of the API.                 *)
SocketUntouched ==
    /\ socket \in Seq(Events)
    /\ \A i \in 1..Len(socket) : request[socket[i]] = "buffered"
    /\ \A i, j \in 1..Len(socket) : socket[i] = socket[j] => i = j

CounterInv == CounterTypes /\ SocketUntouched /\ CountersTruthful

counters == <<forwarder, request, tokens, queueSize>>

LEMMA CountersStart == Init => CounterInv
<1> SUFFICES ASSUME Init PROVE CounterInv
  OBVIOUS
<1>1. CounterTypes /\ SocketUntouched
  BY DeliveryAssumption DEF Init, CounterTypes, SocketUntouched, Requests, Accepted
<1>2. InCore = {}
  BY DEF Init, InCore
<1>3. CountersTruthful
  BY <1>2, FS_EmptySet, DeliveryAssumption DEF Init, CountersTruthful
<1> QED
  BY <1>1, <1>3 DEF CounterInv

LEMMA CoreFinite == IsFiniteSet(InCore) /\ Cardinality(InCore) \in Nat
  BY FS_Subset, FS_CardinalityType, DeliveryAssumption DEF InCore

(* A request that neither was nor is in the pipeline does not count.       *)
LEMMA CoreSame ==
    ASSUME CounterTypes, NEW a \in Events, NEW what, Becomes(a, what),
           request[a] # "core", what # "core"
    PROVE  InCore' = InCore
  BY DEF CounterTypes, Becomes, InCore

LEMMA CoreEntered ==
    ASSUME CounterTypes, NEW a \in Events, Becomes(a, "core"), request[a] # "core"
    PROVE  Cardinality(InCore') = Cardinality(InCore) + 1
<1>1. InCore' = InCore \cup {a} /\ a \notin InCore
  BY DEF CounterTypes, Becomes, InCore
<1> QED
  BY <1>1, CoreFinite, FS_AddElement

LEMMA CoreLeft ==
    ASSUME CounterTypes, NEW a \in Events, NEW what, Becomes(a, what),
           request[a] = "core", what # "core"
    PROVE  Cardinality(InCore') = Cardinality(InCore) - 1 /\ Cardinality(InCore) > 0
<1>1. InCore' = InCore \ {a} /\ a \in InCore
  BY DEF CounterTypes, Becomes, InCore
<1>2. Cardinality(InCore') = Cardinality(InCore) - 1
  BY <1>1, CoreFinite, FS_RemoveElement
<1>3. Cardinality(InCore) # 0
  BY <1>1, CoreFinite, FS_EmptySet
<1> QED
  BY <1>2, <1>3, CoreFinite

(* What is not in the socket may change without touching what is.          *)
LEMMA SocketKept ==
    ASSUME CounterTypes, SocketUntouched, NEW a \in Events, NEW what, Becomes(a, what),
           request[a] # "buffered", UNCHANGED socket
    PROVE  SocketUntouched'
<1>1. ASSUME NEW i \in 1..Len(socket)
      PROVE  socket[i] \in Events /\ socket[i] # a
  BY DEF SocketUntouched
<1> QED
  BY <1>1 DEF SocketUntouched, CounterTypes, Becomes

LEMMA RouteCounts ==
    ASSUME CounterInv, NEW a \in Events, Route(a)
    PROVE  CounterInv'
<1>1. CASE Post(a) \/ NeverArrives(a) \/ TooMany(a) \/ Overloaded(a)
  <2> DEFINE what == request'[a]
  <2>1. /\ Becomes(a, what) /\ what \in Requests \ {"core"} /\ request[a] \notin {"core", "buffered"}
        /\ UNCHANGED <<socket, hand, received, forwarded, failed, unconverted, queueSize>>
        /\ tokens' = tokens \/ (tokens > 0 /\ tokens' = tokens - 1)
    BY <1>1 DEF Post, NeverArrives, TooMany, Overloaded, Becomes, forwarder, CounterInv,
       CounterTypes, Requests, Refused
  <2> HIDE DEF what
  <2>2. CounterTypes'
    BY <2>1 DEF CounterInv, CounterTypes, Becomes
  <2>3. SocketUntouched' /\ InCore' = InCore
    BY <2>1, SocketKept, CoreSame DEF CounterInv
  <2>4. CountersTruthful'
    BY <2>1, <2>2, <2>3, DeliveryAssumption DEF CounterInv, CounterTypes, CountersTruthful
  <2> QED
    BY <2>2, <2>3, <2>4 DEF CounterInv
<1>2. CASE Enter(a)
  <2>1. /\ Becomes(a, "core") /\ request[a] = "posted"
        /\ UNCHANGED <<socket, hand, received, forwarded, failed, unconverted>>
        /\ tokens > 0 /\ tokens' = tokens - 1
        /\ queueSize < MaxRequests /\ queueSize' = queueSize + 1
    BY <1>2 DEF Enter, forwarder
  <2>2. CounterTypes'
    BY <2>1 DEF CounterInv, CounterTypes, Becomes, Requests
  <2>3. SocketUntouched' /\ Cardinality(InCore') = Cardinality(InCore) + 1
    BY <2>1, SocketKept, CoreEntered DEF CounterInv
  <2>4. CountersTruthful'
    BY <2>1, <2>2, <2>3, DeliveryAssumption DEF CounterInv, CounterTypes, CountersTruthful
  <2> QED
    BY <2>2, <2>3, <2>4 DEF CounterInv
<1>3. CASE Processed(a) \/ Unheard(a)
  <2> DEFINE what == request'[a]
  <2>1. /\ Becomes(a, what) /\ what \in Accepted \cup Refused /\ request[a] = "core" /\ Dequeue
        /\ UNCHANGED <<socket, hand, received, forwarded, failed, unconverted, tokens>>
    BY <1>3 DEF Processed, Unheard, Becomes, forwarder, CounterInv, CounterTypes, Accepted,
       Refused
  <2> HIDE DEF what
  <2>2. what \in Requests /\ what # "core"
    BY <2>1 DEF Accepted, Refused, Requests
  <2>3. Cardinality(InCore') = Cardinality(InCore) - 1 /\ Cardinality(InCore) > 0
    BY <2>1, <2>2, CoreLeft DEF CounterInv
  <2>4. queueSize' = queueSize - 1 /\ queueSize > 0
    BY <2>1, <2>3 DEF Dequeue, CounterInv, CountersTruthful, CounterTypes
  <2>5. CounterTypes'
    BY <2>1, <2>2, <2>4 DEF CounterInv, CounterTypes, Becomes
  <2>6. SocketUntouched'
    BY <2>1, SocketKept DEF CounterInv
  <2>7. CountersTruthful'
    BY <2>1, <2>3, <2>4, DeliveryAssumption DEF CounterInv, CounterTypes, CountersTruthful
  <2> QED
    BY <2>5, <2>6, <2>7 DEF CounterInv
<1> QED
  BY <1>1, <1>2, <1>3 DEF Route

(* The head of the socket is taken, and only it changes.                   *)
LEMMA TakeCounts ==
    ASSUME CounterInv, NEW a \in Events, NEW what \in Requests \ {"core"},
           Take(a), Becomes(a, what)
    PROVE  SocketUntouched' /\ InCore' = InCore /\ UNCHANGED <<queueSize, tokens, forwarded, failed>>
<1>1. /\ socket \in Seq(Events) /\ socket # <<>> /\ a = socket[1] /\ socket' = Tail(socket)
      /\ UNCHANGED <<queueSize, tokens, forwarded, failed>>
  BY DEF CounterInv, SocketUntouched, Take
<1>2. /\ socket' \in Seq(Events) /\ Len(socket') = Len(socket) - 1 /\ Len(socket) \in Nat \ {0}
      /\ \A i \in 1..Len(socket') : socket'[i] = socket[i + 1]
  BY <1>1, EmptySeq
<1>3. ASSUME NEW i \in 1..Len(socket')
      PROVE  socket'[i] # a /\ request[socket'[i]] = "buffered" /\ socket'[i] \in Events
  <2>1. i + 1 \in 1..Len(socket) /\ 1 \in 1..Len(socket) /\ i + 1 # 1
    BY <1>2
  <2> QED
    BY <1>1, <1>2, <2>1 DEF CounterInv, SocketUntouched
<1>4. ASSUME NEW i \in 1..Len(socket'), NEW j \in 1..Len(socket'), socket'[i] = socket'[j]
      PROVE  i = j
  <2>1. i + 1 \in 1..Len(socket) /\ j + 1 \in 1..Len(socket) /\ socket[i + 1] = socket[j + 1]
    BY <1>2, <1>4
  <2>2. i + 1 = j + 1
    BY <2>1 DEF CounterInv, SocketUntouched
  <2> QED
    BY <2>2
<1>5. SocketUntouched'
  BY <1>2, <1>3, <1>4 DEF SocketUntouched, CounterInv, CounterTypes, Becomes
<1>6. request[a] = "buffered"
  BY <1>1, <1>2 DEF CounterInv, SocketUntouched
<1> QED
  BY <1>1, <1>5, <1>6, CoreSame DEF CounterInv

LEMMA ForwarderCounts ==
    ASSUME CounterInv, NEW a \in Events, Forwarder(a)
    PROVE  CounterInv'
<1>1. CASE Datagram(a)
  <2> DEFINE what == request'[a]
  <2>1. /\ Becomes(a, what) /\ what \in {"buffered", "lost"} /\ request[a] = "none"
        /\ UNCHANGED <<hand, received, forwarded, failed, unconverted, tokens, queueSize>>
        /\ \/ UNCHANGED socket
           \/ what = "buffered" /\ socket' = Append(socket, a)
    BY <1>1 DEF Datagram, Becomes, CounterInv, CounterTypes
  <2> HIDE DEF what
  <2>2. CounterTypes' /\ InCore' = InCore
    <3>1. what \in Requests /\ what # "core"
      BY <2>1 DEF Requests
    <3>2. InCore' = InCore
      BY <2>1, <3>1, CoreSame DEF CounterInv
    <3> QED
      BY <2>1, <3>1, <3>2 DEF CounterInv, CounterTypes, Becomes
  <2>3. SocketUntouched'
    <3>1. CASE UNCHANGED socket
      BY <2>1, <3>1, SocketKept DEF CounterInv
    <3>2. CASE what = "buffered" /\ socket' = Append(socket, a)
      <4>1. /\ socket' \in Seq(Events) /\ Len(socket') = Len(socket) + 1 /\ Len(socket) \in Nat
            /\ \A i \in 1..Len(socket) : socket'[i] = socket[i]
            /\ socket'[Len(socket) + 1] = a
        BY <3>2 DEF CounterInv, SocketUntouched
      <4>2. ASSUME NEW i \in 1..Len(socket)
            PROVE  socket[i] # a /\ socket[i] \in Events /\ request'[socket[i]] = "buffered"
        BY <2>1 DEF CounterInv, SocketUntouched, CounterTypes, Becomes
      <4>3. request'[a] = "buffered"
        BY <2>1, <3>2 DEF CounterInv, CounterTypes, Becomes
      <4>4. \A i \in 1..Len(socket') : i \in 1..Len(socket) \/ i = Len(socket) + 1
        BY <4>1
      <4>5. \A i \in 1..Len(socket') : request'[socket'[i]] = "buffered"
        BY <4>1, <4>2, <4>3, <4>4
      <4>6. \A i, j \in 1..Len(socket') : socket'[i] = socket'[j] => i = j
        BY <4>1, <4>2, <4>4 DEF CounterInv, SocketUntouched
      <4> QED
        BY <4>1, <4>5, <4>6 DEF SocketUntouched
    <3> QED
      BY <2>1, <3>1, <3>2
  <2>4. CountersTruthful'
    BY <2>1, <2>2 DEF CounterInv, CounterTypes, CountersTruthful
  <2> QED
    BY <2>2, <2>3, <2>4 DEF CounterInv
<1>2. CASE Unreadable(a) \/ Unconvertible(a) \/ Forward(a)
  <2> DEFINE what == request'[a]
  <2>1. /\ Take(a) /\ Becomes(a, what) /\ what \in {"lost", "posted"} /\ hand = NoAlert
        /\ \/ UNCHANGED <<hand, received, unconverted>>
           \/ received' = received + 1 /\ unconverted' = unconverted + 1 /\ UNCHANGED hand
           \/ received' = received + 1 /\ hand' = a /\ UNCHANGED unconverted
    BY <1>2 DEF Unreadable, Unconvertible, Forward, Take, Becomes, CounterInv, CounterTypes
  <2> HIDE DEF what
  <2>2. what \in Requests \ {"core"}
    BY <2>1 DEF Requests
  <2>3. /\ SocketUntouched' /\ InCore' = InCore
        /\ UNCHANGED <<queueSize, tokens, forwarded, failed>>
    BY <2>1, <2>2, TakeCounts
  <2>4. CounterTypes'
    BY <2>1, <2>2, <2>3 DEF CounterInv, CounterTypes, Becomes
  <2>5. a # NoAlert
    BY DeliveryAssumption
  <2>6. CountersTruthful'
    BY <2>1, <2>3, <2>5 DEF CounterInv, CounterTypes, CountersTruthful
  <2> QED
    BY <2>3, <2>4, <2>6 DEF CounterInv
<1>3. CASE Responded(a) \/ GiveUp(a)
  <2>1. /\ hand = a /\ hand' = NoAlert /\ a # NoAlert
        /\ UNCHANGED <<request, socket, queueSize, tokens, received, unconverted>>
        /\ \/ forwarded' = forwarded + 1 /\ UNCHANGED failed
           \/ failed' = failed + 1 /\ UNCHANGED forwarded
    BY <1>3, DeliveryAssumption DEF Responded, GiveUp
  <2>2. CounterTypes' /\ SocketUntouched' /\ InCore' = InCore
    BY <2>1 DEF CounterInv, CounterTypes, SocketUntouched, InCore
  <2>3. received = forwarded + failed + unconverted + 1
    BY <2>1 DEF CounterInv, CountersTruthful
  <2>4. received' = forwarded' + failed' + unconverted'
    BY <2>1, <2>3 DEF CounterInv, CounterTypes
  <2>5. received' = forwarded' + failed' + unconverted' + (IF hand' = NoAlert THEN 0 ELSE 1)
    BY <2>1, <2>2, <2>4 DEF CounterTypes
  <2>6. queueSize' = Cardinality(InCore') /\ queueSize' <= MaxRequests /\ tokens' \in 0..Burst
    BY <2>1, <2>2 DEF CounterInv, CountersTruthful
  <2>7. CountersTruthful'
    BY <2>5, <2>6 DEF CountersTruthful
  <2> QED
    BY <2>2, <2>7 DEF CounterInv
<1> QED
  BY <1>1, <1>2, <1>3 DEF Forwarder

LEMMA RefillCounts ==
    ASSUME CounterInv, Refill
    PROVE  CounterInv'
<1>1. tokens < Burst /\ tokens' = tokens + 1
      /\ UNCHANGED <<request, queueSize, socket, hand, received, forwarded, failed, unconverted>>
  BY DEF Refill, forwarder
<1>2. CounterTypes' /\ SocketUntouched' /\ InCore' = InCore
  BY <1>1 DEF CounterInv, CounterTypes, SocketUntouched, InCore
<1> QED
  BY <1>1, <1>2, DeliveryAssumption DEF CounterInv, CounterTypes, CountersTruthful

LEMMA CountersIdle ==
    ASSUME CounterInv, UNCHANGED counters
    PROVE  CounterInv'
  BY DEF CounterInv, CounterTypes, SocketUntouched, CountersTruthful, InCore, counters, forwarder

(* However requests are answered, refused, given up or left behind, the     *)
(* counters of the request queue and of the forwarder are true.             *)
THEOREM CountersAlwaysTruthful == Spec => []CountersTruthful
<1>1. Init => CounterInv
  BY CountersStart
<1>2. CounterInv /\ [Next]_vars => CounterInv'
  <2> SUFFICES ASSUME CounterInv, [Next]_vars PROVE CounterInv'
    OBVIOUS
  <2>1. ASSUME NEW c \in Clients, ClientStep(c), UNCHANGED <<forwarder, request, tokens, queueSize>>
        PROVE  CounterInv'
    BY <2>1, CountersIdle DEF counters
  <2>2. CASE UNCHANGED vars
    BY <2>2, CountersIdle DEF vars, counters
  <2> QED
    BY <2>1, <2>2, RouteCounts, ForwarderCounts, RefillCounts DEF Next
<1>3. CounterInv => CountersTruthful
  BY DEF CounterInv
<1> QED
  BY <1>1, <1>2, <1>3, PTL DEF Spec
============================================================================

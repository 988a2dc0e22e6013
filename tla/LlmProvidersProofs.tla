------------------------ MODULE LlmProvidersProofs ------------------------
(***************************************************************************)
(* For any number of providers, calls, attempts and interventions: types,  *)
(* the accounting of attempts, what giving up an alert means, and that no  *)
(* request makes a disabled provider usable.                               *)
(***************************************************************************)
EXTENDS LlmProviders, SequenceTheorems, FiniteSetTheorems, TLAPS

(***************************************************************************)
(* The elements of chains                                                  *)
(***************************************************************************)
LEMMA ElementsTyped ==
    ASSUME NEW S, NEW s \in Seq(S)
    PROVE  /\ Elements(s) \subseteq S
           /\ \A x : x \in Elements(s) <=> \E i \in 1..Len(s) : s[i] = x
<1>1. DOMAIN s = 1..Len(s) /\ \A i \in 1..Len(s) : s[i] \in S
  BY LenProperties
<1> QED
  BY <1>1 DEF Elements

LEMMA ElementsEmpty == Elements(<<>>) = {}
  BY DEF Elements

LEMMA ElementsConcat ==
    ASSUME NEW S, NEW s \in Seq(S), NEW t \in Seq(S)
    PROVE  Elements(s \o t) = Elements(s) \cup Elements(t)
<1> DEFINE u == s \o t
<1>1. /\ u \in Seq(S) /\ Len(u) = Len(s) + Len(t)
      /\ \A i \in 1..(Len(s) + Len(t)) : u[i] = IF i <= Len(s) THEN s[i] ELSE t[i - Len(s)]
      /\ Len(s) \in Nat /\ Len(t) \in Nat
  BY ConcatProperties, LenProperties
<1> HIDE DEF u
<1>2. ASSUME NEW x \in Elements(u)
      PROVE  x \in Elements(s) \cup Elements(t)
  <2>1. PICK i \in 1..Len(u) : u[i] = x
    BY <1>1, <1>2, ElementsTyped
  <2>2. CASE i <= Len(s)
    <3>1. i \in 1..Len(s) /\ s[i] = x
      BY <1>1, <2>1, <2>2
    <3> QED
      BY <3>1, ElementsTyped
  <2>3. CASE i > Len(s)
    <3>1. i - Len(s) \in 1..Len(t) /\ t[i - Len(s)] = x
      BY <1>1, <2>1, <2>3
    <3> QED
      BY <3>1, ElementsTyped
  <2> QED
    BY <1>1, <2>2, <2>3
<1>3. ASSUME NEW x \in Elements(s)
      PROVE  x \in Elements(u)
  <2>1. PICK i \in 1..Len(s) : s[i] = x
    BY <1>3, ElementsTyped
  <2>2. i \in 1..Len(u) /\ u[i] = x
    BY <1>1, <2>1
  <2> QED
    BY <1>1, <2>2, ElementsTyped
<1>4. ASSUME NEW x \in Elements(t)
      PROVE  x \in Elements(u)
  <2>1. PICK i \in 1..Len(t) : t[i] = x
    BY <1>4, ElementsTyped
  <2> DEFINE k == i + Len(s)
  <2>2. k \in 1..(Len(s) + Len(t)) /\ ~(k <= Len(s)) /\ k - Len(s) = i
    BY <1>1
  <2> HIDE DEF k
  <2>3. k \in 1..Len(u) /\ u[k] = x
    BY <1>1, <2>1, <2>2
  <2> QED
    BY <1>1, <2>3, ElementsTyped
<1>5. Elements(u) = Elements(s) \cup Elements(t)
  BY <1>2, <1>3, <1>4
<1> QED
  BY <1>5 DEF u

LEMMA ElementsAppend ==
    ASSUME NEW S, NEW s \in Seq(S), NEW e \in S
    PROVE  Elements(Append(s, e)) = Elements(s) \cup {e}
<1> DEFINE u == Append(s, e)
<1>1. /\ u \in Seq(S) /\ Len(u) = Len(s) + 1 /\ Len(s) \in Nat
      /\ \A i \in 1..Len(s) : u[i] = s[i]
      /\ u[Len(s) + 1] = e
  OBVIOUS
<1> HIDE DEF u
<1>2. \A x : x \in Elements(u) <=> x \in Elements(s) \/ x = e
  <2>1. \A i \in 1..Len(u) : i \in 1..Len(s) \/ i = Len(s) + 1
    BY <1>1
  <2>2. Len(s) + 1 \in 1..Len(u) /\ \A i \in 1..Len(s) : i \in 1..Len(u)
    BY <1>1
  <2>3. /\ \A x : x \in Elements(s) <=> \E i \in 1..Len(s) : s[i] = x
        /\ \A x : x \in Elements(u) <=> \E i \in 1..Len(u) : u[i] = x
    BY <1>1, ElementsTyped
  <2> QED
    BY <1>1, <2>1, <2>2, <2>3
<1>3. Elements(u) = Elements(s) \cup {e}
  BY <1>2
<1> QED
  BY <1>3 DEF u

(* A chain is what is before one of its places, that, and what comes after. *)
LEMMA ElementsSplit ==
    ASSUME NEW S, NEW s \in Seq(S), NEW k \in 1..Len(s)
    PROVE  /\ SubSeq(s, 1, k - 1) \in Seq(S) /\ SubSeq(s, k + 1, Len(s)) \in Seq(S)
           /\ s[k] \in S
           /\ Elements(s) = Elements(SubSeq(s, 1, k - 1)) \cup {s[k]}
                            \cup Elements(SubSeq(s, k + 1, Len(s)))
<1> DEFINE a == SubSeq(s, 1, k - 1)
<1> DEFINE b == SubSeq(s, k + 1, Len(s))
<1>1. Len(s) \in Nat /\ k \in Nat /\ 1 <= k /\ k <= Len(s) /\ \A i \in 1..Len(s) : s[i] \in S
  BY LenProperties
<1>2. /\ a \in Seq(S) /\ Len(a) = k - 1
      /\ \A i \in 1..(k - 1) : a[i] = s[i]
  <2>1. \A i \in 1..(k - 1) : s[i] \in S
    BY <1>1
  <2>2. /\ a \in Seq(S) /\ Len(a) = IF 1 <= k - 1 THEN k - 1 - 1 + 1 ELSE 0
        /\ \A i \in 1..(k - 1 - 1 + 1) : a[i] = s[1 + i - 1]
    BY <1>1, <2>1, SubSeqProperties
  <2> HIDE DEF a
  <2>3. k - 1 - 1 + 1 = k - 1 /\ \A i \in 1..(k - 1) : 1 + i - 1 = i
    BY <1>1
  <2> QED
    BY <1>1, <2>2, <2>3
<1>3. /\ b \in Seq(S) /\ Len(b) = Len(s) - k
      /\ \A i \in 1..(Len(s) - k) : b[i] = s[k + i]
  <2>1. \A i \in (k + 1)..Len(s) : s[i] \in S
    BY <1>1
  <2>2. /\ b \in Seq(S)
        /\ Len(b) = IF k + 1 <= Len(s) THEN Len(s) - (k + 1) + 1 ELSE 0
        /\ \A i \in 1..(Len(s) - (k + 1) + 1) : b[i] = s[(k + 1) + i - 1]
    BY <1>1, <2>1, SubSeqProperties
  <2> HIDE DEF b
  <2>3. Len(s) - (k + 1) + 1 = Len(s) - k /\ \A i \in 1..(Len(s) - k) : (k + 1) + i - 1 = k + i
    BY <1>1
  <2>4. Len(b) = Len(s) - k
    BY <1>1, <2>2
  <2>5. \A i \in 1..(Len(s) - k) : b[i] = s[k + i]
    BY <2>2, <2>3
  <2> QED
    BY <2>2, <2>4, <2>5
<1> HIDE DEF a, b
<1>4. /\ \A x : x \in Elements(s) <=> \E i \in 1..Len(s) : s[i] = x
      /\ \A x : x \in Elements(a) <=> \E i \in 1..Len(a) : a[i] = x
      /\ \A x : x \in Elements(b) <=> \E i \in 1..Len(b) : b[i] = x
  BY <1>2, <1>3, ElementsTyped
<1>5. ASSUME NEW i \in 1..Len(s)
      PROVE  s[i] \in Elements(a) \cup {s[k]} \cup Elements(b)
  <2>1. CASE i < k
    <3>1. i \in 1..Len(a) /\ a[i] = s[i]
      BY <1>1, <1>2, <2>1
    <3> QED
      BY <1>4, <3>1
  <2>2. CASE i > k
    <3>1. i - k \in 1..Len(b) /\ k + (i - k) = i
      BY <1>1, <1>3, <2>2
    <3>2. b[i - k] = s[i]
      BY <1>3, <3>1
    <3> QED
      BY <1>4, <3>1, <3>2
  <2> QED
    BY <1>1, <2>1, <2>2
<1>6. \A i \in 1..Len(a) : i \in 1..Len(s) /\ a[i] = s[i]
  BY <1>1, <1>2
<1>7. \A i \in 1..Len(b) : k + i \in 1..Len(s) /\ b[i] = s[k + i]
  BY <1>1, <1>3
<1>8. Elements(s) = Elements(a) \cup {s[k]} \cup Elements(b)
  <2>1. Elements(s) \subseteq Elements(a) \cup {s[k]} \cup Elements(b)
    BY <1>4, <1>5
  <2>2. Elements(a) \subseteq Elements(s)
    BY <1>4, <1>6
  <2>3. Elements(b) \subseteq Elements(s)
    BY <1>4, <1>7
  <2>4. s[k] \in Elements(s)
    BY <1>1, <1>4
  <2> QED
    BY <2>1, <2>2, <2>3, <2>4
<1> QED
  BY <1>1, <1>2, <1>3, <1>8 DEF a, b

(* A chain holds providers only, and all of them unless there is no         *)
(* fallback.                                                                *)
LEMMA ChainsCover ==
    ASSUME order \in Orders, NEW pref \in Maybe, NEW kind
    PROVE  /\ Chain(pref, kind) \in Seq(Providers)
           /\ kind # "strict" \/ pref = NoProvider => Elements(Chain(pref, kind)) = Providers
<1> DEFINE n == Cardinality(Providers)
<1>1. /\ n \in Nat /\ order \in [1..n -> Providers] /\ Elements(order) = Providers
      /\ DOMAIN order = 1..n
  BY FS_CardinalityType, ProvidersAssumption DEF Orders
<1> HIDE DEF n
<1>2. CASE pref = NoProvider
  BY <1>1, <1>2 DEF Chain
<1>3. CASE pref # NoProvider /\ kind = "strict"
  BY <1>3, ProvidersAssumption DEF Chain, Maybe
<1>4. CASE pref # NoProvider /\ kind # "strict"
  <2> DEFINE place == CHOOSE i \in DOMAIN order : order[i] = pref
  <2> DEFINE new == [i \in 1..n |-> IF i = 1 THEN pref
                                    ELSE IF i <= place THEN order[i - 1] ELSE order[i]]
  <2>1. pref \in Providers
    BY <1>4 DEF Maybe
  <2>2. place \in 1..n /\ order[place] = pref
    <3>1. \E i \in DOMAIN order : order[i] = pref
      BY <1>1, <2>1 DEF Elements
    <3> QED
      BY <1>1, <3>1
  <2>3. Chain(pref, kind) = new
    BY <1>1, <1>4 DEF Chain, PreferredFirst
  <2> HIDE DEF place
  <2>4. new \in [1..n -> Providers]
    <3> SUFFICES ASSUME NEW i \in 1..n PROVE new[i] \in Providers
      OBVIOUS
    <3>1. CASE i = 1
      BY <2>1, <3>1
    <3>2. CASE i # 1 /\ i <= place
      <4>1. i - 1 \in 1..n
        BY <1>1, <3>2
      <4> QED
        BY <1>1, <3>2, <4>1
    <3>3. CASE i # 1 /\ ~(i <= place)
      BY <1>1, <3>3
    <3> QED
      BY <3>1, <3>2, <3>3
  <2>5. ASSUME NEW x \in Providers
        PROVE  \E i \in 1..n : new[i] = x
    <3>1. PICK j \in 1..n : order[j] = x
      BY <1>1 DEF Elements
    <3>2. CASE j < place
      <4>1. j + 1 \in 1..n /\ j + 1 # 1 /\ j + 1 <= place /\ j + 1 - 1 = j
        BY <1>1, <2>2, <3>2
      <4>2. new[j + 1] = order[j]
        BY <4>1
      <4> QED
        BY <3>1, <4>1, <4>2
    <3>3. CASE j = place
      <4>1. 1 \in 1..n /\ new[1] = pref
        BY <1>1, <2>2
      <4> QED
        BY <2>2, <3>1, <3>3, <4>1
    <3>4. CASE j > place
      <4>1. j # 1 /\ ~(j <= place)
        BY <1>1, <2>2, <3>4
      <4>2. new[j] = order[j]
        BY <4>1
      <4> QED
        BY <3>1, <4>2
    <3> QED
      BY <1>1, <2>2, <3>2, <3>3, <3>4
  <2>6. DOMAIN new = 1..n
    OBVIOUS
  <2> HIDE DEF new
  <2>7. new \in Seq(Providers)
    BY <1>1, <2>4
  <2>8. Elements(new) = Providers
    BY <2>4, <2>5, <2>6 DEF Elements
  <2> QED
    BY <2>3, <2>7, <2>8
<1> QED
  BY <1>2, <1>3, <1>4

(***************************************************************************)
(* The invariant                                                           *)
(***************************************************************************)
(* What a coroutine under way knows: it waits for a provider, an alert's    *)
(* chain is what failed, that one and the rest, and it sleeps only before   *)
(* another attempt.                                                         *)
Sound(r) ==
    /\ r.pc = "await" => r.at \in Providers
    /\ r.pc = "await" /\ r.kind = "alert" =>
         Elements(r.failed) \cup {r.at} \cup Elements(r.rest) = Providers
    /\ r.pc = "backoff" => r.attempt < MaxAttempts

Tried == \A c \in GivenUp : Elements(call[c].failed) = Providers

LlmInv ==
    /\ TypeOK /\ AttemptsAccounted /\ Tried
    /\ \A c \in Calls : Sound(call[c])

BreakerTyped(b) == b \in [Providers -> Engine]

QueueTyped(q) == q \in Seq(Calls) /\ Len(q) <= RetryLimit

LEMMA BreakerRecords ==
    ASSUME NEW e \in Engine, NEW n \in {0, 1, 2}
    PROVE  RecordFailure(e, n) \in Engine /\ RecordSuccess(e) \in Engine
<1>1. Threshold \in Nat \ {0}
  BY LimitsAssumption
<1> QED
  BY <1>1 DEF Engine, RecordFailure, RecordSuccess, Fresh

LEMMA PushedTyped ==
    ASSUME NEW q, QueueTyped(q), NEW c \in Calls
    PROVE  QueueTyped(Pushed(q, c))
<1>1. q \in Seq(Calls) /\ Len(q) \in Nat /\ Len(q) <= RetryLimit /\ RetryLimit \in Nat \ {0}
  BY LenProperties, LimitsAssumption DEF QueueTyped
<1>2. CASE Len(q) < RetryLimit
  BY <1>1, <1>2, AppendProperties DEF QueueTyped, Pushed
<1>3. CASE ~(Len(q) < RetryLimit)
  <2>1. q # <<>>
    BY <1>1, <1>3
  <2>2. Tail(q) \in Seq(Calls) /\ Len(Tail(q)) = Len(q) - 1
    BY <1>1, <2>1, HeadTailProperties
  <2>3. Append(Tail(q), c) \in Seq(Calls) /\ Len(Append(Tail(q), c)) = Len(q) - 1 + 1
    BY <2>2, AppendProperties
  <2>. QED
    BY <1>1, <1>3, <2>3 DEF QueueTyped, Pushed
<1>. QED
  BY <1>2, <1>3

LEMMA BreakersTyped ==
    ASSUME BreakerTyped(breaker), NEW failed, NEW used
    PROVE  /\ BreakerTyped(BreakerAfterFailure(failed, used))
           /\ BreakerTyped(BreakerAfterSuccess(failed, used))
           /\ \A p : BreakerTyped(BreakerAfterTest(p, used))
<1>1. \A p \in Providers : breaker[p] \in Engine
  BY DEF BreakerTyped
<1>2. \A p : Times(p, failed, used) \in {0, 1, 2} /\ Times(p, failed, NoProvider) \in {0, 1, 2}
  BY DEF Times
<1>3. BreakerTyped(BreakerAfterFailure(failed, used))
  BY <1>1, <1>2, BreakerRecords DEF BreakerTyped, BreakerAfterFailure
<1>4. BreakerTyped(BreakerAfterSuccess(failed, used))
  BY <1>1, <1>2, BreakerRecords DEF BreakerTyped, BreakerAfterSuccess
<1>5. ASSUME NEW p
      PROVE  BreakerTyped(BreakerAfterTest(p, used))
  <2>1. p \in Providers => RecordFailure(breaker[p], 1) \in Engine
    BY <1>1, BreakerRecords
  <2> QED
    BY <2>1 DEF BreakerTyped, BreakerAfterTest
<1> QED
  BY <1>3, <1>4, <1>5

LEMMA InFlightFinite ==
    ASSUME NEW p
    PROVE  /\ IsFiniteSet(InFlight(p)) /\ Cardinality(InFlight(p)) \in Nat
           /\ \A c : /\ IsFiniteSet(InFlight(p) \ {c})
                     /\ Cardinality(InFlight(p) \ {c}) \in Nat
                     /\ c \in InFlight(p) =>
                          Cardinality(InFlight(p) \ {c}) = Cardinality(InFlight(p)) - 1
<1>1. InFlight(p) \subseteq Calls
  BY DEF InFlight
<1>2. IsFiniteSet(InFlight(p))
  BY <1>1, FS_Subset, CallsAssumption
<1>3. \A c : IsFiniteSet(InFlight(p) \ {c})
  BY <1>2, FS_Subset
<1>4. \A c : c \in InFlight(p) =>
                Cardinality(InFlight(p) \ {c}) = Cardinality(InFlight(p)) - 1
  BY <1>2, FS_RemoveElement
<1> QED
  BY <1>2, <1>3, <1>4, FS_CardinalityType

(* A call that becomes n keeps the invariant, if the accounts of the other  *)
(* calls are right and its own request is added to them.                    *)
LEMMA BecomesSound ==
    ASSUME LlmInv, NEW c \in Calls, NEW n \in Locals, Sound(n),
           call' = [call EXCEPT ![c] = n],
           cancelled' \in [Providers -> Nat],
           unsettled' = [p \in Providers |-> unsettled'[p]],
           \A p \in Providers : unsettled'[p] =
              cancelled'[p] + Cardinality(InFlight(p) \ {c})
                + (IF n.pc = "await" /\ n.at = p THEN 1 ELSE 0),
           n.pc = "raised" => Elements(n.failed) = Providers
    PROVE  /\ call' \in [Calls -> Locals] /\ unsettled' \in [Providers -> Nat]
           /\ AttemptsAccounted' /\ Tried' /\ \A d \in Calls : Sound(call[d])'
<1>0. ASSUME NEW p
      PROVE  IsFiniteSet(InFlight(p) \ {c}) /\ Cardinality(InFlight(p) \ {c}) \in Nat
  BY InFlightFinite
<1>1. call \in [Calls -> Locals]
  BY DEF LlmInv, TypeOK
<1>2. call' \in [Calls -> Locals] /\ call'[c] = n /\ \A d \in Calls \ {c} : call'[d] = call[d]
  BY <1>1
<1>3. unsettled' \in [Providers -> Nat]
  <2>1. ASSUME NEW p \in Providers
        PROVE  unsettled'[p] \in Nat
    <3>1. Cardinality(InFlight(p) \ {c}) \in Nat /\ cancelled'[p] \in Nat
      BY <1>0
    <3> QED
      BY <3>1
  <2> DEFINE u == unsettled'
  <2>2. u = [p \in Providers |-> u[p]] /\ \A p \in Providers : u[p] \in Nat
    BY <2>1
  <2> HIDE DEF u
  <2>3. u \in [Providers -> Nat]
    BY <2>2
  <2> QED
    BY <2>3 DEF u
<1>4. AttemptsAccounted'
  <2> SUFFICES ASSUME NEW p \in Providers
               PROVE  unsettled'[p] = cancelled'[p] + Cardinality(InFlight(p)')
    BY DEF AttemptsAccounted
  <2>1. CASE n.pc = "await" /\ n.at = p
    <3>1. InFlight(p)' = (InFlight(p) \ {c}) \cup {c}
      BY <1>2, <2>1 DEF InFlight
    <3>2. Cardinality(InFlight(p)') = Cardinality(InFlight(p) \ {c}) + 1
      BY <1>0, <3>1, FS_AddElement
    <3>3. Cardinality(InFlight(p) \ {c}) \in Nat /\ cancelled'[p] \in Nat
      BY <1>0
    <3> QED
      BY <2>1, <3>2, <3>3
  <2>2. CASE ~(n.pc = "await" /\ n.at = p)
    <3>1. InFlight(p)' = InFlight(p) \ {c}
      BY <1>2, <2>2 DEF InFlight
    <3>2. Cardinality(InFlight(p) \ {c}) \in Nat /\ cancelled'[p] \in Nat
      BY <1>0
    <3> QED
      BY <2>2, <3>1, <3>2
  <2> QED
    BY <2>1, <2>2
<1>5. Tried'
  BY <1>2 DEF LlmInv, Tried, GivenUp
<1>6. ASSUME NEW d \in Calls
      PROVE  Sound(call[d])'
  <2>1. CASE d = c
    BY <1>2, <2>1 DEF Sound
  <2>2. CASE d # c
    BY <1>2, <2>2 DEF Sound, LlmInv
  <2> QED
    BY <2>1, <2>2
<1> QED
  BY <1>2, <1>3, <1>4, <1>5, <1>6

LEMMA UnstartedTyped == Unstarted \in Locals
<1>1. <<>> \in Seq(Providers) /\ 0 \in 0..MaxAttempts
  BY LimitsAssumption
<1> QED
  BY <1>1 DEF Unstarted, Locals, PCs, Kinds, Maybe

LEMMA EndedTyped ==
    ASSUME NEW pc \in PCs
    PROVE  /\ Ended(pc) \in Locals /\ Ended(pc).pc = pc
           /\ \A s \in Seq(Providers) : /\ [Ended(pc) EXCEPT !.failed = s] \in Locals
                                        /\ [Ended(pc) EXCEPT !.failed = s].pc = pc
                                        /\ [Ended(pc) EXCEPT !.failed = s].failed = s
<1> DEFINE n == [Unstarted EXCEPT !.pc = pc]
<1>1. n \in Locals /\ n.pc = pc
  BY UnstartedTyped DEF Locals
<1>2. n = Ended(pc)
  BY DEF Ended
<1> HIDE DEF n
<1>3. ASSUME NEW s \in Seq(Providers)
      PROVE  [n EXCEPT !.failed = s] \in Locals /\ [n EXCEPT !.failed = s].pc = pc
             /\ [n EXCEPT !.failed = s].failed = s
  BY <1>1 DEF Locals
<1> QED
  BY <1>1, <1>2, <1>3

(* The walk down a chain, from wherever it starts.                         *)
LEMMA WalkSound ==
    ASSUME LlmInv, NEW c \in Calls, NEW r \in Locals, NEW counts \in [Providers -> Nat],
           \A p \in Providers : counts[p] = cancelled[p] + Cardinality(InFlight(p) \ {c}),
           r.kind = "alert" => Elements(r.failed) \cup Elements(r.rest) = Providers,
           Walk(c, r, counts)
    PROVE  /\ call' \in [Calls -> Locals] /\ unsettled' \in [Providers -> Nat]
           /\ AttemptsAccounted' /\ Tried' /\ \A d \in Calls : Sound(call[d])'
           /\ BreakerTyped(breaker') /\ QueueTyped(retryQueue')
<1>1. /\ BreakerTyped(breaker) /\ QueueTyped(retryQueue)
      /\ cancelled' = cancelled /\ cancelled' \in [Providers -> Nat]
  BY DEF LlmInv, TypeOK, BreakerTyped, QueueTyped, Walk
<1>2. r.rest \in Seq(Providers) /\ r.failed \in Seq(Providers) /\ r.kind \in Kinds
      /\ r.attempt \in 0..MaxAttempts /\ r.at \in Maybe /\ r.pref \in Maybe
  BY DEF Locals
<1>3. CASE Send(c, r, counts)
  <2>1. PICK i \in NextInLine(r.rest) :
           /\ call' = [call EXCEPT ![c] =
                     [r EXCEPT !.pc = "await", !.at = r.rest[i],
                               !.rest = SubSeq(r.rest, i + 1, Len(r.rest)),
                               !.failed = r.failed \o SubSeq(r.rest, 1, i - 1)]]
           /\ unsettled' = [counts EXCEPT ![r.rest[i]] = counts[r.rest[i]] + 1]
           /\ UNCHANGED <<breaker, retryQueue>>
    BY <1>3 DEF Send
  <2>2. i \in 1..Len(r.rest)
    BY <1>2, LenProperties DEF NextInLine
  <2> DEFINE before == SubSeq(r.rest, 1, i - 1)
  <2> DEFINE after == SubSeq(r.rest, i + 1, Len(r.rest))
  <2> DEFINE n == [r EXCEPT !.pc = "await", !.at = r.rest[i],
                            !.rest = after, !.failed = r.failed \o before]
  <2>3. /\ before \in Seq(Providers) /\ after \in Seq(Providers) /\ r.rest[i] \in Providers
        /\ Elements(r.rest) = Elements(before) \cup {r.rest[i]} \cup Elements(after)
    BY <1>2, <2>2, ElementsSplit
  <2>4. call' = [call EXCEPT ![c] = n]
    BY <2>1
  <2> HIDE DEF before, after
  <2>5. /\ r.failed \o before \in Seq(Providers)
        /\ Elements(r.failed \o before) = Elements(r.failed) \cup Elements(before)
    BY <1>2, <2>3, ElementsConcat, ConcatProperties
  <2>6. /\ n.pc = "await" /\ n.at = r.rest[i] /\ n.kind = r.kind
        /\ n.rest = after /\ n.failed = r.failed \o before
    BY DEF Locals
  <2>7. n \in Locals
    BY <2>3, <2>5 DEF Locals, PCs, Maybe
  <2> HIDE DEF n
  <2>8. Sound(n)
    BY <2>3, <2>5, <2>6 DEF Sound
  <2>9. unsettled' = [p \in Providers |-> unsettled'[p]]
    BY <2>1
  <2>10. \A p \in Providers : unsettled'[p] =
            cancelled'[p] + Cardinality(InFlight(p) \ {c})
              + (IF n.pc = "await" /\ n.at = p THEN 1 ELSE 0)
    <3> SUFFICES ASSUME NEW p \in Providers
                 PROVE  unsettled'[p] = cancelled'[p] + Cardinality(InFlight(p) \ {c})
                          + (IF n.pc = "await" /\ n.at = p THEN 1 ELSE 0)
      OBVIOUS
    <3>1. counts[p] = cancelled'[p] + Cardinality(InFlight(p) \ {c}) /\ counts[p] \in Nat
      BY <1>1
    <3>2. unsettled'[p] = IF r.rest[i] = p THEN counts[p] + 1 ELSE counts[p]
      BY <2>1, <2>3
    <3> QED
      BY <2>6, <3>1, <3>2
  <2>11. retryQueue' = retryQueue /\ breaker' = breaker
    BY <2>1
  <2>12. n.pc # "raised"
    BY <2>6
  <2> QED
    BY <1>1, <2>4, <2>7, <2>8, <2>9, <2>10, <2>11, <2>12, BecomesSound
<1>4. CASE Exhausted(c, r, counts)
  <2> DEFINE done == [r EXCEPT !.failed = r.failed \o r.rest, !.rest = <<>>]
  <2>1. /\ RetryLater(c, done) \/ GiveUp(c, done) \/ ReportFailure(c, done)
        /\ unsettled' = counts
    BY <1>4 DEF Exhausted
  <2>2. /\ r.failed \o r.rest \in Seq(Providers)
        /\ Elements(r.failed \o r.rest) = Elements(r.failed) \cup Elements(r.rest)
    BY <1>2, ElementsConcat, ConcatProperties
  <2>3. /\ done \in Locals /\ done.failed = r.failed \o r.rest /\ done.kind = r.kind
        /\ done.attempt = r.attempt
    <3>1. <<>> \in Seq(Providers)
      OBVIOUS
    <3> QED
      BY <2>2, <3>1 DEF Locals
  <2>4. done.kind = "alert" => Elements(done.failed) = Providers
    BY <2>2, <2>3
  <2> HIDE DEF done
  <2>5. \E n \in Locals :
           /\ call' = [call EXCEPT ![c] = n] /\ Sound(n) /\ n.pc # "await"
           /\ n.pc = "raised" => Elements(n.failed) = Providers
    <3>1. CASE RetryLater(c, done)
      <4> DEFINE n == [done EXCEPT !.pc = "backoff"]
      <4>1. n \in Locals /\ n.pc = "backoff" /\ n.attempt = done.attempt
        BY <2>3 DEF Locals, PCs
      <4>2. call' = [call EXCEPT ![c] = n] /\ done.attempt < MaxAttempts
        BY <3>1 DEF RetryLater
      <4> HIDE DEF n
      <4> QED
        BY <4>1, <4>2 DEF Sound
    <3>2. CASE GiveUp(c, done)
      <4> DEFINE n == [Ended("raised") EXCEPT !.failed = done.failed]
      <4>1. n \in Locals /\ n.pc = "raised" /\ n.failed = done.failed
        <5>1. done.failed \in Seq(Providers) /\ "raised" \in PCs
          BY <2>2, <2>3 DEF PCs
        <5> QED
          BY <5>1, EndedTyped
      <4>2. call' = [call EXCEPT ![c] = n] /\ done.kind = "alert"
        BY <3>2 DEF GiveUp
      <4> HIDE DEF n
      <4> QED
        BY <2>4, <4>1, <4>2 DEF Sound
    <3>3. CASE ReportFailure(c, done)
      <4>1. Ended("failed") \in Locals /\ Ended("failed").pc = "failed"
        BY EndedTyped DEF PCs
      <4>2. call' = [call EXCEPT ![c] = Ended("failed")]
        BY <3>3 DEF ReportFailure
      <4> QED
        BY <4>1, <4>2 DEF Sound
    <3> QED
      BY <2>1, <3>1, <3>2, <3>3
  <2>6. BreakerTyped(breaker') /\ QueueTyped(retryQueue')
    <3>1. QueueTyped(Pushed(retryQueue, c))
      BY <1>1, PushedTyped
    <3>. QED
      BY <1>1, <2>1, <3>1, BreakersTyped DEF RetryLater, GiveUp, ReportFailure, EnqueueRetry
  <2>7. PICK n \in Locals :
           /\ call' = [call EXCEPT ![c] = n] /\ Sound(n) /\ n.pc # "await"
           /\ n.pc = "raised" => Elements(n.failed) = Providers
    BY <2>5
  <2>8. unsettled' = [p \in Providers |-> unsettled'[p]]
    BY <2>1
  <2>9. \A p \in Providers : unsettled'[p] =
            cancelled'[p] + Cardinality(InFlight(p) \ {c})
              + (IF n.pc = "await" /\ n.at = p THEN 1 ELSE 0)
    <3> SUFFICES ASSUME NEW p \in Providers
                 PROVE  unsettled'[p] = cancelled'[p] + Cardinality(InFlight(p) \ {c}) + 0
      BY <2>7
    <3>1. counts[p] = cancelled'[p] + Cardinality(InFlight(p) \ {c}) /\ counts[p] \in Nat
      BY <1>1
    <3> QED
      BY <2>1, <3>1, InFlightFinite
  <2> QED
    BY <1>1, <2>6, <2>7, <2>8, <2>9, BecomesSound
<1> QED
  BY <1>3, <1>4 DEF Walk

(***************************************************************************)
(* The steps                                                               *)
(***************************************************************************)
(* What a call's own steps leave to the probes and the operator.           *)
SharedTyped ==
    /\ interventions \in 0..MaxOperator
    /\ order \in Orders /\ forced \in Maybe
    /\ authFailed \in [Providers -> BOOLEAN]
    /\ cooldown \in [Providers -> 0..(LongCooldown + ShortCooldown)]
    /\ cancelled \in [Providers -> Nat]
    /\ probing \subseteq Probed /\ cleared \subseteq Calls

LEMMA InvFromParts ==
    ASSUME SharedTyped', call' \in [Calls -> Locals], unsettled' \in [Providers -> Nat],
           AttemptsAccounted', Tried', \A d \in Calls : Sound(call[d])',
           BreakerTyped(breaker'), QueueTyped(retryQueue')
    PROVE  LlmInv'
  BY DEF LlmInv, TypeOK, SharedTyped, BreakerTyped, QueueTyped

LEMMA CooldownsTyped ==
    ASSUME cooldown \in [Providers -> 0..(LongCooldown + ShortCooldown)], NEW p
    PROVE  \A t \in {0, LongCooldown, ShortCooldown} :
             [cooldown EXCEPT ![p] = t] \in [Providers -> 0..(LongCooldown + ShortCooldown)]
<1>1. \A t \in {0, LongCooldown, ShortCooldown} : t \in 0..(LongCooldown + ShortCooldown)
  BY LimitsAssumption
<1> QED
  BY <1>1

LEMMA NotCounted ==
    ASSUME LlmInv, NEW c \in Calls, call[c].pc # "await"
    PROVE  \A p \in Providers : unsettled[p] = cancelled[p] + Cardinality(InFlight(p) \ {c})
<1> SUFFICES ASSUME NEW p \in Providers
             PROVE  unsettled[p] = cancelled[p] + Cardinality(InFlight(p) \ {c})
  OBVIOUS
<1>1. InFlight(p) \ {c} = InFlight(p)
  BY DEF InFlight
<1> QED
  BY <1>1 DEF LlmInv, AttemptsAccounted

LEMMA SettledCounts ==
    ASSUME LlmInv, NEW c \in Calls, call[c].pc = "await"
    PROVE  LET counts == [unsettled EXCEPT ![call[c].at] = @ - 1]
           IN  /\ counts \in [Providers -> Nat] /\ call[c].at \in Providers
               /\ \A p \in Providers :
                    counts[p] = cancelled[p] + Cardinality(InFlight(p) \ {c})
<1> DEFINE counts == [unsettled EXCEPT ![call[c].at] = @ - 1]
<1>1. /\ call[c].at \in Providers
      /\ unsettled \in [Providers -> Nat] /\ cancelled \in [Providers -> Nat]
  BY DEF LlmInv, Sound, TypeOK
<1>2. ASSUME NEW p \in Providers
      PROVE  counts[p] = cancelled[p] + Cardinality(InFlight(p) \ {c}) /\ counts[p] \in Nat
  <2>1. unsettled[p] = cancelled[p] + Cardinality(InFlight(p)) /\ cancelled[p] \in Nat
    BY <1>1 DEF LlmInv, AttemptsAccounted
  <2>2. Cardinality(InFlight(p)) \in Nat /\ Cardinality(InFlight(p) \ {c}) \in Nat
    BY InFlightFinite
  <2>3. CASE p = call[c].at
    <3>1. c \in InFlight(p)
      BY <2>3 DEF InFlight
    <3>2. Cardinality(InFlight(p) \ {c}) = Cardinality(InFlight(p)) - 1
      BY <3>1, InFlightFinite
    <3>3. counts[p] = unsettled[p] - 1
      BY <1>1, <2>3
    <3> QED
      BY <2>1, <2>2, <3>2, <3>3
  <2>4. CASE p # call[c].at
    <3>1. InFlight(p) \ {c} = InFlight(p)
      BY <2>4 DEF InFlight
    <3>2. counts[p] = unsettled[p]
      BY <1>1, <2>4
    <3> HIDE DEF counts
    <3>3. Cardinality(InFlight(p) \ {c}) = Cardinality(InFlight(p))
      BY <3>1
    <3>4. counts[p] = cancelled[p] + Cardinality(InFlight(p))
      BY <2>1, <3>2
    <3> QED
      BY <2>1, <2>2, <3>3, <3>4
  <2> QED
    BY <2>3, <2>4
<1>3. counts \in [Providers -> Nat]
  <2>1. counts = [p \in Providers |-> counts[p]]
    BY <1>1
  <2> HIDE DEF counts
  <2> QED
    BY <1>2, <2>1
<1> QED
  BY <1>1, <1>2, <1>3

(* What a call walks with.                                                 *)
Covering(r) == r.kind = "alert" => Elements(r.failed) \cup Elements(r.rest) = Providers

LEMMA BeginWalks ==
    ASSUME LlmInv, NEW c \in Calls, Begin(c)
    PROVE  \E r \in Locals : Covering(r) /\ Walk(c, r, unsettled)
<1>0. PICK kind \in Kinds : \E pref \in Preferences(kind) :
         Walk(c, [Unstarted EXCEPT !.kind = kind, !.pref = pref, !.attempt = 1,
                                   !.rest = Chain(pref, kind)], unsettled)
  BY DEF Begin
<1>1. PICK pref \in Preferences(kind) :
         Walk(c, [Unstarted EXCEPT !.kind = kind, !.pref = pref, !.attempt = 1,
                                   !.rest = Chain(pref, kind)], unsettled)
  BY <1>0
<1> DEFINE r == [Unstarted EXCEPT !.kind = kind, !.pref = pref, !.attempt = 1,
                                  !.rest = Chain(pref, kind)]
<1>2. pref \in Maybe /\ (kind = "alert" => pref \in Providers \cup {forced})
  BY DEF Preferences, Maybe, LlmInv, TypeOK
<1>3. /\ Chain(pref, kind) \in Seq(Providers)
      /\ kind = "alert" => Elements(Chain(pref, kind)) = Providers
  <2>1. order \in Orders
    BY DEF LlmInv, TypeOK
  <2> QED
    BY <1>2, <2>1, ChainsCover
<1>4. 1 \in 0..MaxAttempts
  BY LimitsAssumption
<1>5. r \in Locals /\ r.kind = kind /\ r.rest = Chain(pref, kind) /\ r.failed = <<>>
  <2>1. Unstarted \in Locals /\ Unstarted.failed = <<>>
    BY UnstartedTyped DEF Unstarted
  <2> QED
    BY <1>2, <1>3, <1>4, <2>1 DEF Locals
<1>6. Walk(c, r, unsettled)
  BY <1>1
<1> HIDE DEF r
<1>7. Covering(r)
  BY <1>3, <1>5, ElementsEmpty DEF Covering
<1> QED
  BY <1>5, <1>6, <1>7

LEMMA BeginKeeps ==
    ASSUME LlmInv, NEW c \in Calls, Begin(c)
    PROVE  LlmInv'
<1>6. PICK r \in Locals : Covering(r) /\ Walk(c, r, unsettled)
  BY BeginWalks
<1>8. /\ \A p \in Providers : unsettled[p] = cancelled[p] + Cardinality(InFlight(p) \ {c})
      /\ unsettled \in [Providers -> Nat]
  <2>1. call[c].pc # "await"
    BY DEF Begin
  <2> QED
    BY <2>1, NotCounted DEF LlmInv, TypeOK
<1>9. SharedTyped'
  BY <1>6 DEF Begin, Walk, SharedTyped, LlmInv, TypeOK
<1> QED
  BY <1>6, <1>8, <1>9, WalkSound, InvFromParts DEF Covering

LEMMA WakeWalks ==
    ASSUME LlmInv, NEW c \in Calls, Wake(c)
    PROVE  \E r \in Locals : Covering(r) /\ Walk(c, r, unsettled)
<1> DEFINE r == [call[c] EXCEPT !.attempt = @ + 1, !.at = NoProvider, !.failed = <<>>,
                                !.rest = Chain(call[c].pref, "alert")]
<1>1. call[c] \in Locals /\ call[c].pc = "backoff" /\ call[c].attempt < MaxAttempts
  BY DEF LlmInv, TypeOK, Sound, Wake, BackoffOver
<1>2. Walk(c, r, unsettled)
  BY DEF Wake
<1>3. /\ Chain(call[c].pref, "alert") \in Seq(Providers)
      /\ Elements(Chain(call[c].pref, "alert")) = Providers
  <2>1. order \in Orders /\ call[c].pref \in Maybe
    BY <1>1 DEF LlmInv, TypeOK, Locals
  <2> QED
    BY <2>1, ChainsCover
<1>4. /\ call[c].attempt + 1 \in 0..MaxAttempts
      /\ NoProvider \in Maybe /\ <<>> \in Seq(Providers)
  BY <1>1, LimitsAssumption DEF Locals, Maybe
<1>5. r \in Locals /\ r.rest = Chain(call[c].pref, "alert") /\ r.failed = <<>>
  BY <1>1, <1>3, <1>4 DEF Locals
<1> HIDE DEF r
<1>6. Covering(r)
  BY <1>3, <1>5, ElementsEmpty DEF Covering
<1> QED
  BY <1>2, <1>5, <1>6

LEMMA WakeKeeps ==
    ASSUME LlmInv, NEW c \in Calls, Wake(c)
    PROVE  LlmInv'
<1>1. call[c].pc = "backoff" /\ UNCHANGED <<authFailed, cooldown>>
  BY DEF Wake, BackoffOver
<1>2. PICK r \in Locals : Covering(r) /\ Walk(c, r, unsettled)
  BY WakeWalks
<1>7. /\ \A p \in Providers : unsettled[p] = cancelled[p] + Cardinality(InFlight(p) \ {c})
      /\ unsettled \in [Providers -> Nat]
  BY <1>1, NotCounted DEF LlmInv, TypeOK
<1>8. SharedTyped'
  BY <1>1, <1>2 DEF Walk, SharedTyped, LlmInv, TypeOK
<1> QED
  BY <1>2, <1>7, <1>8, WalkSound, InvFromParts DEF Covering

LEMMA SucceedsKeeps ==
    ASSUME LlmInv, NEW c \in Calls, Succeeds(c)
    PROVE  LlmInv'
<1> DEFINE counts == [unsettled EXCEPT ![call[c].at] = @ - 1]
<1> DEFINE n == Ended("answered")
<1>1. /\ call[c].pc = "await" /\ call' = [call EXCEPT ![c] = n] /\ unsettled' = counts
      /\ UNCHANGED <<order, forced, authFailed, cooldown, cancelled, probing,
                     retryQueue, cleared, interventions>>
  BY DEF Succeeds
<1>2. /\ counts \in [Providers -> Nat]
      /\ \A p \in Providers : counts[p] = cancelled[p] + Cardinality(InFlight(p) \ {c})
  BY <1>1, SettledCounts
<1>3. n \in Locals /\ n.pc = "answered"
  BY EndedTyped DEF PCs
<1> HIDE DEF counts, n
<1>4. Sound(n)
  BY <1>3 DEF Sound
<1>5. \A p \in Providers : unsettled'[p] =
         cancelled'[p] + Cardinality(InFlight(p) \ {c})
           + (IF n.pc = "await" /\ n.at = p THEN 1 ELSE 0)
  <2> SUFFICES ASSUME NEW p \in Providers
               PROVE  unsettled'[p] = cancelled'[p] + Cardinality(InFlight(p) \ {c}) + 0
    BY <1>3
  <2>1. cancelled'[p] \in Nat
    BY <1>1 DEF LlmInv, TypeOK
  <2> QED
    BY <1>1, <1>2, <2>1, InFlightFinite
<1>6. SharedTyped' /\ cancelled' \in [Providers -> Nat] /\ QueueTyped(retryQueue')
  BY <1>1 DEF SharedTyped, LlmInv, TypeOK, QueueTyped
<1>7. BreakerTyped(breaker')
  <2>1. BreakerTyped(breaker)
    BY DEF LlmInv, TypeOK, BreakerTyped
  <2> QED
    BY <2>1, BreakersTyped DEF Succeeds
<1>8. unsettled' = [p \in Providers |-> unsettled'[p]]
  BY <1>1, <1>2
<1>9. n.pc # "raised"
  BY <1>3
<1> QED
  BY <1>1, <1>3, <1>4, <1>5, <1>6, <1>7, <1>8, <1>9, BecomesSound, InvFromParts

LEMMA FailsWalks ==
    ASSUME LlmInv, NEW c \in Calls, NEW outcome \in Errors, Fails(c, outcome)
    PROVE  \E r \in Locals :
             Covering(r) /\ Walk(c, r, [unsettled EXCEPT ![call[c].at] = @ - 1])
<1> DEFINE counts == [unsettled EXCEPT ![call[c].at] = @ - 1]
<1> DEFINE p0 == call[c].at
<1> DEFINE r == [call[c] EXCEPT !.failed = Append(@, p0)]
<1>1. call[c].pc = "await" /\ Walk(c, r, counts)
  BY DEF Fails, SettledFailure
<1>2. p0 \in Providers
  BY <1>1, SettledCounts
<1>3. call[c] \in Locals /\ Sound(call[c]) /\ call[c].failed \in Seq(Providers)
  BY DEF LlmInv, TypeOK, Locals
<1>4. /\ Append(call[c].failed, p0) \in Seq(Providers)
      /\ Elements(Append(call[c].failed, p0)) = Elements(call[c].failed) \cup {p0}
  BY <1>2, <1>3, ElementsAppend
<1>5. r \in Locals /\ r.failed = Append(call[c].failed, p0) /\ r.kind = call[c].kind
      /\ r.rest = call[c].rest
  BY <1>3, <1>4 DEF Locals
<1> HIDE DEF counts, r
<1>6. Covering(r)
  BY <1>1, <1>3, <1>4, <1>5 DEF Sound, Covering
<1> QED
  BY <1>1, <1>5, <1>6 DEF counts

LEMMA FailsKeeps ==
    ASSUME LlmInv, NEW c \in Calls, NEW outcome \in Errors, Fails(c, outcome)
    PROVE  LlmInv'
<1> DEFINE counts == [unsettled EXCEPT ![call[c].at] = @ - 1]
<1> DEFINE p0 == call[c].at
<1>1. call[c].pc = "await" /\ Latch(p0, outcome) /\ CoolDown(p0, outcome)
  BY DEF Fails
<1>2. /\ counts \in [Providers -> Nat] /\ p0 \in Providers
      /\ \A p \in Providers : counts[p] = cancelled[p] + Cardinality(InFlight(p) \ {c})
  BY <1>1, SettledCounts
<1>5. PICK r \in Locals : Covering(r) /\ Walk(c, r, counts)
  BY FailsWalks
<1> HIDE DEF counts
<1>7. /\ authFailed' \in [Providers -> BOOLEAN]
      /\ cooldown' \in [Providers -> 0..(LongCooldown + ShortCooldown)]
  <2>1. /\ authFailed \in [Providers -> BOOLEAN]
        /\ cooldown \in [Providers -> 0..(LongCooldown + ShortCooldown)]
    BY DEF LlmInv, TypeOK
  <2>2. authFailed' \in [Providers -> BOOLEAN]
    BY <1>1, <2>1 DEF Latch
  <2>3. cooldown' \in [Providers -> 0..(LongCooldown + ShortCooldown)]
    BY <1>1, <2>1, CooldownsTyped DEF CoolDown
  <2> QED
    BY <2>2, <2>3
<1>8. SharedTyped'
  BY <1>5, <1>7 DEF Walk, SharedTyped, LlmInv, TypeOK
<1> QED
  BY <1>2, <1>5, <1>8, WalkSound, InvFromParts DEF Covering

LEMMA TimesOutKeeps ==
    ASSUME LlmInv, NEW c \in Calls, TimesOut(c)
    PROVE  LlmInv'
<1> DEFINE p0 == call[c].at
<1> DEFINE n == Ended("failed")
<1>1. /\ call[c].pc = "await" /\ call' = [call EXCEPT ![c] = n]
      /\ cancelled' = [cancelled EXCEPT ![p0] = @ + 1]
      /\ UNCHANGED <<order, forced, authFailed, cooldown, unsettled,
                     breaker, probing, retryQueue, cleared, interventions>>
  BY DEF TimesOut
<1>2. /\ [unsettled EXCEPT ![p0] = @ - 1] \in [Providers -> Nat] /\ p0 \in Providers
      /\ \A p \in Providers : [unsettled EXCEPT ![p0] = @ - 1][p]
            = cancelled[p] + Cardinality(InFlight(p) \ {c})
  BY <1>1, SettledCounts
<1>3. n \in Locals /\ n.pc = "failed"
  BY EndedTyped DEF PCs
<1> HIDE DEF n
<1>4. Sound(n)
  BY <1>3 DEF Sound
<1>5. unsettled \in [Providers -> Nat] /\ cancelled \in [Providers -> Nat]
  BY DEF LlmInv, TypeOK
<1>6. \A p \in Providers : unsettled'[p] =
         cancelled'[p] + Cardinality(InFlight(p) \ {c})
           + (IF n.pc = "await" /\ n.at = p THEN 1 ELSE 0)
  <2> SUFFICES ASSUME NEW p \in Providers
               PROVE  unsettled'[p] = cancelled'[p] + Cardinality(InFlight(p) \ {c}) + 0
    BY <1>3
  <2>0. unsettled'[p] = unsettled[p] /\ cancelled'[p] \in Nat
    BY <1>1, <1>5
  <2>1. Cardinality(InFlight(p) \ {c}) \in Nat
    BY InFlightFinite
  <2>2. CASE p = p0
    <3>1. unsettled[p] - 1 = cancelled[p] + Cardinality(InFlight(p) \ {c})
      BY <1>2, <1>5, <2>2
    <3>2. cancelled'[p] = cancelled[p] + 1
      BY <1>1, <1>5, <2>2
    <3> QED
      BY <1>5, <2>0, <2>1, <3>1, <3>2
  <2>3. CASE p # p0
    <3>1. unsettled[p] = cancelled[p] + Cardinality(InFlight(p) \ {c})
      BY <1>2, <1>5, <2>3
    <3>2. cancelled'[p] = cancelled[p]
      BY <1>1, <1>5, <2>3
    <3> QED
      BY <2>0, <2>1, <3>1, <3>2
  <2> QED
    BY <2>2, <2>3
<1>7. cancelled' \in [Providers -> Nat]
  <2>1. cancelled[p0] + 1 \in Nat
    BY <1>2, <1>5
  <2> QED
    BY <1>1, <1>5, <2>1
<1>8. SharedTyped' /\ QueueTyped(retryQueue') /\ BreakerTyped(breaker')
  BY <1>1, <1>7 DEF SharedTyped, LlmInv, TypeOK, BreakerTyped, QueueTyped
<1>9. unsettled' = [p \in Providers |-> unsettled'[p]]
  BY <1>1, <1>5
<1>10. n.pc # "raised"
  BY <1>3
<1> QED
  BY <1>1, <1>3, <1>4, <1>6, <1>7, <1>8, <1>9, <1>10, BecomesSound, InvFromParts

(* Steps of the probes, the operator and the clock leave the calls alone.  *)
LEMMA CallsKept ==
    ASSUME LlmInv, UNCHANGED <<call, unsettled, cancelled>>,
           SharedTyped', BreakerTyped(breaker'), QueueTyped(retryQueue')
    PROVE  LlmInv'
<1>1. AttemptsAccounted' /\ \A d \in Calls : Sound(call[d])'
  BY DEF LlmInv, AttemptsAccounted, InFlight, Sound
<1>2. Tried'
  BY DEF LlmInv, Tried, GivenUp
<1>3. call' \in [Calls -> Locals] /\ unsettled' \in [Providers -> Nat]
  BY DEF LlmInv, TypeOK
<1> QED
  BY <1>1, <1>2, <1>3, InvFromParts

LEMMA OthersKeep ==
    ASSUME LlmInv,
           \/ \E p \in Providers, outcome \in Errors \cup {"success"} : ProbeAnswers(p, outcome)
           \/ Operator
           \/ Tick
           \/ UNCHANGED vars
    PROVE  LlmInv'
<1>1. SharedTyped /\ BreakerTyped(breaker) /\ QueueTyped(retryQueue)
  BY DEF LlmInv, TypeOK, SharedTyped, BreakerTyped, QueueTyped
<1>2. ASSUME NEW p \in Providers, NEW outcome \in Errors \cup {"success"}, ProbeAnswers(p, outcome)
      PROVE  LlmInv'
  <2>1. /\ authFailed' \in [Providers -> BOOLEAN]
        /\ cooldown' \in [Providers -> 0..(LongCooldown + ShortCooldown)]
    <3>1. cooldown' \in {cooldown} \cup {[cooldown EXCEPT ![p] = t] :
                                          t \in {0, LongCooldown, ShortCooldown}}
      BY <1>2 DEF ProbeAnswers
    <3>2. cooldown' \in [Providers -> 0..(LongCooldown + ShortCooldown)]
      BY <1>1, <3>1, CooldownsTyped DEF SharedTyped
    <3>3. authFailed' \in [Providers -> BOOLEAN]
      BY <1>1, <1>2 DEF ProbeAnswers, SharedTyped
    <3> QED
      BY <3>2, <3>3
  <2> QED
    BY <1>1, <1>2, <2>1, CallsKept DEF ProbeAnswers, SharedTyped
<1>3. CASE Operator
  <2>1. AllClosed \in [Providers -> Engine] /\ Fresh \in Engine
    BY LimitsAssumption DEF AllClosed, Fresh, Engine
  <2>2. BreakerTyped(breaker')
    BY <1>1, <1>3, <2>1 DEF Operator, RetryAll, ResetBreakers, ClearRetryQueue, ResetBreaker,
       Enable, ForceProvider, SetPriorityOrder, BreakerTyped, AllClosed
  <2>3. SharedTyped'
    <3>1. interventions' \in 0..MaxOperator
      BY <1>1, <1>3, LimitsAssumption DEF Operator, SharedTyped
    <3>2. /\ authFailed' \in [Providers -> BOOLEAN]
          /\ cooldown' \in [Providers -> 0..(LongCooldown + ShortCooldown)]
      <4>1. /\ [p \in Providers |-> FALSE] \in [Providers -> BOOLEAN]
            /\ [p \in Providers |-> 0] \in [Providers -> 0..(LongCooldown + ShortCooldown)]
        BY LimitsAssumption
      <4>2. \/ UNCHANGED cooldown
            \/ cooldown' = [p \in Providers |-> 0]
        BY <1>3 DEF Operator, RetryAll, ResetBreakers, ClearRetryQueue,
           ResetBreaker, Enable, ForceProvider, SetPriorityOrder
      <4>3. \/ UNCHANGED authFailed
            \/ authFailed' = [p \in Providers |-> FALSE]
            \/ \E p \in Providers : authFailed' = [authFailed EXCEPT ![p] = FALSE]
        BY <1>3 DEF Operator, RetryAll, ResetBreakers, ClearRetryQueue,
           ResetBreaker, Enable, ForceProvider, SetPriorityOrder
      <4>4. cooldown' \in [Providers -> 0..(LongCooldown + ShortCooldown)]
        BY <1>1, <4>1, <4>2 DEF SharedTyped
      <4>5. authFailed' \in [Providers -> BOOLEAN]
        BY <1>1, <4>1, <4>3 DEF SharedTyped
      <4> QED
        BY <4>4, <4>5
    <3>3. Elements(retryQueue) \subseteq Calls
      BY <1>1, ElementsTyped DEF QueueTyped
    <3> QED
      BY <1>1, <1>3, <3>1, <3>2, <3>3 DEF Operator, RetryAll, ResetBreakers, ClearRetryQueue,
         ResetBreaker, Enable, ForceProvider, SetPriorityOrder, SharedTyped
  <2>4. UNCHANGED <<call, unsettled, cancelled>> /\ QueueTyped(retryQueue')
    <3>1. QueueTyped(<<>>)
      BY LimitsAssumption DEF QueueTyped
    <3>. QED
      BY <1>1, <1>3, <3>1 DEF Operator, RetryAll, ResetBreakers, ClearRetryQueue, ResetBreaker,
         Enable, ForceProvider, SetPriorityOrder
  <2> QED
    BY <2>2, <2>3, <2>4, CallsKept
<1>4. CASE Tick
  <2>1. cooldown' \in [Providers -> 0..(LongCooldown + ShortCooldown)]
    BY <1>1, <1>4, LimitsAssumption DEF Tick, SharedTyped
  <2> QED
    BY <1>1, <1>4, <2>1, CallsKept DEF Tick, SharedTyped
<1>5. CASE UNCHANGED vars
  BY <1>1, <1>5, CallsKept DEF vars, SharedTyped
<1> QED
  BY <1>2, <1>3, <1>4, <1>5

LEMMA LlmStarts == Init => LlmInv
<1> SUFFICES ASSUME Init PROVE LlmInv
  OBVIOUS
<1>1. call = [c \in Calls |-> Unstarted] /\ Unstarted.pc = "idle"
  BY DEF Init, Unstarted
<1>2. TypeOK
  <2>1. Fresh \in Engine /\ <<>> \in Seq(Calls) /\ Len(<<>>) = 0
    BY LimitsAssumption DEF Fresh, Engine
  <2>2. order \in Orders
    BY PriorityAssumption DEF Init
  <2> QED
    BY <1>1, <2>1, <2>2, UnstartedTyped, LimitsAssumption DEF Init, TypeOK, Maybe
<1>3. AttemptsAccounted
  <2> SUFFICES ASSUME NEW p \in Providers
               PROVE  unsettled[p] = cancelled[p] + Cardinality(InFlight(p))
    BY DEF AttemptsAccounted
  <2>1. InFlight(p) = {}
    BY <1>1 DEF InFlight
  <2> QED
    BY <2>1, FS_EmptySet DEF Init
<1>4. Tried /\ \A c \in Calls : Sound(call[c])
  BY <1>1 DEF Tried, GivenUp, Sound
<1> QED
  BY <1>2, <1>3, <1>4 DEF LlmInv

LEMMA LlmKept == LlmInv /\ [Next]_vars => LlmInv'
  BY BeginKeeps, WakeKeeps, SucceedsKeeps, FailsKeeps, TimesOutKeeps, OthersKeep DEF Next, Answers

(***************************************************************************)
(* What follows                                                            *)
(***************************************************************************)
LEMMA LlmInvariant == Spec => []LlmInv
  BY LlmStarts, LlmKept, PTL DEF Spec

(* However many calls are under way: what was attempted and neither         *)
(* succeeded nor failed is under way, or was cancelled by a race.           *)
THEOREM AttemptsAlwaysAccounted == Spec => []AttemptsAccounted
<1>1. LlmInv => AttemptsAccounted
  BY DEF LlmInv
<1> QED
  BY <1>1, LlmInvariant, PTL

(***************************************************************************)
(* The retry queue: no alert is in it twice, so when it is full and drops  *)
(* one, as many others as it holds have been given up.                     *)
(***************************************************************************)
Distinct(s) == \A i, j \in 1..Len(s) : s[i] = s[j] => i = j

RetryInv ==
    /\ Distinct(retryQueue) /\ Elements(retryQueue) \subseteq GivenUp
    /\ \A c \in GivenUp :
         \/ c \in Elements(retryQueue) \cup cleared
         \/ Cardinality(GivenUp \ {c}) >= RetryLimit

LEMMA DistinctAppend ==
    ASSUME NEW S, NEW s \in Seq(S), Distinct(s), NEW e \in S, e \notin Elements(s)
    PROVE  Distinct(Append(s, e)) /\ Elements(Append(s, e)) = Elements(s) \cup {e}
<1> DEFINE u == Append(s, e)
<1>1. /\ Len(u) = Len(s) + 1 /\ Len(s) \in Nat
      /\ \A i \in 1..Len(s) : u[i] = s[i] /\ s[i] # e
      /\ u[Len(s) + 1] = e
  <2>1. \A i \in 1..Len(s) : s[i] # e
    BY ElementsTyped
  <2>. QED
    BY <2>1, AppendProperties, LenProperties
<1> HIDE DEF u
<1>2. Distinct(u)
  <2> SUFFICES ASSUME NEW i \in 1..Len(u), NEW j \in 1..Len(u), u[i] = u[j] PROVE i = j
    BY DEF Distinct
  <2>1. (i \in 1..Len(s) \/ i = Len(s) + 1) /\ (j \in 1..Len(s) \/ j = Len(s) + 1)
    BY <1>1
  <2>2. CASE i \in 1..Len(s) /\ j \in 1..Len(s)
    BY <1>1, <2>2 DEF Distinct
  <2>. QED
    BY <1>1, <2>1, <2>2
<1>. QED
  BY <1>2, ElementsAppend DEF u

LEMMA DistinctTail ==
    ASSUME NEW S, NEW s \in Seq(S), Distinct(s), s # <<>>
    PROVE  /\ Tail(s) \in Seq(S) /\ Len(Tail(s)) = Len(s) - 1
           /\ Distinct(Tail(s)) /\ Elements(Tail(s)) \subseteq Elements(s)
<1> DEFINE u == Tail(s)
<1>1. /\ u \in Seq(S) /\ Len(u) = Len(s) - 1 /\ Len(s) \in Nat
      /\ \A i \in 1..Len(u) : u[i] = s[i + 1]
  BY HeadTailProperties, LenProperties
<1> HIDE DEF u
<1>2. \A i \in 1..Len(u) : i + 1 \in 1..Len(s)
  BY <1>1
<1>3. Distinct(u)
  <2> SUFFICES ASSUME NEW i \in 1..Len(u), NEW j \in 1..Len(u), u[i] = u[j] PROVE i = j
    BY DEF Distinct
  <2>1. i + 1 = j + 1
    BY <1>1, <1>2 DEF Distinct
  <2>. QED
    BY <2>1
<1>4. Elements(u) \subseteq Elements(s)
  <2> SUFFICES ASSUME NEW x \in Elements(u) PROVE x \in Elements(s)
    OBVIOUS
  <2>1. PICK i \in 1..Len(u) : u[i] = x
    BY <1>1, ElementsTyped
  <2>2. s[i + 1] = x /\ i + 1 \in 1..Len(s)
    BY <1>1, <1>2, <2>1
  <2>. QED
    BY <2>2, ElementsTyped
<1>. QED
  BY <1>1, <1>3, <1>4 DEF u

(* Distinct elements are as many as there are places.                      *)
LEMMA DistinctMany ==
    ASSUME NEW S, NEW s \in Seq(S), Distinct(s), NEW T, IsFiniteSet(T), Elements(s) \subseteq T
    PROVE  Len(s) <= Cardinality(T)
<1>1. Len(s) \in Nat /\ s \in [1..Len(s) -> S]
  BY LenProperties
<1>2. \A i \in 1..Len(s) : s[i] \in T
  BY ElementsTyped
<1>3. s \in [1..Len(s) -> T]
  BY <1>1, <1>2
<1>4. s \in Injection(1..Len(s), T)
  BY <1>3 DEF Distinct, Injection, IsInjective
<1>5. Cardinality(1..Len(s)) <= Cardinality(T)
  BY <1>4, FS_Injection
<1>6. Cardinality(1..Len(s)) = Len(s)
  <2>1. 1 \in Int /\ Len(s) \in Int
    BY <1>1
  <2>2. Cardinality(1..Len(s)) = IF 1 > Len(s) THEN 0 ELSE Len(s) - 1 + 1
    BY <2>1, FS_Interval
  <2>. QED
    BY <1>1, <2>2
<1>. QED
  BY <1>5, <1>6

LEMMA GivenUpFinite ==
    \A c : /\ IsFiniteSet(GivenUp \ {c}) /\ Cardinality(GivenUp \ {c}) \in Nat
           /\ IsFiniteSet(GivenUp' \ {c}) /\ Cardinality(GivenUp' \ {c}) \in Nat
           /\ GivenUp \subseteq GivenUp' =>
                Cardinality(GivenUp \ {c}) <= Cardinality(GivenUp' \ {c})
<1> SUFFICES ASSUME NEW c
             PROVE  /\ IsFiniteSet(GivenUp \ {c}) /\ Cardinality(GivenUp \ {c}) \in Nat
                    /\ IsFiniteSet(GivenUp' \ {c}) /\ Cardinality(GivenUp' \ {c}) \in Nat
                    /\ GivenUp \subseteq GivenUp' =>
                         Cardinality(GivenUp \ {c}) <= Cardinality(GivenUp' \ {c})
  OBVIOUS
<1>1. GivenUp \ {c} \subseteq Calls /\ GivenUp' \ {c} \subseteq Calls
  BY DEF GivenUp
<1>2. IsFiniteSet(GivenUp \ {c}) /\ IsFiniteSet(GivenUp' \ {c})
  BY <1>1, FS_Subset, CallsAssumption
<1>3. Cardinality(GivenUp \ {c}) \in Nat /\ Cardinality(GivenUp' \ {c}) \in Nat
  BY <1>2, FS_CardinalityType
<1>4. ASSUME GivenUp \subseteq GivenUp'
      PROVE  Cardinality(GivenUp \ {c}) <= Cardinality(GivenUp' \ {c})
  <2>1. GivenUp \ {c} \subseteq GivenUp' \ {c}
    BY <1>4
  <2>. QED
    BY <1>2, <2>1, FS_Subset
<1>. QED
  BY <1>2, <1>3, <1>4

(* One more alert is given up.                                             *)
LEMMA RetryPushed ==
    ASSUME RetryInv, QueueTyped(retryQueue), NEW c \in Calls, c \notin GivenUp,
           GivenUp' = GivenUp \cup {c}, cleared' = cleared,
           retryQueue' = Pushed(retryQueue, c)
    PROVE  RetryInv'
<1>1. /\ retryQueue \in Seq(Calls) /\ Len(retryQueue) \in Nat /\ RetryLimit \in Nat \ {0}
      /\ Len(retryQueue) <= RetryLimit
      /\ Distinct(retryQueue) /\ c \notin Elements(retryQueue)
  BY LenProperties, LimitsAssumption DEF QueueTyped, RetryInv
<1>2. CASE Len(retryQueue) < RetryLimit
  <2>1. retryQueue' = Append(retryQueue, c)
    BY <1>2 DEF Pushed
  <2>2. Distinct(retryQueue') /\ Elements(retryQueue') = Elements(retryQueue) \cup {c}
    BY <1>1, <2>1, DistinctAppend
  <2>3. ASSUME NEW d \in GivenUp'
        PROVE  d \in Elements(retryQueue') \cup cleared' \/ Cardinality(GivenUp' \ {d}) >= RetryLimit
    <3>1. CASE d = c
      BY <2>2, <3>1
    <3>2. CASE d # c
      <4>1. d \in GivenUp
        BY <2>3, <3>2
      <4>2. CASE d \in Elements(retryQueue) \cup cleared
        BY <2>2, <4>2
      <4>3. CASE Cardinality(GivenUp \ {d}) >= RetryLimit
        <5>1. /\ Cardinality(GivenUp \ {d}) \in Nat /\ Cardinality(GivenUp' \ {d}) \in Nat
              /\ Cardinality(GivenUp \ {d}) <= Cardinality(GivenUp' \ {d})
          BY GivenUpFinite
        <5>. QED
          BY <1>1, <4>3, <5>1
      <4>. QED
        BY <4>1, <4>2, <4>3 DEF RetryInv
    <3>. QED
      BY <3>1, <3>2
  <2>. QED
    BY <2>2, <2>3 DEF RetryInv, Distinct
<1>3. CASE ~(Len(retryQueue) < RetryLimit)
  <2> DEFINE u == Tail(retryQueue)
  <2>1. Len(retryQueue) = RetryLimit /\ retryQueue # <<>>
    BY <1>1, <1>3
  <2>2. /\ u \in Seq(Calls) /\ Len(u) = RetryLimit - 1
        /\ Distinct(u) /\ Elements(u) \subseteq Elements(retryQueue)
    BY <1>1, <2>1, DistinctTail
  <2>3. retryQueue' = Append(u, c)
    BY <1>3 DEF Pushed
  <2> HIDE DEF u
  <2>4. c \notin Elements(u)
    BY <1>1, <2>2
  <2>5. Distinct(retryQueue') /\ Elements(retryQueue') = Elements(u) \cup {c}
    BY <2>2, <2>3, <2>4, DistinctAppend
  <2>6. retryQueue' \in Seq(Calls) /\ Len(retryQueue') = RetryLimit
    <3>1. Append(u, c) \in Seq(Calls) /\ Len(Append(u, c)) = Len(u) + 1
      BY <2>2, AppendProperties
    <3>. QED
      BY <1>1, <2>2, <2>3, <3>1
  <2>7. Elements(retryQueue') \subseteq GivenUp'
    BY <2>2, <2>5 DEF RetryInv
  <2>8. ASSUME NEW d \in GivenUp', d \notin Elements(retryQueue')
        PROVE  Cardinality(GivenUp' \ {d}) >= RetryLimit
    <3>1. Elements(retryQueue') \subseteq GivenUp' \ {d} /\ IsFiniteSet(GivenUp' \ {d})
      BY <2>7, <2>8, GivenUpFinite
    <3>2. Len(retryQueue') <= Cardinality(GivenUp' \ {d})
      BY <2>5, <2>6, <3>1, DistinctMany
    <3>. QED
      BY <1>1, <2>6, <3>2, GivenUpFinite
  <2>. QED
    BY <2>5, <2>7, <2>8 DEF RetryInv, Distinct
<1>. QED
  BY <1>2, <1>3

(* No step but a walk that ends in giving up adds to the queue.            *)
LEMMA RetryMoves ==
    ASSUME LlmInv, [Next]_vars
    PROVE  \/ GivenUp' = GivenUp /\ retryQueue' = retryQueue /\ cleared' = cleared
           \/ /\ GivenUp' = GivenUp /\ retryQueue' = <<>>
              /\ cleared' = cleared \cup Elements(retryQueue)
           \/ \E c \in Calls \ GivenUp :
                /\ GivenUp' = GivenUp \cup {c} /\ cleared' = cleared
                /\ retryQueue' = Pushed(retryQueue, c)
<1>1. call \in [Calls -> Locals]
  BY DEF LlmInv, TypeOK
<1>2. ASSUME NEW c \in Calls, NEW n, call' = [call EXCEPT ![c] = n], call[c].pc # "raised"
      PROVE  GivenUp' = IF n.pc = "raised" THEN GivenUp \cup {c} ELSE GivenUp
  BY <1>1, <1>2 DEF GivenUp
<1>3. ASSUME NEW c \in Calls, NEW r, NEW counts, Walk(c, r, counts), call[c].pc # "raised",
             r \in Locals
      PROVE  \/ GivenUp' = GivenUp /\ retryQueue' = retryQueue /\ cleared' = cleared
             \/ /\ c \in Calls \ GivenUp
                /\ GivenUp' = GivenUp \cup {c} /\ cleared' = cleared
                /\ retryQueue' = Pushed(retryQueue, c)
  <2>1. cleared' = cleared /\ (Send(c, r, counts) \/ Exhausted(c, r, counts))
    BY <1>3 DEF Walk
  <2>2. CASE Send(c, r, counts)
    <3>1. PICK i \in NextInLine(r.rest) :
            /\ call' = [call EXCEPT ![c] =
                 [r EXCEPT !.pc = "await", !.at = r.rest[i],
                           !.rest = SubSeq(r.rest, i + 1, Len(r.rest)),
                           !.failed = r.failed \o SubSeq(r.rest, 1, i - 1)]]
            /\ retryQueue' = retryQueue
      BY <2>2 DEF Send
    <3> DEFINE n == [r EXCEPT !.pc = "await", !.at = r.rest[i],
                              !.rest = SubSeq(r.rest, i + 1, Len(r.rest)),
                              !.failed = r.failed \o SubSeq(r.rest, 1, i - 1)]
    <3>2. n.pc = "await" /\ call' = [call EXCEPT ![c] = n]
      BY <1>3, <3>1 DEF Locals
    <3> HIDE DEF n
    <3>3. GivenUp' = GivenUp
      BY <1>2, <1>3, <3>2
    <3>. QED
      BY <2>1, <3>1, <3>3
  <2>3. CASE Exhausted(c, r, counts)
    <3> DEFINE done == [r EXCEPT !.failed = r.failed \o r.rest, !.rest = <<>>]
    <3>1. RetryLater(c, done) \/ GiveUp(c, done) \/ ReportFailure(c, done)
      BY <2>3 DEF Exhausted
    <3>2. done = [done EXCEPT !.pc = r.pc] /\ [done EXCEPT !.pc = "backoff"].pc = "backoff"
      BY <1>3 DEF Locals
    <3> HIDE DEF done
    <3>3. CASE RetryLater(c, done)
      <4>1. call' = [call EXCEPT ![c] = [done EXCEPT !.pc = "backoff"]]
            /\ retryQueue' = retryQueue
        BY <3>3 DEF RetryLater
      <4>2. GivenUp' = GivenUp
        BY <1>2, <1>3, <3>2, <4>1
      <4>. QED
        BY <2>1, <4>1, <4>2
    <3>4. CASE GiveUp(c, done)
      <4>1. /\ call' = [call EXCEPT ![c] = [Ended("raised") EXCEPT !.failed = done.failed]]
            /\ retryQueue' = Pushed(retryQueue, c)
        BY <3>4 DEF GiveUp, EnqueueRetry
      <4>2. [Ended("raised") EXCEPT !.failed = done.failed].pc = "raised"
        BY DEF Ended, Unstarted
      <4>3. GivenUp' = GivenUp \cup {c}
        BY <1>2, <1>3, <4>1, <4>2
      <4>. QED
        BY <1>3, <2>1, <4>1, <4>3 DEF GivenUp
    <3>5. CASE ReportFailure(c, done)
      <4>1. call' = [call EXCEPT ![c] = Ended("failed")] /\ retryQueue' = retryQueue
        BY <3>5 DEF ReportFailure
      <4>2. Ended("failed").pc = "failed"
        BY DEF Ended, Unstarted
      <4>3. GivenUp' = GivenUp
        BY <1>2, <1>3, <4>1, <4>2
      <4>. QED
        BY <2>1, <4>1, <4>3
    <3>. QED
      BY <3>1, <3>3, <3>4, <3>5
  <2>. QED
    BY <2>1, <2>2, <2>3
<1>4. ASSUME NEW c \in Calls, NEW n, call' = [call EXCEPT ![c] = n],
             call[c].pc # "raised", n.pc # "raised", retryQueue' = retryQueue, cleared' = cleared
      PROVE  GivenUp' = GivenUp /\ retryQueue' = retryQueue /\ cleared' = cleared
  BY <1>2, <1>4
<1>5. ASSUME NEW c \in Calls, Succeeds(c) \/ TimesOut(c)
      PROVE  GivenUp' = GivenUp /\ retryQueue' = retryQueue /\ cleared' = cleared
  <2>1. /\ \E pc \in {"answered", "failed"} : call' = [call EXCEPT ![c] = Ended(pc)]
        /\ call[c].pc = "await" /\ retryQueue' = retryQueue /\ cleared' = cleared
    BY <1>5 DEF Succeeds, TimesOut
  <2>2. \A pc \in {"answered", "failed"} : Ended(pc).pc # "raised"
    BY DEF Ended, Unstarted
  <2>. QED
    BY <1>4, <2>1, <2>2
<1>6. ASSUME \/ \E p \in Providers, outcome \in Errors \cup {"success"} : ProbeAnswers(p, outcome)
             \/ Operator \/ Tick \/ UNCHANGED vars
      PROVE  /\ GivenUp' = GivenUp
             /\ \/ retryQueue' = retryQueue /\ cleared' = cleared
                \/ retryQueue' = <<>> /\ cleared' = cleared \cup Elements(retryQueue)
  <2>1. call' = call
    BY <1>6 DEF ProbeAnswers, Operator, Tick, vars
  <2>2. \/ retryQueue' = retryQueue /\ cleared' = cleared
        \/ retryQueue' = <<>> /\ cleared' = cleared \cup Elements(retryQueue)
    BY <1>6 DEF ProbeAnswers, Operator, Tick, vars, RetryAll, ResetBreakers, ClearRetryQueue,
       ResetBreaker, Enable, ForceProvider, SetPriorityOrder
  <2>. QED
    BY <2>1, <2>2 DEF GivenUp
<1>7. ASSUME NEW c \in Calls, Begin(c) \/ Wake(c) \/ \E outcome \in Errors : Fails(c, outcome)
      PROVE  \E r \in Locals : \E counts : Walk(c, r, counts) /\ call[c].pc # "raised"
  BY <1>7, BeginWalks, WakeWalks, FailsWalks DEF Begin, Wake, BackoffOver, Fails
<1>. QED
  BY <1>3, <1>5, <1>6, <1>7 DEF Next, Answers

LEMMA RetryKept == LlmInv /\ RetryInv /\ [Next]_vars => RetryInv'
<1> SUFFICES ASSUME LlmInv, RetryInv, [Next]_vars PROVE RetryInv'
  OBVIOUS
<1>1. QueueTyped(retryQueue)
  BY DEF LlmInv, TypeOK, QueueTyped
<1>2. ASSUME GivenUp' = GivenUp, retryQueue' = retryQueue, cleared' = cleared PROVE RetryInv'
  BY <1>2 DEF RetryInv, Distinct
<1>3. ASSUME GivenUp' = GivenUp, retryQueue' = <<>>, cleared' = cleared \cup Elements(retryQueue)
      PROVE  RetryInv'
  <2>1. Distinct(<<>>)
    BY DEF Distinct
  <2>. QED
    BY <1>3, <2>1, ElementsEmpty DEF RetryInv, Distinct
<1>. QED
  BY <1>1, <1>2, <1>3, RetryMoves, RetryPushed

(* However long the chain and whatever the operator does: an alert that is  *)
(* given up has been tried with, or skipped by, every provider, and it is   *)
(* kept for a retry until the operator clears the queue, or until as many   *)
(* other alerts have been given up as the queue holds.                      *)
THEOREM AlertsGivenUpHonestly == Spec => []GivenUpHonestly
<1>1. Init => RetryInv
  <2> SUFFICES ASSUME Init PROVE RetryInv
    OBVIOUS
  <2>1. GivenUp = {} /\ retryQueue = <<>>
    BY DEF Init, GivenUp, Unstarted
  <2>. QED
    BY <2>1, ElementsEmpty DEF RetryInv, Distinct
<1>2. LlmInv /\ RetryInv => GivenUpHonestly
  BY DEF LlmInv, Tried, RetryInv, GivenUpHonestly
<1>3. Spec => []RetryInv
  BY <1>1, RetryKept, LlmInvariant, PTL DEF Spec
<1> QED
  BY <1>2, <1>3, LlmInvariant, PTL

(* Every variable has its type, and the retry queue its bound.              *)
THEOREM LlmTypeCorrect == Spec => []TypeOK
<1>1. LlmInv => TypeOK
  BY DEF LlmInv
<1> QED
  BY <1>1, LlmInvariant, PTL

(* Only a probe or the operator, and the clock, make a provider usable      *)
(* again: no request does, however late it ends.                            *)
THEOREM RequestsNeverEnable == Spec => LiveStepsNeverEnable
<1> DEFINE Kept == call' # call => \A p \in Providers : ~Usable(p) => ~Usable(p)'
<1>1. ASSUME LlmInv, [Next]_vars
      PROVE  [Kept]_vars
  <2>1. ASSUME NEW c \in Calls, Begin(c) \/ Wake(c) \/ Succeeds(c) \/ TimesOut(c)
        PROVE  Kept
    <3>1. authFailed' = authFailed /\ cooldown' = cooldown
      BY <2>1 DEF Begin, Wake, Succeeds, TimesOut
    <3> QED
      BY <3>1 DEF Usable
  <2>2. ASSUME NEW c \in Calls, NEW outcome \in Errors, Fails(c, outcome)
        PROVE  Kept
    <3>1. /\ Latch(call[c].at, outcome) /\ CoolDown(call[c].at, outcome)
          /\ authFailed \in [Providers -> BOOLEAN]
          /\ cooldown \in [Providers -> 0..(LongCooldown + ShortCooldown)]
      BY <1>1, <2>2 DEF Fails, LlmInv, TypeOK
    <3> QED
      BY <3>1, LimitsAssumption DEF Usable, Latch, CoolDown
  <2>3. ASSUME \/ \E p \in Providers, outcome \in Errors \cup {"success"} : ProbeAnswers(p, outcome)
               \/ Operator
               \/ Tick
        PROVE  Kept
    BY <2>3 DEF ProbeAnswers, Operator, Tick
  <2> QED
    BY <1>1, <2>1, <2>2, <2>3 DEF Next, Answers
<1> QED
  BY <1>1, LlmInvariant, PTL DEF Spec, LiveStepsNeverEnable
============================================================================

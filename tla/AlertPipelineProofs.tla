----------------------- MODULE AlertPipelineProofs -----------------------
(***************************************************************************)
(* The pipeline only ever drives the limiter as the limiter allows, so its *)
(* guarantees hold of the whole; what is stored agrees with the answer; and *)
(* what the two caches hold bounds how long an analysis is used.           *)
(***************************************************************************)
EXTENDS AlertPipeline, AlertThrottleProofs

(* The limiter's variables move as the limiter moves them.                  *)
LEMMA LimiterStep == [Next]_vars => [ThrottleNext]_throttleVars
<1> SUFFICES ASSUME [Next]_vars PROVE [ThrottleNext]_throttleVars
  OBVIOUS
<1>1. ASSUME NEW a \in Alerts, Step(a) PROVE [ThrottleNext]_throttleVars
  <2>1. CASE Suppress(a)
    BY <2>1 DEF Suppress, ThrottleNext
  <2>2. CASE Arrive(a)
    BY <2>2 DEF Arrive, ThrottleNext
  <2>3. CASE \E severity \in Severities : LlmAnswers(a, severity)
    BY <2>3 DEF LlmAnswers
  <2>4. CASE Raise(a) \/ Respond(a)
    BY <2>4 DEF Raise, Respond
  <2> QED
    BY <1>1, <2>1, <2>2, <2>3, <2>4 DEF Step
<1>2. CASE Operator
  BY <1>2 DEF Operator, ClearDedup, ThrottleNext
<1>3. CASE Tick
  BY <1>3 DEF ThrottleNext
<1>4. CASE UNCHANGED vars
  BY <1>4 DEF vars
<1> QED
  BY <1>1, <1>2, <1>3, <1>4 DEF Next

(* The limiter within the pipeline behaves like the limiter alone.          *)
THEOREM PipelineIsThrottled == Spec => ThrottleSpec
<1>1. Init => ThrottleInit
  BY DEF Init
<1> QED
  BY <1>1, LimiterStep, PTL DEF Spec, ThrottleSpec

(* The configured rates hold of the alerts that reach the LLM.              *)
THEOREM PipelineRatesBounded == Spec => []WindowBound
BY PipelineIsThrottled, WindowsBounded, PTL

(* No rule is put off for longer than the first backoff.                    *)
THEOREM PipelineBackoffNeverGrows == Spec => []OneBackoff
BY PipelineIsThrottled, BackoffNeverGrows, PTL
-----------------------------------------------------------------------------
StoredTypes ==
    /\ pc \in [Alerts -> PCs] /\ stored \in [Alerts -> Nat]
    /\ throttledRows \subseteq Alerts

StoredInv == StoredTypes /\ StoredAsAnswered

(* A request moves on: what it stores agrees with where it goes.            *)
LEMMA StoredKept ==
    ASSUME StoredInv, NEW a \in Alerts, NEW where \in PCs \ {"throttled"}, NEW n \in Nat,
           pc[a] \notin {"processed", "error", "throttled"},
           pc' = [pc EXCEPT ![a] = where],
           stored' = [stored EXCEPT ![a] = @ + n],
           throttledRows' = throttledRows,
           where \in {"new", "llm", "acting"} => n = 0,
           where = "processed" => n = 1,
           where = "error" => n >= 1
    PROVE  StoredInv'
BY DEF StoredInv, StoredTypes, StoredAsAnswered, PCs

LEMMA StoredStep == StoredInv /\ [Next]_vars => StoredInv'
<1> SUFFICES ASSUME StoredInv, [Next]_vars PROVE StoredInv'
  OBVIOUS
<1>1. ASSUME NEW a \in Alerts, Suppress(a) PROVE StoredInv'
  BY <1>1 DEF Suppress, StoredInv, StoredTypes, StoredAsAnswered, PCs
<1>2. ASSUME NEW a \in Alerts, pc[a] \in {"new", "llm"}, NEW analysis, NEW cache,
             Analysed(a, analysis, cache), throttledRows' = throttledRows
      PROVE  StoredInv'
  <2>1. CASE analysis.severity = "text"
    BY <1>2, <2>1, StoredKept DEF Analysed, Move, Store, PCs
  <2>2. CASE analysis.severity # "text"
    <3>1. pc' = [pc EXCEPT ![a] = "acting"] /\ stored' = stored
      BY <1>2, <2>2 DEF Analysed, Move
    <3> QED
      BY <1>2, <3>1 DEF StoredInv, StoredTypes, StoredAsAnswered, PCs
  <2> QED
    BY <2>1, <2>2
<1>3. ASSUME NEW a \in Alerts, Arrive(a) PROVE StoredInv'
  <2>1. CASE Reuse(a)
    BY <1>3, <2>1 DEF Arrive, Reuse, Move, StoredInv, StoredTypes, StoredAsAnswered, PCs
  <2>2. CASE CacheHit(a)
    BY <1>2, <1>3, <2>2 DEF Arrive, CacheHit
  <2>3. CASE CallLlm(a)
    BY <1>3, <2>3 DEF Arrive, CallLlm, StoredInv, StoredTypes, StoredAsAnswered, PCs
  <2> QED
    BY <1>3, <2>1, <2>2, <2>3 DEF Arrive, Analyse
<1>4. ASSUME NEW a \in Alerts, NEW severity \in Severities, LlmAnswers(a, severity)
      PROVE  StoredInv'
  BY <1>2, <1>4 DEF LlmAnswers
<1>5. ASSUME NEW a \in Alerts, Raise(a) PROVE StoredInv'
  <2>1. /\ pc[a] \in {"llm", "acting"}
        /\ pc' = [pc EXCEPT ![a] = "error"]
        /\ stored' = [stored EXCEPT ![a] = @ + 1] /\ throttledRows' = throttledRows
    BY <1>5 DEF Raise, Move, Store
  <2> QED
    BY <2>1 DEF StoredInv, StoredTypes, StoredAsAnswered, PCs
<1>6. ASSUME NEW a \in Alerts, Respond(a) PROVE StoredInv'
  <2>1. CASE verdict[a].severity = "fraction"
    BY <1>6, <2>1, StoredKept DEF Respond, Move, PCs
  <2>2. CASE verdict[a].severity # "fraction"
    BY <1>6, <2>2, StoredKept DEF Respond, Move, Store, PCs
  <2> QED
    BY <2>1, <2>2
<1>7. CASE Operator
  BY <1>7 DEF Operator, StoredInv, StoredTypes, StoredAsAnswered
<1>8. ASSUME UNCHANGED <<pc, stored, throttledRows>> PROVE StoredInv'
  BY <1>8 DEF StoredInv, StoredTypes, StoredAsAnswered
<1>9. CASE UNCHANGED vars
  BY <1>8, <1>9 DEF vars
<1>10. ASSUME NEW a \in Alerts, Step(a) PROVE StoredInv'
  BY <1>1, <1>3, <1>4, <1>5, <1>6, <1>10 DEF Step
<1> QED
  BY <1>7, <1>8, <1>9, <1>10 DEF Next

(* Whatever two caches, a late LLM and failing actions do to a request: the *)
(* answer says whether and where its alert was stored.                      *)
THEOREM AnswersTruthful == Spec => []StoredAsAnswered
<1>1. Init => StoredInv
  BY DEF Init, StoredInv, StoredTypes, StoredAsAnswered, PCs
<1>2. StoredInv => StoredAsAnswered
  BY DEF StoredInv
<1> QED
  BY <1>1, <1>2, StoredStep, PTL DEF Spec

-----------------------------------------------------------------------------
(* What the caches hold                                                     *)
CacheEntries == [key : Keys, analysis : Analyses, at : Nat]
Contents(s)  == {s[i] : i \in DOMAIN s}

(* A cache within its size, one place for a key, each entry as old as its   *)
(* analysis: the alert cache takes nothing but what the LLM has just said.  *)
CacheOK(s) ==
    /\ s \in Seq(CacheEntries) /\ Len(s) <= CacheSize
    /\ \A i, j \in DOMAIN s : s[i].key = s[j].key => i = j
    /\ \A i \in DOMAIN s : s[i].at = s[i].analysis.made

(* The deduplicator takes over an analysis only while the alert cache would *)
(* still hand it out.                                                       *)
HeldIn(cache) == {f \in Fingerprints : cache[f] # None}
DedupOK(cache) ==
    /\ cache \in [Fingerprints -> Entries \cup {None}]
    /\ IsFiniteSet(HeldIn(cache)) /\ Cardinality(HeldIn(cache)) <= DedupSize
    /\ \A f \in HeldIn(cache) :
          /\ cache[f].analysis.severity # "text"
          /\ cache[f].at < cache[f].analysis.made + CacheTtl

(* The last answer for a key is in the alert cache, or too old to matter.   *)
AnswersKept ==
    \A k \in Keys : answered[k] # None =>
       \/ now >= answered[k] + CacheTtl
       \/ \E x \in Contents(alertCache) : x.key = k /\ x.at = answered[k]

RequestTypes ==
    /\ pc \in [Alerts -> PCs] /\ clears \in 0..MaxClears
    /\ verdict \in [Alerts -> Analyses \cup {None}]
    /\ answered \in [Keys -> Nat \cup {None}]
    /\ stored \in [Alerts -> 0..2] /\ throttledRows \subseteq Alerts

PipelineInv == RequestTypes /\ CacheOK(alertCache) /\ DedupOK(dedup) /\ AnswersKept

(***************************************************************************)
(* The alert cache: what its three moves leave in it.                      *)
(***************************************************************************)
(* Two sequences, one after the other.                                      *)
LEMMA ConcatEntries ==
    ASSUME NEW S, NEW l \in Seq(S), NEW r \in Seq(S)
    PROVE  /\ l \o r \in Seq(S) /\ Len(l \o r) = Len(l) + Len(r)
           /\ \A j \in 1 .. Len(l) : (l \o r)[j] = l[j]
           /\ \A j \in 1 .. Len(r) : (l \o r)[Len(l) + j] = r[j]
<1>. DEFINE t == l \o r
<1>1. /\ t \in Seq(S) /\ Len(l) \in Nat /\ Len(r) \in Nat
      /\ DOMAIN l = 1 .. Len(l) /\ DOMAIN r = 1 .. Len(r)
      /\ DOMAIN t = 1 .. Len(l) + Len(r) /\ Len(t) = Len(l) + Len(r)
      /\ \A k \in DOMAIN l : t[k] = l[k]
      /\ \A k \in DOMAIN r : t[Len(l) + k] = r[k]
  OBVIOUS
<1>. HIDE DEF t
<1>. QED BY <1>1 DEF t

(* Taking one entry out.                                                    *)
LEMMA WithoutEntries ==
    ASSUME NEW S, NEW s \in Seq(S), NEW i \in DOMAIN s
    PROVE  /\ Without(s, i) \in Seq(S) /\ Len(Without(s, i)) = Len(s) - 1
           /\ Len(s) \in Nat /\ DOMAIN s = 1 .. Len(s)
           /\ \A j \in 1 .. Len(s) - 1 : Without(s, i)[j] = s[IF j < i THEN j ELSE j + 1]
<1>1. Len(s) \in Nat /\ DOMAIN s = 1 .. Len(s) /\ i \in 1 .. Len(s)
  OBVIOUS
<1>. DEFINE l == SubSeq(s, 1, i - 1)
            r == SubSeq(s, i + 1, Len(s))
<1>2. /\ l \in Seq(S) /\ Len(l) = i - 1
      /\ \A j \in 1 .. i - 1 : l[j] = s[j]
  BY <1>1
<1>3. /\ r \in Seq(S) /\ Len(r) = Len(s) - i
      /\ \A j \in 1 .. Len(s) - i : r[j] = s[i + j]
  BY <1>1
<1>. HIDE DEF l, r
<1>. DEFINE t == l \o r
<1>4. /\ t \in Seq(S) /\ Len(t) = Len(l) + Len(r)
      /\ \A j \in 1 .. Len(l) : t[j] = l[j]
      /\ \A j \in 1 .. Len(r) : t[Len(l) + j] = r[j]
  <2>1. l \in Seq(S) /\ r \in Seq(S)
    BY <1>2, <1>3
  <2>. QED BY <2>1, ConcatEntries
<1>5. Without(s, i) = t
  BY DEF Without, l, r
<1>. HIDE DEF t
<1>6. Len(t) = Len(s) - 1
  BY <1>1, <1>2, <1>3, <1>4
<1>7. ASSUME NEW j \in 1 .. Len(s) - 1 PROVE t[j] = s[IF j < i THEN j ELSE j + 1]
  <2>1. CASE j < i
    <3>1. j \in 1 .. i - 1 /\ j \in 1 .. Len(l)
      BY <1>1, <1>2, <2>1
    <3>2. t[j] = l[j] /\ l[j] = s[j]
      BY <1>2, <1>4, <3>1
    <3>. QED BY <2>1, <3>2
  <2>2. CASE ~(j < i)
    <3>. DEFINE k == j - i + 1
    <3>1. k \in 1 .. Len(r) /\ k \in 1 .. Len(s) - i /\ Len(l) + k = j /\ i + k = j + 1
      BY <1>1, <1>2, <1>3, <2>2
    <3>. HIDE DEF k
    <3>2. t[Len(l) + k] = r[k]
      BY <1>4, <3>1
    <3>3. r[k] = s[i + k]
      <4>1. \A m \in 1 .. Len(s) - i : r[m] = s[i + m]
        BY <1>3
      <4>. QED BY <3>1, <4>1, Zenon
    <3>4. t[j] = s[j + 1]
      BY <3>1, <3>2, <3>3, Zenon
    <3>. QED BY <2>2, <3>4
  <2>. QED BY <2>1, <2>2
<1>. QED BY <1>1, <1>4, <1>5, <1>6, <1>7

LEMMA TailEntries ==
    ASSUME NEW S, NEW s \in Seq(S), s # <<>>
    PROVE  /\ Tail(s) \in Seq(S) /\ Len(Tail(s)) = Len(s) - 1
           /\ Len(s) \in Nat /\ DOMAIN s = 1 .. Len(s) /\ 1 \in DOMAIN s /\ Head(s) = s[1]
           /\ \A j \in 1 .. Len(s) - 1 : Tail(s)[j] = s[j + 1]
OBVIOUS

(* A cache that misses one of its entries is a cache, of the others.        *)
LEMMA Shorter ==
    ASSUME NEW s, CacheOK(s), NEW i \in DOMAIN s, NEW t, t \in Seq(CacheEntries),
           Len(t) = Len(s) - 1,
           \A j \in 1 .. Len(s) - 1 : t[j] = s[IF j < i THEN j ELSE j + 1]
    PROVE  /\ CacheOK(t) /\ Len(t) < CacheSize
           /\ Contents(t) = Contents(s) \ {s[i]}
           /\ \A x \in Contents(t) : x.key # s[i].key
<1>1. /\ s \in Seq(CacheEntries) /\ Len(s) \in Nat /\ DOMAIN s = 1 .. Len(s)
      /\ DOMAIN t = 1 .. Len(s) - 1 /\ i \in 1 .. Len(s) /\ Len(s) <= CacheSize
      /\ CacheSize \in Nat
      /\ \A k, l \in DOMAIN s : s[k].key = s[l].key => k = l
      /\ \A k \in DOMAIN s : s[k].at = s[k].analysis.made
  BY CachesAssumption DEF CacheOK
<1>. DEFINE from(j) == IF j < i THEN j ELSE j + 1
<1>2. \A j \in DOMAIN t : from(j) \in DOMAIN s /\ from(j) # i /\ t[j] = s[from(j)]
  BY <1>1
<1>3. \A j, k \in DOMAIN t : from(j) = from(k) => j = k
  BY <1>1
<1>4. \A k \in DOMAIN s : k # i => \E j \in DOMAIN t : from(j) = k
  <2>1. ASSUME NEW k \in DOMAIN s, k # i PROVE \E j \in DOMAIN t : from(j) = k
    <3>1. CASE k < i
      <4>1. k \in DOMAIN t /\ from(k) = k
        BY <1>1, <2>1, <3>1
      <4>. QED BY <4>1
    <3>2. CASE ~(k < i)
      <4>1. k - 1 \in DOMAIN t /\ from(k - 1) = k
        BY <1>1, <2>1, <3>2
      <4>. QED BY <4>1
    <3>. QED BY <3>1, <3>2
  <2>. QED BY <2>1
<1>. HIDE DEF from
<1>5. CacheOK(t)
  BY <1>1, <1>2, <1>3 DEF CacheOK
<1>6. \A x \in Contents(t) : x \in Contents(s) /\ x.key # s[i].key
  BY <1>1, <1>2 DEF Contents
<1>7. \A x \in Contents(s) : x # s[i] => x \in Contents(t)
  BY <1>2, <1>4 DEF Contents
<1>. QED BY <1>1, <1>5, <1>6, <1>7

(* An entry of a new key, put last.                                         *)
LEMMA Longer ==
    ASSUME NEW s, CacheOK(s), Len(s) < CacheSize, NEW e \in CacheEntries,
           e.at = e.analysis.made, \A x \in Contents(s) : x.key # e.key
    PROVE  CacheOK(Append(s, e)) /\ Contents(Append(s, e)) = Contents(s) \cup {e}
<1>. DEFINE t == Append(s, e)
<1>1. /\ s \in Seq(CacheEntries) /\ Len(s) \in Nat /\ DOMAIN s = 1 .. Len(s)
      /\ CacheSize \in Nat
      /\ \A k, l \in DOMAIN s : s[k].key = s[l].key => k = l
      /\ \A k \in DOMAIN s : s[k].at = s[k].analysis.made
  BY CachesAssumption DEF CacheOK
<1>2. /\ t \in Seq(CacheEntries) /\ Len(t) = Len(s) + 1 /\ DOMAIN t = 1 .. Len(s) + 1
      /\ \A j \in DOMAIN s : t[j] = s[j]
      /\ t[Len(s) + 1] = e
  BY <1>1
<1>. HIDE DEF t
<1>3. \A j \in DOMAIN t : j \in DOMAIN s \/ j = Len(s) + 1
  BY <1>1, <1>2
<1>4. \A j \in DOMAIN s : j \in DOMAIN t /\ s[j].key # e.key
  BY <1>1, <1>2 DEF Contents
<1>5. Len(s) + 1 \in DOMAIN t
  BY <1>1, <1>2
<1>6. CacheOK(t)
  <2>1. \A k, l \in DOMAIN t : t[k].key = t[l].key => k = l
    BY <1>1, <1>2, <1>3, <1>4
  <2>2. \A k \in DOMAIN t : t[k].at = t[k].analysis.made
    BY <1>1, <1>2, <1>3
  <2>3. Len(t) <= CacheSize
    BY <1>1, <1>2
  <2>. QED BY <1>2, <2>1, <2>2, <2>3 DEF CacheOK
<1>7. Contents(t) = Contents(s) \cup {e}
  BY <1>2, <1>3, <1>4, <1>5 DEF Contents
<1>. QED BY <1>6, <1>7 DEF t

(* An entry in the place that its key has already.                          *)
LEMMA Replaced ==
    ASSUME NEW s, CacheOK(s), NEW e \in CacheEntries, e.at = e.analysis.made,
           NEW p \in DOMAIN s, s[p].key = e.key,
           NEW t, t = [i \in DOMAIN s |-> IF s[i].key = e.key THEN e ELSE s[i]]
    PROVE  /\ CacheOK(t) /\ e \in Contents(t)
           /\ \A x \in Contents(s) : x.key # e.key => x \in Contents(t)
<1>1. /\ s \in Seq(CacheEntries) /\ Len(s) \in Nat /\ DOMAIN s = 1 .. Len(s)
      /\ \A k, l \in DOMAIN s : s[k].key = s[l].key => k = l
      /\ \A k \in DOMAIN s : s[k].at = s[k].analysis.made
  BY DEF CacheOK
<1>2. t \in Seq(CacheEntries) /\ Len(t) = Len(s) /\ DOMAIN t = DOMAIN s
  BY <1>1
<1>3. \A k \in DOMAIN t : t[k] = IF s[k].key = e.key THEN e ELSE s[k]
  BY <1>2
<1>4. \A k \in DOMAIN t : t[k].key = s[k].key /\ t[k].at = t[k].analysis.made
  BY <1>1, <1>2, <1>3
<1>. QED BY <1>1, <1>2, <1>3, <1>4 DEF CacheOK, Contents

(* The alert cache after a hit, and after an answer of the LLM.             *)
LEMMA UsedKeeps ==
    ASSUME CacheOK(alertCache), NEW i \in DOMAIN alertCache
    PROVE  CacheOK(UsedBy(i)) /\ Contents(UsedBy(i)) = Contents(alertCache)
<1>. DEFINE s == alertCache
            t == Without(s, i)
            e == s[i]
<1>1. s \in Seq(CacheEntries)
  BY DEF CacheOK
<1>2. /\ t \in Seq(CacheEntries) /\ Len(t) = Len(s) - 1
      /\ \A j \in 1 .. Len(s) - 1 : t[j] = s[IF j < i THEN j ELSE j + 1]
  BY <1>1, WithoutEntries
<1>3. e \in CacheEntries /\ e.at = e.analysis.made /\ e \in Contents(s)
  BY <1>1 DEF CacheOK, Contents
<1>. HIDE DEF t
<1>4. /\ CacheOK(t) /\ Len(t) < CacheSize
      /\ Contents(t) = Contents(s) \ {e} /\ \A x \in Contents(t) : x.key # e.key
  BY <1>2, Shorter
<1>. HIDE DEF e
<1>5. CacheOK(Append(t, e)) /\ Contents(Append(t, e)) = Contents(t) \cup {e}
  BY <1>3, <1>4, Longer
<1>. QED BY <1>3, <1>4, <1>5 DEF UsedBy, e, t

LEMMA WithoutKeeps ==
    ASSUME CacheOK(alertCache), NEW i \in DOMAIN alertCache
    PROVE  /\ CacheOK(Without(alertCache, i))
           /\ Contents(Without(alertCache, i)) = Contents(alertCache) \ {alertCache[i]}
<1>. DEFINE t == Without(alertCache, i)
<1>1. alertCache \in Seq(CacheEntries)
  BY DEF CacheOK
<1>2. /\ t \in Seq(CacheEntries) /\ Len(t) = Len(alertCache) - 1
      /\ \A j \in 1 .. Len(alertCache) - 1 : t[j] = alertCache[IF j < i THEN j ELSE j + 1]
  BY <1>1, WithoutEntries
<1>. HIDE DEF t
<1>3. CacheOK(t) /\ Contents(t) = Contents(alertCache) \ {alertCache[i]}
  BY <1>2, Shorter
<1>. QED BY <1>3 DEF t

LEMMA FirstGone ==
    ASSUME NEW s, CacheOK(s), s # <<>>
    PROVE  /\ CacheOK(Tail(s)) /\ Len(Tail(s)) < CacheSize /\ Head(s) = s[1]
           /\ Contents(Tail(s)) = Contents(s) \ {Head(s)}
<1>. DEFINE t == Tail(s)
            first == 1
<1>1. s \in Seq(CacheEntries)
  BY DEF CacheOK
<1>2. /\ t \in Seq(CacheEntries) /\ Len(t) = Len(s) - 1
      /\ Len(s) \in Nat /\ first \in DOMAIN s /\ Head(s) = s[first]
      /\ \A j \in 1 .. Len(s) - 1 : t[j] = s[j + 1]
  BY <1>1, TailEntries
<1>. HIDE DEF t
<1>3. \A j \in 1 .. Len(s) - 1 : t[j] = s[IF j < first THEN j ELSE j + 1]
  BY <1>2
<1>. HIDE DEF first
<1>4. /\ first \in DOMAIN s /\ t \in Seq(CacheEntries) /\ Len(t) = Len(s) - 1
      /\ \A j \in 1 .. Len(s) - 1 : t[j] = s[IF j < first THEN j ELSE j + 1]
  BY <1>2, <1>3
<1>5. CacheOK(t) /\ Len(t) < CacheSize /\ Contents(t) = Contents(s) \ {s[first]}
  BY <1>4, Shorter
<1>. QED BY <1>2, <1>5 DEF t, first

(* What makes room for an answer: the first entry, when the cache is full.  *)
LEMMA FullEvicts ==
    ASSUME CacheOK(alertCache), NEW kept,
           kept = IF Len(alertCache) >= CacheSize THEN Tail(alertCache) ELSE alertCache
    PROVE  /\ CacheOK(kept) /\ Len(kept) < CacheSize
           /\ \A x \in Contents(alertCache) :
                 x \in Contents(kept) \/ (Len(alertCache) >= CacheSize /\ x = Head(alertCache))
<1>1. alertCache \in Seq(CacheEntries) /\ Len(alertCache) \in Nat /\ CacheSize \in Nat \ {0}
  BY CachesAssumption DEF CacheOK
<1>2. CASE Len(alertCache) >= CacheSize
  <2>1. alertCache # <<>>
    BY <1>1, <1>2
  <2>2. /\ CacheOK(kept) /\ Len(kept) < CacheSize /\ Head(alertCache) = alertCache[1]
        /\ Contents(kept) = Contents(alertCache) \ {Head(alertCache)}
    BY <1>2, <2>1, FirstGone
  <2>. QED BY <1>2, <2>2
<1>3. CASE ~(Len(alertCache) >= CacheSize)
  BY <1>1, <1>3
<1>. QED BY <1>2, <1>3

(* An answer of the LLM is in the cache, with all that kept their place.    *)
LEMMA SetKeeps ==
    ASSUME CacheOK(alertCache), now \in Nat, NEW a \in Alerts,
           NEW analysis \in Analyses, analysis.made = now, Set(a, analysis)
    PROVE  /\ CacheOK(alertCache')
           /\ [key |-> KeyOf[a], analysis |-> analysis, at |-> now] \in Contents(alertCache')
           /\ \A x \in Contents(alertCache) :
                 \/ x \in Contents(alertCache') \/ x.key = KeyOf[a]
                 \/ Len(alertCache) >= CacheSize /\ x.key = Head(alertCache).key
<1>. DEFINE full == Len(alertCache) >= CacheSize
            kept == IF full THEN Tail(alertCache) ELSE alertCache
            entry == [key |-> KeyOf[a], analysis |-> analysis, at |-> now]
<1>1. KeyOf[a] \in Keys
  BY CachesAssumption
<1>2. entry \in CacheEntries /\ entry.key = KeyOf[a] /\ entry.at = entry.analysis.made
  BY <1>1 DEF CacheEntries
<1>3. /\ CacheOK(kept) /\ Len(kept) < CacheSize
      /\ \A x \in Contents(alertCache) :
            x \in Contents(kept) \/ (full /\ x = Head(alertCache))
  BY FullEvicts
<1>4. alertCache' = IF Places(kept, a) = {} THEN Append(kept, entry)
                    ELSE [i \in DOMAIN kept |-> IF i \in Places(kept, a) THEN entry ELSE kept[i]]
  BY DEF Set
<1>. HIDE DEF entry, kept
<1>5. CASE Places(kept, a) = {}
  <2>1. \A x \in Contents(kept) : x.key # entry.key
    BY <1>2, <1>5 DEF Places, Contents
  <2>2. CacheOK(Append(kept, entry)) /\ Contents(Append(kept, entry)) = Contents(kept) \cup {entry}
    BY <1>2, <1>3, <2>1, Longer
  <2>. QED BY <1>3, <1>4, <1>5, <2>2 DEF entry
<1>6. CASE Places(kept, a) # {}
  <2>1. PICK p \in DOMAIN kept : kept[p].key = entry.key
    BY <1>2, <1>6 DEF Places
  <2>2. alertCache' = [i \in DOMAIN kept |-> IF kept[i].key = entry.key THEN entry ELSE kept[i]]
    BY <1>2, <1>4, <1>6 DEF Places
  <2>3. /\ CacheOK(alertCache') /\ entry \in Contents(alertCache')
        /\ \A x \in Contents(kept) : x.key # entry.key => x \in Contents(alertCache')
    BY <1>2, <1>3, <2>1, <2>2, Replaced
  <2>. QED BY <1>2, <1>3, <2>3 DEF entry
<1>. QED BY <1>5, <1>6

(***************************************************************************)
(* The deduplicator.                                                       *)
(***************************************************************************)
LEMMA DedupForgets ==
    ASSUME NEW cache, DedupOK(cache), NEW f
    PROVE  /\ DedupOK([cache EXCEPT ![f] = None])
           /\ f \in HeldIn(cache) =>
                Cardinality(HeldIn([cache EXCEPT ![f] = None])) = Cardinality(HeldIn(cache)) - 1
           /\ Cardinality(HeldIn([cache EXCEPT ![f] = None])) \in Nat
<1>. DEFINE c == [cache EXCEPT ![f] = None]
<1>1. /\ cache \in [Fingerprints -> Entries \cup {None}] /\ IsFiniteSet(HeldIn(cache))
      /\ Cardinality(HeldIn(cache)) <= DedupSize
  BY DEF DedupOK
<1>2. c \in [Fingerprints -> Entries \cup {None}] /\ HeldIn(c) = HeldIn(cache) \ {f}
  BY <1>1 DEF HeldIn
<1>3. \A g \in HeldIn(c) : g \in HeldIn(cache) /\ c[g] = cache[g]
  BY <1>1, <1>2 DEF HeldIn
<1>. HIDE DEF c
<1>4. /\ IsFiniteSet(HeldIn(c)) /\ Cardinality(HeldIn(c)) \in Nat
      /\ Cardinality(HeldIn(cache)) \in Nat
      /\ Cardinality(HeldIn(c)) <= Cardinality(HeldIn(cache))
  <2>1. HeldIn(c) \subseteq HeldIn(cache)
    BY <1>2
  <2>. QED BY <1>1, <2>1, FS_Subset, FS_CardinalityType
<1>5. f \in HeldIn(cache) => Cardinality(HeldIn(c)) = Cardinality(HeldIn(cache)) - 1
  BY <1>1, <1>2, FS_RemoveElement
<1>6. Cardinality(HeldIn(c)) <= DedupSize
  BY <1>1, <1>4, CachesAssumption
<1>7. DedupOK(c)
  BY <1>2, <1>3, <1>4, <1>6 DEF DedupOK
<1>. QED BY <1>4, <1>5, <1>7 DEF c

LEMMA RoomMade ==
    ASSUME NEW cache, DedupOK(cache), NEW kept \in Room(cache)
    PROVE  DedupOK(kept) /\ Cardinality(HeldIn(kept)) < DedupSize
<1>1. /\ Cardinality(HeldIn(cache)) \in Nat /\ Cardinality(HeldIn(cache)) <= DedupSize
      /\ DedupSize \in Nat
  BY FS_CardinalityType, CachesAssumption DEF DedupOK
<1>2. CASE Cardinality(HeldIn(cache)) < DedupSize
  <2>1. kept = cache
    BY <1>2 DEF Room, HeldIn
  <2>. QED BY <1>2, <2>1
<1>3. CASE ~(Cardinality(HeldIn(cache)) < DedupSize)
  <2>1. \E f \in HeldIn(cache) : kept = [cache EXCEPT ![f] = None]
    BY <1>3 DEF Room, HeldIn
  <2>2. DedupOK(kept) /\ Cardinality(HeldIn(kept)) = Cardinality(HeldIn(cache)) - 1
    BY <2>1, DedupForgets
  <2>. QED BY <1>1, <2>2
<1>. QED BY <1>2, <1>3

LEMMA DedupTold ==
    ASSUME NEW cache, DedupOK(cache), now \in Nat, NEW a \in Alerts, NEW analysis \in Analyses,
           now < analysis.made + CacheTtl, CacheAnalysis(a, analysis, cache)
    PROVE  DedupOK(dedup')
<1>1. PICK kept \in Room(cache) :
        dedup' = IF analysis.severity = "text" THEN kept
                 ELSE [kept EXCEPT ![FingerprintOf[a]] = [analysis |-> analysis, at |-> now]]
  BY DEF CacheAnalysis
<1>2. DedupOK(kept) /\ Cardinality(HeldIn(kept)) < DedupSize
  BY RoomMade
<1>3. CASE analysis.severity = "text"
  BY <1>1, <1>2, <1>3
<1>4. CASE analysis.severity # "text"
  <2>. DEFINE f == FingerprintOf[a]
              entry == [analysis |-> analysis, at |-> now]
              d == [kept EXCEPT ![f] = entry]
  <2>1. f \in Fingerprints /\ entry \in Entries /\ DedupSize \in Nat
    BY CachesAssumption DEF Entries
  <2>2. entry.analysis.severity # "text" /\ entry.at < entry.analysis.made + CacheTtl
    BY <1>4
  <2>. HIDE DEF f, entry
  <2>3. kept \in [Fingerprints -> Entries \cup {None}] /\ IsFiniteSet(HeldIn(kept))
        /\ Cardinality(HeldIn(kept)) \in Nat
    BY <1>2, FS_CardinalityType DEF DedupOK
  <2>4. /\ d \in [Fingerprints -> Entries \cup {None}] /\ HeldIn(d) \subseteq HeldIn(kept) \cup {f}
        /\ \A g \in HeldIn(d) : (g = f /\ d[g] = entry) \/ (g \in HeldIn(kept) /\ d[g] = kept[g])
    BY <2>1, <2>3 DEF HeldIn
  <2>. HIDE DEF d
  <2>5. /\ IsFiniteSet(HeldIn(kept) \cup {f})
        /\ Cardinality(HeldIn(kept) \cup {f}) <= Cardinality(HeldIn(kept)) + 1
        /\ Cardinality(HeldIn(kept) \cup {f}) \in Nat
    <3>1. IsFiniteSet(HeldIn(kept) \cup {f})
      BY <2>3, FS_AddElement
    <3>2. CASE f \in HeldIn(kept)
      <4>1. HeldIn(kept) \cup {f} = HeldIn(kept)
        BY <3>2
      <4>2. Cardinality(HeldIn(kept)) <= Cardinality(HeldIn(kept)) + 1
        BY <2>3
      <4>. QED BY <2>3, <3>1, <4>1, <4>2, Zenon
    <3>3. CASE f \notin HeldIn(kept)
      BY <2>3, <3>1, <3>3, FS_AddElement
    <3>. QED BY <3>2, <3>3
  <2>6. /\ IsFiniteSet(HeldIn(d)) /\ Cardinality(HeldIn(d)) \in Nat
        /\ Cardinality(HeldIn(d)) <= Cardinality(HeldIn(kept) \cup {f})
    BY <2>4, <2>5, FS_Subset, FS_CardinalityType
  <2>7. Cardinality(HeldIn(d)) <= DedupSize
    BY <1>2, <2>1, <2>3, <2>5, <2>6
  <2>8. DedupOK(d)
    BY <1>2, <2>2, <2>4, <2>6, <2>7 DEF DedupOK
  <2>. QED BY <1>1, <1>4, <2>8 DEF d, f, entry
<1>. QED BY <1>3, <1>4

(***************************************************************************)
(* The pipeline's steps.                                                   *)
(***************************************************************************)
(* Time does not go back, and passes in no step of a request.               *)
LEMMA ClockStep ==
    ASSUME ThrottleInv, [Next]_vars
    PROVE  now \in Nat /\ now' \in Nat /\ now' >= now
<1>1. now \in Nat
  BY DEF ThrottleInv, ThrottleTypes
<1>2. [ThrottleNext]_throttleVars
  BY LimiterStep
<1>3. now' = now \/ now' = now + 1
  BY <1>2 DEF ThrottleNext, throttleVars, Throttle, RefusedByRule, RefusedOtherwise, Accept,
              ClearAll, Tick
<1> QED
  BY <1>1, <1>3

LEMMA DecisionInstant ==
    ASSUME NEW a, Throttle(a) \/ Accept(a)
    PROVE  now' = now
BY DEF Throttle, RefusedByRule, RefusedOtherwise, Accept

(* An answer is accounted for as long as only what is too old goes.         *)
LEMMA AnswersStay ==
    ASSUME RequestTypes, AnswersKept, now \in Nat, now' \in Nat, now' >= now,
           answered' = answered,
           \A x \in Contents(alertCache) :
              x \in Contents(alertCache') \/ now >= x.at + CacheTtl
    PROVE  AnswersKept'
<1>1. CacheTtl \in Nat
  BY CachesAssumption
<1>2. ASSUME NEW k \in Keys, answered[k] # None
      PROVE  \/ now' >= answered[k] + CacheTtl
             \/ \E x \in Contents(alertCache') : x.key = k /\ x.at = answered[k]
  <2>1. answered[k] \in Nat
    BY <1>2 DEF RequestTypes
  <2>2. CASE now >= answered[k] + CacheTtl
    BY <1>1, <2>1, <2>2
  <2>3. CASE \E x \in Contents(alertCache) : x.key = k /\ x.at = answered[k]
    <3>1. PICK x \in Contents(alertCache) : x.key = k /\ x.at = answered[k]
      BY <2>3
    <3>2. x \in Contents(alertCache') \/ now >= answered[k] + CacheTtl
      BY <3>1
    <3> QED
      BY <1>1, <2>1, <3>1, <3>2
  <2> QED
    BY <1>2, <2>2, <2>3 DEF AnswersKept
<1> QED
  BY <1>2 DEF AnswersKept

(* A new answer is in the cache; the entry whose place it took is forgotten. *)
LEMMA AnswerCounted ==
    ASSUME RequestTypes, CacheOK(alertCache), AnswersKept, now \in Nat, now' = now,
           NEW a \in Alerts, NEW analysis \in Analyses, analysis.made = now, Set(a, analysis)
    PROVE  AnswersKept' /\ answered' \in [Keys -> Nat \cup {None}]
<1> DEFINE full  == Len(alertCache) >= CacheSize
           first == Head(alertCache).key
           entry == [key |-> KeyOf[a], analysis |-> analysis, at |-> now]
<1>1. answered' = [k \in Keys |-> IF k = KeyOf[a] THEN now
                                 ELSE IF full /\ k = first THEN None ELSE answered[k]]
  BY DEF Set
<1>2. /\ entry \in Contents(alertCache')
      /\ \A x \in Contents(alertCache) :
            \/ x \in Contents(alertCache') \/ x.key = KeyOf[a]
            \/ full /\ x.key = first
  BY SetKeeps, Zenon
<1>3. entry.key = KeyOf[a] /\ entry.at = now
  OBVIOUS
<1> HIDE DEF full, first, entry
<1>4. ASSUME NEW k \in Keys
      PROVE  \/ k = KeyOf[a] /\ answered'[k] = now
             \/ k # KeyOf[a] /\ full /\ k = first /\ answered'[k] = None
             \/ k # KeyOf[a] /\ ~(full /\ k = first) /\ answered'[k] = answered[k]
  BY <1>1
<1>5. ASSUME NEW k \in Keys, answered'[k] # None
      PROVE  \/ now' >= answered'[k] + CacheTtl
             \/ \E x \in Contents(alertCache') : x.key = k /\ x.at = answered'[k]
  <2>1. CASE k = KeyOf[a]
    BY <1>2, <1>3, <1>4, <2>1
  <2>2. CASE k # KeyOf[a]
    <3>1. ~(full /\ k = first) /\ answered'[k] = answered[k] /\ answered[k] # None
      BY <1>4, <1>5, <2>2
    <3>2. CASE now >= answered[k] + CacheTtl
      BY <3>1, <3>2
    <3>3. CASE \E x \in Contents(alertCache) : x.key = k /\ x.at = answered[k]
      BY <1>2, <2>2, <3>1, <3>3
    <3> QED
      BY <3>1, <3>2, <3>3 DEF AnswersKept
  <2> QED
    BY <2>1, <2>2
<1>6. answered' \in [Keys -> Nat \cup {None}]
  <2>1. \A k \in Keys : answered'[k] \in Nat \cup {None}
    BY <1>4 DEF RequestTypes
  <2> QED
    BY <1>1, <2>1
<1> QED
  BY <1>5, <1>6 DEF AnswersKept

(* Where a request goes, and what it stores: twice at most, and only once   *)
(* it is over.                                                              *)
LEMMA Moved ==
    ASSUME RequestTypes, NEW a \in Alerts, NEW where \in PCs,
           NEW analysis \in Analyses \cup {None}, Move(a, where, analysis)
    PROVE  pc' \in [Alerts -> PCs] /\ verdict' \in [Alerts -> Analyses \cup {None}]
BY DEF RequestTypes, Move

LEMMA StoresTwiceAtMost ==
    ASSUME RequestTypes, StoredInv, NEW a \in Alerts, pc[a] \in {"new", "llm", "acting"},
           Store(a) \/ stored' = [stored EXCEPT ![a] = @ + 2] \/ stored' = stored
    PROVE  stored' \in [Alerts -> 0..2]
<1>1. stored \in [Alerts -> 0..2] /\ stored[a] = 0
  BY DEF RequestTypes, StoredInv, StoredAsAnswered
<1>2. \E n \in 0..2 : stored' = [stored EXCEPT ![a] = n]
  <2>1. CASE Store(a)
    BY <1>1, <2>1 DEF Store
  <2>2. CASE stored' = [stored EXCEPT ![a] = @ + 2]
    BY <1>1, <2>2
  <2>3. CASE stored' = stored
    BY <1>1, <2>3
  <2> QED
    BY <2>1, <2>2, <2>3
<1> QED
  BY <1>1, <1>2

LEMMA AnalysedKeeps ==
    ASSUME RequestTypes, StoredInv, now \in Nat, NEW a \in Alerts, pc[a] \in {"new", "llm"},
           NEW analysis \in Analyses, now < analysis.made + CacheTtl,
           NEW cache, DedupOK(cache), Analysed(a, analysis, cache)
    PROVE  /\ pc' \in [Alerts -> PCs] /\ verdict' \in [Alerts -> Analyses \cup {None}]
           /\ stored' \in [Alerts -> 0..2] /\ DedupOK(dedup')
<1>1. DedupOK(dedup')
  <2>1. CacheAnalysis(a, analysis, cache)
    BY DEF Analysed
  <2> QED
    BY <2>1, DedupTold
<1>2. /\ Move(a, "error", None) \/ Move(a, "acting", analysis)
      /\ Store(a) \/ stored' = stored
  BY DEF Analysed
<1>3. "error" \in PCs /\ "acting" \in PCs
  BY DEF PCs
<1>4. pc' \in [Alerts -> PCs] /\ verdict' \in [Alerts -> Analyses \cup {None}]
  <2>1. CASE Move(a, "error", None)
    BY <1>3, <2>1, Moved
  <2>2. CASE Move(a, "acting", analysis)
    BY <1>3, <2>2, Moved
  <2> QED
    BY <1>2, <2>1, <2>2
<1>5. stored' \in [Alerts -> 0..2]
  BY <1>2, StoresTwiceAtMost
<1> QED
  BY <1>1, <1>4, <1>5

(* A request starts: it is put off, or it takes an analysis from one of the *)
(* two caches, or it asks the LLM.                                          *)
LEMMA SuppressKeeps ==
    ASSUME PipelineInv, now \in Nat, NEW a \in Alerts, Suppress(a)
    PROVE  PipelineInv'
<1>1. now' = now
  BY DecisionInstant DEF Suppress
<1>2. RequestTypes'
  BY DEF Suppress, PipelineInv, RequestTypes, PCs
<1>3. alertCache' = alertCache /\ dedup' = dedup /\ answered' = answered
  BY DEF Suppress
<1>4. AnswersKept'
  BY <1>1, <1>3 DEF PipelineInv, AnswersKept
<1> QED
  BY <1>2, <1>3, <1>4 DEF PipelineInv

LEMMA ReuseKeeps ==
    ASSUME PipelineInv, NEW a \in Alerts, Reuse(a), now' = now,
           UNCHANGED <<throttledRows, clears>>
    PROVE  PipelineInv'
<1> DEFINE e == dedup[FingerprintOf[a]]
<1>1. e.analysis \in Analyses
  <2>1. e # None /\ FingerprintOf[a] \in Fingerprints
    BY CachesAssumption DEF Reuse, DedupHit
  <2>2. dedup \in [Fingerprints -> Entries \cup {None}]
    BY DEF PipelineInv, DedupOK
  <2>3. e \in Entries
    BY <2>1, <2>2
  <2> QED
    BY <2>3 DEF Entries
<1>2. Move(a, "acting", e.analysis) /\ UNCHANGED <<dedup, alertCache, answered, stored>>
  BY DEF Reuse
<1>3. RequestTypes /\ "acting" \in PCs
  BY DEF PipelineInv, PCs
<1>4. pc' \in [Alerts -> PCs] /\ verdict' \in [Alerts -> Analyses \cup {None}]
  BY <1>1, <1>2, <1>3, Moved
<1>5. RequestTypes'
  BY <1>2, <1>3, <1>4 DEF RequestTypes
<1>6. AnswersKept'
  BY <1>2 DEF PipelineInv, AnswersKept
<1> QED
  BY <1>2, <1>5, <1>6 DEF PipelineInv

(* What the alert cache hands out is current, and so is what the            *)
(* deduplicator takes over from it.                                         *)
LEMMA HitIsCurrent ==
    ASSUME CacheOK(alertCache), NEW a \in Alerts, NEW i \in Places(alertCache, a),
           Current(alertCache[i])
    PROVE  /\ i \in DOMAIN alertCache /\ alertCache[i].analysis \in Analyses
           /\ now < alertCache[i].analysis.made + CacheTtl
<1>1. i \in DOMAIN alertCache /\ alertCache \in Seq(CacheEntries)
  BY DEF Places, CacheOK
<1>2. alertCache[i] \in CacheEntries /\ alertCache[i].at = alertCache[i].analysis.made
  BY <1>1 DEF CacheOK
<1> QED
  BY <1>1, <1>2 DEF CacheEntries, Current

LEMMA MissedForgets ==
    ASSUME DedupOK(dedup), NEW a
    PROVE  DedupOK(Missed(a))
BY DedupForgets DEF Missed

LEMMA CacheHitKeeps ==
    ASSUME PipelineInv, StoredInv, now \in Nat, NEW a \in Alerts, pc[a] = "new", CacheHit(a),
           now' = now, UNCHANGED <<throttledRows, clears>>
    PROVE  PipelineInv'
<1>1. PICK i \in Places(alertCache, a) :
        /\ Current(alertCache[i]) /\ alertCache' = UsedBy(i)
        /\ Analysed(a, alertCache[i].analysis, Missed(a)) /\ answered' = answered
  BY DEF CacheHit
<1>2. RequestTypes /\ CacheOK(alertCache) /\ DedupOK(dedup) /\ AnswersKept
  BY DEF PipelineInv
<1>3. /\ i \in DOMAIN alertCache /\ alertCache[i].analysis \in Analyses
      /\ now < alertCache[i].analysis.made + CacheTtl
  BY <1>1, <1>2, HitIsCurrent
<1>4. CacheOK(alertCache') /\ Contents(alertCache') = Contents(alertCache)
  BY <1>1, <1>2, <1>3, UsedKeeps
<1>5. DedupOK(Missed(a)) /\ pc[a] \in {"new", "llm"}
  BY <1>2, MissedForgets
<1>6. /\ pc' \in [Alerts -> PCs] /\ verdict' \in [Alerts -> Analyses \cup {None}]
      /\ stored' \in [Alerts -> 0..2] /\ DedupOK(dedup')
  BY <1>1, <1>2, <1>3, <1>5, AnalysedKeeps
<1>7. RequestTypes'
  BY <1>1, <1>2, <1>6 DEF RequestTypes
<1>8. AnswersKept'
  BY <1>1, <1>2, <1>4 DEF AnswersKept
<1> QED
  BY <1>4, <1>6, <1>7, <1>8 DEF PipelineInv

LEMMA CallLlmKeeps ==
    ASSUME PipelineInv, now \in Nat, NEW a \in Alerts, CallLlm(a), now' = now,
           UNCHANGED <<throttledRows, clears>>
    PROVE  PipelineInv'
<1>1. RequestTypes /\ CacheOK(alertCache) /\ DedupOK(dedup) /\ AnswersKept
  BY DEF PipelineInv
<1>2. RequestTypes'
  BY <1>1 DEF CallLlm, RequestTypes, PCs
<1>3. DedupOK(dedup')
  <2>1. dedup' = Missed(a)
    BY DEF CallLlm
  <2> QED
    BY <1>1, <2>1, MissedForgets
<1>4. answered' = answered
  BY DEF CallLlm
<1>5. /\ CacheOK(alertCache')
      /\ \A x \in Contents(alertCache) :
            x \in Contents(alertCache') \/ now >= x.at + CacheTtl
  <2>1. CASE alertCache' = alertCache
    BY <1>1, <2>1
  <2>2. ASSUME NEW i \in Places(alertCache, a), ~Current(alertCache[i]),
               alertCache' = Without(alertCache, i)
        PROVE  <1>5!1 /\ <1>5!2
    <3>1. i \in DOMAIN alertCache
      BY <2>2 DEF Places
    <3>2. /\ CacheOK(alertCache')
          /\ Contents(alertCache') = Contents(alertCache) \ {alertCache[i]}
      BY <1>1, <2>2, <3>1, WithoutKeeps
    <3>3. now >= alertCache[i].at + CacheTtl
      <4>1. alertCache \in Seq(CacheEntries)
        BY <1>1 DEF CacheOK
      <4>2. alertCache[i].at \in Nat /\ CacheTtl \in Nat
        <5>1. alertCache[i] \in CacheEntries
          BY <3>1, <4>1
        <5> QED
          BY <5>1, CachesAssumption DEF CacheEntries
      <4> QED
        BY <2>2, <4>2 DEF Current
    <3> QED
      BY <3>2, <3>3
  <2> QED
    BY <2>1, <2>2 DEF CallLlm
<1>6. AnswersKept'
  <2>1. now' \in Nat /\ now' >= now
    OBVIOUS
  <2> QED
    BY <1>1, <1>4, <1>5, <2>1, AnswersStay
<1> QED
  BY <1>2, <1>3, <1>5, <1>6 DEF PipelineInv

(* Later: the LLM answers, a request ends, the operator clears, time passes. *)
LEMMA LlmAnswersKeeps ==
    ASSUME PipelineInv, StoredInv, now \in Nat, NEW a \in Alerts, NEW severity \in Severities,
           LlmAnswers(a, severity)
    PROVE  PipelineInv'
<1> DEFINE analysis == [severity |-> severity, made |-> now]
<1>1. analysis \in Analyses /\ analysis.made = now /\ now < analysis.made + CacheTtl
  BY CachesAssumption DEF Analyses
<1>2. /\ pc[a] \in {"new", "llm"} /\ Set(a, analysis) /\ Analysed(a, analysis, dedup)
      /\ now' = now /\ throttledRows' = throttledRows /\ clears' = clears
  BY DEF LlmAnswers, throttleVars
<1> HIDE DEF analysis
<1>3. RequestTypes /\ CacheOK(alertCache) /\ DedupOK(dedup) /\ AnswersKept
  BY DEF PipelineInv
<1>4. CacheOK(alertCache')
  BY <1>1, <1>2, <1>3, SetKeeps
<1>5. AnswersKept' /\ answered' \in [Keys -> Nat \cup {None}]
  BY <1>1, <1>2, <1>3, AnswerCounted
<1>6. /\ pc' \in [Alerts -> PCs] /\ verdict' \in [Alerts -> Analyses \cup {None}]
      /\ stored' \in [Alerts -> 0..2] /\ DedupOK(dedup')
  BY <1>1, <1>2, <1>3, AnalysedKeeps
<1>7. RequestTypes'
  BY <1>2, <1>3, <1>5, <1>6 DEF RequestTypes
<1> QED
  BY <1>4, <1>5, <1>6, <1>7 DEF PipelineInv

LEMMA EndKeeps ==
    ASSUME PipelineInv, StoredInv, NEW a \in Alerts, Raise(a) \/ Respond(a)
    PROVE  PipelineInv'
<1>1. RequestTypes /\ pc[a] \in {"new", "llm", "acting"}
  BY DEF PipelineInv, Raise, Respond
<1>2. \E where \in PCs : Move(a, where, None)
  BY DEF Raise, Respond, PCs
<1>3. Store(a) \/ stored' = [stored EXCEPT ![a] = @ + 2]
  BY DEF Raise, Respond
<1>4. UNCHANGED <<now, dedup, alertCache, answered, throttledRows, clears>>
  BY DEF Raise, Respond, throttleVars
<1>5. pc' \in [Alerts -> PCs] /\ verdict' \in [Alerts -> Analyses \cup {None}]
  BY <1>1, <1>2, Moved
<1>6. stored' \in [Alerts -> 0..2]
  BY <1>1, <1>3, StoresTwiceAtMost
<1>7. RequestTypes'
  BY <1>1, <1>4, <1>5, <1>6 DEF RequestTypes
<1>8. AnswersKept'
  BY <1>4 DEF PipelineInv, AnswersKept
<1> QED
  BY <1>4, <1>7, <1>8 DEF PipelineInv

LEMMA NoneHeld ==
    LET empty == [f \in Fingerprints |-> None] IN DedupOK(empty)
<1> DEFINE empty == [f \in Fingerprints |-> None]
<1>1. empty \in [Fingerprints -> Entries \cup {None}] /\ HeldIn(empty) = {}
  BY DEF HeldIn
<1>2. IsFiniteSet({}) /\ Cardinality({}) = 0 /\ 0 <= DedupSize
  BY FS_EmptySet, CachesAssumption
<1> HIDE DEF empty
<1>3. DedupOK(empty)
  BY <1>1, <1>2 DEF DedupOK
<1> QED
  BY <1>3 DEF empty

LEMMA OperatorKeeps ==
    ASSUME PipelineInv, Operator
    PROVE  PipelineInv'
<1>1. RequestTypes'
  BY CachesAssumption DEF Operator, PipelineInv, RequestTypes
<1>2. alertCache' = alertCache /\ answered' = answered /\ now' = now
  BY DEF Operator, ClearDedup, ClearAll, throttleVars
<1>3. AnswersKept'
  BY <1>2 DEF PipelineInv, AnswersKept
<1>4. DedupOK(dedup')
  <2>1. dedup' = dedup \/ dedup' = [f \in Fingerprints |-> None]
    BY DEF Operator, ClearDedup
  <2>2. CASE dedup' = dedup
    BY <2>2 DEF PipelineInv
  <2>3. CASE dedup' = [f \in Fingerprints |-> None]
    BY <2>3, NoneHeld
  <2> QED
    BY <2>1, <2>2, <2>3
<1> QED
  BY <1>1, <1>2, <1>3, <1>4 DEF PipelineInv

LEMMA TickKeeps ==
    ASSUME PipelineInv, now \in Nat, now' \in Nat, now' >= now,
           UNCHANGED <<pc, verdict, dedup, alertCache, answered, stored, throttledRows, clears>>
    PROVE  PipelineInv'
<1>1. RequestTypes /\ AnswersKept
  BY DEF PipelineInv
<1>2. RequestTypes'
  BY <1>1 DEF RequestTypes
<1>3. answered' = answered /\ \A x \in Contents(alertCache) :
         x \in Contents(alertCache') \/ now >= x.at + CacheTtl
  OBVIOUS
<1>4. AnswersKept'
  BY <1>1, <1>3, AnswersStay
<1> QED
  BY <1>2, <1>4 DEF PipelineInv

LEMMA ArriveKeeps ==
    ASSUME PipelineInv, StoredInv, now \in Nat, NEW a \in Alerts, Arrive(a)
    PROVE  PipelineInv'
<1>1. now' = now
  BY DecisionInstant DEF Arrive
<1>2. pc[a] = "new" /\ UNCHANGED <<throttledRows, clears>>
  BY DEF Arrive
<1>3. Reuse(a) \/ CacheHit(a) \/ CallLlm(a)
  BY DEF Arrive, Analyse
<1>4. CASE Reuse(a)
  BY <1>1, <1>2, <1>4, ReuseKeeps
<1>5. CASE CacheHit(a)
  BY <1>1, <1>2, <1>5, CacheHitKeeps
<1>6. CASE CallLlm(a)
  BY <1>1, <1>2, <1>6, CallLlmKeeps
<1> QED
  BY <1>3, <1>4, <1>5, <1>6

LEMMA NextPipeline == PipelineInv /\ StoredInv /\ ThrottleInv /\ [Next]_vars => PipelineInv'
<1> SUFFICES ASSUME PipelineInv, StoredInv, ThrottleInv, [Next]_vars
             PROVE  PipelineInv'
  OBVIOUS
<1>1. now \in Nat /\ now' \in Nat /\ now' >= now
  BY ClockStep
<1>2. ASSUME NEW a \in Alerts, Step(a) PROVE PipelineInv'
  <2>1. CASE Suppress(a)
    BY <1>1, <2>1, SuppressKeeps
  <2>2. CASE Arrive(a)
    BY <1>1, <2>2, ArriveKeeps
  <2>3. ASSUME NEW severity \in Severities, LlmAnswers(a, severity) PROVE PipelineInv'
    BY <1>1, <2>3, LlmAnswersKeeps
  <2>4. CASE Raise(a) \/ Respond(a)
    BY <2>4, EndKeeps
  <2> QED
    BY <1>2, <2>1, <2>2, <2>3, <2>4 DEF Step
<1>3. CASE Operator
  BY <1>3, OperatorKeeps
<1>4. CASE UNCHANGED <<pc, verdict, dedup, alertCache, answered, stored, throttledRows, clears>>
  BY <1>1, <1>4, TickKeeps
<1>5. CASE UNCHANGED vars
  BY <1>4, <1>5 DEF vars
<1> QED
  BY <1>2, <1>3, <1>4, <1>5 DEF Next

LEMMA InitPipeline == Init => PipelineInv
<1> SUFFICES ASSUME Init PROVE PipelineInv
  OBVIOUS
<1>1. RequestTypes
  BY CachesAssumption DEF Init, RequestTypes, PCs
<1>2. alertCache = <<>>
  BY DEF Init
<1>3. CacheOK(alertCache)
  BY <1>2, CachesAssumption DEF CacheOK
<1>4. DedupOK(dedup)
  <2>1. dedup = [f \in Fingerprints |-> None]
    BY DEF Init
  <2> QED
    BY <2>1, NoneHeld
<1>5. AnswersKept
  BY DEF Init, AnswersKept
<1> QED
  BY <1>1, <1>3, <1>4, <1>5 DEF PipelineInv

(* What the two caches hold, and what of the LLM's answers is still there.  *)
THEOREM CachesHold == Spec => [](PipelineInv /\ StoredInv /\ ThrottleInv)
<1>1. Init => StoredInv
  BY DEF Init, StoredInv, StoredTypes, StoredAsAnswered, PCs
<1>2. Spec => []StoredInv
  BY <1>1, StoredStep, PTL DEF Spec
<1>3. Spec => []ThrottleInv
  BY PipelineIsThrottled, WindowsHold, PTL
<1> QED
  BY <1>2, <1>3, InitPipeline, NextPipeline, PTL DEF Spec

(* Neither cache outgrows its size, however requests, hits and late answers *)
(* interleave: a key has one place in the alert cache, and no text is kept  *)
(* by the deduplicator.                                                     *)
THEOREM CachesWithinSize == Spec => []TypeOK
<1>1. PipelineInv => TypeOK
  <2> SUFFICES ASSUME PipelineInv PROVE TypeOK
    OBVIOUS
  <2>1. RequestTypes /\ CacheOK(alertCache) /\ DedupOK(dedup)
    BY DEF PipelineInv
  <2>2. ASSUME NEW a \in Alerts PROVE Cardinality(Places(alertCache, a)) <= 1
    <3>1. \A i, j \in Places(alertCache, a) : i = j
      BY <2>1 DEF Places, CacheOK
    <3>2. CASE Places(alertCache, a) = {}
      BY <3>2, FS_EmptySet
    <3>3. CASE Places(alertCache, a) # {}
      <4>1. PICK i : Places(alertCache, a) = {i}
        BY <3>1, <3>3
      <4> QED
        BY <4>1, FS_Singleton
    <3> QED
      BY <3>2, <3>3
  <2>3. /\ dedup \in [Fingerprints -> Entries \cup {None}]
        /\ \A f \in Fingerprints : dedup[f] # None => dedup[f].analysis.severity # "text"
        /\ Cardinality({f \in Fingerprints : dedup[f] # None}) <= DedupSize
    BY <2>1 DEF DedupOK, HeldIn
  <2>4. Len(alertCache) <= CacheSize
    BY <2>1 DEF CacheOK
  <2> QED
    BY <2>1, <2>2, <2>3, <2>4 DEF TypeOK, RequestTypes
<1> QED
  BY <1>1, CachesHold, PTL

-----------------------------------------------------------------------------
(* The analysis that a takes up now is within the lifetime of its cache.    *)
TakenInTime(a) ==
    LET extra == IF DedupHit(a) THEN SeverityTtl[verdict'[a].severity] ELSE 0 IN
      now < verdict'[a].made + CacheTtl + extra

LEMMA TakesUp ==
    ASSUME RequestTypes, NEW a \in Alerts, NEW b \in Alerts, NEW where, NEW analysis,
           Move(b, where, analysis), verdict'[a] # verdict[a]
    PROVE  a = b /\ verdict'[a] = analysis
BY DEF RequestTypes, Move

LEMMA ReusedInTime ==
    ASSUME PipelineInv, now \in Nat, NEW a \in Alerts, Reuse(a), verdict'[a] # verdict[a]
    PROVE  TakenInTime(a)
<1> DEFINE f == FingerprintOf[a]
           e == dedup[f]
           s == e.analysis.severity
<1>1. f \in Fingerprints /\ e # None /\ now < e.at + SeverityTtl[s] /\ DedupHit(a)
  BY CachesAssumption DEF Reuse, DedupHit
<1>2. verdict'[a] = e.analysis
  <2>1. RequestTypes /\ Move(a, "acting", e.analysis)
    BY DEF PipelineInv, Reuse
  <2> QED
    BY <2>1, TakesUp
<1> HIDE DEF f, e, s
<1>3. DedupOK(dedup) /\ f \in HeldIn(dedup)
  BY <1>1 DEF PipelineInv, HeldIn, e
<1>4. e \in Entries /\ s # "text" /\ e.at < e.analysis.made + CacheTtl
  BY <1>1, <1>3 DEF DedupOK, e, s
<1>5. e.at \in Nat /\ e.analysis \in Analyses
  BY <1>4 DEF Entries
<1>6. e.analysis.made \in Nat /\ s \in Severities \ {"text"}
  BY <1>4, <1>5 DEF Analyses, s
<1>7. SeverityTtl[s] \in Nat /\ CacheTtl \in Nat
  BY <1>6, CachesAssumption
<1>8. now < e.analysis.made + CacheTtl + SeverityTtl[s]
  BY <1>1, <1>4, <1>5, <1>6, <1>7
<1> QED
  BY <1>1, <1>2, <1>8 DEF TakenInTime, s

LEMMA AnalysedInTime ==
    ASSUME PipelineInv, now \in Nat, NEW a \in Alerts, NEW b \in Alerts,
           NEW analysis \in Analyses, now < analysis.made + CacheTtl, NEW cache,
           Analysed(b, analysis, cache), verdict'[a] # verdict[a], verdict'[a] # None
    PROVE  TakenInTime(a)
<1>1. RequestTypes
  BY DEF PipelineInv
<1>2. a = b /\ verdict'[a] = analysis /\ analysis.severity # "text"
  <2>1. CASE analysis.severity = "text"
    <3>1. Move(b, "error", None)
      BY <2>1 DEF Analysed
    <3> QED
      BY <1>1, <3>1, TakesUp
  <2>2. CASE analysis.severity # "text"
    <3>1. Move(b, "acting", analysis)
      BY <2>2 DEF Analysed
    <3> QED
      BY <1>1, <2>2, <3>1, TakesUp
  <2> QED
    BY <2>1, <2>2
<1>3. analysis.made \in Nat /\ CacheTtl \in Nat /\ SeverityTtl[analysis.severity] \in Nat
  BY <1>2, CachesAssumption DEF Analyses
<1>4. ASSUME NEW extra \in Nat PROVE now < analysis.made + CacheTtl + extra
  BY <1>3
<1>5. (IF DedupHit(a) THEN SeverityTtl[analysis.severity] ELSE 0) \in Nat
  BY <1>3
<1> QED
  BY <1>2, <1>4, <1>5 DEF TakenInTime

(* However the two caches refresh each other, no verdict rests on an        *)
(* analysis older than the alert cache's lifetime, or than both lifetimes   *)
(* when the deduplicator has it.                                            *)
THEOREM ReuseIsBounded == Spec => ReuseBounded
<1>1. ASSUME PipelineInv, ThrottleInv, [Next]_vars, NEW a \in Alerts,
             verdict'[a] # verdict[a], verdict'[a] # None
      PROVE  TakenInTime(a)
  <2>1. now \in Nat
    BY <1>1, ClockStep
  <2>2. RequestTypes /\ CacheOK(alertCache)
    BY <1>1 DEF PipelineInv
  <2>3. PICK b \in Alerts : Step(b)
    BY <1>1 DEF Next, Operator, vars
  <2>4. CASE Suppress(b)
    BY <1>1, <2>4 DEF Suppress
  <2>5. CASE Arrive(b)
    <3>1. CASE Reuse(b)
      <4>1. \E analysis : Move(b, "acting", analysis)
        BY <3>1 DEF Reuse
      <4>2. a = b
        BY <1>1, <2>2, <4>1, TakesUp
      <4> QED
        BY <1>1, <2>1, <3>1, <4>2, ReusedInTime
    <3>2. CASE CacheHit(b)
      <4>1. PICK i \in Places(alertCache, b) :
              Current(alertCache[i]) /\ Analysed(b, alertCache[i].analysis, Missed(b))
        BY <3>2 DEF CacheHit
      <4>2. /\ alertCache[i].analysis \in Analyses
            /\ now < alertCache[i].analysis.made + CacheTtl
        BY <2>2, <4>1, HitIsCurrent
      <4> QED
        BY <1>1, <2>1, <4>1, <4>2, AnalysedInTime
    <3>3. CASE CallLlm(b)
      BY <1>1, <3>3 DEF CallLlm
    <3> QED
      BY <2>5, <3>1, <3>2, <3>3 DEF Arrive, Analyse
  <2>6. ASSUME NEW severity \in Severities, LlmAnswers(b, severity) PROVE TakenInTime(a)
    <3> DEFINE analysis == [severity |-> severity, made |-> now]
    <3>1. analysis \in Analyses /\ now < analysis.made + CacheTtl
      BY <2>1, CachesAssumption DEF Analyses
    <3>2. Analysed(b, analysis, dedup)
      BY <2>6 DEF LlmAnswers
    <3> HIDE DEF analysis
    <3> QED
      BY <1>1, <2>1, <3>1, <3>2, AnalysedInTime
  <2>7. CASE Raise(b) \/ Respond(b)
    <3>1. \E where : Move(b, where, None)
      BY <2>7 DEF Raise, Respond
    <3> QED
      BY <1>1, <2>2, <3>1, TakesUp
  <2> QED
    BY <2>3, <2>4, <2>5, <2>6, <2>7 DEF Step
<1>2. PipelineInv /\ ThrottleInv /\ [Next]_vars =>
        [\A a \in Alerts : verdict'[a] # verdict[a] /\ verdict'[a] # None =>
           LET extra == IF DedupHit(a) THEN SeverityTtl[verdict'[a].severity] ELSE 0
           IN now < verdict'[a].made + CacheTtl + extra]_vars
  BY <1>1 DEF TakenInTime
<1> QED
  BY <1>2, CachesHold, PTL DEF Spec, ReuseBounded

-----------------------------------------------------------------------------
(* Only a request that finds nothing current asks the LLM.                  *)
LEMMA AsksOnlyStale ==
    ASSUME PipelineInv, now \in Nat, NEW a \in Alerts, CallLlm(a), answered[KeyOf[a]] # None
    PROVE  now >= answered[KeyOf[a]] + CacheTtl
<1>1. CacheOK(alertCache) /\ AnswersKept /\ KeyOf[a] \in Keys
  BY CachesAssumption DEF PipelineInv
<1>2. ASSUME NEW x \in Contents(alertCache), x.key = KeyOf[a], x.at = answered[KeyOf[a]]
      PROVE  now >= answered[KeyOf[a]] + CacheTtl
  <2>1. PICK j \in DOMAIN alertCache : x = alertCache[j]
    BY DEF Contents
  <2>2. j \in Places(alertCache, a)
    BY <1>2, <2>1 DEF Places
  <2>3. PICK i \in Places(alertCache, a) : ~Current(alertCache[i])
    BY <2>2 DEF CallLlm
  <2>4. i = j
    BY <1>1, <2>2, <2>3 DEF Places, CacheOK
  <2>5. x.at \in Nat /\ CacheTtl \in Nat
    <3>1. x \in CacheEntries
      BY <1>1, <2>1 DEF CacheOK
    <3> QED
      BY <3>1, CachesAssumption DEF CacheEntries
  <2>6. ~(now < x.at + CacheTtl)
    BY <2>1, <2>3, <2>4 DEF Current
  <2> QED
    BY <1>2, <2>5, <2>6
<1> QED
  BY <1>1, <1>2 DEF AnswersKept

LEMMA AsksByCalling ==
    ASSUME RequestTypes, NEW a \in Alerts, NEW b \in Alerts, Step(b),
           pc[a] = "new", pc'[a] = "llm"
    PROVE  CallLlm(a)
<1>1. \/ CallLlm(b) /\ pc' = [pc EXCEPT ![b] = "llm"]
      \/ \E where \in {"throttled", "acting", "processed", "error"} :
            pc' = [pc EXCEPT ![b] = where]
  <2>1. CASE Suppress(b)
    BY <2>1 DEF Suppress
  <2>2. CASE Arrive(b)
    BY <2>2 DEF Arrive, Reuse, Analyse, CacheHit, CallLlm, Analysed, Move
  <2>3. CASE \E severity \in Severities : LlmAnswers(b, severity)
    BY <2>3 DEF LlmAnswers, Analysed, Move
  <2>4. CASE Raise(b) \/ Respond(b)
    BY <2>4 DEF Raise, Respond, Move
  <2> QED
    BY <2>1, <2>2, <2>3, <2>4 DEF Step
<1>2. pc \in [Alerts -> PCs]
  BY DEF RequestTypes
<1> QED
  BY <1>1, <1>2

(* However requests, evictions and late answers interleave, the LLM is paid *)
(* again for a key only when its last answer is out of date, or was evicted.*)
THEOREM SpendNotRepeated == Spec => NoRepeatedSpend
<1>1. ASSUME PipelineInv, ThrottleInv, [Next]_vars, NEW a \in Alerts,
             pc[a] = "new", pc'[a] = "llm", answered[KeyOf[a]] # None
      PROVE  now >= answered[KeyOf[a]] + CacheTtl
  <2>1. now \in Nat
    BY <1>1, ClockStep
  <2>2. RequestTypes
    BY <1>1 DEF PipelineInv
  <2>3. PICK b \in Alerts : Step(b)
    BY <1>1 DEF Next, Operator, vars
  <2>4. CallLlm(a)
    BY <1>1, <2>2, <2>3, AsksByCalling
  <2> QED
    BY <1>1, <2>1, <2>4, AsksOnlyStale
<1>2. PipelineInv /\ ThrottleInv /\ [Next]_vars =>
        [\A a \in Alerts : pc[a] = "new" /\ pc'[a] = "llm" /\ answered[KeyOf[a]] # None
           => now >= answered[KeyOf[a]] + CacheTtl]_vars
  BY <1>1
<1> QED
  BY <1>2, CachesHold, PTL DEF Spec, NoRepeatedSpend
=============================================================================

-------------------------- MODULE AlertPipeline --------------------------
(***************************************************************************)
(* _process_alert_core for many requests at once: the limiter, the         *)
(* deduplicator, the alert cache inside analyze_with_fallback, the LLM,    *)
(* and what is stored and answered. The LLM and the cluster are awaited,   *)
(* so a request resumes in a world that others have changed. Two caches    *)
(* with two keys and two lifetimes hold the same analyses.                 *)
(***************************************************************************)
EXTENDS AlertThrottle, Sequences

CONSTANTS
    Fingerprints, FingerprintOf,         \* rule, container, command line and exe
    Keys, KeyOf,                         \* the same without exe
    DedupSize, CacheSize,                \* max_cache_size, max_size
    CacheTtl,                            \* ttl_seconds of the alert cache
    SeverityTtl,                         \* _severity_ttl
    None,
    MaxClears                            \* bound: what the operator clears

(* What the LLM says the severity is: an integer, a number with a fraction, *)
(* or a text, which no ordering comparison accepts.                         *)
Severities == {"integer", "fraction", "text"}

ASSUME CachesAssumption ==
    /\ FingerprintOf \in [Alerts -> Fingerprints] /\ KeyOf \in [Alerts -> Keys]
    /\ DedupSize \in Nat \ {0} /\ CacheSize \in Nat \ {0} /\ CacheTtl \in Nat \ {0}
    /\ SeverityTtl \in [Severities \ {"text"} -> Nat]
    /\ MaxClears \in Nat

VARIABLES
    pc,                  \* where each request is
    verdict,             \* analysis, until the request is answered
    dedup,               \* deduplicator.cache
    alertCache,          \* alert_cache.cache, the least recently used first
    answered,            \* history: when the LLM last answered for a key
    stored, throttledRows,               \* alerts rows per request; throttled_alerts
    clears               \* bound: how often the operator has cleared something

vars == <<throttleVars, pc, verdict, dedup, alertCache, answered, stored, throttledRows, clears>>

PCs == {"new", "throttled", "llm", "acting", "processed", "error"}

Analyses == [severity : Severities, made : Nat]      \* made: when
Entries  == [analysis : Analyses, at : Nat]

Init ==
    /\ ThrottleInit
    /\ pc = [a \in Alerts |-> "new"]
    /\ verdict = [a \in Alerts |-> None]
    /\ dedup = [f \in Fingerprints |-> None]
    /\ alertCache = <<>> /\ answered = [k \in Keys |-> None]
    /\ stored = [a \in Alerts |-> 0] /\ throttledRows = {} /\ clears = 0

-----------------------------------------------------------------------------
(* The deduplicator. Time of the entry's last use does not matter to it.    *)
DedupHit(a) ==
    LET e == dedup[FingerprintOf[a]] IN
      e # None /\ now < e.at + SeverityTtl[e.analysis.severity]

(* An expired entry is deleted by the look that finds it.                   *)
Missed(a) == [dedup EXCEPT ![FingerprintOf[a]] = None]

(* Fault: one entry too many.                                              *)
RoomLate(cache) ==
    LET held == {f \in Fingerprints : cache[f] # None} IN
    IF Cardinality(held) <= DedupSize THEN {cache}
    ELSE {[cache EXCEPT ![f] = None] :
             f \in {g \in held : \A h \in held : cache[g].at <= cache[h].at}}

(* cache_analysis: an oldest entry makes room, for a replacement too.       *)
Room(cache) ==
    LET held == {f \in Fingerprints : cache[f] # None} IN
    IF Cardinality(held) < DedupSize THEN {cache}
    ELSE {[cache EXCEPT ![f] = None] :
             f \in {g \in held : \A h \in held : cache[g].at <= cache[h].at}}

(* Room is made before the severity is looked at; a text raises there.      *)
CacheAnalysis(a, analysis, cache) ==
    \E kept \in Room(cache) :
       dedup' = IF analysis.severity = "text" THEN kept
                ELSE [kept EXCEPT ![FingerprintOf[a]] = [analysis |-> analysis, at |-> now]]

-----------------------------------------------------------------------------
(* The alert cache: a key has one place at most.                            *)
Places(cache, a) == {i \in DOMAIN cache : cache[i].key = KeyOf[a]}
Current(entry)   == now < entry.at + CacheTtl
Without(cache, i) == SubSeq(cache, 1, i - 1) \o SubSeq(cache, i + 1, Len(cache))

(* Fault: a hit renews the entry's lifetime too.                            *)
RenewedBy(i) ==
    Append(Without(alertCache, i), [alertCache[i] EXCEPT !.at = now])

(* Fault: a hit takes the entry out.                                       *)
TakenBy(i) == Without(alertCache, i)

(* A hit makes the entry the most recently used one.                        *)
UsedBy(i) == Append(Without(alertCache, i), alertCache[i])

(* AlertCache.set: with the cache full its first entry goes, though the key *)
(* be one that is there already.                                            *)
Set(a, analysis) ==
    LET full  == Len(alertCache) >= CacheSize
        kept  == IF full THEN Tail(alertCache) ELSE alertCache
        entry == [key |-> KeyOf[a], analysis |-> analysis, at |-> now] IN
    /\ alertCache' = IF Places(kept, a) = {} THEN Append(kept, entry)
                     ELSE [i \in DOMAIN kept |-> IF i \in Places(kept, a) THEN entry ELSE kept[i]]
    /\ answered' = [k \in Keys |-> IF k = KeyOf[a] THEN now
                                   ELSE IF full /\ k = Head(alertCache).key THEN None
                                   ELSE answered[k]]

-----------------------------------------------------------------------------
Move(a, where, analysis) ==
    /\ pc' = [pc EXCEPT ![a] = where]
    /\ verdict' = [verdict EXCEPT ![a] = analysis]

Store(a) == stored' = [stored EXCEPT ![a] = @ + 1]

(* After analyze: the deduplicator is told. A text raises there, after the  *)
(* alert cache took it in: the raw alert is stored as an error.             *)
Analysed(a, analysis, cache) ==
    /\ CacheAnalysis(a, analysis, cache)
    /\ IF analysis.severity = "text"
       THEN Move(a, "error", None) /\ Store(a)
       ELSE Move(a, "acting", analysis) /\ UNCHANGED stored

Reuse(a) ==
    /\ DedupHit(a)
    /\ Move(a, "acting", dedup[FingerprintOf[a]].analysis)
    /\ UNCHANGED <<dedup, alertCache, answered, stored>>

CacheHit(a) ==
    \E i \in Places(alertCache, a) :
       /\ Current(alertCache[i])
       /\ alertCache' = UsedBy(i)
       /\ Analysed(a, alertCache[i].analysis, Missed(a))
       /\ UNCHANGED answered

(* An expired entry is deleted here too.                                    *)
CallLlm(a) ==
    /\ \/ Places(alertCache, a) = {} /\ UNCHANGED alertCache
       \/ \E i \in Places(alertCache, a) :
             ~Current(alertCache[i]) /\ alertCache' = Without(alertCache, i)
    /\ dedup' = Missed(a)
    /\ pc' = [pc EXCEPT ![a] = "llm"]
    /\ UNCHANGED <<verdict, answered, stored>>

Analyse(a) == CacheHit(a) \/ CallLlm(a)

-----------------------------------------------------------------------------
(* The steps of a request, from one await to the next                       *)
Suppress(a) ==
    /\ pc[a] = "new" /\ Throttle(a)
    /\ pc' = [pc EXCEPT ![a] = "throttled"]
    /\ throttledRows' = throttledRows \cup {a}
    /\ UNCHANGED <<verdict, dedup, alertCache, answered, stored, clears>>

Arrive(a) ==
    /\ pc[a] = "new" /\ Accept(a)
    /\ \/ Reuse(a)
       \/ ~DedupHit(a) /\ Analyse(a)
    /\ UNCHANGED <<throttledRows, clears>>

LlmAnswers(a, severity) ==
    LET analysis == [severity |-> severity, made |-> now] IN
    /\ pc[a] = "llm"
    /\ Set(a, analysis)
    /\ Analysed(a, analysis, dedup)
    /\ UNCHANGED <<throttleVars, throttledRows, clears>>

(* Every provider failed, or the cluster call of an action raised.          *)
Raise(a) ==
    /\ pc[a] \in {"llm", "acting"}
    /\ Move(a, "error", None) /\ Store(a)
    /\ UNCHANGED <<throttleVars, dedup, alertCache, answered, throttledRows, clears>>

(* Fault: the answer is made before the alert is stored.                    *)
RespondFirst(a) ==
    /\ pc[a] = "acting"
    /\ IF verdict[a].severity = "fraction"
       THEN Move(a, "error", None) /\ UNCHANGED stored
       ELSE Move(a, "processed", None) /\ Store(a)
    /\ UNCHANGED <<throttleVars, dedup, alertCache, answered, throttledRows, clears>>

(* The actions are over: the alert is stored and the answer is made, with   *)
(* awaits in between that nothing here depends on. AlertResponse refuses a  *)
(* severity with a fraction: then the alert is stored again, as an error.   *)
Respond(a) ==
    /\ pc[a] = "acting"
    /\ IF verdict[a].severity = "fraction"
       THEN Move(a, "error", None) /\ stored' = [stored EXCEPT ![a] = @ + 2]
       ELSE Move(a, "processed", None) /\ Store(a)
    /\ UNCHANGED <<throttleVars, dedup, alertCache, answered, throttledRows, clears>>

(* POST /api/deduplicator/clear: the alert cache keeps its entries.         *)
ClearDedup == dedup' = [f \in Fingerprints |-> None] /\ UNCHANGED throttleVars

Operator ==
    /\ clears < MaxClears /\ clears' = clears + 1
    /\ ClearDedup \/ (ClearAll /\ UNCHANGED dedup)
    /\ UNCHANGED <<pc, verdict, alertCache, answered, stored, throttledRows>>

Step(a) ==
    \/ Suppress(a) \/ Arrive(a)
    \/ \E severity \in Severities : LlmAnswers(a, severity)
    \/ Raise(a) \/ Respond(a)

Next ==
    \/ \E a \in Alerts : Step(a)
    \/ Operator
    \/ Tick /\ UNCHANGED <<pc, verdict, dedup, alertCache, answered, stored, throttledRows, clears>>

Spec == Init /\ [][Next]_vars

-----------------------------------------------------------------------------
(* Types; a key has at most one place in the alert cache, which never holds *)
(* more than it may, nor does the deduplicator, and a text is never in it.  *)
TypeOK ==
    /\ pc \in [Alerts -> PCs] /\ clears \in 0..MaxClears
    /\ verdict \in [Alerts -> Analyses \cup {None}]
    /\ dedup \in [Fingerprints -> Entries \cup {None}]
    /\ \A f \in Fingerprints : dedup[f] # None => dedup[f].analysis.severity # "text"
    /\ Cardinality({f \in Fingerprints : dedup[f] # None}) <= DedupSize
    /\ Len(alertCache) <= CacheSize
    /\ \A a \in Alerts : Cardinality(Places(alertCache, a)) <= 1
    /\ answered \in [Keys -> Nat \cup {None}]
    /\ stored \in [Alerts -> 0..2] /\ throttledRows \subseteq Alerts

(* An analysis is never taken up later than the cache it comes from allows. *)
(* That is both lifetimes together for the deduplicator: the alert cache    *)
(* can hand it an old analysis, and its lifetime starts anew; never the     *)
(* other way round, so reuse does not go on for as long as alerts do.       *)
ReuseBounded ==
    [][\A a \in Alerts : verdict'[a] # verdict[a] /\ verdict'[a] # None =>
         LET extra == IF DedupHit(a) THEN SeverityTtl[verdict'[a].severity] ELSE 0
         IN now < verdict'[a].made + CacheTtl + extra]_vars

(* The LLM is not paid again for a key within the alert cache's lifetime,   *)
(* unless the first call was not answered yet when the second was made, or  *)
(* its analysis lost its place to another one.                              *)
NoRepeatedSpend ==
    [][\A a \in Alerts : pc[a] = "new" /\ pc'[a] = "llm" /\ answered[KeyOf[a]] # None
         => now >= answered[KeyOf[a]] + CacheTtl]_vars

(* An answer says what was stored: a processed alert exactly once, one that *)
(* was throttled in the other table only, one in error at least once.       *)
StoredAsAnswered ==
    \A a \in Alerts :
       /\ pc[a] \in {"new", "throttled", "llm", "acting"} => stored[a] = 0
       /\ pc[a] = "processed" => stored[a] = 1
       /\ pc[a] = "error" => stored[a] >= 1
       /\ (pc[a] = "throttled") = (a \in throttledRows)
============================================================================

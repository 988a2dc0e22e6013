--------------------------- MODULE LlmProviders ---------------------------
(***************************************************************************)
(* llm_providers/manager.py and its callers: coroutines on one event loop  *)
(* send requests down a chain of providers. A provider that fails is       *)
(* latched (bad key) or cooled down (limit, server error); startup probes  *)
(* and the operator write the same state while requests are under way. The *)
(* circuit breaker is told what happened and is never asked.               *)
(*                                                                         *)
(* A step is what runs between two awaits: state_lock is never held across *)
(* one, so the loop alone makes the steps atomic.                          *)
(***************************************************************************)
EXTENDS Naturals, Sequences, FiniteSets

CONSTANTS
    Providers,           \* providers with a key, all of them tracked by the breaker
    Priority,            \* LLM_PRIORITY: the chain at startup
    Probed,              \* the providers that have a probe
    Calls,               \* coroutines that call LLMManager.analyze, one call each
    NoProvider,          \* Python's None
    Threshold,           \* failure_threshold
    MaxAttempts,         \* MAX_RETRY_ATTEMPTS
    RetryLimit,          \* the maxlen of llm_retry_queue
    LongCooldown,        \* LLM_PROVIDER_COOLDOWN_SECONDS
    ShortCooldown,       \* LLM_PROVIDER_SERVER_ERROR_COOLDOWN_SECONDS
    MaxOperator          \* bound: interventions of the operator

ASSUME ProvidersAssumption == IsFiniteSet(Providers) /\ NoProvider \notin Providers
                                /\ Probed \subseteq Providers
ASSUME LimitsAssumption ==
    /\ Threshold \in Nat \ {0} /\ MaxAttempts \in Nat \ {0} /\ RetryLimit \in Nat \ {0}
    /\ LongCooldown \in Nat \ {0} /\ ShortCooldown \in Nat \ {0}
    /\ MaxOperator \in Nat
ASSUME CallsAssumption == IsFiniteSet(Calls)

VARIABLES
    order,               \* self.providers: the chain, sorted by priority
    forced,              \* llm_forced_provider
    authFailed,          \* provider_auth_failed
    cooldown,            \* what is left until provider_cooldown_until
    unsettled,           \* runtime_stats: attempts - successes - failures
    cancelled,           \* history: requests cancelled while awaited
    breaker,             \* circuit_breaker.engine_stats
    probing,             \* providers whose startup probe is under way
    call,                \* the locals of each coroutine
    retryQueue,          \* llm_retry_queue, a bounded deque that a restart empties
    cleared,             \* history: alerts the operator cleared from it
    interventions        \* bound: what the operator has done so far

vars  == <<order, forced, authFailed, cooldown, unsettled,
           cancelled, breaker, probing, call, retryQueue, cleared, interventions>>

Maybe == Providers \cup {NoProvider}
Errors == {"auth", "limit", "server", "other"}       \* _classify_error

Elements(s) == {s[i] : i \in DOMAIN s}

Orders == {s \in [1..Cardinality(Providers) -> Providers] : Elements(s) = Providers}

ASSUME PriorityAssumption == Priority \in Orders

(* alert: analyze_with_fallback; test and strict: llm_test_provider_by_name;  *)
(* race: the combat and the live probe, under wait_for.                       *)
Kinds == {"alert", "test", "strict", "race"}
PCs == {"idle", "await", "backoff", "answered", "failed", "raised"}

(* failures beyond the threshold are not told apart.                        *)
Engine == [state : {"closed", "open", "half_open"}, failures : 0..Threshold]
Locals == [pc : PCs, kind : Kinds, pref : Maybe, attempt : 0..MaxAttempts,
           at : Maybe, rest : Seq(Providers), failed : Seq(Providers)]
Fresh == [state |-> "closed", failures |-> 0]

Unstarted == [pc |-> "idle", kind |-> "alert", pref |-> NoProvider, attempt |-> 0,
              at |-> NoProvider, rest |-> <<>>, failed |-> <<>>]

(* A coroutine that has returned keeps no locals.                          *)
Ended(pc) == [Unstarted EXCEPT !.pc = pc]

InFlight(p) == {c \in Calls : call[c].pc = "await" /\ call[c].at = p}
Waiting(c)  == call[c].pc \in {"await", "backoff"}

-----------------------------------------------------------------------------
Init ==
    /\ order = Priority
    /\ forced = NoProvider
    /\ authFailed = [p \in Providers |-> FALSE]
    /\ cooldown = [p \in Providers |-> 0]
    /\ unsettled = [p \in Providers |-> 0] /\ cancelled = unsettled
    /\ breaker = [p \in Providers |-> Fresh]
    /\ probing = Probed
    /\ call = [c \in Calls |-> Unstarted]
    /\ retryQueue = <<>> /\ cleared = {} /\ interventions = 0

(* Neither in_cooldown nor auth_failed, read when the provider's turn comes. *)
Usable(p) == cooldown[p] = 0 /\ ~authFailed[p]

(* p first, the others in their order.                                      *)
PreferredFirst(p) ==
    LET place == CHOOSE i \in DOMAIN order : order[i] = p
    IN  [i \in DOMAIN order |-> IF i = 1 THEN p
                                ELSE IF i <= place THEN order[i - 1] ELSE order[i]]

(* The chain of one analyze call; without fallback the preferred provider.   *)
Chain(pref, kind) ==
    IF pref = NoProvider THEN order
    ELSE IF kind = "strict" THEN <<pref>> ELSE PreferredFirst(pref)

(* Places of the chain where the walk stops: the first usable provider.    *)
NextInLine(chain) ==
    {i \in DOMAIN chain : Usable(chain[i]) /\ \A j \in 1..(i - 1) : ~Usable(chain[j])}

-----------------------------------------------------------------------------
(* The circuit breaker                                                      *)
RecordFailure(e, n) ==
    IF n = 0 THEN e
    ELSE IF e.state = "half_open" \/ e.failures + n >= Threshold
    THEN [failures |-> Threshold, state |-> "open"]
    ELSE [e EXCEPT !.failures = @ + n]

RecordSuccess(e) == Fresh                \* from closed, open and half_open alike

Times(p, failed, used) ==
    (IF p \in Elements(failed) THEN 1 ELSE 0) + (IF p = used THEN 1 ELSE 0)

(* analyze_with_fallback charges every engine of failed_engines, skipped or *)
(* tried, and the last one tried once more.                                 *)
BreakerAfterFailure(failed, used) ==
    [p \in Providers |-> RecordFailure(breaker[p], Times(p, failed, used))]

BreakerAfterSuccess(failed, used) ==
    [p \in Providers |-> IF p = used THEN RecordSuccess(breaker[p])
                         ELSE RecordFailure(breaker[p], Times(p, failed, NoProvider))]

(* The provider test reports its failures; its success raises TypeError in  *)
(* update_provider_state, before record_success, and is swallowed.          *)
BreakerAfterTest(pref, used) ==
    IF used = pref THEN breaker ELSE [breaker EXCEPT ![pref] = RecordFailure(@, 1)]

-----------------------------------------------------------------------------
(* One analyze call. r is what the coroutine c knows: r.rest is the chain   *)
(* still to walk, r.at the last provider tried, r.failed the others so far. *)

(* The first usable provider is asked; those before it count as failed.     *)
Send(c, r, counts) ==
    \E i \in NextInLine(r.rest) :
       /\ call' = [call EXCEPT ![c] =
                     [r EXCEPT !.pc = "await", !.at = r.rest[i],
                               !.rest = SubSeq(r.rest, i + 1, Len(r.rest)),
                               !.failed = @ \o SubSeq(r.rest, 1, i - 1)]]
       /\ unsettled' = [counts EXCEPT ![r.rest[i]] = @ + 1]
       /\ UNCHANGED <<breaker, retryQueue>>

RetryLater(c, r) ==
    /\ r.kind = "alert" /\ r.attempt < MaxAttempts
    /\ call' = [call EXCEPT ![c] = [r EXCEPT !.pc = "backoff"]]
    /\ UNCHANGED <<breaker, retryQueue>>

(* A full deque drops its oldest entry, and tells nobody.                   *)
Pushed(queue, c) ==
    IF Len(queue) < RetryLimit THEN Append(queue, c) ELSE Append(Tail(queue), c)

(* Fault: a queue without a bound.                                          *)
EnqueueUnbounded(c, r) == retryQueue' = Append(retryQueue, c)

(* Fault: not if the last attempt skipped every provider.                   *)
EnqueueIfTried(c, r) ==
    retryQueue' = IF r.at = NoProvider THEN retryQueue ELSE Pushed(retryQueue, c)

(* enqueue_llm_retry: every alert that is given up.                         *)
EnqueueRetry(c, r) == retryQueue' = Pushed(retryQueue, c)

GiveUp(c, r) ==
    /\ r.kind = "alert" /\ r.attempt = MaxAttempts
    /\ call' = [call EXCEPT ![c] = [Ended("raised") EXCEPT !.failed = r.failed]]
    /\ breaker' = BreakerAfterFailure(r.failed, r.at)
    /\ EnqueueRetry(c, r)

ReportFailure(c, r) ==
    /\ r.kind # "alert"
    /\ call' = [call EXCEPT ![c] = Ended("failed")]
    /\ breaker' = IF r.kind = "race" THEN breaker ELSE BreakerAfterTest(r.pref, NoProvider)
    /\ UNCHANGED retryQueue

(* The rest of the chain is skipped.                                        *)
Exhausted(c, r, counts) ==
    /\ NextInLine(r.rest) = {}
    /\ LET done == [r EXCEPT !.failed = @ \o r.rest, !.rest = <<>>] IN
         \/ RetryLater(c, done)
         \/ GiveUp(c, done)
         \/ ReportFailure(c, done)
    /\ unsettled' = counts

(* The walk down the chain to the next request or to the end of the chain.  *)
Walk(c, r, counts) ==
    /\ Send(c, r, counts) \/ Exhausted(c, r, counts)
    /\ UNCHANGED <<order, forced, cancelled, probing, cleared, interventions>>

(* A forced provider leads; so does the one routing picks, whatever it is.  *)
Preferences(kind) ==
    IF kind = "alert" THEN IF forced # NoProvider THEN {forced} ELSE Providers
    ELSE IF kind = "race" THEN Maybe
    ELSE Providers

Begin(c) ==
    /\ call[c].pc = "idle"
    /\ \E kind \in Kinds : \E pref \in Preferences(kind) :
          Walk(c, [Unstarted EXCEPT !.kind = kind, !.pref = pref, !.attempt = 1,
                                    !.rest = Chain(pref, kind)], unsettled)
    /\ UNCHANGED <<authFailed, cooldown>>

(* Fault: the retry waits until some provider is usable again.              *)
BackoffOverUsable(c) == call[c].pc = "backoff" /\ \E p \in Providers : Usable(p)

BackoffOver(c) == call[c].pc = "backoff"

(* The next attempt: the same preference, the order of the chain as it is.  *)
Wake(c) ==
    /\ BackoffOver(c)
    /\ Walk(c, [call[c] EXCEPT !.attempt = @ + 1, !.at = NoProvider, !.failed = <<>>,
                               !.rest = Chain(call[c].pref, "alert")], unsettled)
    /\ UNCHANGED <<authFailed, cooldown>>

-----------------------------------------------------------------------------
(* A provider's answer                                                      *)
Succeeds(c) ==
    /\ call[c].pc = "await"
    /\ LET r == call[c] IN
         /\ call' = [call EXCEPT ![c] = Ended("answered")]
         /\ unsettled' = [unsettled EXCEPT ![r.at] = @ - 1]
         /\ breaker' = CASE r.kind = "alert" -> BreakerAfterSuccess(r.failed, r.at)
                         [] r.kind = "race" -> breaker
                         [] OTHER -> BreakerAfterTest(r.pref, r.at)
    /\ UNCHANGED <<order, forced, authFailed, cooldown, cancelled, probing,
                   retryQueue, cleared, interventions>>

(* Fault: an ordinary error clears the latch.                               *)
LatchLast(p, outcome) == authFailed' = [authFailed EXCEPT ![p] = outcome = "auth"]

Latch(p, outcome) == authFailed' = [authFailed EXCEPT ![p] = @ \/ outcome = "auth"]

(* The cooldown is set, to a nearer end too; other errors cause none.       *)
CoolDown(p, outcome) ==
    cooldown' = CASE outcome = "limit"  -> [cooldown EXCEPT ![p] = LongCooldown]
                  [] outcome = "server" -> [cooldown EXCEPT ![p] = ShortCooldown]
                  [] OTHER -> cooldown

(* Fault: an unclassified error is not counted as a failure.                *)
SettledClassified(p, outcome) ==
    IF outcome = "other" THEN unsettled ELSE [unsettled EXCEPT ![p] = @ - 1]

SettledFailure(p, outcome) == [unsettled EXCEPT ![p] = @ - 1]

Fails(c, outcome) ==
    /\ call[c].pc = "await"
    /\ LET p == call[c].at IN
         /\ Latch(p, outcome) /\ CoolDown(p, outcome)
         /\ Walk(c, [call[c] EXCEPT !.failed = Append(@, p)], SettledFailure(p, outcome))

(* wait_for cancels the request: neither a success nor a failure.           *)
TimesOut(c) ==
    /\ call[c].pc = "await" /\ call[c].kind = "race"
    /\ call' = [call EXCEPT ![c] = Ended("failed")]
    /\ cancelled' = [cancelled EXCEPT ![call[c].at] = @ + 1]
    /\ UNCHANGED <<order, forced, authFailed, cooldown, unsettled,
                   breaker, probing, retryQueue, cleared, interventions>>

(* The startup probe: an answer that is no known error enables p.           *)
ProbeAnswers(p, outcome) ==
    /\ p \in probing
    /\ probing' = probing \ {p}
    /\ authFailed' = [authFailed EXCEPT ![p] = CASE outcome = "auth" -> TRUE
                                                 [] outcome \in {"limit", "server"} -> @
                                                 [] OTHER -> FALSE]
    /\ cooldown' = CASE outcome = "limit"  -> [cooldown EXCEPT ![p] = LongCooldown]
                     [] outcome = "server" -> [cooldown EXCEPT ![p] = ShortCooldown]
                     [] outcome = "auth"   -> cooldown
                     [] OTHER -> [cooldown EXCEPT ![p] = 0]
    /\ UNCHANGED <<order, forced, unsettled, cancelled, breaker, call,
                   retryQueue, cleared, interventions>>

-----------------------------------------------------------------------------
(* The operator                                                             *)
AllClosed == [p \in Providers |-> Fresh]

RetryAll ==
    /\ authFailed' = [p \in Providers |-> FALSE]
    /\ cooldown' = [p \in Providers |-> 0]
    /\ breaker' = AllClosed
    /\ UNCHANGED <<order, forced, retryQueue, cleared>>

(* reset-cooldown too: the manager has no reset_cooldowns, so only the      *)
(* breaker is reset.                                                        *)
ResetBreakers ==
    /\ breaker' = AllClosed
    /\ UNCHANGED <<authFailed, cooldown, order, forced, retryQueue, cleared>>

ResetBreaker(p) ==
    /\ breaker' = [breaker EXCEPT ![p] = Fresh]
    /\ UNCHANGED <<authFailed, cooldown, order, forced, retryQueue, cleared>>

Enable(p) ==
    /\ authFailed' = [authFailed EXCEPT ![p] = FALSE]
    /\ UNCHANGED <<cooldown, breaker, order, forced, retryQueue, cleared>>

ForceProvider(p) ==
    /\ forced' = p
    /\ UNCHANGED <<authFailed, cooldown, breaker, order, retryQueue, cleared>>

SetPriorityOrder(s) ==
    /\ order' = s
    /\ UNCHANGED <<authFailed, cooldown, breaker, forced, retryQueue, cleared>>

ClearRetryQueue ==
    /\ cleared' = cleared \cup Elements(retryQueue) /\ retryQueue' = <<>>
    /\ UNCHANGED <<authFailed, cooldown, breaker, order, forced>>

Operator ==
    /\ interventions < MaxOperator /\ interventions' = interventions + 1
    /\ \/ RetryAll \/ ResetBreakers \/ ClearRetryQueue
       \/ \E p \in Providers : ResetBreaker(p) \/ Enable(p)
       \/ \E p \in Maybe : ForceProvider(p)
       \/ \E s \in Orders : SetPriorityOrder(s)
    /\ UNCHANGED <<unsettled, cancelled, probing, call>>

Tick ==
    /\ \E p \in Providers : cooldown[p] > 0
    /\ cooldown' = [p \in Providers |-> IF cooldown[p] = 0 THEN 0 ELSE cooldown[p] - 1]
    /\ UNCHANGED <<order, forced, authFailed, unsettled, cancelled, breaker, probing, call,
                   retryQueue, cleared, interventions>>

Answers(c) == Succeeds(c) \/ \E outcome \in Errors : Fails(c, outcome)

Next ==
    \/ \E c \in Calls : Begin(c) \/ Wake(c) \/ Answers(c) \/ TimesOut(c)
    \/ \E p \in Providers, outcome \in Errors \cup {"success"} : ProbeAnswers(p, outcome)
    \/ Operator
    \/ Tick

Spec == Init /\ [][Next]_vars

(* The providers' HTTP clients have timeouts and the loop runs every        *)
(* coroutine whose sleep is over; nothing forces the clock or the operator. *)
FairSpec == Spec /\ \A c \in Calls : WF_vars(Wake(c) \/ Answers(c))

-----------------------------------------------------------------------------
(* Every variable has its type, and the retry queue keeps its bound.        *)
TypeOK ==
    /\ interventions \in 0..MaxOperator
    /\ order \in Orders /\ forced \in Maybe
    /\ authFailed \in [Providers -> BOOLEAN]
    /\ cooldown \in [Providers -> 0..(LongCooldown + ShortCooldown)]
    /\ unsettled \in [Providers -> Nat] /\ cancelled \in [Providers -> Nat]
    /\ breaker \in [Providers -> Engine]
    /\ probing \subseteq Probed
    /\ call \in [Calls -> Locals]
    /\ retryQueue \in Seq(Calls) /\ Len(retryQueue) <= RetryLimit
    /\ cleared \subseteq Calls

(* A request counted as attempted that is counted neither as a success nor  *)
(* as a failure is still under way, or was cancelled by a race: the success *)
(* rate that is shown is short of the cancelled requests and of no others.  *)
AttemptsAccounted ==
    \A p \in Providers : unsettled[p] = cancelled[p] + Cardinality(InFlight(p))

GivenUp == {c \in Calls : call[c].pc = "raised"}

(* An alert is given up only after its last attempt has tried or skipped    *)
(* every provider, whatever the operator reordered or forced meanwhile. It  *)
(* then waits in the retry queue, unless the operator cleared that or as    *)
(* many other alerts were given up as the queue holds.                      *)
GivenUpHonestly ==
    \A c \in GivenUp :
        /\ Elements(call[c].failed) = Providers
        /\ \/ c \in Elements(retryQueue) \cup cleared
           \/ Cardinality(GivenUp \ {c}) >= RetryLimit

(* A request may end long after another one disabled its provider: no step  *)
(* of a request, a late success included, makes an unusable provider usable. *)
LiveStepsNeverEnable ==
    [][call' # call => \A p \in Providers : ~Usable(p) => ~Usable(p)']_vars

(* No call is left waiting for good, though every provider stay disabled    *)
(* and the operator never come: the alert is answered or given up.          *)
CallsEnd == \A c \in Calls : []<>~Waiting(c)
============================================================================

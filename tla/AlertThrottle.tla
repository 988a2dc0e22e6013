-------------------------- MODULE AlertThrottle --------------------------
(***************************************************************************)
(* alert_rate_limiter.py: three sliding windows of the accepted alerts,    *)
(* per rule, per source and global, and a backoff per rule. should_process *)
(* has no await, so a decision is one step. It reads the clock when it     *)
(* begins, for the timestamp it may record, and again when it cleans a     *)
(* window. A window holds the accepted alerts themselves in place of their *)
(* timestamps, which stamp gives.                                          *)
(***************************************************************************)
EXTENDS Naturals, FiniteSets

CONSTANTS
    Alerts,              \* each is sent once
    Rules, Sources,      \* Sources: falco and suricata, there is no third
    RuleOf, SourceOf,    \* the two fields of an alert
    Window,              \* window_seconds
    MaxPerRule, MaxPerSource, MaxGlobal,
    Multiplier,          \* backoff_multiplier
    MaxBackoff,          \* max_backoff_seconds
    Slack,               \* how far the clock moves during one check at most
    MaxTime              \* bound: the clock's last value

ASSUME AlertsAssumption ==
    /\ IsFiniteSet(Alerts)
    /\ RuleOf \in [Alerts -> Rules] /\ SourceOf \in [Alerts -> Sources]

(* _apply_backoff's duration after n throttles in a row.                   *)
Backoff(n) ==
    IF Window * Multiplier ^ n <= MaxBackoff THEN Window * Multiplier ^ n ELSE MaxBackoff

(* The defaults are 60, 10, 100, 500, 2 and 300.                           *)
ASSUME ThrottleAssumption ==
    /\ Window \in Nat /\ Slack \in Nat /\ MaxTime \in Nat
    /\ MaxPerRule \in Nat \ {0} /\ MaxPerSource \in Nat /\ MaxGlobal \in Nat
    /\ Backoff(1) \in Nat /\ Backoff(1) >= Window

VARIABLES
    now,                 \* time.time(), as the cleaning of a window reads it
    received,            \* stats.total_received: the alerts checked so far
    stamp,               \* when an alert was accepted
    ruleWindow, sourceWindow, globalWindow,
    backoffUntil, consecutive,           \* of each rule's RuleWindow
    accepted             \* history: alerts accepted since the last clear_all

throttleVars == <<now, received, stamp, ruleWindow, sourceWindow, globalWindow,
                  backoffUntil, consecutive, accepted>>

ThrottleInit ==
    /\ now = 0 /\ received = {}
    /\ stamp = [a \in Alerts |-> 0]
    /\ ruleWindow = [r \in Rules |-> {}]
    /\ sourceWindow = [s \in Sources |-> {}]
    /\ globalWindow = {}
    /\ backoffUntil = [r \in Rules |-> 0] /\ consecutive = backoffUntil
    /\ accepted = {}

(* Fault: a stamp expires a second early.                                  *)
LiveShorter(window) == {a \in window : stamp[a] + Window > now + 1}

(* _clean_window                                                           *)
Live(window) == {a \in window : stamp[a] + Window > now}

InBackoff(a)  == now < backoffUntil[RuleOf[a]]
RuleFull(a)   == Cardinality(Live(ruleWindow[RuleOf[a]])) >= MaxPerRule
SourceFull(a) == Cardinality(Live(sourceWindow[SourceOf[a]])) >= MaxPerSource
GlobalFull(a) == Cardinality(Live(globalWindow)) >= MaxGlobal

(* The three windows of a are cleaned, whatever the decision; new is {a}   *)
(* when a is accepted.                                                     *)
CleanWindows(a, new) ==
    /\ ruleWindow' = [ruleWindow EXCEPT ![RuleOf[a]] = Live(@) \cup new]
    /\ sourceWindow' = [sourceWindow EXCEPT ![SourceOf[a]] = Live(@) \cup new]
    /\ globalWindow' = Live(globalWindow) \cup new

ApplyBackoff(r) ==
    /\ consecutive' = [consecutive EXCEPT ![r] = @ + 1]
    /\ backoffUntil' = [backoffUntil EXCEPT ![r] = now + Backoff(consecutive[r] + 1)]

ResetBackoff(r) ==
    /\ consecutive' = [consecutive EXCEPT ![r] = 0]
    /\ backoffUntil' = [backoffUntil EXCEPT ![r] = 0]

(* What the clock may have shown when a check that cleans now began.       *)
Began == {t \in 0..now : now <= t + Slack}

Checked(a) == a \notin received /\ received' = received \cup {a}

RefusedByRule(a) ==
    /\ Checked(a)
    /\ ~InBackoff(a) /\ RuleFull(a)
    /\ CleanWindows(a, {}) /\ ApplyBackoff(RuleOf[a])
    /\ UNCHANGED <<now, stamp, accepted>>

RefusedOtherwise(a) ==
    /\ Checked(a)
    /\ InBackoff(a) \/ (~RuleFull(a) /\ (SourceFull(a) \/ GlobalFull(a)))
    /\ CleanWindows(a, {})
    /\ UNCHANGED <<now, stamp, backoffUntil, consecutive, accepted>>

Throttle(a) == RefusedByRule(a) \/ RefusedOtherwise(a)

Accept(a) ==
    /\ Checked(a)
    /\ ~InBackoff(a) /\ ~RuleFull(a) /\ ~SourceFull(a) /\ ~GlobalFull(a)
    /\ \E t \in Began : stamp' = [stamp EXCEPT ![a] = t]
    /\ CleanWindows(a, {a}) /\ ResetBackoff(RuleOf[a])
    /\ accepted' = accepted \cup {a}
    /\ UNCHANGED now

(* POST /api/rate-limiter/reset                                            *)
ClearAll ==
    /\ ruleWindow' = [r \in Rules |-> {}] /\ sourceWindow' = [s \in Sources |-> {}]
    /\ globalWindow' = {}
    /\ backoffUntil' = [r \in Rules |-> 0] /\ consecutive' = [r \in Rules |-> 0]
    /\ accepted' = {}
    /\ UNCHANGED <<now, received, stamp>>

Tick ==
    /\ now < MaxTime /\ now' = now + 1
    /\ UNCHANGED <<received, stamp, ruleWindow, sourceWindow, globalWindow, backoffUntil,
                   consecutive, accepted>>

ThrottleNext ==
    \/ \E a \in Alerts : Throttle(a) \/ Accept(a)
    \/ ClearAll
    \/ Tick

ThrottleSpec == ThrottleInit /\ [][ThrottleNext]_throttleVars

-----------------------------------------------------------------------------
OfRule(S, r) == {a \in S : RuleOf[a] = r}
OfSource(S, s) == {a \in S : SourceOf[a] = s}

(* What was accepted in the Window - Slack seconds that end at t.          *)
Within(S, t) == {a \in S : stamp[a] <= t /\ t + Slack < stamp[a] + Window}

(* However bursts, cleanings and backoffs interleave, no stretch of Window *)
(* seconds, less what one check takes, has more accepted alerts of a rule, *)
(* of a source or in all than the limits allow, wherever it begins (until  *)
(* the operator clears them): an alert that the clock of the cleaning makes*)
(* too old can be within Window of the timestamp that is recorded next.    *)
WindowBound ==
    \A t \in 0..now :
       /\ \A r \in Rules : Cardinality(Within(OfRule(accepted, r), t)) <= MaxPerRule
       /\ \A s \in Sources : Cardinality(Within(OfSource(accepted, s), t)) <= MaxPerSource
       /\ Cardinality(Within(accepted, t)) <= MaxGlobal

(* What the code makes of "Automatic exponential backoff for repeat        *)
(* offenders": when the first backoff ends the rule's window has emptied,  *)
(* and the next alert resets the counter however often the rule offends.   *)
OneBackoff == \A r \in Rules : consecutive[r] <= 1
============================================================================

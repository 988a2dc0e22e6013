----------------------- MODULE AlertThrottleProofs -----------------------
(***************************************************************************)
(* The sliding windows and the backoff, for any alerts, rules, sources and *)
(* limits: the rates that were configured hold over every stretch of time, *)
(* and the backoff never grows beyond its first step.                      *)
(***************************************************************************)
EXTENDS AlertThrottle, FiniteSetTheorems, TLAPS

ThrottleTypes ==
    /\ now \in Nat /\ received \subseteq Alerts
    /\ stamp \in [Alerts -> Nat]
    /\ ruleWindow \in [Rules -> SUBSET Alerts]
    /\ sourceWindow \in [Sources -> SUBSET Alerts]
    /\ globalWindow \subseteq Alerts
    /\ backoffUntil \in [Rules -> Nat] /\ consecutive \in [Rules -> Nat]
    /\ accepted \subseteq received
    /\ \A a \in accepted : stamp[a] <= now

(* A window has what was accepted and is still live, and nothing that was   *)
(* not accepted.                                                            *)
Tracks(window, S) == window \subseteq S /\ Live(S) \subseteq window

WindowsTrack ==
    /\ \A r \in Rules : Tracks(ruleWindow[r], OfRule(accepted, r))
    /\ \A s \in Sources : Tracks(sourceWindow[s], OfSource(accepted, s))
    /\ Tracks(globalWindow, accepted)

(* After a backoff was set, the rule's window empties before it ends.       *)
BackoffOutlasts ==
    \A r \in Rules :
       /\ consecutive[r] \in {0, 1}
       /\ consecutive[r] = 1 => \A a \in ruleWindow[r] : stamp[a] + Window <= backoffUntil[r]

ThrottleInv == ThrottleTypes /\ WindowsTrack /\ BackoffOutlasts

-----------------------------------------------------------------------------
(* Cleaning a window that tracks S gives exactly the live part of S.        *)
LEMMA CleanedWindow ==
    ASSUME NEW window, NEW S, Tracks(window, S)
    PROVE  Live(window) = Live(S)
BY DEF Tracks, Live

(* A set of alerts with at least one live one is not empty of them.         *)
LEMMA FullNotEmpty ==
    ASSUME NEW S, NEW n \in Nat \ {0}, Cardinality(S) >= n
    PROVE  \E a \in S : TRUE
<1>1. SUFFICES ASSUME S = {} PROVE FALSE
  OBVIOUS
<1>2. Cardinality(S) = 0
  BY <1>1, FS_EmptySet
<1> QED
  BY <1>2

(* The initial state.                                                       *)
LEMMA InitInv == ThrottleInit => ThrottleInv
BY ThrottleAssumption
   DEF ThrottleInit, ThrottleInv, ThrottleTypes, WindowsTrack, Tracks, Live, OfRule, OfSource,
       BackoffOutlasts

-----------------------------------------------------------------------------
(* Cleaning every window of an alert, and taking in new, keeps track of what *)
(* was accepted.                                                             *)
LEMMA CleanTracks ==
    ASSUME ThrottleTypes, WindowsTrack, NEW a \in Alerts, CleanWindows(a, {}),
           UNCHANGED <<now, stamp, accepted>>
    PROVE  WindowsTrack'
<1> USE AlertsAssumption DEF Tracks, Live, OfRule, OfSource
<1>1. ASSUME NEW r \in Rules PROVE Tracks(ruleWindow[r], OfRule(accepted, r))'
  BY <1>1 DEF CleanWindows, WindowsTrack, ThrottleTypes
<1>2. ASSUME NEW s \in Sources PROVE Tracks(sourceWindow[s], OfSource(accepted, s))'
  BY <1>2 DEF CleanWindows, WindowsTrack, ThrottleTypes
<1>3. Tracks(globalWindow, accepted)'
  BY DEF CleanWindows, WindowsTrack
<1> QED
  BY <1>1, <1>2, <1>3 DEF WindowsTrack

(* The types of the windows after a cleaning.                               *)
LEMMA CleanTypes ==
    ASSUME ThrottleTypes, NEW a \in Alerts, NEW new \in SUBSET {a}, CleanWindows(a, new)
    PROVE  /\ ruleWindow' \in [Rules -> SUBSET Alerts]
           /\ sourceWindow' \in [Sources -> SUBSET Alerts]
           /\ globalWindow' \subseteq Alerts
BY AlertsAssumption DEF CleanWindows, ThrottleTypes, Live

(* A refusal without a new backoff.                                         *)
LEMMA RefusedOtherwiseInv ==
    ASSUME ThrottleInv, NEW a \in Alerts, RefusedOtherwise(a)
    PROVE  ThrottleInv'
<1>1. CleanWindows(a, {}) /\ UNCHANGED <<now, stamp, backoffUntil, consecutive, accepted>>
      /\ received' = received \cup {a}
  BY DEF RefusedOtherwise, Checked
<1>2. ThrottleTypes'
  BY <1>1, CleanTypes DEF ThrottleInv, ThrottleTypes
<1>3. WindowsTrack'
  BY <1>1, CleanTracks DEF ThrottleInv
<1>4. BackoffOutlasts'
  BY <1>1, AlertsAssumption DEF ThrottleInv, ThrottleTypes, BackoffOutlasts, CleanWindows, Live
<1> QED
  BY <1>2, <1>3, <1>4 DEF ThrottleInv

(* A refusal by the rule's own limit: its last backoff cannot have been     *)
(* followed by another one, since the window had to fill again first.       *)
LEMMA RefusedByRuleInv ==
    ASSUME ThrottleInv, NEW a \in Alerts, RefusedByRule(a)
    PROVE  ThrottleInv'
<1> DEFINE q == RuleOf[a]
<1>1. CleanWindows(a, {}) /\ UNCHANGED <<now, stamp, accepted>> /\ received' = received \cup {a}
      /\ now >= backoffUntil[q]
      /\ Cardinality(Live(ruleWindow[q])) >= MaxPerRule
      /\ consecutive' = [consecutive EXCEPT ![q] = @ + 1]
      /\ backoffUntil' = [backoffUntil EXCEPT ![q] = now + Backoff(consecutive[q] + 1)]
  BY AlertsAssumption
     DEF RefusedByRule, Checked, InBackoff, RuleFull, ApplyBackoff, ThrottleInv, ThrottleTypes
<1>2. q \in Rules /\ consecutive[q] \in {0, 1} /\ now \in Nat /\ backoffUntil[q] \in Nat
  BY AlertsAssumption DEF ThrottleInv, ThrottleTypes, BackoffOutlasts
<1>3. PICK b \in Live(ruleWindow[q]) : TRUE
  BY <1>1, FullNotEmpty, ThrottleAssumption
<1>4. b \in ruleWindow[q] /\ stamp[b] + Window > now /\ stamp[b] \in Nat
  BY <1>2, <1>3 DEF Live, ThrottleInv, ThrottleTypes
<1>5. consecutive[q] = 0
  <2>1. SUFFICES ASSUME consecutive[q] = 1 PROVE FALSE
    BY <1>2
  <2>2. stamp[b] + Window <= backoffUntil[q]
    BY <1>2, <1>4, <2>1 DEF ThrottleInv, BackoffOutlasts
  <2> QED
    BY <1>1, <1>2, <1>4, <2>2, ThrottleAssumption
<1>6. backoffUntil' = [backoffUntil EXCEPT ![q] = now + Backoff(1)]
      /\ consecutive' = [consecutive EXCEPT ![q] = 1]
  <2>1. consecutive[q] + 1 = 1
    BY <1>5
  <2> HIDE DEF q
  <2> QED
    BY <1>1, <2>1
<1>7. ThrottleTypes'
  BY <1>1, <1>2, <1>6, CleanTypes, ThrottleAssumption DEF ThrottleInv, ThrottleTypes
<1>8. WindowsTrack'
  BY <1>1, CleanTracks DEF ThrottleInv
<1>9. BackoffOutlasts'
  <2>1. SUFFICES ASSUME NEW r \in Rules
                 PROVE  /\ consecutive'[r] \in {0, 1}
                        /\ consecutive'[r] = 1 =>
                             \A c \in ruleWindow'[r] : stamp'[c] + Window <= backoffUntil'[r]
    BY DEF BackoffOutlasts
  <2>2. CASE r = q
    <3>1. consecutive'[r] = 1 /\ backoffUntil'[r] = now + Backoff(1)
      BY <1>2, <1>6, <2>2 DEF ThrottleInv, ThrottleTypes
    <3>2. ASSUME NEW c \in ruleWindow'[r] PROVE stamp'[c] + Window <= backoffUntil'[r]
      <4>1. c \in accepted
        BY <1>8, <1>1, <3>2 DEF WindowsTrack, Tracks, OfRule
      <4>2. stamp[c] \in Nat /\ stamp[c] <= now
        BY <4>1 DEF ThrottleInv, ThrottleTypes
      <4> QED
        BY <1>1, <1>2, <3>1, <4>2, ThrottleAssumption
    <3> QED
      BY <3>1, <3>2
  <2>3. CASE r # q
    BY <1>1, <1>6, <2>3 DEF ThrottleInv, ThrottleTypes, BackoffOutlasts, CleanWindows
  <2> QED
    BY <2>2, <2>3
<1> QED
  BY <1>7, <1>8, <1>9 DEF ThrottleInv

(* An accepted alert enters its three windows and ends its rule's backoff.  *)
LEMMA AcceptInv ==
    ASSUME ThrottleInv, NEW a \in Alerts, Accept(a)
    PROVE  ThrottleInv'
<1>1. /\ a \notin received /\ received' = received \cup {a}
      /\ \E t \in Began : stamp' = [stamp EXCEPT ![a] = t]
      /\ now' = now
      /\ CleanWindows(a, {a}) /\ ResetBackoff(RuleOf[a])
      /\ accepted' = accepted \cup {a}
  BY DEF Accept, Checked
<1>0. PICK t \in Began : stamp' = [stamp EXCEPT ![a] = t]
  BY <1>1
<1>2. \A b \in accepted : b # a /\ stamp'[b] = stamp[b]
  BY <1>0, <1>1 DEF ThrottleInv, ThrottleTypes
<1>3. stamp'[a] = t /\ t \in Nat /\ t <= now /\ now \in Nat
  BY <1>0 DEF Began, ThrottleInv, ThrottleTypes
<1>4. ThrottleTypes'
  <2>1. /\ ruleWindow' \in [Rules -> SUBSET Alerts]
        /\ sourceWindow' \in [Sources -> SUBSET Alerts]
        /\ globalWindow' \subseteq Alerts
    BY <1>1, CleanTypes DEF ThrottleInv
  <2>2. backoffUntil' \in [Rules -> Nat] /\ consecutive' \in [Rules -> Nat]
    BY <1>1, AlertsAssumption DEF ResetBackoff, ThrottleInv, ThrottleTypes
  <2>3. stamp' \in [Alerts -> Nat] /\ \A b \in accepted' : stamp'[b] <= now'
    BY <1>0, <1>1, <1>2, <1>3 DEF ThrottleInv, ThrottleTypes
  <2> QED
    BY <1>1, <2>1, <2>2, <2>3 DEF ThrottleInv, ThrottleTypes
<1>5. WindowsTrack'
  <2> USE AlertsAssumption DEF Tracks, Live, OfRule, OfSource
  <2>1. ASSUME NEW r \in Rules PROVE Tracks(ruleWindow[r], OfRule(accepted, r))'
    BY <1>1, <1>2, <2>1 DEF CleanWindows, WindowsTrack, ThrottleInv, ThrottleTypes
  <2>2. ASSUME NEW s \in Sources PROVE Tracks(sourceWindow[s], OfSource(accepted, s))'
    BY <1>1, <1>2, <2>2 DEF CleanWindows, WindowsTrack, ThrottleInv, ThrottleTypes
  <2>3. Tracks(globalWindow, accepted)'
    BY <1>1, <1>2 DEF CleanWindows, WindowsTrack, ThrottleInv
  <2> QED
    BY <2>1, <2>2, <2>3 DEF WindowsTrack
<1>6. BackoffOutlasts'
  <2>1. SUFFICES ASSUME NEW r \in Rules
                 PROVE  /\ consecutive'[r] \in {0, 1}
                        /\ consecutive'[r] = 1 =>
                             \A c \in ruleWindow'[r] : stamp'[c] + Window <= backoffUntil'[r]
    BY DEF BackoffOutlasts
  <2>2. CASE r = RuleOf[a]
    BY <1>1, <2>2 DEF ResetBackoff, ThrottleInv, ThrottleTypes
  <2>3. CASE r # RuleOf[a]
    <3>1. consecutive'[r] = consecutive[r] /\ backoffUntil'[r] = backoffUntil[r]
          /\ ruleWindow'[r] = ruleWindow[r]
      BY <1>1, <2>3 DEF ResetBackoff, CleanWindows, ThrottleInv, ThrottleTypes
    <3>2. \A c \in ruleWindow[r] : stamp'[c] = stamp[c]
      BY <1>2 DEF ThrottleInv, WindowsTrack, Tracks, OfRule
    <3> QED
      BY <3>1, <3>2 DEF ThrottleInv, BackoffOutlasts
  <2> QED
    BY <2>2, <2>3
<1> QED
  BY <1>4, <1>5, <1>6 DEF ThrottleInv

(* The operator's reset.                                                    *)
LEMMA ClearAllInv == ASSUME ThrottleInv, ClearAll PROVE ThrottleInv'
BY DEF ClearAll, ThrottleInv, ThrottleTypes, WindowsTrack, Tracks, Live, OfRule, OfSource,
       BackoffOutlasts

(* Time only makes fewer alerts live.                                       *)
LEMMA TickInv == ASSUME ThrottleInv, Tick PROVE ThrottleInv'
<1>1. now' = now + 1 /\ UNCHANGED <<received, stamp, ruleWindow, sourceWindow, globalWindow,
                                   backoffUntil, consecutive, accepted>>
  BY DEF Tick
<1>2. ThrottleTypes'
  BY <1>1 DEF ThrottleInv, ThrottleTypes
<1>3. ASSUME NEW window, NEW S \in SUBSET accepted, Tracks(window, S), window' = window, S' = S
      PROVE  Tracks(window, S)'
  <2>1. \A a \in S : stamp[a] \in Nat
    BY DEF ThrottleInv, ThrottleTypes
  <2>2. \A a \in S : stamp[a] + Window > now + 1 => stamp[a] + Window > now
    BY <2>1, ThrottleAssumption DEF ThrottleInv, ThrottleTypes
  <2> QED
    BY <1>1, <1>3, <2>2 DEF Tracks, Live
<1>4. WindowsTrack'
  <2>1. ASSUME NEW r \in Rules PROVE Tracks(ruleWindow[r], OfRule(accepted, r))'
    BY <1>1, <1>3, <2>1 DEF ThrottleInv, WindowsTrack, OfRule
  <2>2. ASSUME NEW s \in Sources PROVE Tracks(sourceWindow[s], OfSource(accepted, s))'
    BY <1>1, <1>3, <2>2 DEF ThrottleInv, WindowsTrack, OfSource
  <2>3. Tracks(globalWindow, accepted)'
    BY <1>1, <1>3 DEF ThrottleInv, WindowsTrack
  <2> QED
    BY <2>1, <2>2, <2>3 DEF WindowsTrack
<1>5. BackoffOutlasts'
  BY <1>1 DEF ThrottleInv, BackoffOutlasts
<1> QED
  BY <1>2, <1>4, <1>5 DEF ThrottleInv

(* Every step, of an alert, of the operator or of the clock.                *)
LEMMA StepInv == ThrottleInv /\ [ThrottleNext]_throttleVars => ThrottleInv'
<1> SUFFICES ASSUME ThrottleInv, [ThrottleNext]_throttleVars PROVE ThrottleInv'
  OBVIOUS
<1>1. CASE \E a \in Alerts : Throttle(a) \/ Accept(a)
  BY <1>1, AcceptInv, RefusedByRuleInv, RefusedOtherwiseInv DEF Throttle
<1>2. CASE ClearAll
  BY <1>2, ClearAllInv
<1>3. CASE Tick
  BY <1>3, TickInv
<1>4. CASE UNCHANGED throttleVars
  BY <1>4 DEF throttleVars, ThrottleInv, ThrottleTypes, WindowsTrack, Tracks, Live, OfRule,
              OfSource, BackoffOutlasts
<1> QED
  BY <1>1, <1>2, <1>3, <1>4 DEF ThrottleNext

(* The windows track what was accepted, whatever happens.                   *)
THEOREM WindowsHold == ThrottleSpec => []ThrottleInv
BY InitInv, StepInv, PTL DEF ThrottleSpec

(* No rule is ever in its second backoff: the exponent never grows.         *)
THEOREM BackoffNeverGrows == ThrottleSpec => []OneBackoff
<1>1. ThrottleInv => OneBackoff
  BY DEF ThrottleInv, BackoffOutlasts, OneBackoff
<1> QED
  BY <1>1, WindowsHold, PTL

-----------------------------------------------------------------------------
(* The limits hold over every stretch of Window - Slack seconds: with a set *)
(* and its limit in place of a rule's, a source's or all alerts.            *)
Bound(S, max) == \A t \in 0..now : Cardinality(Within(S, t)) <= max

(* Within, with the timestamps of another state.                            *)
Recent(stamps, S, t) == {b \in S : stamps[b] <= t /\ t + Slack < stamps[b] + Window}

(* WindowBound, in those terms.                                             *)
LEMMA BoundsAreWindowBound ==
    ASSUME \A r \in Rules : Bound(OfRule(accepted, r), MaxPerRule),
           \A s \in Sources : Bound(OfSource(accepted, s), MaxPerSource),
           Bound(accepted, MaxGlobal)
    PROVE  WindowBound
BY DEF WindowBound, Bound

LEMMA WindowBoundIsBounds ==
    ASSUME WindowBound
    PROVE  /\ \A r \in Rules : Bound(OfRule(accepted, r), MaxPerRule)
           /\ \A s \in Sources : Bound(OfSource(accepted, s), MaxPerSource)
           /\ Bound(accepted, MaxGlobal)
BY DEF WindowBound, Bound

(* An alert that is accepted finds its windows short of their limit.        *)
LEMMA AcceptBound ==
    ASSUME ThrottleTypes, NEW a \in Alerts, a \notin received,
           NEW began \in Began, stamp' = [stamp EXCEPT ![a] = began], now' = now,
           NEW S \in SUBSET accepted, NEW max \in Nat, Bound(S, max),
           Cardinality(Live(S)) < max
    PROVE  \A t \in 0..now' : Cardinality(Recent(stamp', S \cup {a}, t)) <= max
<1>1. SUFFICES ASSUME NEW t \in 0..now
               PROVE  Cardinality(Recent(stamp', S \cup {a}, t)) <= max
  OBVIOUS
<1> DEFINE W == Recent(stamp', S \cup {a}, t)
<1> USE DEF Recent
<1>2. a \notin S /\ \A b \in S : stamp'[b] = stamp[b] /\ stamp[b] \in Nat /\ stamp[b] <= now
  BY DEF ThrottleTypes
<1>3. stamp'[a] = began /\ now \in Nat /\ began \in Nat /\ now <= began + Slack
      /\ Slack \in Nat /\ Window \in Nat
  BY ThrottleAssumption DEF ThrottleTypes, Began
<1>4. Within(S, t) \subseteq Alerts /\ IsFiniteSet(Within(S, t)) /\ Cardinality(Within(S, t)) <= max
      /\ IsFiniteSet(Live(S)) /\ Cardinality(Live(S)) \in Nat
  <2>1. S \subseteq Alerts
    BY DEF ThrottleTypes
  <2>2. Within(S, t) \subseteq Alerts /\ Live(S) \subseteq Alerts
    BY <2>1 DEF Within, Live
  <2>3. IsFiniteSet(Within(S, t)) /\ IsFiniteSet(Live(S))
    BY <2>2, FS_Subset, AlertsAssumption
  <2> QED
    BY <2>2, <2>3, FS_CardinalityType DEF Bound
<1>5. CASE a \notin W
  <2>1. W = Within(S, t)
    BY <1>2, <1>5 DEF Within
  <2> QED
    BY <1>4, <2>1
<1>6. CASE a \in W
  <2>1. began <= t
    BY <1>2, <1>3, <1>6
  <2>2. W \subseteq Live(S) \cup {a}
    <3>1. t + Slack >= now /\ t \in Nat
      BY <1>1, <1>3, <2>1
    <3>2. ASSUME NEW b \in W, b # a PROVE b \in Live(S)
      <4>1. b \in S /\ t + Slack < stamp[b] + Window /\ stamp[b] \in Nat
        BY <1>2, <2>1, <3>2
      <4>2. stamp[b] + Window > now
        BY <1>3, <3>1, <4>1
      <4> QED
        BY <4>1, <4>2 DEF Live
    <3> QED
      BY <3>2
  <2>3. a \notin Live(S)
    BY <1>2 DEF Live
  <2>4. IsFiniteSet(Live(S) \cup {a})
        /\ Cardinality(Live(S) \cup {a}) = Cardinality(Live(S)) + 1
    BY <1>4, <2>3, FS_AddElement
  <2>5. Cardinality(W) <= Cardinality(Live(S) \cup {a}) /\ IsFiniteSet(W)
    BY <2>2, <2>4, FS_Subset
  <2>6. Cardinality(W) \in Nat
    BY <2>5, FS_CardinalityType
  <2> QED
    BY <1>4, <2>1, <2>4, <2>5, <2>6
<1> QED
  BY <1>5, <1>6

(* Accepting an alert keeps the limits: it found room in its three windows. *)
LEMMA AcceptKeepsBound ==
    ASSUME ThrottleInv, WindowBound, NEW a \in Alerts, Accept(a)
    PROVE  WindowBound'
<1>1. /\ a \notin received
      /\ \E t \in Began : stamp' = [stamp EXCEPT ![a] = t]
      /\ now' = now
      /\ ~RuleFull(a) /\ ~SourceFull(a) /\ ~GlobalFull(a)
      /\ accepted' = accepted \cup {a}
  BY DEF Accept, Checked
<1>0. PICK began \in Began : stamp' = [stamp EXCEPT ![a] = began]
  BY <1>1
<1>2. ThrottleTypes /\ WindowsTrack
  BY DEF ThrottleInv
<1> DEFINE Bounded(S, max) == \A t \in 0..now' : Cardinality(Recent(stamp', S, t)) <= max
<1>3. \A S \in SUBSET Alerts : IsFiniteSet(Live(S)) /\ Cardinality(Live(S)) \in Nat
  <2>1. \A S \in SUBSET Alerts : Live(S) \subseteq Alerts
    BY DEF Live
  <2>2. \A S \in SUBSET Alerts : IsFiniteSet(Live(S))
    BY <2>1, FS_Subset, AlertsAssumption
  <2> QED
    BY <2>2, FS_CardinalityType
<1>4. \A r \in Rules : Bound(OfRule(accepted, r), MaxPerRule)
  BY WindowBoundIsBounds
<1>5. \A s \in Sources : Bound(OfSource(accepted, s), MaxPerSource)
  BY WindowBoundIsBounds
<1>6. Bound(accepted, MaxGlobal)
  BY WindowBoundIsBounds
<1>7. ASSUME NEW r \in Rules PROVE Bounded(OfRule(accepted', r), MaxPerRule)
  <2>1. OfRule(accepted, r) \in SUBSET accepted /\ MaxPerRule \in Nat
    BY ThrottleAssumption DEF OfRule
  <2>2. CASE r = RuleOf[a]
    <3>1. OfRule(accepted', r) = OfRule(accepted, r) \cup {a}
      BY <1>1, <2>2 DEF OfRule
    <3>2. Live(ruleWindow[r]) = Live(OfRule(accepted, r))
      BY <1>2, <2>2, CleanedWindow DEF WindowsTrack
    <3>3. ruleWindow[r] \in SUBSET Alerts
      BY <1>2 DEF ThrottleTypes
    <3>4. Cardinality(Live(OfRule(accepted, r))) < MaxPerRule
      BY <1>1, <1>3, <2>1, <2>2, <3>2, <3>3 DEF RuleFull
    <3> QED
      BY <1>0, <1>1, <1>2, <1>4, <2>1, <3>1, <3>4, AcceptBound
  <2>3. CASE r # RuleOf[a]
    <3>1. OfRule(accepted', r) = OfRule(accepted, r)
      BY <1>1, <2>3 DEF OfRule
    <3>2. a \notin accepted
      BY <1>1, <1>2 DEF ThrottleTypes
    <3>3. \A t : Recent(stamp', OfRule(accepted, r), t)
                 = Within(OfRule(accepted, r), t)
      BY <1>0, <1>2, <3>2 DEF Recent, Within, OfRule, ThrottleTypes
    <3> QED
      BY <1>1, <1>4, <3>1, <3>3 DEF Bound
  <2> QED
    BY <2>2, <2>3
<1>8. ASSUME NEW s \in Sources PROVE Bounded(OfSource(accepted', s), MaxPerSource)
  <2>1. OfSource(accepted, s) \in SUBSET accepted /\ MaxPerSource \in Nat
    BY ThrottleAssumption DEF OfSource
  <2>2. CASE s = SourceOf[a]
    <3>1. OfSource(accepted', s) = OfSource(accepted, s) \cup {a}
      BY <1>1, <2>2 DEF OfSource
    <3>2. Live(sourceWindow[s]) = Live(OfSource(accepted, s))
      BY <1>2, <2>2, CleanedWindow DEF WindowsTrack
    <3>3. sourceWindow[s] \in SUBSET Alerts
      BY <1>2 DEF ThrottleTypes
    <3>4. Cardinality(Live(OfSource(accepted, s))) < MaxPerSource
      BY <1>1, <1>3, <2>1, <2>2, <3>2, <3>3 DEF SourceFull
    <3> QED
      BY <1>0, <1>1, <1>2, <1>5, <2>1, <3>1, <3>4, AcceptBound
  <2>3. CASE s # SourceOf[a]
    <3>1. OfSource(accepted', s) = OfSource(accepted, s)
      BY <1>1, <2>3 DEF OfSource
    <3>2. a \notin accepted
      BY <1>1, <1>2 DEF ThrottleTypes
    <3>3. \A t : Recent(stamp', OfSource(accepted, s), t)
                 = Within(OfSource(accepted, s), t)
      BY <1>0, <1>2, <3>2 DEF Recent, Within, OfSource, ThrottleTypes
    <3> QED
      BY <1>1, <1>5, <3>1, <3>3 DEF Bound
  <2> QED
    BY <2>2, <2>3
<1>9. Bounded(accepted', MaxGlobal)
  <2>1. Live(globalWindow) = Live(accepted) /\ globalWindow \in SUBSET Alerts
    BY <1>2, CleanedWindow DEF WindowsTrack, ThrottleTypes
  <2>2. Cardinality(Live(accepted)) < MaxGlobal /\ MaxGlobal \in Nat
    BY <1>1, <1>3, <2>1, ThrottleAssumption DEF GlobalFull
  <2> QED
    BY <1>0, <1>1, <1>2, <1>6, <2>2, AcceptBound
<1> QED
  BY <1>7, <1>8, <1>9 DEF WindowBound, Within, Recent

(* As time goes by, the alerts of the last stretch are among those of the   *)
(* one that ended a second before.                                          *)
LEMMA TickBound ==
    ASSUME ThrottleTypes, NEW S \in SUBSET accepted, NEW max \in Nat, Bound(S, max)
    PROVE  \A t \in 0..(now + 1) : Cardinality(Within(S, t)) <= max
<1>1. SUFFICES Cardinality(Within(S, now + 1)) <= max
  BY DEF Bound, ThrottleTypes
<1>2. Within(S, now + 1) \subseteq Within(S, now)
  BY ThrottleAssumption DEF Within, ThrottleTypes
<1>3. Within(S, now) \subseteq Alerts
  BY DEF Within, ThrottleTypes
<1>4. IsFiniteSet(Within(S, now))
  BY <1>3, FS_Subset, AlertsAssumption
<1>5. /\ IsFiniteSet(Within(S, now + 1))
      /\ Cardinality(Within(S, now + 1)) <= Cardinality(Within(S, now))
  BY <1>2, <1>4, FS_Subset
<1>6. Cardinality(Within(S, now)) \in Nat /\ Cardinality(Within(S, now + 1)) \in Nat
  BY <1>4, <1>5, FS_CardinalityType
<1>7. Cardinality(Within(S, now)) <= max
  BY DEF Bound, ThrottleTypes
<1> QED
  BY <1>5, <1>6, <1>7

LEMMA TickKeepsBound ==
    ASSUME ThrottleInv, WindowBound, Tick
    PROVE  WindowBound'
<1>1. now' = now + 1 /\ accepted' = accepted /\ stamp' = stamp
  BY DEF Tick
<1>2. ThrottleTypes
  BY DEF ThrottleInv
<1>3. ASSUME NEW r \in Rules
      PROVE  \A t \in 0..(now + 1) : Cardinality(Within(OfRule(accepted, r), t)) <= MaxPerRule
  BY <1>2, TickBound, WindowBoundIsBounds, ThrottleAssumption DEF OfRule
<1>4. ASSUME NEW s \in Sources
      PROVE  \A t \in 0..(now + 1) : Cardinality(Within(OfSource(accepted, s), t)) <= MaxPerSource
  BY <1>2, TickBound, WindowBoundIsBounds, ThrottleAssumption DEF OfSource
<1>5. \A t \in 0..(now + 1) : Cardinality(Within(accepted, t)) <= MaxGlobal
  BY <1>2, TickBound, WindowBoundIsBounds, ThrottleAssumption
<1> QED
  BY <1>1, <1>3, <1>4, <1>5 DEF WindowBound, Within, OfRule, OfSource

(* An empty set of accepted alerts respects any limit.                      *)
LEMMA NothingAccepted == accepted = {} => WindowBound
<1> SUFFICES ASSUME accepted = {} PROVE WindowBound
  OBVIOUS
<1>1. \A t, r, s : Within(OfRule(accepted, r), t) = {} /\ Within(OfSource(accepted, s), t) = {}
                   /\ Within(accepted, t) = {}
  BY DEF Within, OfRule, OfSource
<1>2. Cardinality({}) = 0
  BY FS_EmptySet
<1> QED
  BY <1>1, <1>2, ThrottleAssumption DEF WindowBound

(* The rates that were configured hold, for any alerts and limits, over     *)
(* every stretch of the window's seconds less what one check takes: alerts  *)
(* that the second reading of the clock cleans away count no longer, though *)
(* the new alert is recorded with the first.                                *)
THEOREM WindowsBounded == ThrottleSpec => []WindowBound
<1>1. ThrottleInit => WindowBound
  BY NothingAccepted DEF ThrottleInit
<1>2. ThrottleInv /\ WindowBound /\ [ThrottleNext]_throttleVars => WindowBound'
  <2> SUFFICES ASSUME ThrottleInv, WindowBound, [ThrottleNext]_throttleVars PROVE WindowBound'
    OBVIOUS
  <2>1. ASSUME NEW a \in Alerts, Throttle(a) PROVE WindowBound'
    BY <2>1 DEF Throttle, RefusedByRule, RefusedOtherwise, WindowBound, Within, OfRule, OfSource
  <2>2. ASSUME NEW a \in Alerts, Accept(a) PROVE WindowBound'
    BY <2>2, AcceptKeepsBound
  <2>3. CASE ClearAll
    <3>1. accepted' = {}
      BY <2>3 DEF ClearAll
    <3>2. (accepted = {} => WindowBound)'
      BY NothingAccepted, PTL
    <3> QED
      BY <3>1, <3>2
  <2>4. CASE Tick
    BY <2>4, TickKeepsBound
  <2>5. CASE UNCHANGED throttleVars
    BY <2>5 DEF throttleVars, WindowBound, Within, OfRule, OfSource
  <2> QED
    BY <2>1, <2>2, <2>3, <2>4, <2>5 DEF ThrottleNext
<1> QED
  BY <1>1, <1>2, WindowsHold, PTL DEF ThrottleSpec
============================================================================

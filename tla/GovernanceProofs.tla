-------------------------- MODULE GovernanceProofs --------------------------
(***************************************************************************)
(* Proofs about Governance.tla, for any finite set of actions, any targets *)
(* and thresholds, any queue limit, expiry and number of crashes.          *)
(***************************************************************************)
EXTENDS Governance, FiniteSetTheorems, TLAPS

(***************************************************************************)
(* Lemmas about the helpers.                                               *)
(***************************************************************************)
(* A set of actions is finite, so it has a size.                           *)
LEMMA SubsetFinite ==
    ASSUME NEW S, S \subseteq Ids
    PROVE  IsFiniteSet(S) /\ Cardinality(S) \in Nat
BY IdsAssumption, FS_Subset, FS_CardinalityType

(* The clamped decrement stays a natural number, and is exact within range.*)
LEMMA LessNat ==
    ASSUME NEW n \in Nat, NEW k \in Nat
    PROVE  Less(n, k) \in Nat /\ (k <= n => Less(n, k) = n - k)
BY DEF Less

(* Counting a request and its outcome keeps the counters natural numbers.  *)
LEMMA CountTwice ==
    ASSUME metrics \in [Metrics -> Nat], NEW m \in {"auto_executed", "pending"}
    PROVE  [metrics EXCEPT !["total"] = @ + 1, ![m] = @ + 1] \in [Metrics -> Nat]
BY DEF Metrics

(* Adding a row keeps the action table well typed.                         *)
LEMMA AddRow ==
    ASSUME TypeOK, NEW id \in Ids, NEW row \in PipelineRows \cup DecisionRows
    PROVE  [rows EXCEPT ![id] = Append(@, row)] \in [Ids -> Seq(PipelineRows \cup DecisionRows)]
BY DEF TypeOK

(* Settling pending actions keeps every variable it touches in its type.   *)
LEMMA SettleType ==
    ASSUME TypeOK, NEW S, S \subseteq Ids, NEW v \in Statuses, NEW m \in Metrics,
           m # "pending", Settle(S, v, m)
    PROVE  /\ pending' \subseteq Ids /\ history' \subseteq Ids
           /\ age' \in [Ids -> Nat]
           /\ metrics' \in [Metrics -> Nat]
           /\ status' \in [Ids -> Statuses]
<1>1. Cardinality(S) \in Nat
  BY SubsetFinite
<1>2. Less(metrics["pending"], Cardinality(S)) \in Nat
  BY <1>1, LessNat DEF TypeOK, Metrics
<1>3. /\ metrics \in [Metrics -> Nat]
      /\ metrics' = [metrics EXCEPT !["pending"] = Less(@, Cardinality(S)),
                                    ![m] = @ + Cardinality(S)]
  BY DEF Settle, TypeOK
<1>4. metrics' \in [Metrics -> Nat]
  BY <1>1, <1>2, <1>3 DEF Metrics
<1>. QED
  BY <1>4 DEF Settle, TypeOK

(* Settling moves pending actions to the history, and counts them once.    *)
LEMMA SettleCounts ==
    ASSUME TypeOK, NEW S, S \subseteq pending, pending \cap history = {},
           metrics["pending"] = Cardinality(pending),
           NEW v, NEW m \in {"approved", "rejected", "expired"}, Settle(S, v, m)
    PROVE  /\ metrics'["pending"] = Cardinality(pending')
           /\ Cardinality(pending') = Cardinality(pending) - Cardinality(S)
           /\ Cardinality(history') = Cardinality(history) + Cardinality(S)
           /\ metrics' = [metrics EXCEPT !["pending"] = Cardinality(pending'),
                                         ![m] = @ + Cardinality(S)]
<1>1. /\ IsFiniteSet(S) /\ Cardinality(S) \in Nat
      /\ IsFiniteSet(pending) /\ Cardinality(pending) \in Nat
      /\ IsFiniteSet(history) /\ Cardinality(history) \in Nat
  BY SubsetFinite DEF TypeOK
<1>2. Cardinality(S) <= Cardinality(pending)
  BY <1>1, FS_Subset
<1>3. Cardinality(pending \ S) = Cardinality(pending) - Cardinality(S)
  <2>1. pending \cap S = S
    OBVIOUS
  <2>2. Cardinality(pending \ S) = Cardinality(pending) - Cardinality(pending \cap S)
    BY <1>1, FS_Difference
  <2>. QED BY <2>1, <2>2
<1>4. Cardinality(history \cup S) = Cardinality(history) + Cardinality(S)
  <2>1. history \cap S = {}
    OBVIOUS
  <2>2. Cardinality(history \cap S) = 0
    BY <2>1, FS_EmptySet
  <2>3. Cardinality(history \cup S)
          = Cardinality(history) + Cardinality(S) - Cardinality(history \cap S)
    BY <1>1, FS_Union
  <2>. QED BY <1>1, <2>2, <2>3
<1>5. Less(metrics["pending"], Cardinality(S)) = Cardinality(pending \ S)
  BY <1>1, <1>2, <1>3, LessNat
<1>. QED
  BY <1>1, <1>3, <1>4, <1>5 DEF Settle, TypeOK, Metrics

(***************************************************************************)
(* Type correctness.                                                       *)
(***************************************************************************)
LEMMA InitType == Init => TypeOK
<1>. SUFFICES ASSUME Init PROVE TypeOK
  OBVIOUS
<1>1. metrics \in [Metrics -> Nat]
  BY DEF Init, ZeroMetrics
<1>2. rows \in [Ids -> Seq(PipelineRows \cup DecisionRows)]
  BY DEF Init
<1>3. /\ status \in [Ids -> Statuses] /\ call \in [Ids -> CallStates]
      /\ via \in [Ids -> {"none", "route", "chat"}]
      /\ route \in [Ids -> {"none", "calling"}]
      /\ pipe \in [Ids -> {"none", "calling", "reporting"} \cup PipelineRows]
      /\ req \in [Ids -> Requests \cup {NoRequest}] /\ age \in [Ids -> Nat]
  BY DEF Init, Statuses, CallStates
<1>. QED
  BY <1>1, <1>2, <1>3, BootAssumption DEF Init, TypeOK

LEMMA NextType == TypeOK /\ [Next]_vars => TypeOK'
<1>. SUFFICES ASSUME TypeOK, [Next]_vars PROVE TypeOK'
  OBVIOUS
<1>. USE DEF loop, queue, tasks, ghost
<1>1. CASE \E id \in Ids : PipelineRequest(id)
  <2>1. PICK id \in Ids, kind \in Kinds, target \in Targets, sev \in Severities,
             conf \in Confidences :
          LET r == [kind |-> kind, target |-> target, origin |-> "pipeline"]
          IN  PipelineAuto(id, r, sev, conf) \/ PipelineQueue(id, r, sev, conf)
    BY <1>1 DEF PipelineRequest
  <2>. DEFINE r == [kind |-> kind, target |-> target, origin |-> "pipeline"]
  <2>2. r \in Requests
    BY DEF Requests
  <2>3. CASE PipelineAuto(id, r, sev, conf)
    <3>1. metrics' \in [Metrics -> Nat]
      BY <2>3, CountTwice DEF PipelineAuto, RecordAutoExecuted, TypeOK
    <3>2. status' \in [Ids -> Statuses] /\ req' \in [Ids -> Requests \cup {NoRequest}]
      BY <2>2, <2>3 DEF PipelineAuto, Register, RecordAutoExecuted, TypeOK, Statuses
    <3>3. /\ call' \in [Ids -> CallStates]
          /\ pipe' \in [Ids -> {"none", "calling", "reporting"} \cup PipelineRows]
      BY <2>3 DEF PipelineAuto, TypeOK, CallStates, PipelineRows
    <3>. QED
      BY <2>3, <3>1, <3>2, <3>3 DEF PipelineAuto, RecordAutoExecuted, TypeOK
  <2>4. CASE PipelineQueue(id, r, sev, conf)
    <3>1. metrics' \in [Metrics -> Nat]
      BY <2>4, CountTwice DEF PipelineQueue, Enqueue, TypeOK
    <3>2. /\ status' \in [Ids -> Statuses] /\ req' \in [Ids -> Requests \cup {NoRequest}]
          /\ age' \in [Ids -> Nat]
          /\ pipe' \in [Ids -> {"none", "calling", "reporting"} \cup PipelineRows]
      BY <2>2, <2>4 DEF PipelineQueue, Register, Enqueue, TypeOK, Statuses, PipelineRows
    <3>. QED
      BY <2>4, <3>1, <3>2 DEF PipelineQueue, Enqueue, TypeOK
  <2>. QED BY <2>1, <2>3, <2>4
<1>2. CASE \E id \in Ids : ChatRequest(id)
  <2>1. PICK id \in Ids, kind \in Kinds, target \in Targets, sev \in Severities :
          LET r == [kind |-> kind, target |-> target, origin |-> "chat"]
          IN  ChatAuto(id, r, sev) \/ ChatQueue(id, r, sev)
    BY <1>2 DEF ChatRequest
  <2>. DEFINE r == [kind |-> kind, target |-> target, origin |-> "chat"]
  <2>2. r \in Requests
    BY DEF Requests
  <2>3. CASE ChatAuto(id, r, sev)
    <3>1. PICK c \in ChatOutcomes(r.kind) : call' = [call EXCEPT ![id] = c]
      BY <2>3 DEF ChatAuto
    <3>2. c \in CallStates
      BY DEF ChatOutcomes, CallStates
    <3>3. metrics' \in [Metrics -> Nat]
      BY <2>3, CountTwice DEF ChatAuto, RecordAutoExecuted, TypeOK
    <3>4. status' \in [Ids -> Statuses] /\ req' \in [Ids -> Requests \cup {NoRequest}]
      BY <2>2, <2>3 DEF ChatAuto, Register, RecordAutoExecuted, TypeOK, Statuses
    <3>. QED
      BY <2>3, <3>1, <3>2, <3>3, <3>4 DEF ChatAuto, RecordAutoExecuted, TypeOK
  <2>4. CASE ChatQueue(id, r, sev)
    <3>1. metrics' \in [Metrics -> Nat]
      BY <2>4, CountTwice DEF ChatQueue, Enqueue, TypeOK
    <3>2. /\ status' \in [Ids -> Statuses] /\ req' \in [Ids -> Requests \cup {NoRequest}]
          /\ age' \in [Ids -> Nat]
      BY <2>2, <2>4 DEF ChatQueue, Register, Enqueue, TypeOK, Statuses
    <3>. QED
      BY <2>4, <3>1, <3>2 DEF ChatQueue, Enqueue, TypeOK
  <2>. QED BY <2>1, <2>3, <2>4
<1>3. ASSUME NEW id \in Ids, ApproveExpired(id) PROVE TypeOK'
  <2>1. Settle({id}, "expired", "expired")
    BY <1>3 DEF ApproveExpired
  <2>. QED
    BY <1>3, <2>1, SettleType DEF ApproveExpired, TypeOK, Statuses, Metrics
<1>4. ASSUME NEW id \in Ids, RouteApprove(id) PROVE TypeOK'
  <2>1. Settle({id}, "approved", "approved")
    BY <1>4 DEF RouteApprove
  <2>2. /\ pending' \subseteq Ids /\ history' \subseteq Ids /\ age' \in [Ids -> Nat]
        /\ metrics' \in [Metrics -> Nat] /\ status' \in [Ids -> Statuses]
    BY <2>1, SettleType DEF Statuses, Metrics
  <2>3. rows' \in [Ids -> Seq(PipelineRows \cup DecisionRows)]
    <3>1. \/ rows' = rows
          \/ rows' = [rows EXCEPT ![id] = Append(@, "approved_execution_failed")]
      BY <1>4 DEF RouteApprove
    <3>2. rows \in [Ids -> Seq(PipelineRows \cup DecisionRows)]
      BY DEF TypeOK
    <3>3. "approved_execution_failed" \in DecisionRows
      BY DEF DecisionRows
    <3>4. [rows EXCEPT ![id] = Append(@, "approved_execution_failed")]
            \in [Ids -> Seq(PipelineRows \cup DecisionRows)]
      BY <3>3, AddRow
    <3>. QED
      BY <3>1, <3>2, <3>4
  <2>4. call' \in [Ids -> CallStates] /\ route' \in [Ids -> {"none", "calling"}]
    BY <1>4 DEF RouteApprove, TypeOK, CallStates
  <2>. QED
    BY <1>4, <2>2, <2>3, <2>4 DEF RouteApprove, TypeOK
<1>5. ASSUME NEW id \in Ids, ChatApprove(id) PROVE TypeOK'
  <2>1. Settle({id}, "approved", "approved")
    BY <1>5 DEF ChatApprove
  <2>2. /\ pending' \subseteq Ids /\ history' \subseteq Ids /\ age' \in [Ids -> Nat]
        /\ metrics' \in [Metrics -> Nat] /\ status' \in [Ids -> Statuses]
    BY <2>1, SettleType DEF Statuses, Metrics
  <2>3. PICK c \in ChatOutcomes(req[id].kind) : call' = [call EXCEPT ![id] = c]
    BY <1>5 DEF ChatApprove
  <2>4. c \in CallStates
    BY DEF ChatOutcomes, CallStates
  <2>. QED
    BY <1>5, <2>2, <2>3, <2>4 DEF ChatApprove, TypeOK
<1>6. ASSUME NEW id \in Ids, NEW who \in {"route", "chat"}, Reject(id, who) PROVE TypeOK'
  <2>1. Settle({id}, "rejected", "rejected")
    BY <1>6 DEF Reject
  <2>2. /\ pending' \subseteq Ids /\ history' \subseteq Ids /\ age' \in [Ids -> Nat]
        /\ metrics' \in [Metrics -> Nat] /\ status' \in [Ids -> Statuses]
    BY <2>1, SettleType DEF Statuses, Metrics
  <2>3. rows' \in [Ids -> Seq(PipelineRows \cup DecisionRows)]
    BY <1>6, AddRow DEF Reject, TypeOK, DecisionRows
  <2>. QED
    BY <1>6, <2>2, <2>3 DEF Reject, TypeOK
<1>7. CASE CleanupExpired
  <2>1. PICK S \in {{i \in pending : Expired(i)}} : Settle(S, "expired", "expired")
    BY <1>7 DEF CleanupExpired
  <2>2. S \subseteq Ids
    BY DEF TypeOK
  <2>3. /\ pending' \subseteq Ids /\ history' \subseteq Ids /\ age' \in [Ids -> Nat]
        /\ metrics' \in [Metrics -> Nat] /\ status' \in [Ids -> Statuses]
    BY <2>1, <2>2, SettleType DEF Statuses, Metrics
  <2>4. /\ mode' = mode /\ force' = force /\ frozen' = frozen /\ orphaned' = orphaned
        /\ crashes' = crashes /\ call' = call /\ route' = route /\ pipe' = pipe
        /\ reported' = reported /\ via' = via /\ req' = req /\ rows' = rows
    BY <1>7 DEF CleanupExpired
  <2>. QED
    BY <2>3, <2>4, Zenon DEF TypeOK
<1>8. ASSUME NEW target \in Targets, NEW sev \in Severities, NEW conf \in Confidences,
             RequestWhenFull(target, sev, conf) PROVE TypeOK'
  BY <1>8 DEF RequestWhenFull, TypeOK, Metrics
<1>9. ASSUME NEW id \in Ids, NEW outcome \in {"landed", "failed"}, CallEnds(id, outcome)
      PROVE TypeOK'
  BY <1>9 DEF CallEnds, TypeOK, CallStates
<1>b. ASSUME NEW id \in Ids, CallBegins(id) \/ ReportBegins(id) PROVE TypeOK'
  BY <1>b DEF CallBegins, ReportBegins, TypeOK, CallStates
<1>g. ASSUME NEW id \in Ids, CallGivenUp(id) PROVE call' \in [Ids -> CallStates]
  BY <1>g DEF CallGivenUp, GivenUp, TypeOK, CallStates
<1>10. ASSUME NEW id \in Ids, Resume(id) PROVE TypeOK'
  <2>1. CASE RouteSucceeds(id)
    BY <2>1 DEF RouteSucceeds, TypeOK, DecisionRows
  <2>2. CASE RouteFails(id)
    <3>1. call' \in [Ids -> CallStates]
      BY <1>g, <2>2 DEF RouteFails
    <3>2. rows' \in [Ids -> Seq(PipelineRows \cup DecisionRows)]
      BY <2>2, AddRow DEF RouteFails, DecisionRows
    <3>. QED BY <2>2, <3>1, <3>2 DEF RouteFails, TypeOK
  <2>3. CASE PipelineSucceeds(id)
    BY <2>3 DEF PipelineSucceeds, TypeOK, PipelineRows
  <2>4. CASE PipelineRaises(id)
    <3>1. call' \in [Ids -> CallStates]
      BY <1>g, <2>4 DEF PipelineRaises
    <3>. QED BY <2>4, <3>1 DEF PipelineRaises, TypeOK
  <2>5. CASE PipelinePersists(id)
    BY <2>5 DEF PipelinePersists, TypeOK
  <2>6. CASE ReportEnds(id)
    BY <2>6 DEF ReportEnds, TypeOK
  <2>. QED BY <1>10, <2>1, <2>2, <2>3, <2>4, <2>5, <2>6 DEF Resume
<1>11. ASSUME NEW m \in Modes, SetMode(m) PROVE TypeOK'
  BY <1>11 DEF SetMode, TypeOK
<1>12. ASSUME NEW b \in BOOLEAN, SetForce(b) PROVE TypeOK'
  BY <1>12 DEF SetForce, TypeOK
<1>13. CASE Tick
  BY <1>13 DEF Tick, TypeOK
<1>14. ASSUME Reboot, crashes' \in Nat PROVE TypeOK'
  <2>1. call' \in [Ids -> CallStates]
    BY <1>14 DEF Reboot, GivenUp, TypeOK, CallStates
  <2>. QED BY <1>14, <2>1, BootAssumption DEF Reboot, TypeOK, ZeroMetrics, Metrics, Statuses
<1>15. CASE ProbeRestart
  BY <1>14, <1>15 DEF ProbeRestart, TypeOK
<1>16. CASE Crash
  BY <1>14, <1>16 DEF Crash, TypeOK
<1>17. CASE UNCHANGED vars
  BY <1>17 DEF vars, TypeOK
<1>. QED
  BY <1>1, <1>2, <1>3, <1>4, <1>5, <1>6, <1>7, <1>8, <1>9, <1>b, <1>10, <1>11, <1>12,
     <1>13, <1>15, <1>16, <1>17 DEF Next, Decide

(* Every variable keeps its type, in every behaviour of the controller,    *)
(* its routes and the pipeline.                                            *)
THEOREM TypeCorrect == Spec => []TypeOK
BY InitType, NextType, PTL DEF Spec

(***************************************************************************)
(* Accounting, and what may reach the cluster. Neither is inductive alone: *)
(* that a request is counted once needs the queue, the history and the     *)
(* verdicts to describe the same actions, which QueueInv adds.             *)
(***************************************************************************)
Counters ==
    /\ metrics["pending"] = Cardinality(pending)
    /\ Cardinality(history) = metrics["auto_executed"] + metrics["approved"]
                                 + metrics["rejected"] + metrics["expired"]
    /\ metrics["total"] = Cardinality(pending) + Cardinality(history)
                             + (IF frozen THEN 1 ELSE 0)

Links ==
    /\ \A i \in Ids : i \in pending <=> status[i] = "pending"
    /\ \A i \in history : status[i] \in {"auto_executed", "approved", "rejected", "expired"}

LEMMA QueueInvParts == QueueInv <=> Links /\ Counters /\ EffectsAuthorised
BY DEF QueueInv, Links, Counters, Accounting

(* A decision, whichever handler makes it, preserves links and counters.   *)
LEMMA SettleInv ==
    ASSUME TypeOK, Links, Counters, NEW S, S \subseteq pending,
           NEW v \in {"approved", "rejected", "expired"}, Settle(S, v, v),
           frozen' = frozen
    PROVE  Links' /\ Counters'
<1>1. pending \cap history = {}
  BY DEF Links, TypeOK
<1>2. /\ metrics'["pending"] = Cardinality(pending')
      /\ Cardinality(pending') = Cardinality(pending) - Cardinality(S)
      /\ Cardinality(history') = Cardinality(history) + Cardinality(S)
      /\ metrics' = [metrics EXCEPT !["pending"] = Cardinality(pending'), ![v] = @ + Cardinality(S)]
  BY <1>1, SettleCounts DEF Counters
<1>3. /\ Cardinality(S) \in Nat /\ Cardinality(pending) \in Nat /\ Cardinality(history) \in Nat
      /\ metrics \in [Metrics -> Nat]
  BY SubsetFinite DEF TypeOK
<1>4. Counters'
  <2>1. CASE v = "approved"
    BY <1>2, <1>3, <2>1 DEF Counters, Metrics
  <2>2. CASE v = "rejected"
    BY <1>2, <1>3, <2>2 DEF Counters, Metrics
  <2>3. CASE v = "expired"
    BY <1>2, <1>3, <2>3 DEF Counters, Metrics
  <2>. QED BY <2>1, <2>2, <2>3
<1>5. Links'
  BY DEF Settle, Links, TypeOK
<1>. QED BY <1>4, <1>5

(* A request that is executed at once is counted and recorded once.        *)
LEMMA AutoInv ==
    ASSUME TypeOK, Links, Counters, NEW id \in Ids, status[id] = "none",
           RecordAutoExecuted(id), frozen' = frozen
    PROVE  Links' /\ Counters'
<1>1. id \notin history
  BY DEF Links
<1>2. /\ IsFiniteSet(history) /\ Cardinality(history) \in Nat
      /\ Cardinality(pending) \in Nat /\ metrics \in [Metrics -> Nat]
  BY SubsetFinite DEF TypeOK
<1>3. Cardinality(history \cup {id}) = Cardinality(history) + 1
  BY <1>1, <1>2, FS_AddElement
<1>4. /\ history' = history \cup {id} /\ pending' = pending
      /\ metrics' = [metrics EXCEPT !["total"] = @ + 1, !["auto_executed"] = @ + 1]
  BY DEF RecordAutoExecuted
<1>5. Counters'
  BY <1>2, <1>3, <1>4 DEF Counters, Metrics
<1>6. Links'
  BY DEF RecordAutoExecuted, Links, TypeOK
<1>. QED BY <1>5, <1>6

(* A request that is queued is counted once, and waits.                    *)
LEMMA EnqueueInv ==
    ASSUME TypeOK, Links, Counters, NEW id \in Ids, status[id] = "none",
           Enqueue(id), frozen' = frozen
    PROVE  Links' /\ Counters'
<1>1. id \notin pending /\ id \notin history
  BY DEF Links
<1>2. /\ IsFiniteSet(pending) /\ Cardinality(history) \in Nat
      /\ Cardinality(pending) \in Nat /\ metrics \in [Metrics -> Nat]
  BY SubsetFinite DEF TypeOK
<1>3. Cardinality(pending \cup {id}) = Cardinality(pending) + 1
  BY <1>1, <1>2, FS_AddElement
<1>4. /\ pending' = pending \cup {id} /\ history' = history
      /\ metrics' = [metrics EXCEPT !["total"] = @ + 1, !["pending"] = @ + 1]
  BY DEF Enqueue
<1>5. Counters'
  BY <1>2, <1>3, <1>4 DEF Counters, Metrics
<1>6. Links'
  BY <1>1 DEF Enqueue, Links, TypeOK
<1>. QED BY <1>5, <1>6

LEMMA InitQueueInv == Init => QueueInv
<1>. SUFFICES ASSUME Init PROVE QueueInv
  OBVIOUS
<1>1. Cardinality({}) = 0
  BY FS_EmptySet
<1>2. Counters
  BY <1>1 DEF Init, Counters, ZeroMetrics, Metrics
<1>3. Links /\ EffectsAuthorised
  BY DEF Init, Links, EffectsAuthorised
<1>. QED BY <1>2, <1>3, QueueInvParts

LEMMA NextQueueInv == TypeOK /\ QueueInv /\ [Next]_vars => QueueInv'
<1>. SUFFICES ASSUME TypeOK, Links, Counters, EffectsAuthorised, [Next]_vars
              PROVE  Links' /\ Counters' /\ EffectsAuthorised'
  BY QueueInvParts DEF QueueInv, Links, Counters, Accounting
<1>. USE DEF loop, queue, tasks, ghost
<1>1. CASE \E id \in Ids : PipelineRequest(id)
  <2>1. PICK id \in Ids, kind \in Kinds, target \in Targets, sev \in Severities,
             conf \in Confidences :
          LET r == [kind |-> kind, target |-> target, origin |-> "pipeline"]
          IN  PipelineAuto(id, r, sev, conf) \/ PipelineQueue(id, r, sev, conf)
    BY <1>1 DEF PipelineRequest
  <2>. DEFINE r == [kind |-> kind, target |-> target, origin |-> "pipeline"]
  <2>2. CASE PipelineAuto(id, r, sev, conf)
    <3>1. status[id] = "none" /\ RecordAutoExecuted(id) /\ frozen' = frozen
      BY <2>2 DEF PipelineAuto, Register
    <3>2. EffectsAuthorised'
      BY <2>2 DEF PipelineAuto, Register, RecordAutoExecuted, EffectsAuthorised, TypeOK
    <3>. QED BY <3>1, <3>2, AutoInv
  <2>3. CASE PipelineQueue(id, r, sev, conf)
    <3>1. status[id] = "none" /\ Enqueue(id) /\ frozen' = frozen
      BY <2>3 DEF PipelineQueue, Register
    <3>2. EffectsAuthorised'
      BY <2>3 DEF PipelineQueue, Register, Enqueue, EffectsAuthorised, TypeOK
    <3>. QED BY <3>1, <3>2, EnqueueInv
  <2>. QED BY <2>1, <2>2, <2>3
<1>2. CASE \E id \in Ids : ChatRequest(id)
  <2>1. PICK id \in Ids, kind \in Kinds, target \in Targets, sev \in Severities :
          LET r == [kind |-> kind, target |-> target, origin |-> "chat"]
          IN  ChatAuto(id, r, sev) \/ ChatQueue(id, r, sev)
    BY <1>2 DEF ChatRequest
  <2>. DEFINE r == [kind |-> kind, target |-> target, origin |-> "chat"]
  <2>2. CASE ChatAuto(id, r, sev)
    <3>1. status[id] = "none" /\ RecordAutoExecuted(id) /\ frozen' = frozen
      BY <2>2 DEF ChatAuto, Register
    <3>2. EffectsAuthorised'
      BY <2>2 DEF ChatAuto, Register, RecordAutoExecuted, EffectsAuthorised, TypeOK
    <3>. QED BY <3>1, <3>2, AutoInv
  <2>3. CASE ChatQueue(id, r, sev)
    <3>1. status[id] = "none" /\ Enqueue(id) /\ frozen' = frozen
      BY <2>3 DEF ChatQueue, Register
    <3>2. EffectsAuthorised'
      BY <2>3 DEF ChatQueue, Register, Enqueue, EffectsAuthorised, TypeOK
    <3>. QED BY <3>1, <3>2, EnqueueInv
  <2>. QED BY <2>1, <2>2, <2>3
<1>3. ASSUME NEW id \in Ids, ApproveExpired(id)
      PROVE  Links' /\ Counters' /\ EffectsAuthorised'
  <2>1. {id} \subseteq pending /\ Settle({id}, "expired", "expired") /\ frozen' = frozen
    BY <1>3 DEF ApproveExpired
  <2>2. EffectsAuthorised'
    BY <1>3 DEF ApproveExpired, Settle, EffectsAuthorised, Links
  <2>. QED BY <2>1, <2>2, SettleInv
<1>4. ASSUME NEW id \in Ids, RouteApprove(id)
      PROVE  Links' /\ Counters' /\ EffectsAuthorised'
  <2>1. {id} \subseteq pending /\ Settle({id}, "approved", "approved") /\ frozen' = frozen
    BY <1>4 DEF RouteApprove
  <2>2. EffectsAuthorised'
    BY <1>4 DEF RouteApprove, Settle, EffectsAuthorised, TypeOK
  <2>. QED BY <2>1, <2>2, SettleInv
<1>5. ASSUME NEW id \in Ids, ChatApprove(id)
      PROVE  Links' /\ Counters' /\ EffectsAuthorised'
  <2>1. {id} \subseteq pending /\ Settle({id}, "approved", "approved") /\ frozen' = frozen
    BY <1>5 DEF ChatApprove
  <2>2. EffectsAuthorised'
    BY <1>5 DEF ChatApprove, Settle, EffectsAuthorised, TypeOK
  <2>. QED BY <2>1, <2>2, SettleInv
<1>6. ASSUME NEW id \in Ids, NEW who \in {"route", "chat"}, Reject(id, who)
      PROVE  Links' /\ Counters' /\ EffectsAuthorised'
  <2>1. {id} \subseteq pending /\ Settle({id}, "rejected", "rejected") /\ frozen' = frozen
    BY <1>6 DEF Reject
  <2>2. EffectsAuthorised'
    BY <1>6 DEF Reject, Settle, EffectsAuthorised, Links
  <2>. QED BY <2>1, <2>2, SettleInv
<1>7. CASE CleanupExpired
  <2>1. PICK S \in {{i \in pending : Expired(i)}} : Settle(S, "expired", "expired")
    BY <1>7 DEF CleanupExpired
  <2>2. S \subseteq pending /\ frozen' = frozen
    BY <1>7 DEF CleanupExpired
  <2>3. EffectsAuthorised'
    BY <1>7, <2>1, <2>2 DEF CleanupExpired, Settle, EffectsAuthorised, Links
  <2>. QED BY <2>1, <2>2, <2>3, SettleInv
<1>8. ASSUME NEW target \in Targets, NEW sev \in Severities, NEW conf \in Confidences,
             RequestWhenFull(target, sev, conf)
      PROVE  Links' /\ Counters' /\ EffectsAuthorised'
  <2>1. Cardinality(pending) \in Nat /\ Cardinality(history) \in Nat
    BY SubsetFinite DEF TypeOK
  <2>2. /\ metrics \in [Metrics -> Nat] /\ ~frozen /\ frozen'
        /\ metrics' = [metrics EXCEPT !["total"] = @ + 1]
        /\ pending' = pending /\ history' = history
    BY <1>8 DEF RequestWhenFull, Serving, TypeOK
  <2>3. Counters'
    BY <2>1, <2>2 DEF Counters, Metrics
  <2>4. Links' /\ EffectsAuthorised'
    BY <1>8 DEF RequestWhenFull, Links, EffectsAuthorised
  <2>. QED BY <2>3, <2>4
<1>9. ASSUME NEW id \in Ids, NEW outcome \in {"landed", "failed"}, CallEnds(id, outcome)
      PROVE  Links' /\ Counters' /\ EffectsAuthorised'
  <2>1. EffectsAuthorised'
    BY <1>9 DEF CallEnds, EffectsAuthorised, TypeOK
  <2>2. Links' /\ Counters'
    BY <1>9 DEF CallEnds, Links, Counters
  <2>. QED BY <2>1, <2>2
<1>10. ASSUME UNCHANGED <<pending, history, metrics, status, frozen, call>>
       PROVE  Links' /\ Counters' /\ EffectsAuthorised'
  BY <1>10 DEF Links, Counters, EffectsAuthorised
<1>b. ASSUME NEW id \in Ids, CallBegins(id) \/ CallGivenUp(id),
             UNCHANGED <<pending, history, metrics, status, frozen>>
      PROVE  Links' /\ Counters' /\ EffectsAuthorised'
  <2>1. EffectsAuthorised'
    BY <1>b DEF CallBegins, CallGivenUp, GivenUp, EffectsAuthorised, TypeOK
  <2>2. Links' /\ Counters'
    BY <1>b DEF Links, Counters
  <2>. QED BY <2>1, <2>2
<1>11. ASSUME NEW id \in Ids, Resume(id) \/ CallBegins(id) \/ ReportBegins(id)
       PROVE  Links' /\ Counters' /\ EffectsAuthorised'
  <2>1. CASE RouteFails(id) \/ PipelineRaises(id)
    BY <1>b, <2>1 DEF RouteFails, PipelineRaises
  <2>2. CASE CallBegins(id)
    BY <1>b, <2>2 DEF CallBegins
  <2>. QED
    BY <1>10, <1>11, <2>1, <2>2 DEF Resume, RouteSucceeds, PipelineSucceeds, PipelinePersists,
                                    ReportEnds, ReportBegins
<1>12. ASSUME (\E m \in Modes : SetMode(m)) \/ (\E b \in BOOLEAN : SetForce(b)) \/ Tick
       PROVE  Links' /\ Counters' /\ EffectsAuthorised'
  BY <1>10, <1>12 DEF SetMode, SetForce, Tick
<1>13. ASSUME Reboot
       PROVE  Links' /\ Counters' /\ EffectsAuthorised'
  <2>1. Cardinality({}) = 0
    BY FS_EmptySet
  <2>2. /\ pending' = {} /\ history' = {} /\ ~frozen' /\ metrics' = ZeroMetrics
    BY <1>13 DEF Reboot
  <2>3. Counters'
    BY <2>1, <2>2 DEF Counters, ZeroMetrics, Metrics
  <2>4. Links' /\ EffectsAuthorised'
    BY <1>13 DEF Reboot, GivenUp, Links, EffectsAuthorised, TypeOK
  <2>. QED BY <2>3, <2>4
<1>14. ASSUME ProbeRestart \/ Crash
       PROVE  Links' /\ Counters' /\ EffectsAuthorised'
  BY <1>13, <1>14 DEF ProbeRestart, Crash
<1>15. CASE UNCHANGED vars
  BY <1>10, <1>15 DEF vars
<1>. QED
  BY <1>1, <1>2, <1>3, <1>4, <1>5, <1>6, <1>7, <1>8, <1>9, <1>11, <1>12, <1>14, <1>15
     DEF Next, Decide

(* The queue, the history and the verdicts describe the same actions.      *)
THEOREM QueueConsistent == Spec => []QueueInv
BY TypeCorrect, InitQueueInv, NextQueueInv, PTL DEF Spec

(* Every counted request is waiting, decided, or the one that froze the    *)
(* loop: the controller's counters never drift from its queue and history. *)
THEOREM AccountingHolds == Spec => []Accounting
<1>1. QueueInv => Accounting
  BY DEF QueueInv
<1>. QED BY <1>1, QueueConsistent, PTL

(* No Kubernetes request is made for an action without a positive verdict. *)
THEOREM OnlyAuthorisedEffects == Spec => []EffectsAuthorised
<1>1. QueueInv => EffectsAuthorised
  BY DEF QueueInv
<1>. QED BY <1>1, QueueConsistent, PTL

(***************************************************************************)
(* What no step may do, and that every step is a step of                   *)
(* ActionLifecycle.tla: consequences of the invariants above. The steps    *)
(* are seen through the two variables these properties are about: an       *)
(* action is submitted, decided, dropped, or its request moves on.         *)
(***************************************************************************)
Silent == status' = status /\ call' = call

Submitted(id) ==
    /\ status[id] = "none"
    /\ \/ /\ status' = [status EXCEPT ![id] = "auto_executed"]
          /\ \E c \in CallStates : call' = [call EXCEPT ![id] = c]
          /\ mode # "manual"
          /\ req'[id].target \in Protected => mode = "emergency"
       \/ status' = [status EXCEPT ![id] = "pending"] /\ call' = call

Approved(id) ==
    /\ status[id] = "pending"
    /\ status' = [status EXCEPT ![id] = "approved"]
    /\ \E c \in CallStates : call' = [call EXCEPT ![id] = c]

Dropped(why, S) ==
    /\ S \subseteq Ids
    /\ \A i \in S : status[i] = "pending"
    /\ status' = [i \in Ids |-> IF i \in S THEN why ELSE status[i]]
    /\ call' = call \/ (why = "lost" /\ call' = [i \in Ids |-> GivenUp(call[i])])

Moved(id) ==
    /\ \E c \in After(call[id]) : call' = [call EXCEPT ![id] = c]
    /\ status' = status

Shape ==
    \/ Silent
    \/ \E id \in Ids : Submitted(id) \/ Approved(id) \/ Moved(id)
    \/ \E why \in {"expired", "rejected", "lost"}, S \in SUBSET Ids :
        Dropped(why, S) /\ (why = "rejected" => \E id \in Ids : S = {id})

(* What should_auto_execute and the protected-target check amount to.      *)
LEMMA DecisionLemma ==
    ASSUME NEW t, NEW sev, NEW conf, AutoDecision(t, sev, conf)
    PROVE  mode # "manual" /\ (t \in Protected => mode = "emergency")
BY DEF AutoDecision, ShouldAutoExecute, EmergencyBypass

LEMMA NextShape == TypeOK /\ QueueInv /\ [Next]_vars => Shape
<1>. SUFFICES ASSUME TypeOK, QueueInv, [Next]_vars PROVE Shape
  OBVIOUS
<1>. USE DEF loop, queue, tasks, ghost
<1>a. /\ pending \subseteq Ids /\ \A i \in Ids : i \in pending => status[i] = "pending"
      /\ call \in [Ids -> CallStates] /\ status \in [Ids -> Statuses]
      /\ req \in [Ids -> Requests \cup {NoRequest}]
  BY DEF TypeOK, QueueInv
<1>1. CASE \E id \in Ids : PipelineRequest(id)
  <2>1. PICK id \in Ids, kind \in Kinds, target \in Targets, sev \in Severities,
             conf \in Confidences :
          LET r == [kind |-> kind, target |-> target, origin |-> "pipeline"]
          IN  PipelineAuto(id, r, sev, conf) \/ PipelineQueue(id, r, sev, conf)
    BY <1>1 DEF PipelineRequest
  <2>. DEFINE r == [kind |-> kind, target |-> target, origin |-> "pipeline"]
  <2>2. CASE PipelineAuto(id, r, sev, conf)
    <3>1. mode # "manual" /\ (r.target \in Protected => mode = "emergency")
      BY <2>2, DecisionLemma DEF PipelineAuto
    <3>2. req'[id].target = r.target
      BY <2>2, <1>a DEF PipelineAuto, Register
    <3>3. \E c \in CallStates : call' = [call EXCEPT ![id] = c]
      <4>1. CASE call' = [call EXCEPT ![id] = "asked"]
        BY <4>1 DEF CallStates
      <4>2. CASE call' = call
        <5>1. call = [call EXCEPT ![id] = call[id]] /\ call[id] \in CallStates
          BY <1>a
        <5>. QED BY <4>2, <5>1
      <4>. QED BY <2>2, <4>1, <4>2 DEF PipelineAuto
    <3>4. Submitted(id)
      BY <2>2, <3>1, <3>2, <3>3 DEF PipelineAuto, Register, RecordAutoExecuted, Submitted
    <3>. QED BY <3>4 DEF Shape
  <2>3. CASE PipelineQueue(id, r, sev, conf)
    <3>1. Submitted(id)
      BY <2>3 DEF PipelineQueue, Register, Enqueue, Submitted
    <3>. QED BY <3>1 DEF Shape
  <2>. QED BY <2>1, <2>2, <2>3
<1>2. CASE \E id \in Ids : ChatRequest(id)
  <2>1. PICK id \in Ids, kind \in Kinds, target \in Targets, sev \in Severities :
          LET r == [kind |-> kind, target |-> target, origin |-> "chat"]
          IN  ChatAuto(id, r, sev) \/ ChatQueue(id, r, sev)
    BY <1>2 DEF ChatRequest
  <2>. DEFINE r == [kind |-> kind, target |-> target, origin |-> "chat"]
  <2>2. CASE ChatAuto(id, r, sev)
    <3>1. mode # "manual" /\ (r.target \in Protected => mode = "emergency")
      BY <2>2, DecisionLemma DEF ChatAuto
    <3>2. req'[id].target = r.target
      BY <2>2, <1>a DEF ChatAuto, Register
    <3>3. \E c \in CallStates : call' = [call EXCEPT ![id] = c]
      BY <2>2 DEF ChatAuto, ChatOutcomes, CallStates
    <3>4. Submitted(id)
      BY <2>2, <3>1, <3>2, <3>3 DEF ChatAuto, Register, RecordAutoExecuted, Submitted
    <3>. QED BY <3>4 DEF Shape
  <2>3. CASE ChatQueue(id, r, sev)
    <3>1. Submitted(id)
      BY <2>3 DEF ChatQueue, Register, Enqueue, Submitted
    <3>. QED BY <3>1 DEF Shape
  <2>. QED BY <2>1, <2>2, <2>3
<1>3. ASSUME NEW S \in SUBSET pending, NEW v \in {"expired", "rejected"},
             Settle(S, v, v), call' = call,
             v = "rejected" => \E id \in Ids : S = {id}
      PROVE  Shape
  <2>1. Dropped(v, S)
    BY <1>3, <1>a DEF Settle, Dropped
  <2>. QED BY <1>3, <2>1, <1>a DEF Shape
<1>4. ASSUME NEW id \in Ids, ApproveExpired(id) PROVE Shape
  <2>1. {id} \in SUBSET pending /\ Settle({id}, "expired", "expired") /\ call' = call
    BY <1>4 DEF ApproveExpired
  <2>. QED BY <2>1, <1>3
<1>5. ASSUME NEW id \in Ids, NEW who \in {"route", "chat"}, Reject(id, who) PROVE Shape
  <2>1. {id} \in SUBSET pending /\ Settle({id}, "rejected", "rejected") /\ call' = call
    BY <1>5 DEF Reject
  <2>. QED BY <2>1, <1>3
<1>6. CASE CleanupExpired
  <2>1. PICK S \in {{i \in pending : Expired(i)}} : Settle(S, "expired", "expired")
    BY <1>6 DEF CleanupExpired
  <2>2. S \in SUBSET pending /\ call' = call
    BY <1>6 DEF CleanupExpired
  <2>. QED BY <2>1, <2>2, <1>3
<1>7. ASSUME NEW id \in Ids, id \in pending, Settle({id}, "approved", "approved"),
             \E c \in CallStates : call' = [call EXCEPT ![id] = c]
      PROVE  Shape
  <2>1. status' = [status EXCEPT ![id] = "approved"]
    BY <1>7, <1>a DEF Settle
  <2>2. Approved(id)
    BY <1>7, <2>1, <1>a DEF Approved
  <2>. QED BY <2>2 DEF Shape
<1>8. ASSUME NEW id \in Ids, RouteApprove(id) PROVE Shape
  <2>1. id \in pending /\ Settle({id}, "approved", "approved")
    BY <1>8 DEF RouteApprove
  <2>2. CASE call' = [call EXCEPT ![id] = "asked"]
    BY <2>1, <2>2, <1>7 DEF CallStates
  <2>3. CASE call' = call
    <3>1. call = [call EXCEPT ![id] = call[id]] /\ call[id] \in CallStates
      BY <1>a
    <3>. QED BY <2>1, <2>3, <3>1, <1>7
  <2>. QED BY <1>8, <2>2, <2>3 DEF RouteApprove
<1>9. ASSUME NEW id \in Ids, ChatApprove(id) PROVE Shape
  <2>1. id \in pending /\ Settle({id}, "approved", "approved")
    BY <1>9 DEF ChatApprove
  <2>2. \E c \in CallStates : call' = [call EXCEPT ![id] = c]
    BY <1>9 DEF ChatApprove, ChatOutcomes, CallStates
  <2>. QED BY <2>1, <2>2, <1>7
<1>10. ASSUME NEW id \in Ids, NEW outcome \in {"landed", "failed"}, CallEnds(id, outcome)
       PROVE  Shape
  <2>1. Moved(id)
    BY <1>10 DEF CallEnds, Moved, After
  <2>. QED BY <2>1 DEF Shape
<1>b. ASSUME NEW id \in Ids, CallBegins(id) PROVE Shape
  <2>1. Moved(id)
    BY <1>b DEF CallBegins, Moved, After
  <2>. QED BY <2>1 DEF Shape
<1>g. ASSUME NEW id \in Ids, CallGivenUp(id), status' = status PROVE Shape
  <2>1. CASE call[id] = "asked"
    <3>1. Moved(id)
      BY <1>g, <2>1 DEF CallGivenUp, GivenUp, Moved, After
    <3>. QED BY <3>1 DEF Shape
  <2>2. CASE call[id] # "asked"
    <3>1. call' = call
      BY <1>g, <1>a, <2>2 DEF CallGivenUp, GivenUp
    <3>. QED BY <1>g, <3>1 DEF Shape, Silent
  <2>. QED BY <2>1, <2>2
<1>11. ASSUME Reboot PROVE Shape
  <2>1. Dropped("lost", pending)
    BY <1>11, <1>a DEF Reboot, Dropped
  <2>. QED BY <2>1, <1>a DEF Shape
<1>12. ASSUME Silent PROVE Shape
  BY <1>12 DEF Shape
<1>13. ASSUME NEW id \in Ids, Resume(id) \/ ReportBegins(id) PROVE Shape
  <2>1. CASE RouteFails(id) \/ PipelineRaises(id)
    BY <1>g, <2>1 DEF RouteFails, PipelineRaises
  <2>. QED
    BY <1>12, <1>13, <2>1 DEF Resume, RouteSucceeds, PipelineSucceeds, PipelinePersists,
                              ReportEnds, ReportBegins, Silent
<1>14. ASSUME NEW target \in Targets, NEW sev \in Severities, NEW conf \in Confidences,
              RequestWhenFull(target, sev, conf) PROVE Shape
  BY <1>12, <1>14 DEF RequestWhenFull, Silent
<1>15. ASSUME (\E m \in Modes : SetMode(m)) \/ (\E b \in BOOLEAN : SetForce(b)) \/ Tick
       PROVE  Shape
  BY <1>12, <1>15 DEF SetMode, SetForce, Tick, Silent
<1>16. CASE UNCHANGED vars
  BY <1>12, <1>16 DEF vars, Silent
<1>17. ASSUME ProbeRestart \/ Crash PROVE Shape
  BY <1>11, <1>17 DEF ProbeRestart, Crash
<1>. QED
  BY <1>1, <1>2, <1>4, <1>5, <1>6, <1>8, <1>9, <1>10, <1>b, <1>13, <1>14, <1>15, <1>16,
     <1>17 DEF Next, Decide

(***************************************************************************)
(* Action properties.                                                      *)
(***************************************************************************)
Stable(i) ==
    /\ status[i] \notin {"none", "pending"} => status'[i] = status[i]
    /\ call[i] # "idle" => call'[i] \in {call[i]} \cup After(call[i])

(* No step revises a verdict or repeats a request.                         *)
LEMMA StepStable ==
    ASSUME TypeOK, QueueInv, [Next]_vars, NEW i \in Ids
    PROVE  Stable(i)
<1>1. /\ status \in [Ids -> Statuses] /\ call \in [Ids -> CallStates]
      /\ \A j \in Ids : call[j] # "idle" => status[j] \in {"auto_executed", "approved"}
  BY DEF TypeOK, QueueInv, EffectsAuthorised
<1>2. CASE Silent
  BY <1>2 DEF Silent, Stable
<1>3. ASSUME NEW id \in Ids, Submitted(id) PROVE Stable(i)
  BY <1>1, <1>3 DEF Submitted, Stable
<1>4. ASSUME NEW id \in Ids, Approved(id) PROVE Stable(i)
  BY <1>1, <1>4 DEF Approved, Stable
<1>5. ASSUME NEW id \in Ids, Moved(id) PROVE Stable(i)
  BY <1>1, <1>5 DEF Moved, Stable, After
<1>6. ASSUME NEW why \in {"expired", "rejected", "lost"}, NEW S \in SUBSET Ids, Dropped(why, S)
      PROVE  Stable(i)
  BY <1>1, <1>6 DEF Dropped, GivenUp, After, Stable
<1>. QED BY <1>2, <1>3, <1>4, <1>5, <1>6, NextShape DEF Shape

(* A verdict is final and an ended request is never issued again, whatever *)
(* approvals, rejections, sweeps and restarts follow.                      *)
THEOREM FinalVerdicts == Spec => VerdictsFinal
<1>1. TypeOK /\ QueueInv /\ [Next]_vars => \A i \in Ids : Stable(i)
  BY StepStable
<1>2. ASSUME \A i \in Ids : Stable(i)
      PROVE  \A i \in Ids :
               /\ status[i] \notin {"none", "pending"} => status'[i] = status[i]
               /\ call[i] # "idle" => call'[i] \in {call[i]} \cup After(call[i])
  BY <1>2 DEF Stable
<1>. QED BY <1>1, <1>2, TypeCorrect, QueueConsistent, PTL DEF Spec, VerdictsFinal

(* A protected target is acted on with an operator's approval, or in       *)
(* emergency mode.                                                         *)
THEOREM ProtectedNeedsApproval == Spec => ProtectedNeedsOperator
<1>. DEFINE Step ==
       \A i \in Ids : AskedFor(i) /\ req'[i].target \in Protected
          => status'[i] = "approved" \/ mode = "emergency"
<1>1. TypeOK /\ QueueInv /\ [Next]_vars => Step
  <2>. SUFFICES ASSUME TypeOK, QueueInv, [Next]_vars PROVE Step
    OBVIOUS
  <2>1. status \in [Ids -> Statuses] /\ call \in [Ids -> CallStates]
    BY DEF TypeOK
  <2>2. CASE Silent
    BY <2>2 DEF Silent, AskedFor
  <2>3. ASSUME NEW id \in Ids, Submitted(id) PROVE Step
    BY <2>1, <2>3 DEF Submitted, AskedFor
  <2>4. ASSUME NEW id \in Ids, Approved(id) PROVE Step
    BY <2>1, <2>4 DEF Approved, AskedFor
  <2>5. ASSUME NEW id \in Ids, Moved(id) PROVE Step
    BY <2>1, <2>5 DEF Moved, After, AskedFor
  <2>6. ASSUME NEW why \in {"expired", "rejected", "lost"}, NEW S \in SUBSET Ids, Dropped(why, S)
        PROVE  Step
    BY <2>6 DEF Dropped, GivenUp, AskedFor
  <2>. QED BY <2>2, <2>3, <2>4, <2>5, <2>6, NextShape DEF Shape
<1>. QED BY <1>1, TypeCorrect, QueueConsistent, PTL DEF Spec, ProtectedNeedsOperator

(* Between a decision and its request the deciding handler is suspended: a *)
(* request still to begin for an action cleared automatically belongs to a *)
(* pipeline that awaits it, and a pipeline awaits, notes or reports only   *)
(* what was cleared so. A route gives up on its call when it stops waiting.*)
Suspended ==
    \A i \in Ids :
        /\ pipe[i] \in {"calling", "executed", "reporting"} => status[i] = "auto_executed"
        /\ call[i] = "asked" => status[i] = "approved" \/ pipe[i] = "calling"

LEMMA InitSuspended == Init => Suspended
BY DEF Init, Suspended

LEMMA NextSuspended == TypeOK /\ QueueInv /\ Suspended /\ [Next]_vars => Suspended'
<1>. SUFFICES ASSUME TypeOK, QueueInv, Suspended, [Next]_vars PROVE Suspended'
  OBVIOUS
<1>. USE DEF loop, queue, tasks, ghost
<1>t. /\ pipe \in [Ids -> {"none", "calling", "reporting"} \cup PipelineRows]
      /\ call \in [Ids -> CallStates] /\ status \in [Ids -> Statuses]
      /\ pending \subseteq Ids /\ \A i \in Ids : i \in pending => status[i] = "pending"
      /\ \A i \in Ids : call[i] # "idle" => status[i] \in {"auto_executed", "approved"}
      /\ req \in [Ids -> Requests \cup {NoRequest}]
  BY DEF TypeOK, QueueInv, EffectsAuthorised
<1>s. \A i \in Ids : Stable(i)
  BY StepStable
<1>q. ASSUME UNCHANGED <<call, pipe>> PROVE Suspended'
  BY <1>q, <1>s, <1>t DEF Suspended, Stable
<1>1. ASSUME NEW id \in Ids, PipelineRequest(id) \/ ChatRequest(id) PROVE Suspended'
  <2>1. ASSUME NEW r, NEW sev, NEW conf, PipelineAuto(id, r, sev, conf) PROVE Suspended'
    <3>1. /\ status[id] = "none" /\ status' = [status EXCEPT ![id] = "auto_executed"]
          /\ \/ /\ call' = [call EXCEPT ![id] = "asked"]
                /\ pipe' = [pipe EXCEPT ![id] = "calling"]
             \/ call' = call /\ pipe' = [pipe EXCEPT ![id] = "execution_failed"]
      BY <2>1 DEF PipelineAuto, Register, RecordAutoExecuted
    <3>. QED BY <1>t, <3>1 DEF Suspended
  <2>2. ASSUME NEW r, NEW sev, NEW conf, PipelineQueue(id, r, sev, conf) PROVE Suspended'
    <3>1. /\ status[id] = "none" /\ status' = [status EXCEPT ![id] = "pending"]
          /\ call' = call /\ pipe' = [pipe EXCEPT ![id] = "pending_approval"]
      BY <2>2 DEF PipelineQueue, Register, Enqueue
    <3>. QED BY <1>t, <3>1 DEF Suspended
  <2>3. ASSUME NEW r, NEW sev, ChatAuto(id, r, sev) PROVE Suspended'
    <3>1. PICK c \in ChatOutcomes(r.kind) : call' = [call EXCEPT ![id] = c]
      BY <2>3 DEF ChatAuto
    <3>2. c # "asked"
      BY DEF ChatOutcomes
    <3>3. /\ status[id] = "none" /\ status' = [status EXCEPT ![id] = "auto_executed"]
          /\ pipe' = pipe
      BY <2>3 DEF ChatAuto, Register, RecordAutoExecuted
    <3>. QED BY <1>t, <3>1, <3>2, <3>3 DEF Suspended
  <2>4. ASSUME NEW r, NEW sev, ChatQueue(id, r, sev) PROVE Suspended'
    BY <1>q, <2>4 DEF ChatQueue
  <2>5. PipelineRequest(id) => \E r, sev, conf :
          PipelineAuto(id, r, sev, conf) \/ PipelineQueue(id, r, sev, conf)
    BY DEF PipelineRequest
  <2>6. ChatRequest(id) => \E r, sev : ChatAuto(id, r, sev) \/ ChatQueue(id, r, sev)
    BY DEF ChatRequest
  <2>. QED BY <1>1, <2>1, <2>2, <2>3, <2>4, <2>5, <2>6
<1>2. ASSUME NEW id \in Ids, id \in pending, Settle({id}, "approved", "approved"), pipe' = pipe,
             NEW c, call' = [call EXCEPT ![id] = c] \/ call' = call
      PROVE  Suspended'
  <2>1. status' = [status EXCEPT ![id] = "approved"] /\ status[id] = "pending"
    BY <1>2, <1>t DEF Settle
  <2>. QED BY <1>2, <1>t, <2>1 DEF Suspended
<1>3. ASSUME NEW id \in Ids, Decide(id) PROVE Suspended'
  <2>1. CASE RouteApprove(id)
    BY <1>2, <2>1 DEF RouteApprove
  <2>2. CASE ChatApprove(id)
    BY <1>2, <2>2 DEF ChatApprove
  <2>3. CASE ApproveExpired(id) \/ \E who \in {"route", "chat"} : Reject(id, who)
    BY <1>q, <2>3 DEF ApproveExpired, Reject
  <2>. QED BY <1>3, <2>1, <2>2, <2>3 DEF Decide
<1>4. ASSUME NEW id \in Ids, NEW outcome \in {"landed", "failed"},
             CallEnds(id, outcome) \/ CallBegins(id)
      PROVE  Suspended'
  <2>1. /\ pipe' = pipe /\ status' = status
        /\ \E c \in {"running", "landed", "failed"} : call' = [call EXCEPT ![id] = c]
    BY <1>4 DEF CallEnds, CallBegins
  <2>. QED BY <1>t, <2>1 DEF Suspended
<1>5. ASSUME NEW id \in Ids, CallGivenUp(id), status' = status,
             pipe' = pipe \/ pipe' = [pipe EXCEPT ![id] = "none"]
      PROVE  Suspended'
  <2>1. call'[id] # "asked" /\ \A i \in Ids \ {id} : call'[i] = call[i]
    BY <1>5, <1>t DEF CallGivenUp, GivenUp
  <2>. QED BY <1>5, <1>t, <2>1 DEF Suspended
<1>6. ASSUME NEW id \in Ids, PipelineSucceeds(id) \/ PipelinePersists(id) \/ ReportEnds(id)
      PROVE  Suspended'
  <2>1. CASE PipelineSucceeds(id)
    <3>1. /\ pipe[id] = "calling" /\ call[id] = "landed" /\ call' = call /\ status' = status
          /\ pipe' = [pipe EXCEPT ![id] = "executed"]
      BY <2>1 DEF PipelineSucceeds
    <3>. QED BY <1>t, <3>1 DEF Suspended
  <2>2. CASE PipelinePersists(id)
    <3>1. /\ pipe[id] \in PipelineRows /\ call' = call /\ status' = status
          /\ \/ pipe[id] = "executed" /\ pipe' = [pipe EXCEPT ![id] = "reporting"]
             \/ pipe' = [pipe EXCEPT ![id] = "none"]
      BY <2>2 DEF PipelinePersists
    <3>2. pipe[id] # "calling"
      BY <3>1 DEF PipelineRows
    <3>. QED BY <1>t, <3>1, <3>2 DEF Suspended
  <2>3. CASE ReportEnds(id)
    <3>1. /\ pipe[id] = "reporting" /\ call' = call /\ status' = status
          /\ pipe' = [pipe EXCEPT ![id] = "none"]
      BY <2>3 DEF ReportEnds
    <3>. QED BY <1>t, <3>1 DEF Suspended
  <2>. QED BY <1>6, <2>1, <2>2, <2>3
<1>7. ASSUME NEW id \in Ids, Resume(id) PROVE Suspended'
  <2>1. CASE RouteFails(id)
    BY <1>5, <2>1 DEF RouteFails
  <2>2. CASE PipelineRaises(id)
    BY <1>5, <2>2 DEF PipelineRaises
  <2>3. CASE RouteSucceeds(id)
    BY <1>q, <2>3 DEF RouteSucceeds
  <2>. QED BY <1>6, <1>7, <2>1, <2>2, <2>3 DEF Resume
<1>8. ASSUME Reboot PROVE Suspended'
  <2>1. pipe' = [i \in Ids |-> "none"] /\ \A i \in Ids : call'[i] # "asked"
    BY <1>8 DEF Reboot, GivenUp
  <2>. QED BY <2>1 DEF Suspended
<1>9. ASSUME NEW target \in Targets, NEW sev \in Severities, NEW conf \in Confidences,
             RequestWhenFull(target, sev, conf) PROVE Suspended'
  BY <1>9, <1>q DEF RequestWhenFull
<1>10. ASSUME CleanupExpired \/ (\E m \in Modes : SetMode(m))
                \/ (\E b \in BOOLEAN : SetForce(b)) \/ Tick \/ (\E id \in Ids : ReportBegins(id))
       PROVE  Suspended'
  BY <1>10, <1>q DEF CleanupExpired, SetMode, SetForce, Tick, ReportBegins
<1>11. CASE UNCHANGED vars
  BY <1>11, <1>q DEF vars
<1>. QED
  BY <1>1, <1>3, <1>4, <1>7, <1>8, <1>9, <1>10, <1>11 DEF Next, ProbeRestart, Crash

(* Only a pipeline that has stored its rows reports to the operator.       *)
LEMMA ReportStep ==
    ASSUME [Next]_vars
    PROVE  \A i \in reported' \ reported : pipe[i] = "reporting"
<1>. USE DEF loop, queue, tasks, ghost
<1>1. ASSUME NEW id \in Ids, ReportBegins(id)
      PROVE  \A i \in reported' \ reported : pipe[i] = "reporting"
  BY <1>1 DEF ReportBegins
<1>2. ASSUME NEW id \in Ids, PipelineRequest(id) \/ ChatRequest(id) PROVE reported' = reported
  <2>1. ASSUME NEW r, NEW sev, NEW conf,
               PipelineAuto(id, r, sev, conf) \/ PipelineQueue(id, r, sev, conf)
        PROVE  reported' = reported
    BY <2>1 DEF PipelineAuto, PipelineQueue
  <2>2. ASSUME NEW r, NEW sev, ChatAuto(id, r, sev) \/ ChatQueue(id, r, sev)
        PROVE  reported' = reported
    BY <2>2 DEF ChatAuto, ChatQueue
  <2>3. PipelineRequest(id) => \E r, sev, conf :
          PipelineAuto(id, r, sev, conf) \/ PipelineQueue(id, r, sev, conf)
    BY DEF PipelineRequest
  <2>4. ChatRequest(id) => \E r, sev : ChatAuto(id, r, sev) \/ ChatQueue(id, r, sev)
    BY DEF ChatRequest
  <2>. QED BY <1>2, <2>1, <2>2, <2>3, <2>4
<1>3. ASSUME NEW id \in Ids, Decide(id) \/ Resume(id) PROVE reported' = reported
  BY <1>3 DEF Decide, ApproveExpired, RouteApprove, ChatApprove, Reject, Resume, RouteSucceeds,
              RouteFails, PipelineSucceeds, PipelineRaises, PipelinePersists, ReportEnds
<1>4. ASSUME NEW id \in Ids, NEW outcome \in {"landed", "failed"},
             CallEnds(id, outcome) \/ CallBegins(id)
      PROVE  reported' = reported
  BY <1>4 DEF CallEnds, CallBegins
<1>5. ASSUME \/ CleanupExpired \/ (\E m \in Modes : SetMode(m))
             \/ (\E b \in BOOLEAN : SetForce(b)) \/ Tick
             \/ \E target \in Targets, sev \in Severities, conf \in Confidences :
                   RequestWhenFull(target, sev, conf)
      PROVE  reported' = reported
  BY <1>5 DEF CleanupExpired, SetMode, SetForce, Tick, RequestWhenFull
<1>6. ASSUME Reboot PROVE reported' = reported
  BY <1>6 DEF Reboot
<1>7. CASE UNCHANGED vars
  BY <1>7 DEF vars
<1>. QED
  BY <1>1, <1>2, <1>3, <1>4, <1>5, <1>6, <1>7 DEF Next, ProbeRestart, Crash

(* From the switch to manual mode nothing is cleared without an operator,  *)
(* and a request that no operator approved belongs to an action cleared    *)
(* before, by a handler that was suspended when the mode changed.          *)
THEOREM ManualStopsAutomation == Spec => ManualStopsDecisions
<1>. DEFINE Step ==
       mode = "manual" => \A i \in Ids :
         /\ status'[i] = "auto_executed" => status[i] = "auto_executed"
         /\ Sent(i) => \/ status'[i] = "approved"
                       \/ status[i] = "auto_executed" /\ pipe[i] \in {"calling", "reporting"}
<1>1. TypeOK /\ QueueInv /\ Suspended /\ [Next]_vars => Step
  <2>. SUFFICES ASSUME TypeOK, QueueInv, Suspended, [Next]_vars, mode = "manual", NEW i \in Ids
                PROVE  /\ status'[i] = "auto_executed" => status[i] = "auto_executed"
                       /\ Sent(i) => \/ status'[i] = "approved"
                                     \/ /\ status[i] = "auto_executed"
                                        /\ pipe[i] \in {"calling", "reporting"}
    OBVIOUS
  <2>. DEFINE Begun == call[i] \in {"idle", "asked"} /\ call'[i] \in {"running", "landed"}
              Excused == \/ status'[i] = "approved"
                         \/ /\ status[i] = "auto_executed"
                            /\ pipe[i] \in {"calling", "reporting"}
              Goal == /\ status'[i] = "auto_executed" => status[i] = "auto_executed"
                      /\ Begun => Excused
  <2>1. /\ status \in [Ids -> Statuses] /\ call \in [Ids -> CallStates]
        /\ call[i] # "idle" => status[i] \in {"auto_executed", "approved"}
        /\ pipe[i] \in {"calling", "executed", "reporting"} => status[i] = "auto_executed"
        /\ call[i] = "asked" => status[i] = "approved" \/ pipe[i] = "calling"
    BY DEF TypeOK, QueueInv, EffectsAuthorised, Suspended
  <2>2. ASSUME Silent PROVE Goal
    BY <2>2 DEF Silent
  <2>3. ASSUME NEW id \in Ids, Submitted(id) PROVE Goal
    BY <2>1, <2>3 DEF Submitted
  <2>4. ASSUME NEW id \in Ids, Approved(id) PROVE Goal
    BY <2>1, <2>4 DEF Approved
  <2>5. ASSUME NEW id \in Ids, Moved(id) PROVE Goal
    BY <2>1, <2>5 DEF Moved, After
  <2>6. ASSUME NEW why \in {"expired", "rejected", "lost"}, NEW S \in SUBSET Ids, Dropped(why, S)
        PROVE  Goal
    BY <2>1, <2>6 DEF Dropped, GivenUp
  <2>7. Goal
    BY <2>2, <2>3, <2>4, <2>5, <2>6, NextShape DEF Shape
  <2>8. i \in reported' \ reported => Excused
    BY <2>1, ReportStep
  <2>. QED BY <2>7, <2>8 DEF Sent
<1>2. Spec => []Suspended
  BY InitSuspended, NextSuspended, TypeCorrect, QueueConsistent, PTL DEF Spec
<1>. QED BY <1>1, <1>2, TypeCorrect, QueueConsistent, PTL DEF Spec, ManualStopsDecisions

(***************************************************************************)
(* Refinement.                                                             *)
(***************************************************************************)
Verdict == [i \in Ids |-> VerdictOf(status[i])]
Effect == {i \in Ids : call[i] = "landed"}

LEMMA InitRefines == Init => Lifecycle!Init
BY DEF Init, Lifecycle!Init, VerdictOf

LEMMA StepRefines ==
    ASSUME TypeOK, QueueInv, Shape
    PROVE  [Lifecycle!Next]_(Lifecycle!vars)
<1>. USE DEF VerdictOf
<1>1. /\ status \in [Ids -> Statuses] /\ call \in [Ids -> CallStates]
      /\ \A i \in Ids : call[i] # "idle" => status[i] \in {"auto_executed", "approved"}
  BY DEF TypeOK, QueueInv, EffectsAuthorised
<1>2. CASE Silent
  BY <1>2 DEF Silent, Lifecycle!vars
<1>3. ASSUME NEW id \in Ids, Submitted(id) PROVE Lifecycle!Next
  <2>1. Verdict[id] = "none" /\ call[id] = "idle"
    BY <1>1, <1>3 DEF Submitted, Verdict
  <2>2. CASE status' = [status EXCEPT ![id] = "pending"] /\ call' = call
    <3>1. Verdict' = [Verdict EXCEPT ![id] = "waiting"] /\ Effect' = Effect
      BY <1>1, <2>2 DEF Verdict, Effect
    <3>2. Lifecycle!Submit(id)
      BY <2>1, <3>1 DEF Lifecycle!Submit, Verdict, Effect
    <3>. QED BY <3>2 DEF Lifecycle!Next
  <2>3. CASE /\ status' = [status EXCEPT ![id] = "auto_executed"]
             /\ \E c \in CallStates : call' = [call EXCEPT ![id] = c]
    <3>1. PICK c \in CallStates : call' = [call EXCEPT ![id] = c]
      BY <2>3
    <3>2. Verdict' = [Verdict EXCEPT ![id] = "automatic"]
      BY <1>1, <2>3 DEF Verdict
    <3>3. Effect' = Effect \/ Effect' = Effect \cup {id}
      BY <1>1, <2>1, <3>1 DEF Effect
    <3>4. Lifecycle!Submit(id)
      BY <2>1, <3>2, <3>3 DEF Lifecycle!Submit, Verdict, Effect
    <3>. QED BY <3>4 DEF Lifecycle!Next
  <2>. QED BY <1>3, <2>2, <2>3 DEF Submitted
<1>4. ASSUME NEW id \in Ids, Approved(id) PROVE Lifecycle!Next
  <2>1. Verdict[id] = "waiting" /\ call[id] = "idle"
    BY <1>1, <1>4 DEF Approved, Verdict
  <2>2. PICK c \in CallStates : call' = [call EXCEPT ![id] = c]
    BY <1>4 DEF Approved
  <2>3. Verdict' = [Verdict EXCEPT ![id] = "approved"]
    BY <1>1, <1>4 DEF Approved, Verdict
  <2>4. Effect' = Effect \/ Effect' = Effect \cup {id}
    BY <1>1, <2>1, <2>2 DEF Effect
  <2>5. Lifecycle!Approve(id)
    BY <2>1, <2>3, <2>4 DEF Lifecycle!Approve, Verdict, Effect
  <2>. QED BY <2>5 DEF Lifecycle!Next
<1>5. ASSUME NEW id \in Ids, Moved(id) PROVE [Lifecycle!Next]_(Lifecycle!vars)
  <2>1. PICK outcome \in After(call[id]) : call' = [call EXCEPT ![id] = outcome]
    BY <1>5 DEF Moved
  <2>2. Verdict' = Verdict /\ Verdict[id] \in {"automatic", "approved"}
    BY <1>1, <1>5 DEF Moved, After, Verdict
  <2>3. CASE outcome # "landed"
    <3>1. Effect' = Effect
      BY <1>1, <1>5, <2>1, <2>3 DEF Moved, After, Effect
    <3>. QED BY <2>2, <3>1 DEF Lifecycle!vars, Verdict, Effect
  <2>4. CASE outcome = "landed"
    <3>1. Effect' = Effect \cup {id}
      BY <1>1, <2>1, <2>4 DEF Effect
    <3>2. Lifecycle!TakeEffect(id)
      BY <2>2, <3>1 DEF Lifecycle!TakeEffect, Lifecycle!Cleared, Verdict, Effect
    <3>. QED BY <3>2 DEF Lifecycle!Next
  <2>. QED BY <2>3, <2>4
<1>6. ASSUME NEW why \in {"expired", "rejected", "lost"}, NEW S \in SUBSET Ids, Dropped(why, S),
             why = "rejected" => \E id \in Ids : S = {id}
      PROVE  [Lifecycle!Next]_(Lifecycle!vars)
  <2>1. /\ Verdict' = [i \in Ids |-> IF i \in S THEN why ELSE Verdict[i]] /\ Effect' = Effect
        /\ \A i \in S : Verdict[i] = "waiting"
    BY <1>1, <1>6 DEF Dropped, GivenUp, Verdict, Effect
  <2>2. CASE S = {}
    <3>1. Verdict' = Verdict
      BY <2>1, <2>2 DEF Verdict
    <3>. QED BY <2>1, <3>1 DEF Lifecycle!vars, Verdict, Effect
  <2>3. CASE S # {} /\ why # "rejected"
    <3>1. Lifecycle!Lapse(why, S)
      BY <2>1, <2>3 DEF Lifecycle!Lapse, Verdict, Effect
    <3>. QED BY <1>6, <2>3, <3>1 DEF Lifecycle!Next
  <2>4. CASE why = "rejected"
    <3>1. PICK id \in Ids : S = {id}
      BY <1>6, <2>4
    <3>2. Verdict' = [Verdict EXCEPT ![id] = "rejected"]
      BY <2>1, <2>4, <3>1 DEF Verdict
    <3>3. Lifecycle!Reject(id)
      BY <2>1, <3>1, <3>2 DEF Lifecycle!Reject, Verdict, Effect
    <3>. QED BY <3>3 DEF Lifecycle!Next
  <2>. QED BY <2>2, <2>3, <2>4
<1>. QED BY <1>2, <1>3, <1>4, <1>5, <1>6 DEF Shape

(* The controller, its routes, its restarts and the calls that outlive     *)
(* their callers implement the one-verdict life cycle of ActionLifecycle.  *)
THEOREM Refinement == Spec => ImplementsLifecycle
<1>1. TypeOK /\ QueueInv /\ [Next]_vars => [Lifecycle!Next]_(Lifecycle!vars)
  BY NextShape, StepRefines
<1>. QED
  BY <1>1, InitRefines, TypeCorrect, QueueConsistent, PTL DEF Spec, ImplementsLifecycle, Lifecycle!Spec

(***************************************************************************)
(* The action table. What a row claims is true when it is written and      *)
(* stays true, because verdicts and ended requests are final; and the      *)
(* suspended approve route is the only one that will still decide.         *)
(***************************************************************************)
RowTrue(i, row) ==
    /\ row \in {"executed", "approved_and_executed"} => call[i] = "landed"
    /\ row = "rejected" => status[i] = "rejected"
    /\ row \in {"approved_and_executed", "approved_execution_failed"} => status[i] = "approved"

RowsTrue == \A i \in Ids : \A k \in DOMAIN rows[i] : RowTrue(i, rows[i][k])

OneDecision == \A i \in Ids : \A k, l \in DecisionsOf(i) : k = l

Owed ==
    \A i \in Ids :
        /\ pipe[i] = "executed" => call[i] = "landed"
        /\ route[i] = "calling" => status[i] = "approved" /\ DecisionsOf(i) = {}

TableInv == RowsTrue /\ OneDecision /\ Owed

(* A row that is true stays true.                                          *)
LEMMA TrueStays ==
    ASSUME NEW i \in Ids, Stable(i), NEW row, RowTrue(i, row)
    PROVE  RowTrue(i, row)'
BY DEF Stable, After, RowTrue

(* Only an approval or a rejection allows a decision row.                  *)
LEMMA DecisionNeedsVerdict ==
    ASSUME TypeOK, RowsTrue, NEW i \in Ids, status[i] \notin {"approved", "rejected"}
    PROVE  DecisionsOf(i) = {}
BY DEF RowsTrue, RowTrue, DecisionsOf, DecisionRows

(* A step that writes no row keeps every row true and every decision.      *)
LEMMA NoRowWritten ==
    ASSUME TypeOK, TableInv, \A i \in Ids : Stable(i), rows' = rows
    PROVE  /\ RowsTrue' /\ OneDecision'
           /\ \A i \in Ids : DecisionsOf(i)' = DecisionsOf(i)
<1>1. \A i \in Ids : DecisionsOf(i)' = DecisionsOf(i)
  BY DEF DecisionsOf
<1>2. ASSUME NEW i \in Ids, NEW k \in DOMAIN rows'[i] PROVE RowTrue(i, rows[i][k])'
  <2>1. RowTrue(i, rows[i][k])
    BY <1>2 DEF TableInv, RowsTrue
  <2>. QED BY <2>1 DEF Stable, After, RowTrue
<1>3. RowsTrue'
  BY <1>2 DEF RowsTrue
<1>. QED BY <1>1, <1>3 DEF TableInv, OneDecision

(* A row that is written adds itself to the decisions, or nothing.         *)
LEMMA DecisionsAfter ==
    ASSUME TypeOK, NEW id \in Ids, NEW row \in PipelineRows \cup DecisionRows,
           rows' = [rows EXCEPT ![id] = Append(@, row)]
    PROVE  /\ \A i \in Ids \ {id} : DecisionsOf(i)' = DecisionsOf(i)
           /\ DecisionsOf(id)' = DecisionsOf(id) \cup
                                   (IF row \in DecisionRows THEN {Len(rows[id]) + 1} ELSE {})
<1>. DEFINE s == rows[id]
            t == Append(s, row)
<1>1. s \in Seq(PipelineRows \cup DecisionRows)
  BY DEF TypeOK
<1>2. /\ Len(s) \in Nat /\ DOMAIN s = 1 .. Len(s) /\ DOMAIN t = 1 .. Len(s) + 1
      /\ \A k \in DOMAIN s : t[k] = s[k]
      /\ t[Len(s) + 1] = row
  BY <1>1
<1>3. rows'[id] = t /\ \A i \in Ids \ {id} : rows'[i] = rows[i]
  BY DEF TypeOK
<1>. HIDE DEF s, t
<1>4. \A i \in Ids \ {id} : DecisionsOf(i)' = DecisionsOf(i)
  BY <1>3 DEF DecisionsOf
<1>5. DecisionsOf(id) = {k \in DOMAIN s : s[k] \in DecisionRows}
  BY DEF s, DecisionsOf
<1>6. DecisionsOf(id)' = {k \in DOMAIN t : t[k] \in DecisionRows}
  BY <1>3 DEF DecisionsOf
<1>7. DecisionsOf(id)' = DecisionsOf(id) \cup
                           (IF row \in DecisionRows THEN {Len(s) + 1} ELSE {})
  BY <1>2, <1>5, <1>6
<1>. QED BY <1>4, <1>7 DEF s

(* A step that writes one row that is true, and a decision only where the  *)
(* table has none, keeps both too.                                         *)
LEMMA RowWritten ==
    ASSUME TypeOK, TableInv, \A i \in Ids : Stable(i),
           NEW id \in Ids, NEW row \in PipelineRows \cup DecisionRows,
           rows' = [rows EXCEPT ![id] = Append(@, row)],
           /\ row \in {"executed", "approved_and_executed"} => call'[id] = "landed"
           /\ row = "rejected" => status'[id] = "rejected"
           /\ row \in {"approved_and_executed", "approved_execution_failed"}
                => status'[id] = "approved",
           row \in DecisionRows => DecisionsOf(id) = {}
    PROVE  /\ RowsTrue' /\ OneDecision'
           /\ \A i \in Ids \ {id} : DecisionsOf(i)' = DecisionsOf(i)
           /\ row \notin DecisionRows => DecisionsOf(id)' = DecisionsOf(id)
<1>. DEFINE s == rows[id]
            t == Append(s, row)
<1>1. s \in Seq(PipelineRows \cup DecisionRows)
  BY DEF TypeOK
<1>2. /\ Len(s) \in Nat /\ DOMAIN s = 1 .. Len(s) /\ DOMAIN t = 1 .. Len(s) + 1
      /\ \A k \in DOMAIN s : t[k] = s[k]
      /\ t[Len(s) + 1] = row
  BY <1>1
<1>3. rows'[id] = t /\ \A i \in Ids \ {id} : rows'[i] = rows[i]
  BY DEF TypeOK
<1>. HIDE DEF s, t
<1>4. \A i \in Ids \ {id} : DecisionsOf(i)' = DecisionsOf(i)
  BY DecisionsAfter
<1>5. DecisionsOf(id)' = DecisionsOf(id) \cup
                           (IF row \in DecisionRows THEN {Len(s) + 1} ELSE {})
  BY DecisionsAfter DEF s
<1>6. OneDecision'
  BY <1>4, <1>5 DEF OneDecision, TableInv
<1>7. RowsTrue'
  <2>1. ASSUME NEW i \in Ids, NEW k \in DOMAIN rows'[i], NEW r, r = rows'[i][k],
               k \in DOMAIN rows[i], r = rows[i][k]
        PROVE  RowTrue(i, rows[i][k])'
    <3>1. RowTrue(i, r)
      BY <2>1 DEF TableInv, RowsTrue
    <3>. QED BY <3>1, <2>1 DEF Stable, After, RowTrue
  <2>2. ASSUME NEW k \in DOMAIN t PROVE RowTrue(id, rows[id][k])'
    <3>1. CASE k \in DOMAIN s
      <4>1. k \in DOMAIN rows[id] /\ rows'[id][k] = rows[id][k] /\ k \in DOMAIN rows'[id]
        BY <1>2, <1>3, <2>2, <3>1 DEF s
      <4>. QED BY <2>1, <4>1
    <3>2. CASE k = Len(s) + 1
      <4>1. rows'[id][k] = row
        BY <1>2, <1>3, <3>2
      <4>. QED BY <4>1 DEF RowTrue
    <3>3. k \in DOMAIN s \/ k = Len(s) + 1
      BY <1>2, <2>2
    <3>. QED BY <3>1, <3>2, <3>3
  <2>3. ASSUME NEW i \in Ids \ {id}, NEW k \in DOMAIN rows'[i] PROVE RowTrue(i, rows[i][k])'
    BY <1>3, <2>1, <2>3
  <2>. QED BY <1>3, <2>2, <2>3 DEF RowsTrue
<1>. QED BY <1>4, <1>5, <1>6, <1>7

(* What a step may do to the suspended tasks: a pipeline notes an execution*)
(* that landed, a route waits for the call of the approval it just made.   *)
TasksKept(i) ==
    /\ pipe'[i] = "executed" => pipe[i] = "executed" \/ call'[i] = "landed"
    /\ route'[i] = "calling" =>
         \/ route[i] = "calling"
         \/ status[i] = "pending" /\ status'[i] = "approved"

(* The suspended tasks still owe what they owed.                           *)
LEMMA TaskStays ==
    ASSUME TypeOK, TableInv, NEW i \in Ids, Stable(i), TasksKept(i),
           DecisionsOf(i)' = DecisionsOf(i)
    PROVE  /\ pipe'[i] = "executed" => call'[i] = "landed"
           /\ route'[i] = "calling" => status'[i] = "approved" /\ DecisionsOf(i)' = {}
<1>1. status[i] = "pending" => DecisionsOf(i) = {}
  BY DecisionNeedsVerdict DEF TableInv
<1>. QED BY <1>1 DEF TableInv, Owed, Stable, After, TasksKept

LEMMA QuietTable ==
    ASSUME TypeOK, TableInv, \A i \in Ids : Stable(i) /\ TasksKept(i), rows' = rows
    PROVE  TableInv'
<1>1. RowsTrue' /\ OneDecision' /\ \A i \in Ids : DecisionsOf(i)' = DecisionsOf(i)
  BY NoRowWritten
<1>2. Owed'
  BY <1>1, TaskStays DEF Owed
<1>. QED BY <1>1, <1>2 DEF TableInv

LEMMA WritingTable ==
    ASSUME TypeOK, TableInv, \A i \in Ids : Stable(i) /\ TasksKept(i),
           NEW id \in Ids, NEW row \in PipelineRows \cup DecisionRows,
           rows' = [rows EXCEPT ![id] = Append(@, row)],
           /\ row \in {"executed", "approved_and_executed"} => call'[id] = "landed"
           /\ row = "rejected" => status'[id] = "rejected"
           /\ row \in {"approved_and_executed", "approved_execution_failed"}
                => status'[id] = "approved",
           row \in DecisionRows => DecisionsOf(id) = {} /\ route'[id] # "calling"
    PROVE  TableInv'
<1>1. /\ RowsTrue' /\ OneDecision'
      /\ \A i \in Ids \ {id} : DecisionsOf(i)' = DecisionsOf(i)
      /\ row \notin DecisionRows => DecisionsOf(id)' = DecisionsOf(id)
  BY RowWritten
<1>2. \A i \in Ids : pipe'[i] = "executed" => call'[i] = "landed"
  BY DEF TableInv, Owed, Stable, After, TasksKept
<1>3. ASSUME NEW i \in Ids, route'[i] = "calling"
      PROVE  status'[i] = "approved" /\ DecisionsOf(i)' = {}
  <2>1. DecisionsOf(i)' = DecisionsOf(i)
    BY <1>1, <1>3
  <2>. QED BY <1>3, <2>1, TaskStays
<1>. QED BY <1>1, <1>2, <1>3 DEF TableInv, Owed

LEMMA InitTable == Init => TableInv
<1>1. ASSUME Init, NEW i \in Ids PROVE DOMAIN rows[i] = {} /\ DecisionsOf(i) = {}
  BY <1>1 DEF Init, DecisionsOf
<1>. QED BY <1>1 DEF Init, TableInv, RowsTrue, OneDecision, Owed

LEMMA NextTable == TypeOK /\ QueueInv /\ TableInv /\ [Next]_vars => TableInv'
<1>. SUFFICES ASSUME TypeOK, QueueInv, TableInv, [Next]_vars PROVE TableInv'
  OBVIOUS
<1>. USE DEF loop, queue, tasks, ghost
<1>s. \A i \in Ids : Stable(i)
  BY StepStable
<1>t. /\ pipe \in [Ids -> {"none", "calling", "reporting"} \cup PipelineRows]
      /\ route \in [Ids -> {"none", "calling"}]
      /\ status \in [Ids -> Statuses] /\ pending \subseteq Ids
      /\ \A i \in Ids : i \in pending <=> status[i] = "pending"
  BY DEF TypeOK, QueueInv
<1>q. ASSUME rows' = rows, \A i \in Ids : TasksKept(i) PROVE TableInv'
  BY <1>q, <1>s, QuietTable
<1>u. ASSUME UNCHANGED <<rows, pipe, route>> PROVE TableInv'
  BY <1>q, <1>u DEF TasksKept
<1>1. CASE \E id \in Ids : PipelineRequest(id)
  <2>1. PICK id \in Ids, kind \in Kinds, target \in Targets, sev \in Severities,
             conf \in Confidences :
          LET r == [kind |-> kind, target |-> target, origin |-> "pipeline"]
          IN  PipelineAuto(id, r, sev, conf) \/ PipelineQueue(id, r, sev, conf)
    BY <1>1 DEF PipelineRequest
  <2>. DEFINE r == [kind |-> kind, target |-> target, origin |-> "pipeline"]
  <2>2. /\ UNCHANGED <<rows, route>>
        /\ \E p \in {"calling", "execution_failed", "pending_approval"} :
             pipe' = [pipe EXCEPT ![id] = p]
    BY <2>1 DEF PipelineAuto, PipelineQueue
  <2>3. \A i \in Ids : TasksKept(i)
    BY <1>t, <2>2 DEF TasksKept
  <2>. QED BY <1>q, <2>2, <2>3
<1>2. CASE \E id \in Ids : ChatRequest(id)
  BY <1>2, <1>u DEF ChatRequest, ChatAuto, ChatQueue
<1>3. ASSUME NEW id \in Ids, ApproveExpired(id) \/ ChatApprove(id) PROVE TableInv'
  BY <1>3, <1>u DEF ApproveExpired, ChatApprove
<1>4. ASSUME NEW id \in Ids, RouteApprove(id) PROVE TableInv'
  <2>1. /\ status[id] = "pending" /\ status'[id] = "approved" /\ pipe' = pipe
        /\ \/ rows' = rows /\ route' = [route EXCEPT ![id] = "calling"]
           \/ /\ rows' = [rows EXCEPT ![id] = Append(@, "approved_execution_failed")]
              /\ route' = route
    BY <1>4, <1>t DEF RouteApprove, Settle
  <2>2. \A i \in Ids : TasksKept(i)
    BY <1>t, <2>1 DEF TasksKept
  <2>3. CASE rows' = rows
    BY <1>q, <2>2, <2>3
  <2>4. CASE /\ rows' = [rows EXCEPT ![id] = Append(@, "approved_execution_failed")]
             /\ route' = route
    <3>1. DecisionsOf(id) = {}
      BY <2>1, DecisionNeedsVerdict DEF TableInv
    <3>2. route[id] # "calling"
      BY <2>1 DEF TableInv, Owed
    <3>3. "approved_execution_failed" \in PipelineRows \cup DecisionRows
      BY DEF DecisionRows
    <3>. QED BY <1>s, <2>1, <2>2, <2>4, <3>1, <3>2, <3>3, WritingTable
  <2>. QED BY <2>1, <2>3, <2>4
<1>5. ASSUME NEW id \in Ids, NEW who \in {"route", "chat"}, Reject(id, who) PROVE TableInv'
  <2>1. CASE who = "chat"
    BY <1>5, <1>u, <2>1 DEF Reject
  <2>2. CASE who = "route"
    <3>1. /\ status[id] = "pending" /\ status'[id] = "rejected"
          /\ UNCHANGED <<pipe, route>>
          /\ rows' = [rows EXCEPT ![id] = Append(@, "rejected")]
      BY <1>5, <1>t, <2>2 DEF Reject, Settle
    <3>2. DecisionsOf(id) = {}
      BY <3>1, DecisionNeedsVerdict DEF TableInv
    <3>3. route[id] # "calling"
      BY <3>1 DEF TableInv, Owed
    <3>4. \A i \in Ids : TasksKept(i)
      BY <3>1 DEF TasksKept
    <3>5. "rejected" \in PipelineRows \cup DecisionRows
      BY DEF DecisionRows
    <3>. QED BY <1>s, <3>1, <3>2, <3>3, <3>4, <3>5, WritingTable
  <2>. QED BY <2>1, <2>2
<1>6. ASSUME NEW id \in Ids, NEW row \in {"approved_and_executed", "approved_execution_failed"},
             RouteSucceeds(id) \/ RouteFails(id),
             rows' = [rows EXCEPT ![id] = Append(@, row)],
             row = "approved_and_executed" => call'[id] = "landed"
      PROVE  TableInv'
  <2>1. /\ route[id] = "calling" /\ route' = [route EXCEPT ![id] = "none"]
        /\ UNCHANGED <<status, pipe>>
    BY <1>6 DEF RouteSucceeds, RouteFails
  <2>2. status'[id] = "approved" /\ DecisionsOf(id) = {}
    BY <2>1 DEF TableInv, Owed
  <2>3. \A i \in Ids : TasksKept(i)
    BY <1>t, <2>1 DEF TasksKept
  <2>4. row \in PipelineRows \cup DecisionRows /\ route'[id] # "calling"
    BY <1>t, <2>1 DEF DecisionRows
  <2>. QED BY <1>6, <1>s, <2>1, <2>2, <2>3, <2>4, WritingTable
<1>7. ASSUME NEW id \in Ids, PipelineSucceeds(id) \/ PipelineRaises(id) \/ ReportEnds(id)
      PROVE  TableInv'
  <2>1. \A i \in Ids : TasksKept(i)
    BY <1>7, <1>t DEF PipelineSucceeds, PipelineRaises, ReportEnds, TasksKept
  <2>. QED BY <1>7, <1>q, <2>1 DEF PipelineSucceeds, PipelineRaises, ReportEnds
<1>8. ASSUME NEW id \in Ids, PipelinePersists(id) PROVE TableInv'
  <2>1. /\ pipe[id] \in PipelineRows
        /\ \E p \in {"none", "reporting"} : pipe' = [pipe EXCEPT ![id] = p]
        /\ UNCHANGED <<status, call, route>>
        /\ rows' = [rows EXCEPT ![id] = Append(@, pipe[id])]
    BY <1>8 DEF PipelinePersists
  <2>2. \A i \in Ids : TasksKept(i)
    BY <1>t, <2>1 DEF TasksKept
  <2>3. pipe[id] \in PipelineRows \cup DecisionRows
    BY <2>1
  <2>4. /\ pipe[id] \notin DecisionRows
        /\ pipe[id] = "executed" => call'[id] = "landed"
        /\ pipe[id] \notin {"rejected", "approved_and_executed", "approved_execution_failed"}
    BY <2>1 DEF TableInv, Owed, PipelineRows, DecisionRows
  <2>. DEFINE row == pipe[id]
  <2>5. /\ rows' = [rows EXCEPT ![id] = Append(@, row)]
        /\ row \in PipelineRows \cup DecisionRows /\ row \notin DecisionRows
        /\ row \in {"executed", "approved_and_executed"} => call'[id] = "landed"
        /\ row \notin {"rejected", "approved_and_executed", "approved_execution_failed"}
    BY <2>1, <2>3, <2>4
  <2>. HIDE DEF row
  <2>. QED BY <1>s, <2>2, <2>5, WritingTable
<1>9. ASSUME NEW id \in Ids, Resume(id) PROVE TableInv'
  <2>1. CASE RouteSucceeds(id)
    BY <1>6, <2>1 DEF RouteSucceeds
  <2>2. CASE RouteFails(id)
    BY <1>6, <2>2 DEF RouteFails
  <2>. QED BY <1>7, <1>8, <1>9, <2>1, <2>2 DEF Resume
<1>10. ASSUME Reboot PROVE TableInv'
  <2>1. \A i \in Ids : TasksKept(i)
    BY <1>10 DEF Reboot, TasksKept
  <2>. QED BY <1>10, <1>q, <2>1 DEF Reboot
<1>11. ASSUME NEW id \in Ids, NEW outcome \in {"landed", "failed"},
              CallEnds(id, outcome) \/ CallBegins(id) \/ ReportBegins(id)
       PROVE  TableInv'
  BY <1>11, <1>u DEF CallEnds, CallBegins, ReportBegins
<1>12. ASSUME NEW target \in Targets, NEW sev \in Severities, NEW conf \in Confidences,
              RequestWhenFull(target, sev, conf) PROVE TableInv'
  BY <1>12, <1>u DEF RequestWhenFull
<1>13. ASSUME CleanupExpired \/ (\E m \in Modes : SetMode(m))
                \/ (\E b \in BOOLEAN : SetForce(b)) \/ Tick
       PROVE  TableInv'
  BY <1>13, <1>u DEF CleanupExpired, SetMode, SetForce, Tick
<1>14. CASE UNCHANGED vars
  BY <1>14, <1>u DEF vars
<1>15. ASSUME ProbeRestart \/ Crash PROVE TableInv'
  BY <1>10, <1>15 DEF ProbeRestart, Crash
<1>. QED
  BY <1>1, <1>2, <1>3, <1>4, <1>5, <1>9, <1>11, <1>12, <1>13, <1>14, <1>15 DEF Next, Decide

(* What is reported, or about to be, has its executed row in the table:    *)
(* the pipeline turns to its reports once the rows are written, and a row  *)
(* once written stays.                                                     *)
ReportsBacked ==
    \A i \in Ids : i \in reported \/ pipe[i] = "reporting" => "executed" \in RowsOf(i)

LEMMA InitBacked == Init => ReportsBacked
BY DEF Init, ReportsBacked

(* A row that is written is there, with all the earlier ones.              *)
LEMMA RowsGrow ==
    ASSUME TypeOK, NEW id \in Ids, NEW row \in PipelineRows \cup DecisionRows,
           rows' = [rows EXCEPT ![id] = Append(@, row)]
    PROVE  /\ \A i \in Ids : RowsOf(i) \subseteq RowsOf(i)'
           /\ row \in RowsOf(id)'
<1>. DEFINE s == rows[id]
            t == Append(s, row)
<1>1. s \in Seq(PipelineRows \cup DecisionRows)
  BY DEF TypeOK
<1>2. /\ Len(s) \in Nat /\ DOMAIN s = 1 .. Len(s) /\ DOMAIN t = 1 .. Len(s) + 1
      /\ \A k \in DOMAIN s : t[k] = s[k]
      /\ t[Len(s) + 1] = row
  BY <1>1
<1>3. rows'[id] = t /\ \A i \in Ids \ {id} : rows'[i] = rows[i]
  BY DEF TypeOK
<1>. HIDE DEF s, t
<1>4. RowsOf(id) = {s[k] : k \in DOMAIN s}
  BY DEF s, RowsOf
<1>5. RowsOf(id)' = {t[k] : k \in DOMAIN t}
  BY <1>3 DEF RowsOf
<1>6. RowsOf(id) \subseteq RowsOf(id)'
  BY <1>2, <1>4, <1>5
<1>7. row \in RowsOf(id)'
  BY <1>2, <1>5
<1>8. \A i \in Ids \ {id} : RowsOf(i)' = RowsOf(i)
  BY <1>3 DEF RowsOf
<1>. QED BY <1>6, <1>7, <1>8

LEMMA NextBacked == TypeOK /\ ReportsBacked /\ [Next]_vars => ReportsBacked'
<1>. SUFFICES ASSUME TypeOK, ReportsBacked, [Next]_vars PROVE ReportsBacked'
  OBVIOUS
<1>. USE DEF loop, queue, tasks, ghost
<1>t. pipe \in [Ids -> {"none", "calling", "reporting"} \cup PipelineRows]
  BY DEF TypeOK
<1>q. ASSUME \A i \in Ids : RowsOf(i) \subseteq RowsOf(i)',
             reported' = reported, \A i \in Ids : pipe'[i] = "reporting" => pipe[i] = "reporting"
      PROVE  ReportsBacked'
  BY <1>q DEF ReportsBacked
<1>k. rows' = rows => \A i \in Ids : RowsOf(i) \subseteq RowsOf(i)'
  BY DEF RowsOf
<1>u. ASSUME UNCHANGED <<rows, pipe, reported>> PROVE ReportsBacked'
  BY <1>k, <1>q, <1>u
<1>1. ASSUME NEW id \in Ids, PipelineRequest(id) \/ ChatRequest(id) PROVE ReportsBacked'
  <2>1. ASSUME NEW r, NEW sev, NEW conf,
               PipelineAuto(id, r, sev, conf) \/ PipelineQueue(id, r, sev, conf)
        PROVE  ReportsBacked'
    <3>1. /\ rows' = rows /\ reported' = reported
          /\ \E p \in {"calling", "execution_failed", "pending_approval"} :
               pipe' = [pipe EXCEPT ![id] = p]
      BY <2>1 DEF PipelineAuto, PipelineQueue
    <3>2. \A i \in Ids : pipe'[i] = "reporting" => pipe[i] = "reporting"
      BY <1>t, <3>1
    <3>. QED BY <1>k, <1>q, <3>1, <3>2
  <2>2. ASSUME NEW r, NEW sev, ChatAuto(id, r, sev) \/ ChatQueue(id, r, sev)
        PROVE  ReportsBacked'
    BY <2>2, <1>u DEF ChatAuto, ChatQueue
  <2>3. PipelineRequest(id) => \E r, sev, conf :
          PipelineAuto(id, r, sev, conf) \/ PipelineQueue(id, r, sev, conf)
    BY DEF PipelineRequest
  <2>4. ChatRequest(id) => \E r, sev : ChatAuto(id, r, sev) \/ ChatQueue(id, r, sev)
    BY DEF ChatRequest
  <2>. QED BY <1>1, <2>1, <2>2, <2>3, <2>4
<1>2. ASSUME NEW id \in Ids, NEW row \in DecisionRows, UNCHANGED <<pipe, reported>>,
             rows' = rows \/ rows' = [rows EXCEPT ![id] = Append(@, row)]
      PROVE  ReportsBacked'
  <2>1. row \in PipelineRows \cup DecisionRows
    BY <1>2
  <2>2. \A i \in Ids : RowsOf(i) \subseteq RowsOf(i)'
    BY <1>2, <1>k, <2>1, RowsGrow
  <2>. QED BY <1>2, <1>q, <2>2
<1>3. ASSUME NEW id \in Ids, Decide(id) PROVE ReportsBacked'
  <2>1. CASE RouteApprove(id)
    <3>1. "approved_execution_failed" \in DecisionRows
      BY DEF DecisionRows
    <3>. QED BY <1>2, <2>1, <3>1 DEF RouteApprove
  <2>2. ASSUME NEW who \in {"route", "chat"}, Reject(id, who) PROVE ReportsBacked'
    <3>1. "rejected" \in DecisionRows
      BY DEF DecisionRows
    <3>. QED BY <1>2, <2>2, <3>1 DEF Reject
  <2>3. CASE ApproveExpired(id) \/ ChatApprove(id)
    BY <1>u, <2>3 DEF ApproveExpired, ChatApprove
  <2>. QED BY <1>3, <2>1, <2>2, <2>3 DEF Decide
<1>4. ASSUME NEW id \in Ids, RouteSucceeds(id) \/ RouteFails(id) PROVE ReportsBacked'
  <2>1. "approved_and_executed" \in DecisionRows /\ "approved_execution_failed" \in DecisionRows
    BY DEF DecisionRows
  <2>. QED BY <1>2, <1>4, <2>1 DEF RouteSucceeds, RouteFails
<1>5. ASSUME NEW id \in Ids, PipelineSucceeds(id) \/ PipelineRaises(id) \/ ReportEnds(id)
      PROVE  ReportsBacked'
  <2>1. /\ rows' = rows /\ reported' = reported
        /\ \E p \in {"executed", "none"} : pipe' = [pipe EXCEPT ![id] = p]
    BY <1>5 DEF PipelineSucceeds, PipelineRaises, ReportEnds
  <2>2. \A i \in Ids : pipe'[i] = "reporting" => pipe[i] = "reporting"
    BY <1>t, <2>1
  <2>. QED BY <1>k, <1>q, <2>1, <2>2
<1>6. ASSUME NEW id \in Ids, PipelinePersists(id) PROVE ReportsBacked'
  <2>. DEFINE row == pipe[id]
  <2>1. /\ row \in PipelineRows /\ row \in PipelineRows \cup DecisionRows
        /\ rows' = [rows EXCEPT ![id] = Append(@, row)] /\ reported' = reported
    BY <1>6 DEF PipelinePersists
  <2>2. /\ \A i \in Ids \ {id} : pipe'[i] = pipe[i]
        /\ pipe'[id] = "reporting" => row = "executed"
    BY <1>6, <1>t DEF PipelinePersists
  <2>. HIDE DEF row
  <2>3. (\A i \in Ids : RowsOf(i) \subseteq RowsOf(i)') /\ row \in RowsOf(id)'
    BY <2>1, RowsGrow
  <2>. QED BY <2>1, <2>2, <2>3 DEF ReportsBacked
<1>7. ASSUME NEW id \in Ids, ReportBegins(id) PROVE ReportsBacked'
  <2>1. /\ pipe[id] = "reporting" /\ UNCHANGED <<rows, pipe>> /\ reported' = reported \cup {id}
    BY <1>7 DEF ReportBegins
  <2>. QED BY <1>k, <2>1 DEF ReportsBacked
<1>8. ASSUME Reboot PROVE ReportsBacked'
  <2>1. rows' = rows /\ reported' = reported /\ pipe' = [i \in Ids |-> "none"]
    BY <1>8 DEF Reboot
  <2>. QED BY <1>k, <1>q, <2>1
<1>9. ASSUME NEW id \in Ids, NEW outcome \in {"landed", "failed"},
             CallEnds(id, outcome) \/ CallBegins(id)
      PROVE  ReportsBacked'
  BY <1>9, <1>u DEF CallEnds, CallBegins
<1>10. ASSUME NEW target \in Targets, NEW sev \in Severities, NEW conf \in Confidences,
              RequestWhenFull(target, sev, conf) PROVE ReportsBacked'
  BY <1>10, <1>u DEF RequestWhenFull
<1>11. ASSUME CleanupExpired \/ (\E m \in Modes : SetMode(m))
                \/ (\E b \in BOOLEAN : SetForce(b)) \/ Tick
       PROVE  ReportsBacked'
  BY <1>11, <1>u DEF CleanupExpired, SetMode, SetForce, Tick
<1>12. CASE UNCHANGED vars
  BY <1>12, <1>u DEF vars
<1>. QED
  BY <1>1, <1>3, <1>4, <1>5, <1>6, <1>7, <1>8, <1>9, <1>10, <1>11, <1>12
     DEF Next, Resume, ProbeRestart, Crash

(* The inductive form says of each single row what RowsTruthful says of    *)
(* the rows of an action.                                                  *)
LEMMA TableTruthful == TypeOK /\ TableInv /\ ReportsBacked => RowsTruthful
<1>. SUFFICES ASSUME TypeOK, TableInv, ReportsBacked, NEW i \in Ids
              PROVE  /\ RowsOf(i) \cap {"executed", "approved_and_executed"} # {}
                          => call[i] = "landed"
                     /\ Cardinality(DecisionsOf(i)) <= 1
                     /\ "rejected" \in RowsOf(i) => status[i] = "rejected"
                     /\ RowsOf(i) \cap {"approved_and_executed", "approved_execution_failed"} # {}
                          => status[i] = "approved"
                     /\ i \in reported => "executed" \in RowsOf(i)
  BY DEF RowsTruthful
<1>1. \A r \in RowsOf(i) : RowTrue(i, r)
  BY DEF RowsOf, TableInv, RowsTrue
<1>2. Cardinality(DecisionsOf(i)) <= 1
  <2>1. CASE DecisionsOf(i) = {}
    BY <2>1, FS_EmptySet
  <2>2. CASE DecisionsOf(i) # {}
    <3>1. PICK k : k \in DecisionsOf(i)
      BY <2>2
    <3>2. DecisionsOf(i) = {k}
      BY <3>1 DEF TableInv, OneDecision
    <3>. QED BY <3>2, FS_Singleton
  <2>. QED BY <2>1, <2>2
<1>. QED BY <1>1, <1>2 DEF RowTrue, ReportsBacked

(* The action table tells the truth about the cluster and the verdict: a   *)
(* row that claims execution means the request landed, an action has at    *)
(* most one decision row, it matches the verdict, and the operator is told *)
(* only of what has its executed row, after any interleaving of routes,    *)
(* timeouts, sweeps and restarts.                                          *)
THEOREM TableTellsTruth == Spec => []RowsTruthful
<1>1. TypeOK /\ QueueInv /\ TableInv /\ [Next]_vars => TableInv'
  BY NextTable
<1>2. Spec => []TableInv
  BY <1>1, InitTable, TypeCorrect, QueueConsistent, PTL DEF Spec
<1>3. Spec => []ReportsBacked
  BY InitBacked, NextBacked, TypeCorrect, PTL DEF Spec
<1>. QED BY <1>2, <1>3, TableTruthful, TypeCorrect, PTL

(* A decision through the routes is in the table, or still awaits the      *)
(* cluster, or died with its process: what was recorded stays recorded,    *)
(* and a route that stops waiting has written its row.                     *)
LEMMA InitRecorded == Init => RouteDecisionsRecorded
BY DEF Init, RouteDecisionsRecorded

LEMMA NextRecorded ==
    TypeOK /\ RouteDecisionsRecorded /\ [Next]_vars => RouteDecisionsRecorded'
<1>. SUFFICES ASSUME TypeOK, RouteDecisionsRecorded, [Next]_vars
              PROVE  RouteDecisionsRecorded'
  OBVIOUS
<1>. USE DEF loop, queue, tasks, ghost
<1>t. /\ via \in [Ids -> {"none", "route", "chat"}]
      /\ route \in [Ids -> {"none", "calling"}]
      /\ {"rejected", "approved_and_executed", "approved_execution_failed"} \subseteq DecisionRows
  BY DEF TypeOK, DecisionRows
<1>k. rows' = rows => \A i \in Ids : DecisionsOf(i)' = DecisionsOf(i)
  BY DEF DecisionsOf
<1>w. ASSUME NEW id \in Ids, NEW row \in PipelineRows \cup DecisionRows,
             rows' = [rows EXCEPT ![id] = Append(@, row)]
      PROVE  /\ \A i \in Ids : DecisionsOf(i) # {} => DecisionsOf(i)' # {}
             /\ row \in DecisionRows => DecisionsOf(id)' # {}
  BY <1>w, DecisionsAfter
<1>u. ASSUME UNCHANGED <<via, route, orphaned, rows>> PROVE RouteDecisionsRecorded'
  BY <1>k, <1>u DEF RouteDecisionsRecorded
<1>1. ASSUME NEW id \in Ids, PipelineRequest(id) \/ ChatRequest(id)
      PROVE  RouteDecisionsRecorded'
  <2>1. ASSUME NEW r, NEW sev, NEW conf,
               PipelineAuto(id, r, sev, conf) \/ PipelineQueue(id, r, sev, conf)
        PROVE  RouteDecisionsRecorded'
    BY <2>1, <1>u DEF PipelineAuto, PipelineQueue, RecordAutoExecuted, Enqueue
  <2>2. ASSUME NEW r, NEW sev, ChatAuto(id, r, sev) \/ ChatQueue(id, r, sev)
        PROVE  RouteDecisionsRecorded'
    BY <2>2, <1>u DEF ChatAuto, ChatQueue, RecordAutoExecuted, Enqueue
  <2>3. PipelineRequest(id) => \E r, sev, conf :
          PipelineAuto(id, r, sev, conf) \/ PipelineQueue(id, r, sev, conf)
    BY DEF PipelineRequest
  <2>4. ChatRequest(id) => \E r, sev : ChatAuto(id, r, sev) \/ ChatQueue(id, r, sev)
    BY DEF ChatRequest
  <2>. QED BY <1>1, <2>1, <2>2, <2>3, <2>4
<1>2. ASSUME NEW id \in Ids, ApproveExpired(id) PROVE RouteDecisionsRecorded'
  BY <1>2, <1>u DEF ApproveExpired
<1>3. ASSUME NEW id \in Ids, RouteApprove(id) PROVE RouteDecisionsRecorded'
  <2>1. via' = [via EXCEPT ![id] = "route"] /\ orphaned' = orphaned
    BY <1>3 DEF RouteApprove
  <2>2. CASE rows' = rows /\ route' = [route EXCEPT ![id] = "calling"]
    BY <1>k, <1>t, <2>1, <2>2 DEF RouteDecisionsRecorded
  <2>3. CASE /\ rows' = [rows EXCEPT ![id] = Append(@, "approved_execution_failed")]
             /\ route' = route
    BY <1>t, <1>w, <2>1, <2>3 DEF RouteDecisionsRecorded
  <2>. QED BY <1>3, <2>2, <2>3 DEF RouteApprove
<1>4. ASSUME NEW id \in Ids, ChatApprove(id) PROVE RouteDecisionsRecorded'
  <2>1. via' = [via EXCEPT ![id] = "chat"] /\ UNCHANGED <<route, rows, orphaned>>
    BY <1>4 DEF ChatApprove
  <2>. QED BY <1>k, <1>t, <2>1 DEF RouteDecisionsRecorded
<1>5. ASSUME NEW id \in Ids, NEW who \in {"route", "chat"}, Reject(id, who)
      PROVE  RouteDecisionsRecorded'
  <2>1. via' = [via EXCEPT ![id] = who] /\ UNCHANGED <<route, orphaned>>
    BY <1>5 DEF Reject
  <2>2. CASE who = "chat"
    BY <1>5, <1>k, <1>t, <2>1, <2>2 DEF Reject, RouteDecisionsRecorded
  <2>3. CASE who = "route"
    <3>1. rows' = [rows EXCEPT ![id] = Append(@, "rejected")]
      BY <1>5, <2>3 DEF Reject
    <3>. QED BY <1>t, <1>w, <2>1, <3>1 DEF RouteDecisionsRecorded
  <2>. QED BY <2>2, <2>3
<1>6. ASSUME NEW id \in Ids, NEW row \in {"approved_and_executed", "approved_execution_failed"},
             rows' = [rows EXCEPT ![id] = Append(@, row)],
             route' = [route EXCEPT ![id] = "none"], UNCHANGED <<via, orphaned>>
      PROVE  RouteDecisionsRecorded'
  BY <1>6, <1>t, <1>w DEF RouteDecisionsRecorded
<1>7. ASSUME NEW id \in Ids, PipelinePersists(id) PROVE RouteDecisionsRecorded'
  BY <1>7, <1>w DEF PipelinePersists, RouteDecisionsRecorded
<1>8. ASSUME NEW id \in Ids, Resume(id) PROVE RouteDecisionsRecorded'
  <2>1. CASE RouteSucceeds(id)
    BY <1>6, <2>1 DEF RouteSucceeds
  <2>2. CASE RouteFails(id)
    BY <1>6, <2>2 DEF RouteFails
  <2>3. CASE PipelineSucceeds(id) \/ PipelineRaises(id) \/ ReportEnds(id)
    BY <1>u, <2>3 DEF PipelineSucceeds, PipelineRaises, ReportEnds
  <2>. QED BY <1>7, <1>8, <2>1, <2>2, <2>3 DEF Resume
<1>9. ASSUME Reboot PROVE RouteDecisionsRecorded'
  <2>1. via' = via /\ rows' = rows
    BY <1>9 DEF Reboot
  <2>2. orphaned' = orphaned \cup {i \in Ids : route[i] = "calling"}
    BY <1>9 DEF Reboot
  <2>. QED BY <1>k, <2>1, <2>2 DEF RouteDecisionsRecorded
<1>10. ASSUME NEW id \in Ids, NEW outcome \in {"landed", "failed"},
              CallEnds(id, outcome) \/ CallBegins(id) \/ ReportBegins(id)
       PROVE  RouteDecisionsRecorded'
  BY <1>10, <1>u DEF CallEnds, CallBegins, ReportBegins
<1>11. ASSUME NEW target \in Targets, NEW sev \in Severities, NEW conf \in Confidences,
              RequestWhenFull(target, sev, conf) PROVE RouteDecisionsRecorded'
  BY <1>11, <1>u DEF RequestWhenFull
<1>12. ASSUME CleanupExpired \/ (\E m \in Modes : SetMode(m))
                \/ (\E b \in BOOLEAN : SetForce(b)) \/ Tick
       PROVE  RouteDecisionsRecorded'
  BY <1>12, <1>u DEF CleanupExpired, SetMode, SetForce, Tick
<1>13. CASE UNCHANGED vars
  BY <1>13, <1>u DEF vars
<1>14. ASSUME ProbeRestart \/ Crash PROVE RouteDecisionsRecorded'
  BY <1>9, <1>14 DEF ProbeRestart, Crash
<1>. QED
  BY <1>1, <1>2, <1>3, <1>4, <1>5, <1>8, <1>10, <1>11, <1>12, <1>13, <1>14 DEF Next, Decide

(* No decision of the governance routes is forgotten while its process     *)
(* lives, however long the cluster takes and whatever else is decided.     *)
THEOREM RouteDecisionsKept == Spec => []RouteDecisionsRecorded
<1>. QED BY InitRecorded, NextRecorded, TypeCorrect, PTL DEF Spec
=============================================================================

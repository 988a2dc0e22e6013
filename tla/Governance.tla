----------------------------- MODULE Governance -----------------------------
(***************************************************************************)
(* The human-in-the-loop governance of ids-api: GovernanceController       *)
(* (governance.py), the approve/reject routes (api/governance.py), the     *)
(* analyst chat's submit and pending-decision routes (api/analyst.py), and *)
(* the alert pipeline's use of it for one recommended action               *)
(* (_try_action and the persistence stage of api/alerts.py).               *)
(*                                                                         *)
(* Every caller is a coroutine of one uvicorn event loop, so a handler is  *)
(* atomic up to its next await; what interleaves is the awaited Kubernetes *)
(* call, which runs in a worker thread and keeps running when its caller   *)
(* times out, the clock, the operators, and restarts of the pod.           *)
(***************************************************************************)
EXTENDS Integers, Sequences, FiniteSets

CONSTANTS
    Ids,                 \* action ids, each generated at most once
    Targets, Protected,  \* targets; those that match Config.PROTECTED_SERVICES
    Kinds,               \* the action types recommended or submitted
    Severities, Confidences,
    AutonomousMin, EmergencyMin, EmergencySeverity,
    MaxPending,          \* MAX_PENDING_ACTIONS
    Expiry,              \* ACTION_EXPIRY_SECONDS, in clock ticks
    BootMode, BootForce, \* AUTOMATION_MODE, AUTONOMOUS_FORCE_EXECUTION
    MaxCrashes           \* bound: crashes of a responsive process

Modes == {"autonomous", "assisted", "manual", "emergency"}

ASSUME IdsAssumption == IsFiniteSet(Ids)
ASSUME TargetsAssumption == Protected \subseteq Targets
ASSUME LevelsAssumption ==
    /\ Severities \subseteq Int /\ EmergencySeverity \in Int
    /\ Confidences \subseteq Int /\ AutonomousMin \in Int /\ EmergencyMin \in Int
    /\ 0 \in Confidences        \* a caller that states none is given 0
ASSUME LimitsAssumption ==
    MaxPending \in Nat \ {0} /\ Expiry \in Nat /\ MaxCrashes \in Nat
ASSUME BootAssumption == BootMode \in Modes /\ BootForce \in BOOLEAN

VARIABLES
    mode, force,         \* _mode, _autonomous_force_execution
    frozen,              \* the event loop is blocked on _state_lock for ever
    pending,             \* the keys of _pending_actions
    age,                 \* ticks since a pending action was queued
    history,             \* the actions in _action_history
    metrics,             \* _metrics
    status,              \* PendingAction.status
    req,                 \* what was asked for, where, and by which caller
    via,                 \* which route decided a pending action
    call,                \* the Kubernetes request that carries the action out
    route,               \* the approve route suspended on that request
    pipe,                \* the pipeline: suspended, or the record it will persist
    reported,            \* the actions whose ThreatResponse has been sent off
    rows,                \* the action's rows in the automation_actions table
    orphaned,            \* approvals whose handler died with the process
    crashes

loop  == <<mode, force, frozen>>
queue == <<pending, age, history, metrics, status, via>>
tasks == <<call, route, pipe, reported>>
ghost == <<orphaned, crashes>>
vars  == <<mode, force, frozen, pending, age, history, metrics, status, req,
           via, call, route, pipe, reported, rows, orphaned, crashes>>

Statuses == {"none", "pending", "auto_executed", "approved", "rejected", "expired", "lost"}

(* A request is asked for by a decision and begins later: wait_for starts  *)
(* its coroutine in the loop's next round, to_thread waits for a thread,   *)
(* and scale_up first awaits the answer to its read of the deployment.     *)
CallStates == {"idle", "asked", "running", "landed", "failed"}
PipelineRows == {"executed", "execution_failed", "pending_approval"}
DecisionRows == {"approved_and_executed", "approved_execution_failed", "rejected"}
Metrics == {"total", "auto_executed", "pending", "approved", "rejected", "expired"}

NoRequest == [kind |-> "none", target |-> "none", origin |-> "none"]
Requests == [kind : Kinds, target : Targets, origin : {"pipeline", "chat"}]
ZeroMetrics == [m \in Metrics |-> 0]

(***************************************************************************)
(* Decisions.                                                              *)
(***************************************************************************)
EmergencyBypass(sev, conf) ==
    mode = "emergency" /\ sev >= EmergencySeverity /\ conf >= EmergencyMin

(* Fault: the force profile outlives autonomous mode.                      *)
ForceInAnyMode(sev, conf) ==
    \/ EmergencyBypass(sev, conf)
    \/ force
    \/ mode \in {"autonomous", "assisted"} /\ conf >= AutonomousMin

ShouldAutoExecute(sev, conf) ==
    \/ EmergencyBypass(sev, conf)
    \/ mode = "autonomous" /\ (force \/ conf >= AutonomousMin)
    \/ mode = "assisted" /\ conf >= AutonomousMin

(* Fault: the force profile also covers protected targets.                 *)
ForceOverProtection(target, sev, conf) ==
    IF target \in Protected /\ ~force THEN EmergencyBypass(sev, conf)
                                      ELSE ShouldAutoExecute(sev, conf)

AutoDecision(target, sev, conf) ==
    IF target \in Protected THEN EmergencyBypass(sev, conf)
                            ELSE ShouldAutoExecute(sev, conf)

(* Which kinds the approve route and the pipeline have a backend for.      *)
(* block_ip needs a target_workload, which only the pipeline records.      *)
ClusterKinds == {"isolate_pod", "scale_up", "block_ip", "cordon_node"}
RouteBackend(r) == r.kind \in ClusterKinds /\ (r.kind = "block_ip" => r.origin = "pipeline")

(* The chat executes synchronously, for at most 20 seconds: the request    *)
(* may succeed, fail, or still be running when the chat gives up on it.    *)
(* scale_up passes its arguments in the wrong order and always fails.      *)
ChatOutcomes(kind) ==
    IF kind = "isolate_pod" THEN {"landed", "failed", "running"}
    ELSE IF kind = "scale_up" THEN {"failed"} ELSE {"idle"}

(***************************************************************************)
(* request_action.                                                         *)
(***************************************************************************)
Serving == ~frozen

Register(id, r) ==
    /\ Serving
    /\ status[id] = "none"
    /\ req' = [req EXCEPT ![id] = r]

RecordAutoExecuted(id) ==
    /\ metrics' = [metrics EXCEPT !["total"] = @ + 1, !["auto_executed"] = @ + 1]
    /\ status' = [status EXCEPT ![id] = "auto_executed"]
    /\ history' = history \cup {id}
    /\ UNCHANGED <<pending, age, via>>

Enqueue(id) ==
    /\ Cardinality(pending) < MaxPending
    /\ pending' = pending \cup {id}
    /\ age' = [age EXCEPT ![id] = 0]
    /\ metrics' = [metrics EXCEPT !["total"] = @ + 1, !["pending"] = @ + 1]
    /\ status' = [status EXCEPT ![id] = "pending"]
    /\ UNCHANGED <<history, via>>

(* The pipeline asks without a callback and then awaits the call itself;   *)
(* with no backend for the kind it only notes the failure.                 *)
PipelineAuto(id, r, sev, conf) ==
    /\ Register(id, r)
    /\ AutoDecision(r.target, sev, conf)
    /\ RecordAutoExecuted(id)
    /\ IF r.kind \in ClusterKinds
       THEN /\ call' = [call EXCEPT ![id] = "asked"]
            /\ pipe' = [pipe EXCEPT ![id] = "calling"]
       ELSE pipe' = [pipe EXCEPT ![id] = "execution_failed"] /\ UNCHANGED call
    /\ UNCHANGED <<loop, ghost, route, reported, rows>>

PipelineQueue(id, r, sev, conf) ==
    /\ Register(id, r)
    /\ ~AutoDecision(r.target, sev, conf)
    /\ Enqueue(id)
    /\ pipe' = [pipe EXCEPT ![id] = "pending_approval"]
    /\ UNCHANGED <<loop, ghost, call, route, reported, rows>>

(* The chat submits no confidence, and its callback runs inside.           *)
ChatAuto(id, r, sev) ==
    /\ Register(id, r)
    /\ AutoDecision(r.target, sev, 0)
    /\ RecordAutoExecuted(id)
    /\ \E c \in ChatOutcomes(r.kind) : call' = [call EXCEPT ![id] = c]
    /\ UNCHANGED <<loop, ghost, route, pipe, reported, rows>>

ChatQueue(id, r, sev) ==
    /\ Register(id, r)
    /\ ~AutoDecision(r.target, sev, 0)
    /\ Enqueue(id)
    /\ UNCHANGED <<loop, ghost, tasks, rows>>

(* With the queue full, request_action calls _cleanup_expired while it     *)
(* holds _state_lock, a lock that is not reentrant: the event loop stops.  *)
RequestWhenFull(target, sev, conf) ==
    /\ Serving
    /\ ~AutoDecision(target, sev, conf)
    /\ Cardinality(pending) >= MaxPending
    /\ metrics' = [metrics EXCEPT !["total"] = @ + 1]
    /\ frozen' = TRUE
    /\ UNCHANGED <<mode, force, pending, age, history, status, via, req, tasks, rows, ghost>>

(***************************************************************************)
(* approve_action, reject_action, _cleanup_expired.                        *)
(***************************************************************************)
Expired(id) == age[id] > Expiry

(* pending_approval is decremented but never below zero.                   *)
Less(n, k) == IF n > k THEN n - k ELSE 0

(* Fault: the decision forgets the pending_approval counter.               *)
SettleUncounted(S, verdict, metric) ==
    /\ pending' = pending \ S
    /\ history' = history \cup S
    /\ status' = [i \in Ids |-> IF i \in S THEN verdict ELSE status[i]]
    /\ metrics' = [metrics EXCEPT ![metric] = @ + Cardinality(S)]
    /\ UNCHANGED age

Settle(S, verdict, metric) ==
    /\ pending' = pending \ S
    /\ history' = history \cup S
    /\ status' = [i \in Ids |-> IF i \in S THEN verdict ELSE status[i]]
    /\ metrics' = [metrics EXCEPT !["pending"] = Less(@, Cardinality(S)),
                                  ![metric] = @ + Cardinality(S)]
    /\ UNCHANGED age

(* Fault: the callback runs before the expiry check.                       *)
ApproveExpiredLate(id) ==
    /\ Serving
    /\ id \in pending
    /\ Expired(id)
    /\ Settle({id}, "expired", "expired")
    /\ call' = [call EXCEPT ![id] = "running"]
    /\ UNCHANGED <<loop, ghost, route, pipe, reported, via, req, rows>>

(* Both approve paths look the action up and find it too old.              *)
ApproveExpired(id) ==
    /\ Serving
    /\ id \in pending
    /\ Expired(id)
    /\ Settle({id}, "expired", "expired")
    /\ UNCHANGED <<loop, ghost, tasks, via, req, rows>>

(* The route approves without a callback, then awaits the cluster; what    *)
(* needs no call is answered and persisted at once.                        *)
RouteApprove(id) ==
    /\ Serving
    /\ id \in pending
    /\ ~Expired(id)
    /\ Settle({id}, "approved", "approved")
    /\ via' = [via EXCEPT ![id] = "route"]
    /\ IF RouteBackend(req[id])
       THEN /\ call' = [call EXCEPT ![id] = "asked"]
            /\ route' = [route EXCEPT ![id] = "calling"]
            /\ UNCHANGED rows
       ELSE /\ rows' = [rows EXCEPT ![id] = Append(@, "approved_execution_failed")]
            /\ UNCHANGED <<call, route>>
    /\ UNCHANGED <<loop, ghost, pipe, reported, req>>

ChatApprove(id) ==
    /\ Serving
    /\ id \in pending
    /\ ~Expired(id)
    /\ Settle({id}, "approved", "approved")
    /\ via' = [via EXCEPT ![id] = "chat"]
    /\ \E c \in ChatOutcomes(req[id].kind) : call' = [call EXCEPT ![id] = c]
    /\ UNCHANGED <<loop, ghost, route, pipe, reported, req, rows>>

(* Fault: the rejection works on a lookup made before the approval.        *)
RejectStale(id, who) ==
    /\ Serving
    /\ status[id] \in {"pending", "approved"}
    /\ Settle({id}, "rejected", "rejected")
    /\ via' = [via EXCEPT ![id] = who]
    /\ rows' = IF who = "route" THEN [rows EXCEPT ![id] = Append(@, "rejected")] ELSE rows
    /\ UNCHANGED <<loop, ghost, tasks, req>>

(* Fault: the route answers without writing the row.                       *)
RejectUnpersisted(id, who) ==
    /\ Serving
    /\ id \in pending
    /\ Settle({id}, "rejected", "rejected")
    /\ via' = [via EXCEPT ![id] = who]
    /\ UNCHANGED <<loop, ghost, tasks, req, rows>>

(* Rejecting looks at no expiry; only the governance route persists it.    *)
Reject(id, who) ==
    /\ Serving
    /\ id \in pending
    /\ Settle({id}, "rejected", "rejected")
    /\ via' = [via EXCEPT ![id] = who]
    /\ rows' = IF who = "route" THEN [rows EXCEPT ![id] = Append(@, "rejected")] ELSE rows
    /\ UNCHANGED <<loop, ghost, tasks, req>>

(* Fault: a full queue is not swept.                                       *)
CleanupUnlessFull ==
    /\ Serving
    /\ Cardinality(pending) < MaxPending
    /\ \E S \in {{i \in pending : Expired(i)}} : S # {} /\ Settle(S, "expired", "expired")
    /\ UNCHANGED <<loop, ghost, tasks, via, req, rows>>

(* GET pending and GET status sweep the queue first.                       *)
CleanupExpired ==
    /\ Serving
    /\ \E S \in {{i \in pending : Expired(i)}} : S # {} /\ Settle(S, "expired", "expired")
    /\ UNCHANGED <<loop, ghost, tasks, via, req, rows>>

SetMode(m) ==
    /\ Serving
    /\ mode' = m
    /\ UNCHANGED <<force, frozen, queue, req, tasks, rows, ghost>>

SetForce(enabled) ==
    /\ Serving
    /\ force' = enabled
    /\ UNCHANGED <<mode, frozen, queue, req, tasks, rows, ghost>>

(***************************************************************************)
(* The Kubernetes request, in its worker thread, and who waits for it.     *)
(***************************************************************************)
(* The request that changes something is sent. scale_up's is sent by the   *)
(* handler itself, when the read of the deployment has been answered.      *)
CallBegins(id) ==
    /\ call[id] = "asked"
    /\ req[id].kind = "scale_up" => Serving
    /\ call' = [call EXCEPT ![id] = "running"]
    /\ UNCHANGED <<loop, queue, req, route, pipe, reported, rows, ghost>>

(* The request lands or fails; scale_up has failed when its read has.      *)
CallEnds(id, outcome) ==
    /\ \/ call[id] = "running"
       \/ call[id] = "asked" /\ req[id].kind = "scale_up" /\ outcome = "failed"
    /\ call' = [call EXCEPT ![id] = outcome]
    /\ UNCHANGED <<loop, queue, req, route, pipe, reported, rows, ghost>>

(* Fault: the await has no timeout.                                        *)
CallFailedOnly(id) == call[id] = "failed"

(* asyncio.wait_for may give up on a request that has not begun, that is   *)
(* running, or that has landed without its answer having arrived.          *)
CallUnsuccessful(id) == call[id] \in {"failed", "asked", "running", "landed"}

(* What is given up before it begins is cancelled; a thread runs on.       *)
GivenUp(c) == IF c = "asked" THEN "failed" ELSE c
CallGivenUp(id) == call' = [call EXCEPT ![id] = GivenUp(@)]

(* Fault: the route reports success once the request is under way.         *)
RouteSucceedsEarly(id) ==
    /\ Serving
    /\ route[id] = "calling"
    /\ call[id] \in {"running", "landed"}
    /\ route' = [route EXCEPT ![id] = "none"]
    /\ rows' = [rows EXCEPT ![id] = Append(@, "approved_and_executed")]
    /\ UNCHANGED <<loop, queue, req, call, pipe, reported, ghost>>

RouteSucceeds(id) ==
    /\ Serving
    /\ route[id] = "calling"
    /\ call[id] = "landed"
    /\ route' = [route EXCEPT ![id] = "none"]
    /\ rows' = [rows EXCEPT ![id] = Append(@, "approved_and_executed")]
    /\ UNCHANGED <<loop, queue, req, call, pipe, reported, ghost>>

(* Fault: a failed execution puts the action back into the queue.          *)
RouteFailsRequeues(id) ==
    /\ Serving
    /\ route[id] = "calling"
    /\ CallUnsuccessful(id)
    /\ CallGivenUp(id)
    /\ route' = [route EXCEPT ![id] = "none"]
    /\ pending' = pending \cup {id}
    /\ status' = [status EXCEPT ![id] = "pending"]
    /\ UNCHANGED <<loop, age, history, metrics, via, rows, req, pipe, reported, ghost>>

RouteFails(id) ==
    /\ Serving
    /\ route[id] = "calling"
    /\ CallUnsuccessful(id)
    /\ CallGivenUp(id)
    /\ route' = [route EXCEPT ![id] = "none"]
    /\ rows' = [rows EXCEPT ![id] = Append(@, "approved_execution_failed")]
    /\ UNCHANGED <<loop, queue, req, pipe, reported, ghost>>

PipelineSucceeds(id) ==
    /\ Serving
    /\ pipe[id] = "calling"
    /\ call[id] = "landed"
    /\ pipe' = [pipe EXCEPT ![id] = "executed"]
    /\ UNCHANGED <<loop, queue, req, call, route, reported, rows, ghost>>

(* A failed call raises out of the pipeline, and so does a later action of *)
(* the same alert: the record is dropped with the alert's other records.   *)
PipelineRaises(id) ==
    /\ Serving
    /\ \/ pipe[id] = "calling" /\ CallUnsuccessful(id)
       \/ pipe[id] \in PipelineRows
    /\ CallGivenUp(id)
    /\ pipe' = [pipe EXCEPT ![id] = "none"]
    /\ UNCHANGED <<loop, queue, req, route, reported, rows, ghost>>

(* Once every record of the alert has its row, the executed ones are       *)
(* reported to the operator, each with a ThreatResponse that is awaited.   *)
PipelinePersists(id) ==
    /\ Serving
    /\ pipe[id] \in PipelineRows
    /\ rows' = [rows EXCEPT ![id] = Append(@, pipe[id])]
    /\ pipe' = [pipe EXCEPT ![id] = IF @ = "executed" THEN "reporting" ELSE "none"]
    /\ UNCHANGED <<loop, queue, req, call, route, reported, ghost>>

(* The ThreatResponse is sent; what comes of it is ThreatResponse.tla's    *)
(* subject, and the pipeline goes on whether it succeeds or not.           *)
ReportBegins(id) ==
    /\ pipe[id] = "reporting" /\ id \notin reported
    /\ reported' = reported \cup {id}
    /\ UNCHANGED <<loop, queue, req, call, route, pipe, rows, ghost>>

ReportEnds(id) ==
    /\ Serving
    /\ pipe[id] = "reporting"
    /\ pipe' = [pipe EXCEPT ![id] = "none"]
    /\ UNCHANGED <<loop, queue, req, call, route, reported, rows, ghost>>

(***************************************************************************)
(* Time, and the death of the process: by the liveness probe when the loop *)
(* is frozen, or by a crash. The database and the cluster survive.         *)
(***************************************************************************)
Tick ==
    /\ \E i \in pending : ~Expired(i)
    /\ age' = [i \in Ids |-> IF i \in pending /\ ~Expired(i) THEN age[i] + 1 ELSE age[i]]
    /\ UNCHANGED <<loop, pending, history, metrics, status, via, req, tasks, rows, ghost>>

Reboot ==
    /\ mode' = BootMode /\ force' = BootForce /\ frozen' = FALSE
    /\ pending' = {} /\ history' = {} /\ metrics' = ZeroMetrics
    /\ status' = [i \in Ids |-> IF i \in pending THEN "lost" ELSE status[i]]
    /\ route' = [i \in Ids |-> "none"] /\ pipe' = [i \in Ids |-> "none"]
    /\ call' = [i \in Ids |-> GivenUp(call[i])]
    /\ orphaned' = orphaned \cup {i \in Ids : route[i] = "calling"}
    /\ UNCHANGED <<age, via, req, reported, rows>>

ProbeRestart == frozen /\ Reboot /\ UNCHANGED crashes
Crash == ~frozen /\ crashes < MaxCrashes /\ Reboot /\ crashes' = crashes + 1

Init ==
    /\ mode = BootMode /\ force = BootForce /\ frozen = FALSE
    /\ pending = {} /\ history = {} /\ metrics = ZeroMetrics
    /\ age = [i \in Ids |-> 0]
    /\ status = [i \in Ids |-> "none"]
    /\ req = [i \in Ids |-> NoRequest]
    /\ via = [i \in Ids |-> "none"]
    /\ call = [i \in Ids |-> "idle"]
    /\ route = [i \in Ids |-> "none"]
    /\ pipe = [i \in Ids |-> "none"]
    /\ rows = [i \in Ids |-> << >>]
    /\ reported = {} /\ orphaned = {} /\ crashes = 0

PipelineRequest(id) ==
    \E kind \in Kinds, target \in Targets, sev \in Severities, conf \in Confidences :
        LET r == [kind |-> kind, target |-> target, origin |-> "pipeline"]
        IN  PipelineAuto(id, r, sev, conf) \/ PipelineQueue(id, r, sev, conf)

ChatRequest(id) ==
    \E kind \in Kinds, target \in Targets, sev \in Severities :
        LET r == [kind |-> kind, target |-> target, origin |-> "chat"]
        IN  ChatAuto(id, r, sev) \/ ChatQueue(id, r, sev)

Decide(id) ==
    ApproveExpired(id) \/ RouteApprove(id) \/ ChatApprove(id)
      \/ (\E who \in {"route", "chat"} : Reject(id, who))

Resume(id) ==
    \/ RouteSucceeds(id) \/ RouteFails(id)
    \/ PipelineSucceeds(id) \/ PipelineRaises(id) \/ PipelinePersists(id)
    \/ ReportEnds(id)

Next ==
    \/ \E id \in Ids :
        \/ PipelineRequest(id) \/ ChatRequest(id)
        \/ Decide(id)
        \/ CallBegins(id) \/ ReportBegins(id)
        \/ (\E outcome \in {"landed", "failed"} : CallEnds(id, outcome))
        \/ Resume(id)
    \/ \E target \in Targets, sev \in Severities, conf \in Confidences :
        RequestWhenFull(target, sev, conf)
    \/ CleanupExpired
    \/ (\E m \in Modes : SetMode(m))
    \/ (\E b \in BOOLEAN : SetForce(b))
    \/ Tick \/ ProbeRestart \/ Crash

Spec == Init /\ [][Next]_vars

(* What the deployment guarantees: time passes, wait_for bounds every      *)
(* await, and the kubelet's liveness probe restarts a pod whose loop is    *)
(* blocked. Nobody has to approve, reject, or look at the queue: the sweep *)
(* runs only when a client asks for the queue or the status.               *)
Fairness ==
    /\ WF_vars(Tick) /\ WF_vars(ProbeRestart)
    /\ \A id \in Ids : WF_vars(RouteSucceeds(id) \/ RouteFails(id))

FairSpec == Spec /\ Fairness

(***************************************************************************)
(* The type invariant.                                                     *)
(***************************************************************************)
TypeOK ==
    /\ mode \in Modes /\ force \in BOOLEAN /\ frozen \in BOOLEAN
    /\ pending \subseteq Ids /\ history \subseteq Ids
    /\ orphaned \subseteq Ids /\ reported \subseteq Ids
    /\ age \in [Ids -> Nat]
    /\ metrics \in [Metrics -> Nat]
    /\ status \in [Ids -> Statuses]
    /\ req \in [Ids -> Requests \cup {NoRequest}]
    /\ via \in [Ids -> {"none", "route", "chat"}]
    /\ call \in [Ids -> CallStates]
    /\ route \in [Ids -> {"none", "calling"}]
    /\ pipe \in [Ids -> {"none", "calling", "reporting"} \cup PipelineRows]
    /\ rows \in [Ids -> Seq(PipelineRows \cup DecisionRows)]
    /\ crashes \in Nat

(***************************************************************************)
(* Safety.                                                                 *)
(***************************************************************************)
RowsOf(i) == {rows[i][k] : k \in DOMAIN rows[i]}
DecisionsOf(i) == {k \in DOMAIN rows[i] : rows[i][k] \in DecisionRows}

(* Every request the controller counted is in exactly one place: waiting   *)
(* in the queue, decided and in the history, or the one that froze the     *)
(* loop. The six counters, the queue and the history, which five methods   *)
(* update separately, agree at every await.                                *)
Accounting ==
    /\ metrics["pending"] = Cardinality(pending)
    /\ Cardinality(history) = metrics["auto_executed"] + metrics["approved"]
                                 + metrics["rejected"] + metrics["expired"]
    /\ metrics["total"] = Cardinality(pending) + Cardinality(history)
                             + (IF frozen THEN 1 ELSE 0)

(* No Kubernetes request is ever made for an action that was rejected,     *)
(* that expired, or that nobody decided, however the two approve paths,    *)
(* the two reject paths and the sweep race for it.                         *)
EffectsAuthorised ==
    \A i \in Ids : call[i] # "idle" => status[i] \in {"auto_executed", "approved"}

(* The inductive form of the two: the queue, the history and the verdicts  *)
(* describe the same actions, so nothing queued has a verdict and nothing  *)
(* with a verdict is counted twice.                                        *)
QueueInv ==
    /\ \A i \in Ids : i \in pending <=> status[i] = "pending"
    /\ \A i \in history : status[i] \in {"auto_executed", "approved", "rejected", "expired"}
    /\ Accounting
    /\ EffectsAuthorised

(* The action table tells the truth about the cluster and about the        *)
(* verdict: a row that claims execution means the request landed, an       *)
(* action has at most one decision row, and it matches the verdict. The    *)
(* operator is told of an action only when its executed row is stored.     *)
RowsTruthful ==
    \A i \in Ids :
        /\ RowsOf(i) \cap {"executed", "approved_and_executed"} # {} => call[i] = "landed"
        /\ Cardinality(DecisionsOf(i)) <= 1
        /\ "rejected" \in RowsOf(i) => status[i] = "rejected"
        /\ RowsOf(i) \cap {"approved_and_executed", "approved_execution_failed"} # {}
             => status[i] = "approved"
        /\ i \in reported => "executed" \in RowsOf(i)

(* A decision made through the governance routes reaches the table, or its *)
(* handler is still awaiting the cluster, or died with the process.        *)
RouteDecisionsRecorded ==
    \A i \in Ids : via[i] = "route" =>
        \/ DecisionsOf(i) # {}
        \/ route[i] = "calling" \/ i \in orphaned

(* A verdict is final: no later approval, rejection, sweep or restart      *)
(* changes it, and a request that has ended, or that was given up before   *)
(* it began, is never issued again.                                        *)
After(c) ==
    IF c = "asked" THEN {"running", "failed"}
    ELSE IF c = "running" THEN {"landed", "failed"} ELSE {}

VerdictsFinal ==
    [][\A i \in Ids :
        /\ status[i] \notin {"none", "pending"} => status'[i] = status[i]
        /\ call[i] # "idle" => call'[i] \in {call[i]} \cup After(call[i])]_vars

(* A request that changes the cluster is sent: the action's own, or the    *)
(* ThreatResponse on which the operator acts.                              *)
Sent(i) ==
    \/ call[i] \in {"idle", "asked"} /\ call'[i] \in {"running", "landed"}
    \/ i \in reported' \ reported

(* The switch to manual stops automation up to what is under way: from     *)
(* then on nothing is cleared without an operator, and the only requests   *)
(* still sent without one belong to actions cleared before, whose handler  *)
(* was suspended between the decision and the request.                     *)
ManualStopsDecisions ==
    [][mode = "manual" => \A i \in Ids :
        /\ status'[i] = "auto_executed" => status[i] = "auto_executed"
        /\ Sent(i) => \/ status'[i] = "approved"
                      \/ status[i] = "auto_executed" /\ pipe[i] \in {"calling", "reporting"}]_vars

(* A protected service is acted on only with an operator's approval or by  *)
(* the emergency bypass: neither force execution nor confidence suffices.  *)
AskedFor(i) == call[i] = "idle" /\ call'[i] # "idle"

ProtectedNeedsOperator ==
    [][\A i \in Ids : AskedFor(i) /\ req'[i].target \in Protected
          => status'[i] = "approved" \/ mode = "emergency"]_vars

(* The controller and its callers implement the abstract life cycle.       *)
VerdictOf(s) ==
    IF s = "auto_executed" THEN "automatic" ELSE IF s = "pending" THEN "waiting" ELSE s

Lifecycle == INSTANCE ActionLifecycle WITH
    verdict <- [i \in Ids |-> VerdictOf(status[i])],
    effect <- {i \in Ids : call[i] = "landed"}

ImplementsLifecycle == Lifecycle!Spec

(***************************************************************************)
(* Liveness, under FairSpec.                                               *)
(***************************************************************************)
(* No action waits for an operator for ever, as long as clients keep       *)
(* asking for the queue: with nobody deciding, the sweep they trigger      *)
(* expires it, also across freezes and restarts. With no dashboard open    *)
(* nothing sweeps, and it waits.                                           *)
NothingWaitsWhilePolled ==
    WF_vars(CleanupExpired) => \A i \in Ids : i \in pending ~> i \notin pending

(* An approval whose cluster call hangs is answered all the same.          *)
ApprovalsAnswered == \A i \in Ids : route[i] = "calling" ~> route[i] = "none"

(***************************************************************************)
(* What comments claim and the code does not do.                           *)
(***************************************************************************)
(* "Pending action queue full" is an answer, so a full queue must not      *)
(* stop the controller (governance.py, request_action).                    *)
FullQueueAnswered == ~frozen

(* "counters survive pod restarts" (api/governance.py, governance_status): *)
(* the approved count shown to operators never goes down, even in a        *)
(* restart that finds no approval in flight.                               *)
ReportedApproved ==
    LET persisted == Cardinality({i \in Ids : "approved_and_executed" \in RowsOf(i)})
    IN  IF metrics["approved"] > persisted THEN metrics["approved"] ELSE persisted

CountersSurviveRestarts ==
    [][(\A i \in Ids : route[i] = "none") => ReportedApproved' >= ReportedApproved]_vars
=============================================================================

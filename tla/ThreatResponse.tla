--------------------------- MODULE ThreatResponse ---------------------------
(***************************************************************************)
(* How a pod gets isolated. Two programs act on the same cluster objects:  *)
(* ids-api creates a NetworkPolicy itself (K8sAutomation.isolate_pod) and  *)
(* then, for an action its pipeline executed, a ThreatResponse resource    *)
(* (create_threat_response); the kopf operator reacts to the resource by   *)
(* labelling the pod and creating a NetworkPolicy of the SAME name with    *)
(* ANOTHER selector (handle_threatresponse).                               *)
(*                                                                         *)
(* Every Kubernetes request is a step of its own that may fail, or succeed *)
(* although its caller saw an error, or never be answered. The operator    *)
(* may die between any two requests. kopf runs the handler (again) as long *)
(* as the resource does not carry kopf's mark, an annotation; the status   *)
(* is a subresource, so the report and the mark are two requests.          *)
(***************************************************************************)
EXTENDS Naturals, FiniteSets

CONSTANTS
    Responses,           \* names of ThreatResponse resources
    Pods,                \* pod names of the namespace
    Others,              \* targets that name no pod: services, containers, addresses
    NameLabelled,        \* the pods that carry a pod-name=<own name> label
    Severities,
    Threshold,           \* the severity below which the operator does nothing
    MaxLapses            \* bound: deaths of the operator, and PATCHes it gave up

Missing == "missing"     \* spec.alertId empty or absent
Targets == Pods \cup Others

ASSUME PodsAssumption == Pods \cap (Others \cup {Missing}) = {} /\ NameLabelled \subseteq Pods
ASSUME NumbersAssumption ==
    Severities \subseteq Nat /\ Threshold \in Nat /\ MaxLapses \in Nat

VARIABLES
    alive,               \* the pods that exist
    labelled,            \* pods labelled ids.smartcity.local/isolate=true
    policy,              \* policy[t]: the selector of NetworkPolicy isolate-<t>
    api,                 \* the pipeline run that isolates and then reports
    direct,              \* its create_namespaced_network_policy request
    spec,                \* spec.alertId and spec.severity of the resource
    phase,               \* status.phase, "absent" before the resource exists
    marked,              \* the resources that carry kopf's mark of having been handled
    pc, result,          \* the operator's handler, and the phase it will patch
    lapses

apiVars == <<api, direct>>
opVars  == <<marked, pc, result, lapses>>
cluster == <<alive, labelled, policy>>
vars    == <<alive, labelled, policy, api, direct, spec, phase, marked, pc, result, lapses>>

Selectors == {"none", "pod-name", "isolate"}
Final == {"Pending", "Failed", "Executed"}
Requesting == {"read", "label", "policy"}
Reporting == {"return", "half"}     \* none, or one, of the two PATCHes made
NoSpec == [target |-> Missing, severity |-> 0]
Specs == [target : Targets \cup {Missing}, severity : Severities \cup {0}]

(* The pods a policy selects; the operator's policies share one selector.  *)
Isolated(p) ==
    \/ p \in labelled /\ \E t \in Targets : policy[t] = "isolate"
    \/ p \in NameLabelled /\ policy[p] = "pod-name"

(* Fault: a conflict replaces the policy that is there.                    *)
PolicyReplaced(t, selector) == [policy EXCEPT ![t] = selector]

(* Creating a policy whose name is taken changes nothing (409).            *)
PolicyAfter(t, selector) ==
    IF policy[t] = "none" THEN [policy EXCEPT ![t] = selector] ELSE policy

(***************************************************************************)
(* ids-api.                                                                *)
(***************************************************************************)
(* The pipeline auto-executes isolate_pod on the alert's container or pod. *)
Isolate(r, t, sev) ==
    /\ api[r] = "idle" /\ phase[r] = "absent"
    /\ api' = [api EXCEPT ![r] = "isolating"]
    /\ direct' = [direct EXCEPT ![r] = "running"]
    /\ spec' = [spec EXCEPT ![r] = [target |-> t, severity |-> sev]]
    /\ UNCHANGED <<cluster, phase, opVars>>

DirectLands(r) ==
    /\ direct[r] = "running"
    /\ direct' = [direct EXCEPT ![r] = "landed"]
    /\ policy' = PolicyAfter(spec[r].target, "pod-name")
    /\ UNCHANGED <<alive, labelled, api, spec, phase, opVars>>

DirectFails(r) ==
    /\ direct[r] = "running"
    /\ direct' = [direct EXCEPT ![r] = "failed"]
    /\ UNCHANGED <<cluster, api, spec, phase, opVars>>

(* An error or a timeout of the request raises out of the pipeline: no     *)
(* resource is created, even if the request lands after all.               *)
PipelineRaises(r) ==
    /\ api[r] = "isolating"
    /\ api' = [api EXCEPT ![r] = "raised"]
    /\ UNCHANGED <<cluster, direct, spec, phase, opVars>>

(* Other executed actions (scale_up, block_ip) are reported the same way,  *)
(* with their own target in alertId, and no policy of that name.           *)
ReportOther(r, t, sev) ==
    /\ api[r] = "idle" /\ phase[r] = "absent" /\ t \in Others
    /\ api' = [api EXCEPT ![r] = "reporting"]
    /\ spec' = [spec EXCEPT ![r] = [target |-> t, severity |-> sev]]
    /\ UNCHANGED <<cluster, direct, phase, opVars>>

PipelineReports(r) ==
    /\ api[r] = "isolating" /\ direct[r] = "landed"
    /\ api' = [api EXCEPT ![r] = "reporting"]
    /\ UNCHANGED <<cluster, direct, spec, phase, opVars>>

CreateLands(r) ==
    /\ api[r] = "reporting"
    /\ api' = [api EXCEPT ![r] = "done"]
    /\ phase' = [phase EXCEPT ![r] = "new"]
    /\ UNCHANGED <<cluster, direct, spec, opVars>>

(* A failure to create the resource is logged and swallowed.               *)
CreateFails(r) ==
    /\ api[r] = "reporting"
    /\ api' = [api EXCEPT ![r] = "raised"]
    /\ UNCHANGED <<cluster, direct, spec, phase, opVars>>

(* An approved isolate_pod creates the policy and no resource.             *)
ApprovedIsolation(t) ==
    /\ policy' = PolicyAfter(t, "pod-name")
    /\ UNCHANGED <<alive, labelled, apiVars, spec, phase, opVars>>

(* A resource applied with kubectl, as the operator's README shows.        *)
KubectlApply(r, t, sev) ==
    /\ api[r] = "idle" /\ phase[r] = "absent"
    /\ api' = [api EXCEPT ![r] = "done"]
    /\ spec' = [spec EXCEPT ![r] = [target |-> t, severity |-> sev]]
    /\ phase' = [phase EXCEPT ![r] = "new"]
    /\ UNCHANGED <<cluster, direct, opVars>>

(***************************************************************************)
(* The operator: handle_threatresponse.                                    *)
(***************************************************************************)
Goto(r, at) == pc' = [pc EXCEPT ![r] = at]

Return(r, verdict) ==
    /\ Goto(r, "return")
    /\ result' = [result EXCEPT ![r] = verdict]

(* Fault: the handler ignores the severity.                                *)
HandleAnySeverity(r) ==
    /\ phase[r] # "absent" /\ r \notin marked /\ pc[r] = "idle"
    /\ IF spec[r].target = Missing THEN Return(r, "Failed")
       ELSE Goto(r, "read") /\ UNCHANGED result
    /\ UNCHANGED <<cluster, apiVars, spec, phase, marked, lapses>>

(* Fault: the handler also runs on updates, such as its own report.        *)
HandleUpdates(r) ==
    /\ phase[r] # "absent" /\ pc[r] = "idle"
    /\ IF spec[r].target = Missing THEN Return(r, "Failed")
       ELSE IF spec[r].severity < Threshold THEN Return(r, "Pending")
       ELSE Goto(r, "read") /\ UNCHANGED result
    /\ UNCHANGED <<cluster, apiVars, spec, phase, marked, lapses>>

(* kopf's on.create: called until the resource is marked as handled.       *)
Handle(r) ==
    /\ phase[r] # "absent" /\ r \notin marked /\ pc[r] = "idle"
    /\ IF spec[r].target = Missing THEN Return(r, "Failed")
       ELSE IF spec[r].severity < Threshold THEN Return(r, "Pending")
       ELSE Goto(r, "read") /\ UNCHANGED result
    /\ UNCHANGED <<cluster, apiVars, spec, phase, marked, lapses>>

PodFound(r) ==
    /\ pc[r] = "read" /\ spec[r].target \in alive
    /\ Goto(r, "label")
    /\ UNCHANGED <<cluster, apiVars, spec, phase, marked, result, lapses>>

(* Fault: an error of the read raises, so that kopf retries the handler.   *)
PodNotFoundRaises(r) ==
    /\ pc[r] = "read"
    /\ Goto(r, "idle")
    /\ UNCHANGED <<cluster, apiVars, spec, phase, marked, result, lapses>>

(* The pod does not exist, or the read failed for any other reason.        *)
PodNotFound(r) ==
    /\ pc[r] = "read"
    /\ Return(r, "Failed")
    /\ UNCHANGED <<cluster, apiVars, spec, phase, marked, lapses>>

LabelPod(r) ==
    /\ pc[r] = "label" /\ spec[r].target \in alive
    /\ labelled' = labelled \cup {spec[r].target}
    /\ Goto(r, "policy")
    /\ UNCHANGED <<alive, policy, apiVars, spec, phase, marked, result, lapses>>

(* The patch failed, or was applied and its answer lost.                   *)
LabelFails(r) ==
    /\ pc[r] = "label"
    /\ labelled' \in {labelled, labelled \cup ({spec[r].target} \cap alive)}
    /\ Return(r, "Failed")
    /\ UNCHANGED <<alive, policy, apiVars, spec, phase, marked, lapses>>

(* Fault: the handler ends without saying what came of it.                 *)
CreatePolicyMute(r) ==
    /\ pc[r] = "policy"
    /\ policy' = PolicyAfter(spec[r].target, "isolate")
    /\ Return(r, "none")
    /\ UNCHANGED <<alive, labelled, apiVars, spec, phase, marked, lapses>>

(* A conflict (409) is treated as success, whatever the existing policy.   *)
CreatePolicy(r) ==
    /\ pc[r] = "policy"
    /\ policy' = PolicyAfter(spec[r].target, "isolate")
    /\ Return(r, "Executed")
    /\ UNCHANGED <<alive, labelled, apiVars, spec, phase, marked, lapses>>

(* Fault: every error of the creation is treated like a conflict.          *)
PolicyFailsUnnoticed(r) ==
    /\ pc[r] = "policy"
    /\ policy' \in {policy, PolicyAfter(spec[r].target, "isolate")}
    /\ Return(r, "Executed")
    /\ UNCHANGED <<alive, labelled, apiVars, spec, phase, marked, lapses>>

PolicyFails(r) ==
    /\ pc[r] = "policy"
    /\ policy' \in {policy, PolicyAfter(spec[r].target, "isolate")}
    /\ Return(r, "Failed")
    /\ UNCHANGED <<alive, labelled, apiVars, spec, phase, marked, lapses>>

(* Once the handler has returned, kopf makes two PATCHes, of the resource  *)
(* (its mark) and of the status subresource. Nothing in this repository    *)
(* depends on their order, so either may come first.                       *)
Done(r) == Goto(r, "idle") /\ result' = [result EXCEPT ![r] = "none"]

Patched(r) == IF pc[r] = "return" THEN Goto(r, "half") /\ UNCHANGED result ELSE Done(r)

MarkHandled(r) ==
    /\ pc[r] \in Reporting /\ r \notin marked
    /\ marked' = marked \cup {r}
    /\ Patched(r)
    /\ UNCHANGED <<cluster, apiVars, spec, phase, lapses>>

PatchStatus(r) ==
    /\ pc[r] = "return" \/ (pc[r] = "half" /\ r \in marked)
    /\ phase' = [phase EXCEPT ![r] = result[r]]
    /\ Patched(r)
    /\ UNCHANGED <<cluster, apiVars, spec, marked, lapses>>

(* kopf's retries of a failing PATCH end, and the rest is not reported.    *)
PatchGivenUp(r) ==
    /\ pc[r] \in Reporting
    /\ lapses < MaxLapses
    /\ lapses' = lapses + 1
    /\ Done(r)
    /\ UNCHANGED <<cluster, apiVars, spec, phase, marked>>

OperatorCrash ==
    /\ lapses < MaxLapses
    /\ \E r \in Responses : pc[r] # "idle"
    /\ lapses' = lapses + 1
    /\ pc' = [r \in Responses |-> "idle"]
    /\ result' = [r \in Responses |-> "none"]
    /\ UNCHANGED <<cluster, apiVars, spec, phase, marked>>

(* A pod goes away, and its labels with it; its name does not come back.   *)
PodDies(p) ==
    /\ p \in alive
    /\ alive' = alive \ {p}
    /\ labelled' = labelled \ {p}
    /\ UNCHANGED <<policy, apiVars, spec, phase, opVars>>

Init ==
    /\ alive = Pods /\ labelled = {}
    /\ policy = [t \in Targets |-> "none"]
    /\ api = [r \in Responses |-> "idle"]
    /\ direct = [r \in Responses |-> "none"]
    /\ spec = [r \in Responses |-> NoSpec]
    /\ phase = [r \in Responses |-> "absent"]
    /\ pc = [r \in Responses |-> "idle"]
    /\ result = [r \in Responses |-> "none"]
    /\ marked = {} /\ lapses = 0

Requests(r) ==
    \/ PodFound(r) \/ PodNotFound(r) \/ LabelPod(r) \/ LabelFails(r)
    \/ CreatePolicy(r) \/ PolicyFails(r)

Kopf(r) == Handle(r) \/ MarkHandled(r) \/ PatchStatus(r)

Api(r) ==
    \/ DirectLands(r) \/ DirectFails(r) \/ PipelineRaises(r)
    \/ PipelineReports(r) \/ CreateLands(r) \/ CreateFails(r)

Next ==
    \/ \E r \in Responses : Kopf(r) \/ Requests(r) \/ PatchGivenUp(r) \/ Api(r)
    \/ \E r \in Responses, t \in Targets, sev \in Severities :
        \/ (sev >= Threshold /\ Isolate(r, t, sev))
        \/ (sev >= Threshold /\ ReportOther(r, t, sev))
    \/ \E r \in Responses, t \in Targets \cup {Missing}, sev \in Severities :
        KubectlApply(r, t, sev)
    \/ \E t \in Targets : ApprovedIsolation(t)
    \/ OperatorCrash
    \/ \E p \in Pods : PodDies(p)

Spec == Init /\ [][Next]_vars

(* kopf calls the handler of an unmarked resource, at the latest when it   *)
(* lists them anew, and makes its PATCHes. That a request of the handler is*)
(* ever answered is not assumed: the operator sets no timeout.             *)
FairSpec == Spec /\ \A r \in Responses : WF_vars(Kopf(r))

(***************************************************************************)
(* Properties.                                                             *)
(***************************************************************************)
TypeOK ==
    /\ alive \subseteq Pods /\ labelled \subseteq alive
    /\ policy \in [Targets -> Selectors]
    /\ api \in [Responses -> {"idle", "isolating", "reporting", "done", "raised"}]
    /\ direct \in [Responses -> {"none", "running", "landed", "failed"}]
    /\ spec \in [Responses -> Specs]
    /\ phase \in [Responses -> {"absent", "new"} \cup Final]
    /\ pc \in [Responses -> {"idle"} \cup Requesting \cup Reporting]
    /\ result \in [Responses -> {"none"} \cup Final]
    /\ marked \subseteq Responses /\ lapses \in Nat

(* Executed is not reported for a pod that is reachable, however requests  *)
(* fail and the handler is repeated, as long as ids-api has not taken the  *)
(* policy's name with a policy of its own.                                 *)
ExecutedUnlessNameTaken ==
    \A r \in Responses :
        phase[r] = "Executed" /\ spec[r].target \in alive
          => Isolated(spec[r].target) \/ policy[spec[r].target] = "pod-name"

(* Nobody is cut off by accident: although all the operator's policies     *)
(* share one selector, an isolated pod is one that a response of at least  *)
(* the threshold severity named, or that ids-api isolated by its name.     *)
OnlyTargetsIsolated ==
    \A p \in Pods : Isolated(p) =>
        \/ \E r \in Responses : spec[r].target = p /\ spec[r].severity >= Threshold
                                  /\ phase[r] # "absent"
        \/ policy[p] = "pod-name"

(* Isolation, once in force, holds for as long as the pod exists, across   *)
(* repeated handlers, failed ones and crashes.                             *)
IsolationSticks ==
    [][\A p \in Pods : Isolated(p) => Isolated(p)' \/ p \notin alive']_vars

(* What the status reports is revised only by a handler that began before  *)
(* the resource was marked, and only if an earlier one was cut off between *)
(* its report and its mark; a handled resource is never handled again.     *)
ReportsFinal ==
    [][\A r \in Responses : phase[r] \in Final /\ phase'[r] # phase[r]
          => lapses > 0 /\ (r \in marked => pc[r] = "half")]_vars

(* No resource stays new for ever, although the operator may die on it,    *)
(* unless a request of its handler is never answered, or the mark was made *)
(* and the report that should have come with it was not.                   *)
ResponsesAnswered ==
    \A r \in Responses : []<>(pc[r] \notin Requesting) =>
        []<>(phase[r] # "new" \/ (r \in marked /\ pc[r] = "idle"))

(* "verifies target pod, labels pod, creates isolation NetworkPolicy,      *)
(* writes status" (FORCED_ARCHITECTURE_50Q.md): Executed means isolated.   *)
ExecutedMeansIsolated ==
    \A r \in Responses :
        phase[r] = "Executed" /\ spec[r].target \in alive => Isolated(spec[r].target)
=============================================================================

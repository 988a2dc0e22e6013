------------------------ MODULE ThreatResponseProofs ------------------------
(***************************************************************************)
(* Proofs about ThreatResponse.tla, for any responses, pods, severities,   *)
(* threshold and number of the operator's deaths and failing PATCHes.      *)
(***************************************************************************)
EXTENDS ThreatResponse, TLAPS

(* What links a handler's program counter to the cluster: past the label   *)
(* step its pod, if it still exists, is labelled, and so is the pod of     *)
(* every response reported Executed, whose policy name is also taken.      *)
Severe(r) == spec[r].target \in Targets /\ spec[r].severity >= Threshold
Labelled(r) == spec[r].target \in alive => spec[r].target \in labelled
Applied(r) == Severe(r) /\ Labelled(r) /\ policy[spec[r].target] # "none"

HandlerInv ==
    /\ \A r \in Responses :
        /\ api[r] \in {"idle", "isolating", "reporting"} => phase[r] = "absent"
        /\ pc[r] # "idle" => phase[r] # "absent"
        /\ pc[r] \in Requesting => Severe(r)
        /\ pc[r] = "policy" => Labelled(r)
        /\ pc[r] \in Reporting => result[r] \in Final /\ (result[r] = "Executed" => Applied(r))
        /\ phase[r] = "Executed" => Applied(r)
    /\ \A p \in labelled : \E r \in Responses :
        spec[r].target = p /\ Severe(r) /\ phase[r] # "absent"

(* A marked resource has no handler but one that is about to report, and a *)
(* report without a mark, or before one, is what a lapse left behind.      *)
MarkInv ==
    \A r \in Responses :
        /\ r \in marked => pc[r] \in {"idle", "half"}
        /\ phase[r] \in Final /\ (r \in marked <=> pc[r] = "half") => lapses > 0

USE DEF Targets, Requesting, Reporting

(***************************************************************************)
(* The invariant.                                                          *)
(***************************************************************************)
(* Creating a policy never replaces one, and keeps the table well typed.   *)
LEMMA PolicyKept ==
    ASSUME TypeOK, NEW t, NEW selector \in {"pod-name", "isolate"},
           policy' = PolicyAfter(t, selector)
    PROVE  /\ policy' \in [Targets -> Selectors]
           /\ \A u \in Targets : policy[u] # "none" => policy'[u] = policy[u]
           /\ t \in Targets => policy'[t] # "none"
           /\ \A u \in Targets : policy'[u] = "isolate" /\ policy[u] # "isolate"
                => selector = "isolate"
<1>1. CASE t \in Targets
  BY <1>1 DEF TypeOK, PolicyAfter, Selectors
<1>2. CASE t \notin Targets
  <2>1. policy' = policy \/ policy' = [policy EXCEPT ![t] = selector]
    BY DEF PolicyAfter
  <2>2. [policy EXCEPT ![t] = selector] = policy
    BY <1>2 DEF TypeOK
  <2>. QED
    BY <1>2, <2>1, <2>2 DEF TypeOK, Selectors
<1>. QED
  BY <1>1, <1>2

LEMMA InitInv == Init => TypeOK /\ HandlerInv /\ MarkInv
BY NumbersAssumption
DEF Init, TypeOK, HandlerInv, MarkInv, Selectors, Specs, NoSpec, Final, Severe, Labelled, Applied

LEMMA TypeStep == TypeOK /\ HandlerInv /\ [Next]_vars => TypeOK'
<1> SUFFICES ASSUME TypeOK, HandlerInv, [Next]_vars PROVE TypeOK'
  OBVIOUS
<1> USE DEF TypeOK
<1>1. ASSUME NEW r \in Responses, Kopf(r) \/ PatchGivenUp(r) PROVE TypeOK'
  <2>1. CASE Handle(r)
    BY <2>1 DEF Handle, Return, Goto, Final, cluster, apiVars
  <2>2. CASE MarkHandled(r)
    BY <2>2 DEF MarkHandled, Patched, Done, Goto, cluster, apiVars
  <2>3. CASE PatchStatus(r)
    <3>1. result[r] \in Final
      BY <2>3 DEF PatchStatus, HandlerInv
    <3>. QED
      BY <2>3, <3>1 DEF PatchStatus, Patched, Done, Goto, cluster, apiVars
  <2>4. CASE PatchGivenUp(r)
    BY <2>4 DEF PatchGivenUp, Done, Goto, cluster, apiVars
  <2>. QED
    BY <1>1, <2>1, <2>2, <2>3, <2>4 DEF Kopf
<1>8. ASSUME NEW r \in Responses, Requests(r) PROVE TypeOK'
  <2>2. CASE PodFound(r) \/ PodNotFound(r)
    BY <2>2 DEF PodFound, PodNotFound, Return, Goto, Final, cluster, apiVars
  <2>3. CASE LabelPod(r)
    BY <2>3 DEF LabelPod, Goto, apiVars
  <2>4. CASE LabelFails(r)
    BY <2>4 DEF LabelFails, Return, Goto, Final, apiVars
  <2>5. CASE CreatePolicy(r)
    <3>1. policy' \in [Targets -> Selectors]
      BY <2>5, PolicyKept DEF CreatePolicy
    <3>. QED
      BY <2>5, <3>1 DEF CreatePolicy, Return, Goto, Final, apiVars
  <2>6. CASE PolicyFails(r)
    <3>1. policy' \in [Targets -> Selectors]
      BY <2>6, PolicyKept DEF PolicyFails
    <3>. QED
      BY <2>6, <3>1 DEF PolicyFails, Return, Goto, Final, apiVars
  <2>. QED
    BY <1>8, <2>2, <2>3, <2>4, <2>5, <2>6 DEF Requests
<1>2. ASSUME NEW r \in Responses, Api(r) PROVE TypeOK'
  <2>1. CASE DirectLands(r)
    <3>1. policy' \in [Targets -> Selectors]
      BY <2>1, PolicyKept DEF DirectLands
    <3>. QED
      BY <2>1, <3>1 DEF DirectLands, opVars
  <2>2. CASE DirectFails(r) \/ PipelineRaises(r) \/ PipelineReports(r)
    BY <2>2 DEF DirectFails, PipelineRaises, PipelineReports, cluster, opVars
  <2>3. CASE CreateLands(r) \/ CreateFails(r)
    BY <2>3 DEF CreateLands, CreateFails, cluster, opVars
  <2>. QED
    BY <1>2, <2>1, <2>2, <2>3 DEF Api
<1>3. ASSUME NEW r \in Responses, NEW t \in Targets \cup {Missing}, NEW sev \in Severities,
             Isolate(r, t, sev) \/ ReportOther(r, t, sev) \/ KubectlApply(r, t, sev)
      PROVE  TypeOK'
  <2>1. [target |-> t, severity |-> sev] \in Specs
    BY <1>3 DEF Specs
  <2>. QED
    BY <1>3, <2>1 DEF Isolate, ReportOther, KubectlApply, cluster, opVars
<1>4. ASSUME NEW t \in Targets, ApprovedIsolation(t) PROVE TypeOK'
  <2>1. policy' \in [Targets -> Selectors]
    BY <1>4, PolicyKept DEF ApprovedIsolation
  <2>. QED
    BY <1>4, <2>1 DEF ApprovedIsolation, apiVars, opVars
<1>5. CASE OperatorCrash
  BY <1>5 DEF OperatorCrash, cluster, apiVars
<1>6. ASSUME NEW p \in Pods, PodDies(p) PROVE TypeOK'
  BY <1>6 DEF PodDies, apiVars, opVars
<1>7. CASE UNCHANGED vars
  BY <1>7 DEF vars
<1>. QED
  BY <1>1, <1>2, <1>3, <1>4, <1>5, <1>6, <1>7, <1>8 DEF Next

(***************************************************************************)
(* The invariant is preserved. Most steps leave the cluster alone and move *)
(* one response; what they need is the guard that names its old state.     *)
(***************************************************************************)
(* Policies are only added, so what is Applied stays so under a new one.   *)
LEMMA AppliedKept ==
    ASSUME TypeOK, NEW t, NEW selector \in {"pod-name", "isolate"},
           policy' = PolicyAfter(t, selector),
           alive' = alive, labelled \subseteq labelled', spec' = spec
    PROVE  \A r \in Responses : Applied(r) => Applied(r)'
BY PolicyKept DEF Applied, Severe, Labelled, TypeOK

(* What a resource's specification can be.                                 *)
LEMMA SpecsTyped ==
    ASSUME NEW s \in Specs
    PROVE  s.target \in Targets \cup {Missing} /\ s.severity \in Nat /\ Threshold \in Nat
<1>1. s.target \in Targets \cup {Missing} /\ s.severity \in Severities \cup {0}
  BY DEF Specs
<1>2. Severities \subseteq Nat /\ Threshold \in Nat
  BY NumbersAssumption
<1>3. ASSUME NEW n \in Severities \cup {0} PROVE n \in Nat
  BY <1>2
<1>4. s.severity \in Nat
  BY <1>1, <1>3
<1>. QED
  BY <1>1, <1>2, <1>4

LEMMA HandlerKopf ==
    ASSUME TypeOK, HandlerInv, NEW r \in Responses, Kopf(r) \/ PatchGivenUp(r)
    PROVE  HandlerInv'
<1> USE DEF TypeOK, HandlerInv
<1>1. CASE Handle(r)
  <2>1. /\ spec[r].target \in Targets \cup {Missing}
        /\ spec[r].severity \in Nat /\ Threshold \in Nat
    <3>1. spec[r] \in Specs
      OBVIOUS
    <3>. QED
      BY <3>1, SpecsTyped
  <2>2. \/ pc' = [pc EXCEPT ![r] = "return"] /\ result' = [result EXCEPT ![r] = "Failed"]
        \/ pc' = [pc EXCEPT ![r] = "return"] /\ result' = [result EXCEPT ![r] = "Pending"]
        \/ pc' = [pc EXCEPT ![r] = "read"] /\ result' = result /\ Severe(r)
    BY <1>1, <2>1 DEF Handle, Return, Goto, Severe
  <2>. QED
    BY <1>1, <2>2 DEF Handle, Final, cluster, apiVars, Severe, Labelled, Applied
<1>2. CASE MarkHandled(r)
  BY <1>2 DEF MarkHandled, Patched, Done, Goto, cluster, apiVars, Severe, Labelled, Applied
<1>3. CASE PatchStatus(r)
  BY <1>3 DEF PatchStatus, Patched, Done, Goto, cluster, apiVars, Severe, Labelled, Applied, Final
<1>4. CASE PatchGivenUp(r)
  BY <1>4 DEF PatchGivenUp, Done, Goto, cluster, apiVars, Severe, Labelled, Applied
<1>. QED
  BY <1>1, <1>2, <1>3, <1>4 DEF Kopf

LEMMA HandlerRequests ==
    ASSUME TypeOK, HandlerInv, NEW r \in Responses, Requests(r)
    PROVE  HandlerInv'
<1> USE DEF TypeOK, HandlerInv
<1>2. CASE PodFound(r) \/ PodNotFound(r)
  BY <1>2 DEF PodFound, PodNotFound, Return, Goto, Final, cluster, apiVars,
              Severe, Labelled, Applied
<1>3. CASE LabelPod(r)
  BY <1>3 DEF LabelPod, Goto, apiVars, Severe, Labelled, Applied
<1>4. CASE LabelFails(r)
  BY <1>4 DEF LabelFails, Return, Goto, Final, apiVars, Severe, Labelled, Applied
<1>5. CASE CreatePolicy(r)
  <2>1. \A q \in Responses : Applied(q) => Applied(q)'
    BY <1>5, AppliedKept DEF CreatePolicy
  <2>2. Applied(r)'
    BY <1>5, PolicyKept DEF CreatePolicy, Applied, Severe, Labelled
  <2>. QED
    BY <1>5, <2>1, <2>2 DEF CreatePolicy, Return, Goto, Final, apiVars, Severe, Labelled
<1>6. CASE PolicyFails(r)
  <2>1. \A q \in Responses : Applied(q) => Applied(q)'
    <3>1. CASE policy' = PolicyAfter(spec[r].target, "isolate")
      BY <1>6, <3>1, AppliedKept DEF PolicyFails
    <3>2. CASE policy' = policy
      BY <1>6, <3>2 DEF PolicyFails, apiVars, Applied, Severe, Labelled
    <3>. QED
      BY <1>6, <3>1, <3>2 DEF PolicyFails
  <2>. QED
    BY <1>6, <2>1 DEF PolicyFails, Return, Goto, Final, apiVars, Severe, Labelled
<1>. QED
  BY <1>2, <1>3, <1>4, <1>5, <1>6 DEF Requests

LEMMA HandlerApi ==
    ASSUME TypeOK, HandlerInv, NEW r \in Responses, Api(r)
    PROVE  HandlerInv'
<1> USE DEF TypeOK, HandlerInv
<1>1. CASE DirectLands(r)
  <2>1. \A q \in Responses : Applied(q) => Applied(q)'
    BY <1>1, AppliedKept DEF DirectLands
  <2>. QED
    BY <1>1, <2>1 DEF DirectLands, opVars, Severe, Labelled
<1>2. CASE DirectFails(r) \/ PipelineRaises(r) \/ PipelineReports(r)
  BY <1>2 DEF DirectFails, PipelineRaises, PipelineReports, cluster, opVars,
              Severe, Labelled, Applied
<1>3. CASE CreateLands(r) \/ CreateFails(r)
  BY <1>3 DEF CreateLands, CreateFails, cluster, opVars, Severe, Labelled, Applied
<1>. QED
  BY <1>1, <1>2, <1>3 DEF Api

LEMMA HandlerStep == TypeOK /\ HandlerInv /\ [Next]_vars => HandlerInv'
<1> SUFFICES ASSUME TypeOK, HandlerInv, [Next]_vars PROVE HandlerInv'
  OBVIOUS
<1>1. ASSUME NEW r \in Responses, NEW t \in Targets \cup {Missing}, NEW sev \in Severities,
             Isolate(r, t, sev) \/ ReportOther(r, t, sev) \/ KubectlApply(r, t, sev)
      PROVE  HandlerInv'
  BY <1>1 DEF Isolate, ReportOther, KubectlApply, cluster, opVars, TypeOK, HandlerInv,
              Severe, Labelled, Applied
<1>2. ASSUME NEW t \in Targets, ApprovedIsolation(t) PROVE HandlerInv'
  <2>1. \A q \in Responses : Applied(q) => Applied(q)'
    BY <1>2, AppliedKept DEF ApprovedIsolation
  <2>. QED
    BY <1>2, <2>1 DEF ApprovedIsolation, apiVars, opVars, HandlerInv, Severe, Labelled
<1>3. CASE OperatorCrash
  BY <1>3 DEF OperatorCrash, cluster, apiVars, TypeOK, HandlerInv, Severe, Labelled, Applied
<1>4. ASSUME NEW p \in Pods, PodDies(p) PROVE HandlerInv'
  BY <1>4 DEF PodDies, apiVars, opVars, TypeOK, HandlerInv, Severe, Labelled, Applied
<1>5. CASE UNCHANGED vars
  BY <1>5 DEF vars, HandlerInv, Severe, Labelled, Applied
<1>. QED
  BY <1>1, <1>2, <1>3, <1>4, <1>5, HandlerKopf, HandlerRequests, HandlerApi DEF Next

(* Only kopf moves the mark and the report, and a lapse is counted.        *)
LEMMA MarkStep == TypeOK /\ HandlerInv /\ MarkInv /\ [Next]_vars => MarkInv'
<1> SUFFICES ASSUME TypeOK, HandlerInv, MarkInv, [Next]_vars PROVE MarkInv'
  OBVIOUS
<1> USE DEF TypeOK, MarkInv
<1>1. ASSUME NEW r \in Responses, Kopf(r) PROVE MarkInv'
  BY <1>1 DEF Kopf, Handle, Return, MarkHandled, PatchStatus, Patched, Done, Goto, Final
<1>2. ASSUME NEW r \in Responses, PatchGivenUp(r) PROVE MarkInv'
  BY <1>2 DEF PatchGivenUp, Done, Goto
<1>3. ASSUME NEW r \in Responses, Requests(r) PROVE MarkInv'
  BY <1>3 DEF Requests, PodFound, PodNotFound, LabelPod, LabelFails, CreatePolicy,
              PolicyFails, Return, Goto
<1>4. ASSUME NEW r \in Responses, Api(r) PROVE MarkInv'
  BY <1>4 DEF Api, DirectLands, DirectFails, PipelineRaises, PipelineReports,
              CreateLands, CreateFails, opVars, Final
<1>5. ASSUME NEW r \in Responses, NEW t, NEW sev,
             Isolate(r, t, sev) \/ ReportOther(r, t, sev) \/ KubectlApply(r, t, sev)
      PROVE  MarkInv'
  BY <1>5 DEF Isolate, ReportOther, KubectlApply, opVars, Final
<1>6. CASE OperatorCrash
  BY <1>6 DEF OperatorCrash
<1>7. CASE UNCHANGED vars \/ \E t \in Targets : ApprovedIsolation(t)
  BY <1>7 DEF ApprovedIsolation, opVars, vars
<1>8. CASE \E p \in Pods : PodDies(p)
  BY <1>8 DEF PodDies, opVars
<1>. QED
  BY <1>1, <1>2, <1>3, <1>4, <1>5, <1>6, <1>7, <1>8 DEF Next

LEMMA Inductive == Spec => [](TypeOK /\ HandlerInv /\ MarkInv)
BY InitInv, TypeStep, HandlerStep, MarkStep, PTL DEF Spec

(* Every variable of the cluster, the operator and ids-api keeps its type. *)
THEOREM TypeCorrect == Spec => []TypeOK
BY Inductive, PTL

(***************************************************************************)
(* Safety.                                                                 *)
(***************************************************************************)
(* A response reported Executed has cut its pod off, unless the name of    *)
(* the policy was taken by ids-api's own policy: there is no other way to  *)
(* a false report, however requests fail and handlers are repeated.        *)
THEOREM ExecutedOrNameTaken == Spec => []ExecutedUnlessNameTaken
<1>1. TypeOK /\ HandlerInv => ExecutedUnlessNameTaken
  BY DEF TypeOK, HandlerInv, ExecutedUnlessNameTaken, Applied, Severe, Labelled,
         Isolated, Selectors
<1>. QED
  BY <1>1, Inductive, PTL

(* Did every pod carry its own name in a pod-name label, so that ids-api's  *)
(* policies selected something, Executed would mean isolated, as promised.  *)
THEOREM NamedPodsIsolated ==
    ASSUME NameLabelled = Pods
    PROVE  Spec => []ExecutedMeansIsolated
<1>1. TypeOK /\ HandlerInv => ExecutedMeansIsolated
  BY NameLabelled = Pods DEF TypeOK, HandlerInv, ExecutedMeansIsolated, Applied, Severe,
     Labelled, Isolated, Selectors
<1>. QED
  BY <1>1, Inductive, PTL

(* The operator's policies share one selector, and still no pod is cut off *)
(* that no response of sufficient severity, nor ids-api, named.            *)
THEOREM NobodyElseIsolated == Spec => []OnlyTargetsIsolated
<1>1. TypeOK /\ HandlerInv => OnlyTargetsIsolated
  BY DEF TypeOK, HandlerInv, OnlyTargetsIsolated, Severe, Isolated
<1>. QED
  BY <1>1, Inductive, PTL

(***************************************************************************)
(* What a step may not do.                                                 *)
(***************************************************************************)
(* The steps that touch the cluster only add labels and policies, or take  *)
(* a pod away; the others leave it alone.                                  *)
LEMMA ClusterGrows ==
    ASSUME TypeOK, [Next]_vars
    PROVE  /\ \A t \in Targets : policy[t] # "none" => policy'[t] = policy[t]
           /\ \A p \in labelled : p \in labelled' \/ p \notin alive'
<1>1. ASSUME NEW r \in Responses, Kopf(r) \/ Requests(r) \/ PatchGivenUp(r)
      PROVE  /\ policy' = policy \/ policy' = PolicyAfter(spec[r].target, "isolate")
             /\ labelled \subseteq labelled'
  BY <1>1 DEF Kopf, Requests, Handle, PodFound, PodNotFound, LabelPod, LabelFails,
              CreatePolicy, PolicyFails, MarkHandled, PatchStatus, PatchGivenUp, cluster
<1>2. ASSUME NEW r \in Responses, Api(r)
      PROVE  /\ policy' = policy \/ policy' = PolicyAfter(spec[r].target, "pod-name")
             /\ labelled \subseteq labelled'
  BY <1>2 DEF Api, DirectLands, DirectFails, PipelineRaises, PipelineReports,
              CreateLands, CreateFails, cluster
<1>3. ASSUME NEW r \in Responses, NEW t, NEW sev,
             Isolate(r, t, sev) \/ ReportOther(r, t, sev) \/ KubectlApply(r, t, sev)
      PROVE  policy' = policy /\ labelled' = labelled
  BY <1>3 DEF Isolate, ReportOther, KubectlApply, cluster
<1>4. ASSUME NEW p \in Pods, PodDies(p)
      PROVE  policy' = policy /\ \A q \in labelled : q \in labelled' \/ q \notin alive'
  BY <1>4 DEF PodDies
<1>5. CASE OperatorCrash \/ UNCHANGED vars
  BY <1>5 DEF OperatorCrash, cluster, vars
<1>6. ASSUME NEW t \in Targets, ApprovedIsolation(t)
      PROVE  policy' = PolicyAfter(t, "pod-name") /\ labelled' = labelled
  BY <1>6 DEF ApprovedIsolation
<1>7. ASSUME NEW t, NEW selector \in {"pod-name", "isolate"},
             policy' = policy \/ policy' = PolicyAfter(t, selector)
      PROVE  \A u \in Targets : policy[u] # "none" => policy'[u] = policy[u]
  BY <1>7, PolicyKept
<1>. QED
  BY <1>1, <1>2, <1>3, <1>4, <1>5, <1>6, <1>7 DEF Next

(* A pod that is cut off stays so as long as it exists.                    *)
THEOREM IsolationLasts == Spec => IsolationSticks
<1>1. TypeOK /\ [Next]_vars =>
        [\A p \in Pods : Isolated(p) => Isolated(p)' \/ p \notin alive']_vars
  <2> SUFFICES ASSUME TypeOK, [Next]_vars, NEW p \in Pods, Isolated(p), p \in alive'
               PROVE  Isolated(p)'
    OBVIOUS
  <2>1. CASE p \in labelled /\ \E t \in Targets : policy[t] = "isolate"
    BY <2>1, ClusterGrows DEF Isolated
  <2>2. CASE p \in NameLabelled /\ policy[p] = "pod-name"
    BY <2>2, ClusterGrows DEF Isolated
  <2>. QED
    BY <2>1, <2>2 DEF Isolated
<1>. QED
  BY <1>1, TypeCorrect, PTL DEF Spec, IsolationSticks

(* A reported phase is revised by the second of kopf's PATCHes only, or by *)
(* a handler that ran again because its mark was lost: only after a lapse. *)
THEOREM ReportsStand == Spec => ReportsFinal
<1>1. TypeOK /\ HandlerInv /\ MarkInv /\ [Next]_vars =>
        [\A r \in Responses : phase[r] \in Final /\ phase'[r] # phase[r]
            => lapses > 0 /\ (r \in marked => pc[r] = "half")]_vars
  <2> SUFFICES ASSUME TypeOK, HandlerInv, MarkInv, [Next]_vars, NEW q \in Responses,
                      phase[q] \in Final, phase'[q] # phase[q]
               PROVE  lapses > 0 /\ (q \in marked => pc[q] = "half")
    OBVIOUS
  <2>1. PatchStatus(q)
    <3> USE DEF TypeOK, HandlerInv, Final
    <3>1. ASSUME NEW r \in Responses, Kopf(r) PROVE r = q /\ PatchStatus(r)
      BY <3>1 DEF Kopf, Handle, MarkHandled, PatchStatus
    <3>2. ASSUME NEW r \in Responses, Requests(r) \/ PatchGivenUp(r) PROVE FALSE
      BY <3>2 DEF Requests, PodFound, PodNotFound, LabelPod, LabelFails, CreatePolicy,
                  PolicyFails, PatchGivenUp
    <3>3. ASSUME NEW r \in Responses, Api(r) PROVE FALSE
      BY <3>3 DEF Api, DirectLands, DirectFails, PipelineRaises, PipelineReports,
                  CreateLands, CreateFails
    <3>4. ASSUME NEW r \in Responses, NEW t, NEW sev,
                 Isolate(r, t, sev) \/ ReportOther(r, t, sev) \/ KubectlApply(r, t, sev)
          PROVE  FALSE
      BY <3>4 DEF Isolate, ReportOther, KubectlApply
    <3>. QED
      BY <3>1, <3>2, <3>3, <3>4 DEF Next, ApprovedIsolation, OperatorCrash, PodDies, vars
  <2>. QED
    BY <2>1 DEF PatchStatus, MarkInv
<1>. QED
  BY <1>1, Inductive, PTL DEF Spec, ReportsFinal
=============================================================================

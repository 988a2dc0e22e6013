-------------------------- MODULE MCThreatResponse --------------------------
(* Two responses, two pods and one name that is no pod's; as in the        *)
(* repository's manifests, no pod carries a pod-name label.                *)
EXTENDS ThreatResponse, TLC

MCSymmetry == Permutations(Responses) \cup Permutations(Pods)
=============================================================================

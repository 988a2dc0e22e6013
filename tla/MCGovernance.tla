---------------------------- MODULE MCGovernance ----------------------------
(* Governance for TLC: a plain and a protected target, severities and      *)
(* confidences on both sides of every threshold the decisions read.        *)
EXTENDS Governance, TLC

CONSTANTS traffic, postgres

MCTargets == {traffic, postgres}
MCProtected == {postgres}
MCSeverities == {8, 10}
MCConfidences == {0, 85, 90}
MCSymmetry == Permutations(Ids)
=============================================================================

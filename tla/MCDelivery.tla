---------------------------- MODULE MCDelivery ----------------------------
(* Two alerts of Suricata, two sent to the API, two dashboards.            *)
EXTENDS Delivery, TLC

CONSTANTS s1, s2, m1, m2, d1, d2

MCSymmetry == Permutations({s1, s2}) \cup Permutations({m1, m2}) \cup Permutations({d1, d2})
============================================================================

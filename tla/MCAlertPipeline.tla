------------------------- MODULE MCAlertPipeline -------------------------
(* Two equal alerts, one that differs from them in its executable and its  *)
(* source only, and one of another rule.                                   *)
EXTENDS AlertPipeline, TLC

CONSTANTS a1, a2, a3, other

MCAlerts == {a1, a2, a3, other}
MCRuleOf == [a \in MCAlerts |-> IF a = other THEN "shell" ELSE "scan"]
MCSourceOf == [a \in MCAlerts |-> IF a = a3 THEN "suricata" ELSE "falco"]
MCFingerprintOf == [a \in MCAlerts |-> CASE a = a3 -> "f2" [] a = other -> "f3" [] OTHER -> "f1"]
MCKeyOf == [a \in MCAlerts |-> IF a = other THEN "k2" ELSE "k1"]
MCSeverityTtl == [s \in {"integer", "fraction"} |-> IF s = "integer" THEN 2 ELSE 1]
MCSymmetry == Permutations({a1, a2})
============================================================================

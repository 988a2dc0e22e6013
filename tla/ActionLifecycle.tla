-------------------------- MODULE ActionLifecycle --------------------------
(***************************************************************************)
(* What the governance layer of ids-api promises about one recommended     *)
(* defensive action, whoever asks for it and whoever decides it: it gets   *)
(* one verdict, the verdict is final, and only an action that was cleared  *)
(* (automatically or by an operator) ever reaches the cluster.             *)
(*                                                                         *)
(* Governance.tla, the controller with its HTTP routes, its restarts and   *)
(* the Kubernetes calls that outlive their callers, is checked to          *)
(* implement this module.                                                  *)
(***************************************************************************)

CONSTANT Ids               \* the identities of recommended actions

VARIABLES
    verdict,               \* verdict[i]: where the decision about i stands
    effect                 \* the actions that have taken effect in the cluster

vars == <<verdict, effect>>

Cleared == {"automatic", "approved"}
Refused == {"rejected", "expired", "lost"}
Verdicts == {"none", "waiting"} \cup Cleared \cup Refused

Init ==
    /\ verdict = [i \in Ids |-> "none"]
    /\ effect = {}

(* A recommendation is cleared at once or waits for an operator; one that  *)
(* is cleared at once may have acted before the caller gets its answer.    *)
Submit(i) ==
    /\ verdict[i] = "none"
    /\ \E v \in {"automatic", "waiting"} :
        /\ verdict' = [verdict EXCEPT ![i] = v]
        /\ \/ UNCHANGED effect
           \/ v = "automatic" /\ effect' = effect \cup {i}

(* An operator approves it, and it may act within the same request.        *)
Approve(i) ==
    /\ verdict[i] = "waiting"
    /\ verdict' = [verdict EXCEPT ![i] = "approved"]
    /\ \/ UNCHANGED effect
       \/ effect' = effect \cup {i}

Reject(i) ==
    /\ verdict[i] = "waiting"
    /\ verdict' = [verdict EXCEPT ![i] = "rejected"]
    /\ UNCHANGED effect

(* Several waiting actions may lapse at once: by age, or by a restart.     *)
Lapse(why, S) ==
    /\ S # {}
    /\ \A i \in S : verdict[i] = "waiting"
    /\ verdict' = [i \in Ids |-> IF i \in S THEN why ELSE verdict[i]]
    /\ UNCHANGED effect

TakeEffect(i) ==
    /\ verdict[i] \in Cleared
    /\ effect' = effect \cup {i}
    /\ UNCHANGED verdict

Next ==
    \/ \E i \in Ids : Submit(i) \/ Approve(i) \/ Reject(i) \/ TakeEffect(i)
    \/ \E why \in {"expired", "lost"}, S \in SUBSET Ids : Lapse(why, S)

Spec == Init /\ [][Next]_vars
=============================================================================

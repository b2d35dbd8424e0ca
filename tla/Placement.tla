----------------------------- MODULE Placement ------------------------------
(***************************************************************************)
(* What a placement is to those who rely on it (the key gateway, the       *)
(* kubelet, an auditor): at most one token per pod, which rests on attested *)
(* evidence of the node it names, and a binding to that node.              *)
(*                                                                         *)
(* A token appears and disappears only while its pod is unbound, so what a *)
(* running pod presents to the key gateway stays published.  Scheduler     *)
(* implements this specification: PreBind, retries, lost answers, restarts *)
(* and recreated pods do not show.                                         *)
(***************************************************************************)
CONSTANTS
    Pod,
    AttestedTokens, \* tokens [node, ...] that rest on valid evidence of their node
    None

VARIABLES
    token,  \* Pod -> the token on the pod's placement decision, or None
    bound   \* Pod -> the node the pod runs on, or None (unbound, or no such pod)

Init ==
    /\ token = [p \in Pod |-> None]
    /\ bound = [p \in Pod |-> None]

Publish(p) ==
    /\ token[p] = None /\ bound[p] = None
    /\ token'[p] \in AttestedTokens
    /\ token' = [token EXCEPT ![p] = token'[p]]
    /\ UNCHANGED bound

Withdraw(p) ==
    /\ bound[p] = None
    /\ token' = [token EXCEPT ![p] = None]
    /\ UNCHANGED bound

Bind(p) ==
    /\ token[p] # None /\ bound[p] = None
    /\ bound' = [bound EXCEPT ![p] = token[p].node]
    /\ UNCHANGED token

\* The pod is deleted; its decision is not.
Unbind(p) ==
    /\ bound' = [bound EXCEPT ![p] = None]
    /\ UNCHANGED token

Next == \E p \in Pod : Publish(p) \/ Withdraw(p) \/ Bind(p) \/ Unbind(p)

Spec == Init /\ [][Next]_<<token, bound>>
=============================================================================

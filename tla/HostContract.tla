---------------------------- MODULE HostContract ----------------------------
(***************************************************************************)
(* What edgectl makes of a host, seen from outside: the yurt-hub manifest in *)
(* the static pod directory and the endpoint the running kubelet talks to.   *)
(* A run has two stages, "hub" and "kubelet"; convert goes through them in   *)
(* this order and revert in the other.  This is the contract of a stage that *)
(* is not cut off and whose rollback, if it comes to one, does not fail too,  *)
(* on a host whose kubeadm-flags.env exists; NodeHost has the files and the   *)
(* steps that a stage is made of, and shows that it keeps the contract.       *)
(***************************************************************************)

ConvertTypes == {"CloudNode", "EdgeNode"}
NodeTypes == ConvertTypes \cup {"NormalNode"}

Hosts == [hub: ConvertTypes \cup {"none"}, kubelet: {"apiserver", "hub"}]
NormalHost == [hub |-> "none", kubelet |-> "apiserver"]

\* The host of a node of the given type.
HostOf(type) ==
    IF type = "NormalNode" THEN NormalHost ELSE [hub |-> type, kubelet |-> "hub"]

\* Mutant: revert goes through the stages in the order of convert.
FirstStageHub(op) == "hub"

FirstStage(op) == IF op = "NormalNode" THEN "kubelet" ELSE "hub"

\* Mutant: setupYurtHub takes a manifest that is there for its own.
SucceededIfNew(op, stage, h) ==
    IF stage = "hub" THEN [h EXCEPT !.hub = IF op \in ConvertTypes /\ @ # "none" THEN @ ELSE HostOf(op).hub]
                     ELSE [h EXCEPT !.kubelet = HostOf(op).kubelet]

\* A stage that goes well leaves its half of the host as the type wants it.
Succeeded(op, stage, h) ==
    IF stage = "hub" THEN [h EXCEPT !.hub = HostOf(op).hub]
                     ELSE [h EXCEPT !.kubelet = HostOf(op).kubelet]

\* A stage that fails.  setupYurtHub restores the manifest it replaced, or the
\* backup that an earlier conversion left; setupKubelet rolls the kubelet back
\* to the API server, or leaves it alone when it fails before it has deferred
\* the rollback; revertKubelet rolls it back to what it was; a manifest that
\* cannot be removed stays.
Failed(op, stage, h) ==
    IF op = "NormalNode" THEN {h}
    ELSE IF stage = "kubelet" THEN {h, [h EXCEPT !.kubelet = "apiserver"]}
    ELSE IF h.hub # "none" THEN {h}
    ELSE {[h EXCEPT !.hub = hub] : hub \in ConvertTypes \cup {"none"}}
=============================================================================

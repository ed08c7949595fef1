----------------------------- MODULE HostStages -----------------------------
(***************************************************************************)
(* What the operator relies on of edgectl: runs on one host that go through  *)
(* whole stages, each of them with one of the outcomes of HostContract, and  *)
(* that may be cut off between two stages.  NodeHost implements it.          *)
(***************************************************************************)
EXTENDS HostContract

VARIABLES
    host,   \* the manifest and the endpoint of the kubelet, a member of Hosts
    run     \* the run: the stage it is about to go through, its type, its outcome

vars == <<host, run>>

Idle == [pc |-> "idle", op |-> "NormalNode", ok |-> FALSE]

Init == host = NormalHost /\ run = Idle

Begin(op) ==
    /\ run.pc = "idle"
    /\ run' = [pc |-> FirstStage(op), op |-> op, ok |-> FALSE]
    /\ UNCHANGED host

\* The stage that follows the one the run is in.
Following ==
    IF run.pc # FirstStage(run.op) THEN "report"
    ELSE IF run.pc = "hub" THEN "kubelet" ELSE "hub"

StageSucceeds ==
    /\ run.pc \in {"hub", "kubelet"}
    /\ host' = Succeeded(run.op, run.pc, host)
    /\ run' = [run EXCEPT !.pc = Following, !.ok = (Following = "report")]

StageFails ==
    /\ run.pc \in {"hub", "kubelet"}
    /\ host' \in Failed(run.op, run.pc, host)
    /\ run' = [run EXCEPT !.pc = "report"]

\* The run reports, or is cut off.
End == run.pc # "idle" /\ run' = Idle /\ UNCHANGED host

Next == (\E op \in NodeTypes : Begin(op)) \/ StageSucceeds \/ StageFails \/ End

Spec == Init /\ [][Next]_vars
=============================================================================

------------------------------ MODULE NodeHost ------------------------------
(***************************************************************************)
(* edgectl on one host: the files that "edgectl convert" and "edgectl        *)
(* revert" copy, write and remove, the kubelet they restart, and the order   *)
(* they do it in.  A step is one operation on a file, one restart or one     *)
(* wait.  A stage may fail before it has changed a file; from then on the     *)
(* operations on its files succeed, while the restart of a service and the   *)
(* health checks may not, and a run may be cut off anywhere.                 *)
(***************************************************************************)
EXTENDS Integers, HostContract

CONSTANTS
    Flags,        \* the flags an administrator gives the kubelet
    InitialConfs, \* what kubeadm-flags.env is like at first, of Confs
    MaxRuns,      \* bound: how many runs of edgectl begin
    MaxEdits,     \* bound: how often the administrator changes the flags
    FaultKinds,   \* the faults that happen, of AllFaultKinds
    MaxFaults     \* bound: how many

\* prepare: a stage fails before it has a rollback; service: a restart fails or a
\* health check times out; rollback: the restart of a rollback fails; pause:
\* edgectl is cut off between two stages; cutoff: anywhere; reboot: anywhere,
\* with its host.
AllFaultKinds == {"prepare", "service", "rollback", "pause", "cutoff", "reboot"}

\* The kubeconfig flags in kubeadm-flags.env: no file; none; a --kubeconfig of
\* the administrator's; and the two orders in which setupKubelet leaves its own.
Confs == {"absent", "none", "own", "first", "again"}
Files == [flags: Flags \cup {"default"}, conf: Confs]
NoFile == [flags |-> "default", conf |-> "absent"]

ASSUME HostAssumption ==
    /\ InitialConfs \subseteq {"absent", "none", "own"} /\ InitialConfs # {}
    /\ Flags # {} /\ "default" \notin Flags
    /\ MaxRuns \in Nat /\ MaxEdits \in Nat /\ MaxFaults \in Nat
    /\ FaultKinds \subseteq AllFaultKinds

VARIABLES
    hub,       \* the type yurt-hub.yaml is rendered for, "none" without the file
    hubBackup, \* its backup in the work directory
    env,       \* kubeadm-flags.env
    envBackup, \* its backup in the work directory
    envTmp,    \* the temporary backup of a revert
    kubelet,   \* the kubeadm-flags.env the running kubelet was started with
    run,       \* the run of edgectl: its next step, its type, its outcome
    before,    \* history: the host when the stage began
    reported,  \* history: what the last run reported, "nothing" since a run began
    runs, edits, faults  \* bound counters

files == <<hub, hubBackup, env, envBackup, envTmp>>
history == <<before, reported>>
counters == <<runs, edits, faults>>
vars == <<files, kubelet, run, history, counters>>

Endpoint(file) == IF file.conf \in {"first", "again"} THEN "hub" ELSE "apiserver"

\* The host as the rest of the operator sees it.
Host == [hub |-> hub, kubelet |-> Endpoint(kubelet)]

\* Mutants: a --kubeconfig that is there is left alone; it is kept beside the new one.
RewrittenOnce(file) == [file EXCEPT !.conf = IF @ \in {"absent", "none"} THEN "first" ELSE @]
RewrittenBeside(file) == [file EXCEPT !.conf = IF @ = "own" THEN "both" ELSE "first"]

\* The rewriting of KUBELET_KUBEADM_ARGS: a --kubeconfig is replaced where it
\* stands, or appended after the empty --bootstrap-kubeconfig when there is none.
Rewritten(file) ==
    [file EXCEPT !.conf = IF @ \in {"absent", "none"} THEN "first" ELSE "again"]

HubPcs == {"compareHub", "writeHub", "waitHub", "waitSame", "dropHub", "restoreHub", "removeHub"}
KubeletPcs ==
    {"backupEnv", "writeEnv", "restart", "waitKubelet", "rollBack", "rollRestart",
     "checkBackup", "restoreEnv", "revertRestart", "revertWait", "revertRollBack"}
Pcs == {"idle", "report"} \cup HubPcs \cup KubeletPcs

\* The first step of each stage.
StageStarts == {"compareHub", "backupEnv", "checkBackup", "removeHub"}

Runs == [pc: Pcs, op: NodeTypes, ok: BOOLEAN]
Idle == [pc |-> "idle", op |-> "NormalNode", ok |-> FALSE]
Nothing == [op |-> "NormalNode", ok |-> FALSE]

TypeOK ==
    /\ hub \in ConvertTypes \cup {"none"} /\ hubBackup \in ConvertTypes \cup {"none"}
    /\ env \in Files /\ envBackup \in Files /\ envTmp \in Files /\ kubelet \in Files
    /\ run \in Runs
    /\ before \in Hosts
    /\ reported \in [op: NodeTypes, ok: BOOLEAN]
    /\ runs \in Nat /\ edits \in Nat /\ faults \in Nat

Init ==
    /\ hub = "none" /\ hubBackup = "none"
    /\ env \in {[flags |-> f, conf |-> c] : f \in Flags, c \in InitialConfs \ {"absent"}}
               \cup (IF "absent" \in InitialConfs THEN {NoFile} ELSE {})
    /\ envBackup = NoFile /\ envTmp = NoFile
    /\ kubelet = env
    /\ run = Idle
    /\ before = NormalHost /\ reported = Nothing
    /\ runs = 0 /\ edits = 0 /\ faults = 0

Fault(kind) ==
    /\ kind \in FaultKinds
    /\ faults < MaxFaults
    /\ faults' = faults + 1

-----------------------------------------------------------------------------
(* Steps *)

At(pc) == run.pc = pc

\* The run goes on within its stage, to its next stage, or to its report.
Goto(pc) ==
    /\ run' = [run EXCEPT !.pc = pc]
    /\ before' = IF pc \in StageStarts THEN Host' ELSE before
    /\ UNCHANGED <<reported, runs, edits>>

Report(ok) ==
    /\ run' = [run EXCEPT !.pc = "report", !.ok = ok]
    /\ UNCHANGED <<before, reported, runs, edits>>

Good == UNCHANGED faults
OnlyHub == UNCHANGED <<hubBackup, env, envBackup, envTmp, kubelet>>
OnlyEnv == UNCHANGED <<hub, hubBackup, envBackup, envTmp, kubelet>>

\* A step that changes nothing but the run: it goes on to pc, or a service
\* fails it.
Wait(failed) == Fault("service") /\ Goto(failed) /\ UNCHANGED <<files, kubelet>>
Pass(pc) == Good /\ UNCHANGED <<files, kubelet>> /\ Goto(pc)

\* runConvert and runRevert, after the checks that change nothing.
Begin(op) ==
    /\ At("idle") /\ runs < MaxRuns
    /\ run' = [pc |-> IF op = "NormalNode" THEN "checkBackup" ELSE "compareHub",
               op |-> op, ok |-> FALSE]
    /\ before' = Host
    /\ reported' = Nothing
    /\ runs' = runs + 1
    /\ UNCHANGED <<files, kubelet, edits, faults>>

\* The deferred functions record the condition.
Finish ==
    /\ At("report")
    /\ run' = Idle
    /\ reported' = [op |-> run.op, ok |-> run.ok]
    /\ UNCHANGED <<files, kubelet, before, counters>>

-----------------------------------------------------------------------------
(* setupYurtHub *)

\* A manifest with the same content is kept; another one is backed up first.
CompareHub ==
    /\ At("compareHub")
    /\ \/ hub = run.op /\ Pass("waitSame")
       \/ /\ hub # run.op /\ Good /\ Goto("writeHub")
          /\ hubBackup' = IF hub # "none" THEN hub ELSE hubBackup
          /\ UNCHANGED <<hub, env, envBackup, envTmp, kubelet>>

WriteHub == At("writeHub") /\ Good /\ hub' = run.op /\ OnlyHub /\ Goto("waitHub")

\* waitYurtHubReady; the first of the two fails before the cleanup is deferred.
WaitSame ==
    /\ At("waitSame")
    /\ \/ Pass("backupEnv")
       \/ Fault("service") /\ Report(FALSE) /\ UNCHANGED <<files, kubelet>>
WaitHub == At("waitHub") /\ (Pass("backupEnv") \/ Wait("dropHub"))

\* Mutant: the cleanup ends with the removal.
DropHubOnly ==
    /\ At("dropHub") /\ Good
    /\ hub' = "none" /\ OnlyHub
    /\ Report(FALSE)

\* The deferred cleanup: the new manifest goes, a backup of any age comes back.
DropHub ==
    /\ At("dropHub") /\ Good
    /\ hub' = "none" /\ OnlyHub
    /\ IF hubBackup # "none" THEN Goto("restoreHub") ELSE Report(FALSE)

RestoreHub == At("restoreHub") /\ Good /\ hub' = hubBackup /\ OnlyHub /\ Report(FALSE)

-----------------------------------------------------------------------------
(* setupKubelet *)

\* Mutant: the backup is taken anew by every run.
BackupOf(file, backup) == file

\* The backup is taken once, and never removed.
KeptBackup(file, backup) ==
    IF file.conf # "absent" /\ backup.conf = "absent" THEN file ELSE backup

BackupEnv ==
    /\ At("backupEnv") /\ Good
    /\ envBackup' = KeptBackup(env, envBackup)
    /\ UNCHANGED <<hub, hubBackup, env, envTmp, kubelet>>
    /\ Goto("writeEnv")

WriteEnv ==
    /\ At("writeEnv")
    /\ IF Rewritten(env) = env THEN Pass("waitKubelet")
       ELSE Good /\ env' = Rewritten(env) /\ OnlyEnv /\ Goto("restart")

\* A restart that fails has started the kubelet anew or has not.
RestartTo(good, failed) ==
    \/ Good /\ kubelet' = env /\ Goto(good)
    \/ Fault("service") /\ kubelet' \in {kubelet, env} /\ Goto(failed)

Restart == At("restart") /\ RestartTo("waitKubelet", "rollBack") /\ UNCHANGED files

WaitKubelet ==
    /\ At("waitKubelet")
    /\ \/ Good /\ Report(TRUE) /\ UNCHANGED <<files, kubelet>>
       \/ Wait("rollBack")

\* The deferred rollback: the backup comes back, or the file goes.
RollBack == At("rollBack") /\ Good /\ env' = envBackup /\ OnlyEnv /\ Goto("rollRestart")

\* Of convert and of revert; the health check that follows is only logged.
RollRestart ==
    /\ At("rollRestart")
    /\ \/ Good /\ kubelet' = env
       \/ Fault("rollback") /\ UNCHANGED kubelet
    /\ Report(FALSE) /\ UNCHANGED files

-----------------------------------------------------------------------------
(* revertKubelet and removeYurtHub *)

\* Without a backup the kubelet is left as it is and the revert goes on.
CheckBackup ==
    /\ At("checkBackup")
    /\ IF envBackup.conf = "absent" THEN Pass("removeHub")
       ELSE /\ Good /\ envTmp' = env /\ Goto("restoreEnv")
            /\ UNCHANGED <<hub, hubBackup, env, envBackup, kubelet>>

RestoreEnv ==
    /\ At("restoreEnv")
    /\ IF env = envBackup THEN Pass("removeHub")
       ELSE Good /\ env' = envBackup /\ OnlyEnv /\ Goto("revertRestart")

RevertRestart == At("revertRestart") /\ RestartTo("revertWait", "revertRollBack") /\ UNCHANGED files
RevertWait == At("revertWait") /\ (Pass("removeHub") \/ Wait("revertRollBack"))
RevertRollBack == At("revertRollBack") /\ Good /\ env' = envTmp /\ OnlyEnv /\ Goto("rollRestart")

RemoveHub == At("removeHub") /\ Good /\ hub' = "none" /\ OnlyHub /\ Report(TRUE)

-----------------------------------------------------------------------------
(* What happens to a run, and around it *)

\* A stage fails at its start: a template without the key, a file that cannot be
\* rendered, copied or removed.  Nothing is rolled back.
GiveUp ==
    /\ run.pc \in StageStarts
    /\ Fault("prepare") /\ Report(FALSE) /\ UNCHANGED <<files, kubelet>>

CutOff ==
    /\ ~At("idle")
    /\ \/ Fault("cutoff") /\ UNCHANGED kubelet
       \/ run.pc \in StageStarts \cup {"report"} /\ Fault("pause") /\ UNCHANGED kubelet
       \/ Fault("reboot") /\ kubelet' = env
    /\ run' = Idle
    /\ UNCHANGED <<files, history, runs, edits>>

\* The administrator changes the kubelet's flags, as an upgrade does, and
\* restarts it.
Edit(f) ==
    /\ At("idle") /\ edits < MaxEdits
    /\ env.conf # "absent" /\ f # env.flags
    /\ env' = [env EXCEPT !.flags = f]
    /\ kubelet' = env'
    /\ edits' = edits + 1
    /\ UNCHANGED <<hub, hubBackup, envBackup, envTmp, run, history, runs, faults>>

Convert ==
    \/ CompareHub \/ WriteHub \/ WaitSame \/ WaitHub \/ DropHub \/ RestoreHub
    \/ BackupEnv \/ WriteEnv \/ Restart \/ WaitKubelet \/ RollBack \/ RollRestart

Revert == CheckBackup \/ RestoreEnv \/ RevertRestart \/ RevertWait \/ RevertRollBack \/ RemoveHub

Next ==
    \/ \E op \in NodeTypes : Begin(op)
    \/ Convert \/ Revert \/ GiveUp \/ Finish
    \/ CutOff
    \/ \E f \in Flags : Edit(f)

Spec == Init /\ [][Next]_vars

-----------------------------------------------------------------------------
(* Refinement *)

AbstractPc ==
    IF run.pc \in HubPcs THEN "hub" ELSE IF run.pc \in KubeletPcs THEN "kubelet" ELSE run.pc

\* Inside a stage the abstract host is the one the stage began with.
Stages == INSTANCE HostStages WITH
    host <- IF run.pc \in {"idle", "report"} THEN Host ELSE before,
    run <- [run EXCEPT !.pc = AbstractPc]

\* The steps of every stage add up to one of the outcomes that HostContract
\* gives it, whichever step or service fails on the way: with the manifest and the
\* kubelet restored, backups of earlier runs included, before the run reports.
ImplementsStages == Stages!Spec

-----------------------------------------------------------------------------
(* Safety, under any cut *)

\* No step ever takes a kubeadm-flags.env that points at yurt-hub for the
\* original one: the backup comes before the rewriting, in every run, also after
\* one that was cut off in between, so there is something to revert to.
BackupIsOriginal ==
    /\ Endpoint(envBackup) = "apiserver"
    /\ Endpoint(env) = "hub" => envBackup.conf # "absent"

\* When a run has reported success, the files say what it reported, even if
\* runs before it were cut off anywhere: a kubelet that is started again is
\* right.  (The running kubelet may not be, see NodeHostClaims.)
ReportedFilesAreRight ==
    reported.ok => hub = HostOf(reported.op).hub /\ Endpoint(env) = HostOf(reported.op).kubelet
=============================================================================

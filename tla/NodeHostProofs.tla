--------------------------- MODULE NodeHostProofs ---------------------------
(* Theorems about NodeHost and their proofs. *)
EXTENDS NodeHost, TLAPS

-----------------------------------------------------------------------------
(* Types *)

\* The rewriting of kubeadm-flags.env and the choice of a backup give files.
LEMMA FileTypes ==
    ASSUME NEW f \in Files, NEW g \in Files
    PROVE  Rewritten(f) \in Files /\ KeptBackup(f, g) \in Files
BY DEF Rewritten, KeptBackup, Files, Confs

\* The host is well typed whenever the variables are.
LEMMA HostTyped ==
    ASSUME TypeOK
    PROVE  Host \in Hosts
BY DEF TypeOK, Host, Hosts, Endpoint

\* The same of the next state, of which only the parts that Host is made of
\* need to be known.
LEMMA HostTypedNext ==
    ASSUME hub' \in ConvertTypes \cup {"none"}
    PROVE  Host' \in Hosts
BY DEF Host, Hosts, Endpoint

\* A fault counts one more fault, and no fault none.
LEMMA FaultType ==
    ASSUME TypeOK, Good \/ \E kind \in AllFaultKinds : Fault(kind)
    PROVE  faults' \in Nat
BY DEF TypeOK, Good, Fault

\* What a step makes of the run and its history.
LEMMA RunTypes ==
    ASSUME TypeOK, hub' \in ConvertTypes \cup {"none"},
           (\E pc \in Pcs : Goto(pc)) \/ (\E ok \in BOOLEAN : Report(ok))
    PROVE  /\ run' \in Runs /\ before' \in Hosts
           /\ UNCHANGED <<reported, runs, edits>>
<1>1. CASE \E pc \in Pcs : Goto(pc)
  BY <1>1, HostTypedNext DEF Goto, TypeOK, Runs
<1>2. CASE \E ok \in BOOLEAN : Report(ok)
  BY <1>2 DEF Report, TypeOK, Runs, Pcs
<1> QED BY <1>1, <1>2

-----------------------------------------------------------------------------
(* Runs and their types *)

ConvertPcs ==
    {"compareHub", "writeHub", "waitSame", "waitHub", "dropHub", "restoreHub",
     "backupEnv", "writeEnv", "restart", "waitKubelet", "rollBack"}
RevertPcs ==
    {"checkBackup", "restoreEnv", "revertRestart", "revertWait", "revertRollBack", "removeHub"}

\* A run takes the steps of its type.  The types are not inductive without it:
\* WriteHub writes the manifest of the type of the run.
OpInv ==
    /\ run.pc \in ConvertPcs => run.op \in ConvertTypes
    /\ run.pc \in RevertPcs => run.op = "NormalNode"

\* A step that stays within a run keeps the types when what it does to files
\* and kubelet does.
LEMMA TypeWithin ==
    ASSUME TypeOK,
           (\E pc \in Pcs : Goto(pc)) \/ (\E ok \in BOOLEAN : Report(ok)),
           Good \/ \E kind \in AllFaultKinds : Fault(kind),
           hub' \in ConvertTypes \cup {"none"}, hubBackup' \in ConvertTypes \cup {"none"},
           env' \in Files, envBackup' \in Files, envTmp' \in Files, kubelet' \in Files
    PROVE  TypeOK'
<1>1. run' \in Runs /\ before' \in Hosts /\ UNCHANGED <<reported, runs, edits>>
  BY RunTypes
<1>2. faults' \in Nat
  BY FaultType
<1> QED BY <1>1, <1>2 DEF TypeOK

\* The steps of a conversion keep the types.
LEMMA TypeConvert ==
    ASSUME TypeOK, OpInv, Convert
    PROVE  TypeOK'
<1> USE DEF Good, Fault, files, TypeOK, Pcs, HubPcs, KubeletPcs, AllFaultKinds
<1>1. CASE CompareHub
  BY <1>1, FileTypes, TypeWithin DEF CompareHub, Pass
<1>2. CASE WriteHub
  BY <1>2, FileTypes, TypeWithin DEF WriteHub, OnlyHub, At, OpInv, ConvertPcs
<1>3. CASE WaitSame
  BY <1>3, FileTypes, TypeWithin DEF WaitSame, Pass
<1>4. CASE WaitHub
  BY <1>4, FileTypes, TypeWithin DEF WaitHub, Pass, Wait
<1>5. CASE DropHub
  BY <1>5, FileTypes, TypeWithin DEF DropHub, OnlyHub
<1>6. CASE RestoreHub
  BY <1>6, FileTypes, TypeWithin DEF RestoreHub, OnlyHub
<1>7. CASE BackupEnv
  BY <1>7, FileTypes, TypeWithin DEF BackupEnv
<1>8. CASE WriteEnv
  BY <1>8, FileTypes, TypeWithin DEF WriteEnv, Pass, OnlyEnv
<1>9. CASE Restart
  BY <1>9, FileTypes, TypeWithin DEF Restart, RestartTo
<1>10. CASE WaitKubelet
  BY <1>10, FileTypes, TypeWithin DEF WaitKubelet, Wait
<1>11. CASE RollBack
  BY <1>11, FileTypes, TypeWithin DEF RollBack, OnlyEnv
<1>12. CASE RollRestart
  BY <1>12, FileTypes, TypeWithin DEF RollRestart
<1> QED BY <1>1, <1>2, <1>3, <1>4, <1>5, <1>6, <1>7, <1>8, <1>9, <1>10, <1>11, <1>12 DEF
   Convert

\* The steps of a revert keep the types.
LEMMA TypeRevert ==
    ASSUME TypeOK, Revert
    PROVE  TypeOK'
<1> USE DEF Good, Fault, files, TypeOK, Pcs, HubPcs, KubeletPcs, AllFaultKinds
<1>1. CASE CheckBackup
  BY <1>1, FileTypes, TypeWithin DEF CheckBackup, Pass
<1>2. CASE RestoreEnv
  BY <1>2, FileTypes, TypeWithin DEF RestoreEnv, Pass, OnlyEnv
<1>3. CASE RevertRestart
  BY <1>3, FileTypes, TypeWithin DEF RevertRestart, RestartTo
<1>4. CASE RevertWait
  BY <1>4, FileTypes, TypeWithin DEF RevertWait, Pass, Wait
<1>5. CASE RevertRollBack
  BY <1>5, FileTypes, TypeWithin DEF RevertRollBack, OnlyEnv
<1>6. CASE RemoveHub
  BY <1>6, FileTypes, TypeWithin DEF RemoveHub, OnlyHub
<1> QED BY <1>1, <1>2, <1>3, <1>4, <1>5, <1>6 DEF Revert

\* Every step keeps the types.
LEMMA TypeStep ==
    ASSUME TypeOK, OpInv, [Next]_vars
    PROVE  TypeOK'
<1> USE DEF files, history, counters, TypeOK
<1>1. CASE Convert
  BY <1>1, TypeConvert
<1>2. CASE Revert
  BY <1>2, TypeRevert
<1>3. CASE \E op \in NodeTypes : Begin(op)
  BY <1>3, HostTyped DEF Begin, Runs, Pcs, HubPcs, KubeletPcs, Nothing, ConvertTypes,
     NodeTypes
<1>4. CASE Finish
  BY <1>4 DEF Finish, Idle, Runs, Pcs, NodeTypes
<1>5. CASE CutOff
  BY <1>5 DEF CutOff, Idle, Runs, Pcs, NodeTypes, Fault
<1>6. CASE \E f \in Flags : Edit(f)
  BY <1>6 DEF Edit, Files
<1>7. CASE UNCHANGED vars
  BY <1>7 DEF vars
<1>8. CASE GiveUp
  BY <1>8, TypeWithin DEF GiveUp, Fault, AllFaultKinds
<1> QED BY <1>1, <1>2, <1>3, <1>4, <1>5, <1>6, <1>7, <1>8 DEF Next

\* A step within a run goes on with a step of the same type.
LEMMA OpWithin ==
    ASSUME TypeOK, OpInv, Convert \/ Revert
    PROVE  OpInv'
<1> USE DEF Good, Goto, Report, At, OpInv, ConvertPcs, RevertPcs, TypeOK, Runs
<1>1. CASE CompareHub
  BY <1>1 DEF CompareHub, Pass
<1>2. CASE WriteHub
  BY <1>2 DEF WriteHub, OnlyHub
<1>3. CASE WaitSame
  BY <1>3 DEF WaitSame, Pass
<1>4. CASE WaitHub
  BY <1>4 DEF WaitHub, Pass, Wait
<1>5. CASE DropHub
  BY <1>5 DEF DropHub, OnlyHub
<1>6. CASE RestoreHub
  BY <1>6 DEF RestoreHub, OnlyHub
<1>7. CASE BackupEnv
  BY <1>7 DEF BackupEnv
<1>8. CASE WriteEnv
  BY <1>8 DEF WriteEnv, Pass, OnlyEnv
<1>9. CASE Restart
  BY <1>9 DEF Restart, RestartTo
<1>10. CASE WaitKubelet
  BY <1>10 DEF WaitKubelet, Wait
<1>11. CASE RollBack
  BY <1>11 DEF RollBack, OnlyEnv
<1>12. CASE RollRestart
  BY <1>12 DEF RollRestart
<1>13. CASE CheckBackup
  BY <1>13 DEF CheckBackup, Pass
<1>14. CASE RestoreEnv
  BY <1>14 DEF RestoreEnv, Pass, OnlyEnv
<1>15. CASE RevertRestart
  BY <1>15 DEF RevertRestart, RestartTo
<1>16. CASE RevertWait
  BY <1>16 DEF RevertWait, Pass, Wait
<1>17. CASE RevertRollBack
  BY <1>17 DEF RevertRollBack, OnlyEnv
<1>18. CASE RemoveHub
  BY <1>18 DEF RemoveHub, OnlyHub
<1> QED BY <1>1, <1>2, <1>3, <1>4, <1>5, <1>6, <1>7, <1>8, <1>9, <1>10, <1>11, <1>12,
   <1>13, <1>14, <1>15, <1>16, <1>17, <1>18 DEF Convert, Revert

\* Every step keeps runs to the steps of their types.
LEMMA OpStep ==
    ASSUME TypeOK, OpInv, [Next]_vars
    PROVE  OpInv'
<1> USE DEF files, history, counters, OpInv, ConvertPcs, RevertPcs
<1>1. CASE Convert \/ Revert
  BY <1>1, OpWithin
<1>2. CASE \E op \in NodeTypes : Begin(op)
  BY <1>2 DEF Begin, NodeTypes
<1>3. CASE Finish
  BY <1>3 DEF Finish, Idle
<1>4. CASE CutOff
  BY <1>4 DEF CutOff, Idle
<1>5. CASE \E f \in Flags : Edit(f)
  BY <1>5 DEF Edit
<1>6. CASE UNCHANGED vars
  BY <1>6 DEF vars
<1>7. CASE GiveUp
  BY <1>7 DEF GiveUp, Report, Runs, TypeOK
<1> QED BY <1>1, <1>2, <1>3, <1>4, <1>5, <1>6, <1>7 DEF Next

\* The types hold at first.
LEMMA InitTypes == Init => TypeOK /\ OpInv
BY HostAssumption DEF Init, TypeOK, OpInv, Idle, Nothing, Runs, Pcs, Files, Confs, NoFile,
   NormalHost, Hosts, NodeTypes, ConvertPcs, RevertPcs

\* The types of the files, of the run and of its history are an invariant.
THEOREM TypeCorrect == Spec => []TypeOK
<1>1. Init => TypeOK /\ OpInv
  BY InitTypes
<1>2. TypeOK /\ OpInv /\ [Next]_vars => (TypeOK /\ OpInv)'
  BY TypeStep, OpStep
<1> QED BY <1>1, <1>2, PTL DEF Spec

-----------------------------------------------------------------------------
(* Files *)

\* With a kubeadm-flags.env to begin with, there always is one, and a run that is
\* about to write, restore or roll back has what it restores.
BackupInv ==
    /\ BackupIsOriginal
    /\ env.conf # "absent"
    /\ run.pc \in {"writeEnv", "restart", "waitKubelet", "rollBack", "restoreEnv",
                   "revertRestart", "revertWait", "revertRollBack"} => envBackup.conf # "absent"
    /\ run.pc \in {"restoreEnv", "revertRestart", "revertWait", "revertRollBack"} =>
           envTmp.conf # "absent"

\* A step within a run keeps the backup the original one.
LEMMA BackupWithin ==
    ASSUME TypeOK, BackupInv, Convert \/ Revert
    PROVE  BackupInv'
<1> USE DEF Good, Goto, Report, At, BackupInv, BackupIsOriginal, Endpoint, files,
      TypeOK, Runs, Files, Confs
<1>1. CASE CompareHub
  BY <1>1 DEF CompareHub, Pass
<1>2. CASE WriteHub
  BY <1>2 DEF WriteHub, OnlyHub
<1>3. CASE WaitSame
  BY <1>3 DEF WaitSame, Pass
<1>4. CASE WaitHub
  BY <1>4 DEF WaitHub, Pass, Wait
<1>5. CASE DropHub
  BY <1>5 DEF DropHub, OnlyHub
<1>6. CASE RestoreHub
  BY <1>6 DEF RestoreHub, OnlyHub
<1>7. CASE BackupEnv
  BY <1>7 DEF BackupEnv, KeptBackup
<1>8. CASE WriteEnv
  BY <1>8 DEF WriteEnv, Rewritten, Pass, OnlyEnv
<1>9. CASE Restart
  BY <1>9 DEF Restart, RestartTo
<1>10. CASE WaitKubelet
  BY <1>10 DEF WaitKubelet, Wait
<1>11. CASE RollBack
  BY <1>11 DEF RollBack, OnlyEnv
<1>12. CASE RollRestart
  BY <1>12 DEF RollRestart
<1>13. CASE CheckBackup
  BY <1>13 DEF CheckBackup, Pass
<1>14. CASE RestoreEnv
  BY <1>14 DEF RestoreEnv, Pass, OnlyEnv
<1>15. CASE RevertRestart
  BY <1>15 DEF RevertRestart, RestartTo
<1>16. CASE RevertWait
  BY <1>16 DEF RevertWait, Pass, Wait
<1>17. CASE RevertRollBack
  BY <1>17 DEF RevertRollBack, OnlyEnv
<1>18. CASE RemoveHub
  BY <1>18 DEF RemoveHub, OnlyHub
<1> QED BY <1>1, <1>2, <1>3, <1>4, <1>5, <1>6, <1>7, <1>8, <1>9, <1>10, <1>11, <1>12,
   <1>13, <1>14, <1>15, <1>16, <1>17, <1>18 DEF Convert, Revert

\* Every step does.
LEMMA BackupStep ==
    ASSUME TypeOK, BackupInv, [Next]_vars
    PROVE  BackupInv'
<1> USE DEF files, history, counters, BackupInv, BackupIsOriginal, Endpoint, TypeOK,
      Runs, Files
<1>1. CASE Convert \/ Revert
  BY <1>1, BackupWithin
<1>2. CASE \E op \in NodeTypes : Begin(op)
  BY <1>2 DEF Begin
<1>3. CASE Finish
  BY <1>3 DEF Finish, Idle
<1>4. CASE CutOff
  BY <1>4 DEF CutOff, Idle
<1>5. CASE \E f \in Flags : Edit(f)
  BY <1>5 DEF Edit
<1>6. CASE UNCHANGED vars
  BY <1>6 DEF vars
<1>7. CASE GiveUp
  BY <1>7 DEF GiveUp, Report
<1> QED BY <1>1, <1>2, <1>3, <1>4, <1>5, <1>6, <1>7 DEF Next

\* However runs fail, are cut off and follow one another, the backup that a
\* revert goes back to is a kubeadm-flags.env from before the first conversion,
\* and it is there whenever the file in use points at yurt-hub.  Without a file to
\* begin with there is nothing to back up, and a revert then leaves the kubelet
\* on the yurt-hub that it removes.
THEOREM BackupKept ==
    ASSUME "absent" \notin InitialConfs
    PROVE  Spec => []BackupIsOriginal
<1>1. Init => TypeOK /\ OpInv
  BY InitTypes
<1>2. Init => BackupInv
  BY HostAssumption DEF Init, BackupInv, BackupIsOriginal, Endpoint, NoFile, Idle
<1>3. TypeOK /\ OpInv /\ BackupInv /\ [Next]_vars => (TypeOK /\ OpInv /\ BackupInv)'
  BY TypeStep, OpStep, BackupStep
<1>4. BackupInv => BackupIsOriginal
  BY DEF BackupInv
<1> QED BY <1>1, <1>2, <1>3, <1>4, PTL DEF Spec

-----------------------------------------------------------------------------
(* Reports *)

\* The files as a successful run of type op is to leave them.
FilesOf(op) == hub = HostOf(op).hub /\ Endpoint(env) = HostOf(op).kubelet

\* What the run has seen to, by the step that it is at; and while it runs nothing
\* is reported, so a run that is cut off reports nothing.
ReportInv ==
    /\ ReportedFilesAreRight
    /\ run.pc # "idle" => ~reported.ok
    /\ run.pc = "report" /\ run.ok => FilesOf(run.op)
    /\ run.pc \in {"waitHub", "waitSame", "backupEnv", "writeEnv", "restart", "waitKubelet"} =>
           hub = run.op
    /\ run.pc \in {"restart", "waitKubelet"} => Endpoint(env) = "hub"
    /\ run.pc \in {"revertRestart", "revertWait", "removeHub"} => Endpoint(env) = "apiserver"

\* A step within a run sees to its part of the files and keeps the rest.
LEMMA ReportWithin ==
    ASSUME TypeOK, OpInv, BackupInv, ReportInv, Convert \/ Revert
    PROVE  ReportInv'
<1> USE DEF Good, Goto, Report, At, OpInv, ConvertPcs, RevertPcs, BackupInv,
      BackupIsOriginal, ReportInv, ReportedFilesAreRight, FilesOf, HostOf, ConvertTypes,
      Endpoint, files, TypeOK, Runs, Files, Confs
<1>1. CASE CompareHub
  BY <1>1 DEF CompareHub, Pass
<1>2. CASE WriteHub
  BY <1>2 DEF WriteHub, OnlyHub
<1>3. CASE WaitSame
  BY <1>3 DEF WaitSame, Pass
<1>4. CASE WaitHub
  BY <1>4 DEF WaitHub, Pass, Wait
<1>5. CASE DropHub
  BY <1>5 DEF DropHub, OnlyHub
<1>6. CASE RestoreHub
  BY <1>6 DEF RestoreHub, OnlyHub
<1>7. CASE BackupEnv
  BY <1>7 DEF BackupEnv
<1>8. CASE WriteEnv
  BY <1>8 DEF WriteEnv, Rewritten, Pass, OnlyEnv
<1>9. CASE Restart
  BY <1>9 DEF Restart, RestartTo
<1>10. CASE WaitKubelet
  BY <1>10 DEF WaitKubelet, Wait
<1>11. CASE RollBack
  BY <1>11 DEF RollBack, OnlyEnv
<1>12. CASE RollRestart
  BY <1>12 DEF RollRestart
<1>13. CASE CheckBackup
  BY <1>13 DEF CheckBackup, Pass
<1>14. CASE RestoreEnv
  BY <1>14 DEF RestoreEnv, Pass, OnlyEnv
<1>15. CASE RevertRestart
  BY <1>15 DEF RevertRestart, RestartTo
<1>16. CASE RevertWait
  BY <1>16 DEF RevertWait, Pass, Wait
<1>17. CASE RevertRollBack
  BY <1>17 DEF RevertRollBack, OnlyEnv
<1>18. CASE RemoveHub
  BY <1>18 DEF RemoveHub, OnlyHub, NormalHost
<1> QED BY <1>1, <1>2, <1>3, <1>4, <1>5, <1>6, <1>7, <1>8, <1>9, <1>10, <1>11, <1>12,
   <1>13, <1>14, <1>15, <1>16, <1>17, <1>18 DEF Convert, Revert

\* Every step keeps what is reported right.
LEMMA ReportStep ==
    ASSUME TypeOK, OpInv, BackupInv, ReportInv, [Next]_vars
    PROVE  ReportInv'
<1> USE DEF files, history, counters, ReportInv, ReportedFilesAreRight, FilesOf,
      Endpoint, TypeOK, Runs, Files
<1>1. CASE Convert \/ Revert
  BY <1>1, ReportWithin
<1>2. CASE \E op \in NodeTypes : Begin(op)
  BY <1>2 DEF Begin, Nothing
<1>3. CASE Finish
  BY <1>3 DEF Finish, At, Idle
<1>4. CASE CutOff
  BY <1>4 DEF CutOff, Idle, Nothing
<1>5. CASE \E f \in Flags : Edit(f)
  BY <1>5 DEF Edit, Nothing
<1>6. CASE UNCHANGED vars
  BY <1>6 DEF vars, Nothing
<1>7. CASE GiveUp
  BY <1>7 DEF GiveUp, Report, StageStarts
<1> QED BY <1>1, <1>2, <1>3, <1>4, <1>5, <1>6, <1>7 DEF Next

\* When a run has reported success, yurt-hub.yaml and kubeadm-flags.env are those
\* of the type it reported, whatever was cut off before it.
THEOREM ReportsRight ==
    ASSUME "absent" \notin InitialConfs
    PROVE  Spec => []ReportedFilesAreRight
<1>1. Init => TypeOK /\ OpInv
  BY InitTypes
<1>2. Init => BackupInv /\ ReportInv
  BY HostAssumption DEF Init, BackupInv, BackupIsOriginal, ReportInv, ReportedFilesAreRight,
     Endpoint, NoFile, Idle, Nothing
<1>3. TypeOK /\ OpInv /\ BackupInv /\ ReportInv /\ [Next]_vars =>
          (TypeOK /\ OpInv /\ BackupInv /\ ReportInv)'
  BY TypeStep, OpStep, BackupStep, ReportStep
<1>4. ReportInv => ReportedFilesAreRight
  BY DEF ReportInv
<1> QED BY <1>1, <1>2, <1>3, <1>4, PTL DEF Spec

-----------------------------------------------------------------------------
(* NodeHost implements HostStages: edgectl, file by file, keeps the contract *)
(* that the operator model has of it.                                        *)

\* The steps at which the kubelet may run with another file than the one that
\* is there.
Restarting == {"restart", "rollBack", "rollRestart", "revertRestart", "revertRollBack"}

\* By the step a run is at, what is left of the host the stage began with, and
\* where the rest of it is kept.
StageInv ==
    /\ run.pc \notin {"idle", "report"} => ~run.ok
    /\ run.pc \notin Restarting => Endpoint(kubelet) = Endpoint(env)
    /\ run.pc \in StageStarts => before = Host
    /\ run.pc \in HubPcs => before.kubelet = Endpoint(kubelet)
    /\ run.pc \in HubPcs \ {"waitHub", "dropHub", "restoreHub"} => before.hub = hub
    /\ run.pc \in {"writeHub", "waitHub", "dropHub", "restoreHub"} /\ before.hub # "none" =>
           hubBackup = before.hub
    /\ run.pc \in {"waitHub", "waitSame"} => hub = run.op
    /\ run.pc = "restoreHub" => hubBackup # "none"
    /\ run.pc \in KubeletPcs => before.hub = hub
    /\ run.pc \in {"restart", "waitKubelet"} => Endpoint(env) = "hub"
    /\ run.pc \in {"revertRestart", "revertWait"} => Endpoint(env) = "apiserver"
    /\ run.pc = "restoreEnv" => Endpoint(env) = before.kubelet
    /\ run.pc \in {"restoreEnv", "revertRestart", "revertWait", "revertRollBack"} =>
           Endpoint(envTmp) = before.kubelet
    /\ run.pc = "rollRestart" =>
           Endpoint(env) = IF run.op = "NormalNode" THEN before.kubelet ELSE "apiserver"

-----------------------------------------------------------------------------
(* The invariant *)

\* A step within a run keeps it.
LEMMA StageWithin ==
    ASSUME TypeOK, OpInv, BackupInv, StageInv, "rollback" \notin FaultKinds, Convert \/ Revert
    PROVE  StageInv'
<1> USE DEF Good, Goto, Report, At, OpInv, ConvertPcs, RevertPcs, BackupInv, BackupIsOriginal,
      StageInv, Restarting, StageStarts, HubPcs, KubeletPcs, Endpoint, Host, files, TypeOK,
      Runs, Files, Confs
<1>1. CASE CompareHub
  BY <1>1 DEF CompareHub, Pass
<1>2. CASE WriteHub
  BY <1>2 DEF WriteHub, OnlyHub
<1>3. CASE WaitSame
  <2>1. CASE Pass("backupEnv")
    BY <1>3, <2>1 DEF WaitSame, Pass
  <2>2. CASE Report(FALSE) /\ UNCHANGED <<files, kubelet>>
    BY <1>3, <2>2 DEF WaitSame
  <2> QED BY <1>3, <2>1, <2>2 DEF WaitSame
<1>4. CASE WaitHub
  BY <1>4 DEF WaitHub, Pass, Wait
<1>5. CASE DropHub
  <2>1. CASE Goto("restoreHub") /\ hubBackup # "none"
    BY <1>5, <2>1 DEF DropHub, OnlyHub
  <2>2. CASE Report(FALSE)
    BY <1>5, <2>2 DEF DropHub, OnlyHub
  <2> QED BY <1>5, <2>1, <2>2 DEF DropHub
<1>6. CASE RestoreHub
  BY <1>6 DEF RestoreHub, OnlyHub
<1>7. CASE BackupEnv
  BY <1>7 DEF BackupEnv, KeptBackup
<1>8. CASE WriteEnv
  BY <1>8 DEF WriteEnv, Rewritten, Pass, OnlyEnv
<1>9. CASE Restart
  BY <1>9 DEF Restart, RestartTo
<1>10. CASE WaitKubelet
  <2>1. CASE Report(TRUE) /\ UNCHANGED <<files, kubelet>>
    BY <1>10, <2>1 DEF WaitKubelet
  <2>2. CASE Goto("rollBack") /\ UNCHANGED <<files, kubelet>>
    BY <1>10, <2>2 DEF WaitKubelet
  <2> QED BY <1>10, <2>1, <2>2 DEF WaitKubelet, Wait
<1>11. CASE RollBack
  <2>1. /\ run' = [run EXCEPT !.pc = "rollRestart"] /\ env' = envBackup
        /\ UNCHANGED <<hub, hubBackup, before, kubelet>>
    BY <1>11 DEF RollBack, OnlyEnv
  <2>2. run.op # "NormalNode" /\ before.hub = hub /\ ~run.ok
    BY <1>11 DEF RollBack, ConvertTypes
  <2>3. run'.pc = "rollRestart" /\ run'.op = run.op /\ run'.ok = run.ok
    BY <2>1
  <2> QED BY <2>1, <2>2, <2>3
<1>12. CASE RollRestart
  BY <1>12 DEF RollRestart, Fault
<1>13. CASE CheckBackup
  BY <1>13 DEF CheckBackup, Pass
<1>14. CASE RestoreEnv
  BY <1>14 DEF RestoreEnv, Pass, OnlyEnv
<1>15. CASE RevertRestart
  BY <1>15 DEF RevertRestart, RestartTo
<1>16. CASE RevertWait
  BY <1>16 DEF RevertWait, Pass, Wait
<1>17. CASE RevertRollBack
  BY <1>17 DEF RevertRollBack, OnlyEnv
<1>18. CASE RemoveHub
  BY <1>18 DEF RemoveHub, OnlyHub
<1> QED BY <1>1, <1>2, <1>3, <1>4, <1>5, <1>6, <1>7, <1>8, <1>9, <1>10, <1>11, <1>12, <1>13, <1>14, <1>15, <1>16, <1>17, <1>18 DEF Convert, Revert

\* The steps around a run, a cut between stages included, keep it as well.
LEMMA StageStep ==
    ASSUME TypeOK, OpInv, BackupInv, StageInv, FaultKinds \subseteq {"prepare", "service", "pause"}, [Next]_vars
    PROVE  StageInv'
<1> USE DEF files, history, counters, StageInv, Restarting, StageStarts, HubPcs, KubeletPcs,
      Endpoint, Host, At, TypeOK, Runs, Files
<1>1. CASE Convert \/ Revert
  BY <1>1, StageWithin
<1>2. CASE \E op \in NodeTypes : Begin(op)
  BY <1>2 DEF Begin
<1>3. CASE Finish
  BY <1>3 DEF Finish, Idle
<1>4. CASE CutOff
  BY <1>4 DEF CutOff, Fault, Idle
<1>5. CASE \E f \in Flags : Edit(f)
  BY <1>5 DEF Edit
<1>6. CASE UNCHANGED vars
  BY <1>6 DEF vars
<1>7. CASE GiveUp
  BY <1>7 DEF GiveUp, Report
<1> QED BY <1>1, <1>2, <1>3, <1>4, <1>5, <1>6, <1>7 DEF Next

-----------------------------------------------------------------------------
(* The steps of the contract *)

\* The run and the host as HostStages sees them.
StageRun == [run EXCEPT !.pc = AbstractPc]
StageHost == IF run.pc \in {"idle", "report"} THEN Host ELSE before

StageRuns == [pc: {"idle", "report", "hub", "kubelet"}, op: NodeTypes, ok: BOOLEAN]

\* Its fields, now and after a step.
LEMMA StageRunIs ==
    ASSUME TypeOK
    PROVE  /\ StageRun \in StageRuns
           /\ StageRun.pc = AbstractPc /\ StageRun.op = run.op /\ StageRun.ok = run.ok
<1>1. AbstractPc \in {"idle", "report", "hub", "kubelet"}
  BY DEF AbstractPc, TypeOK, Runs, Pcs
<1> QED BY <1>1 DEF StageRun, StageRuns, TypeOK, Runs

LEMMA StageRunIsNext ==
    ASSUME TypeOK'
    PROVE  /\ StageRun' \in StageRuns
           /\ StageRun'.pc = AbstractPc' /\ StageRun'.op = run'.op /\ StageRun'.ok = run'.ok
<1>1. AbstractPc' \in {"idle", "report", "hub", "kubelet"}
  BY DEF AbstractPc, TypeOK, Runs, Pcs
<1> QED BY <1>1 DEF StageRun, StageRuns, TypeOK, Runs

\* Runs of the same type differ in their step and their outcome.
LEMMA StageRunTo ==
    ASSUME NEW r \in StageRuns, NEW s \in StageRuns, s.op = r.op
    PROVE  /\ s = [r EXCEPT !.pc = s.pc, !.ok = s.ok]
           /\ s.ok = r.ok => s = [r EXCEPT !.pc = s.pc]
           /\ s.ok = r.ok /\ s.pc = r.pc => s = r
<1>1. s = [r EXCEPT !.pc = s.pc, !.ok = s.ok]
  BY DEF StageRuns
<1>2. ASSUME s.ok = r.ok PROVE s = [r EXCEPT !.pc = s.pc]
  BY <1>2 DEF StageRuns
<1>3. ASSUME s.ok = r.ok, s.pc = r.pc PROVE s = r
  BY <1>3 DEF StageRuns
<1> QED BY <1>1, <1>2, <1>3

\* What there is to show of a step that is none of HostStages, of a stage that
\* succeeds and of one that fails.
LEMMA Stutters ==
    ASSUME TypeOK, TypeOK', AbstractPc' = AbstractPc, run'.op = run.op, run'.ok = run.ok,
           StageHost' = StageHost
    PROVE  UNCHANGED Stages!vars
<1>1. /\ StageRun \in StageRuns /\ StageRun' \in StageRuns /\ StageRun'.op = StageRun.op
      /\ StageRun'.ok = StageRun.ok /\ StageRun'.pc = StageRun.pc
  BY StageRunIs, StageRunIsNext
<1>2. StageRun' = StageRun
  BY <1>1, StageRunTo, Zenon
<1> QED BY <1>2 DEF Stages!vars, StageRun, StageHost

LEMMA Succeeds ==
    ASSUME TypeOK, TypeOK', AbstractPc \in {"hub", "kubelet"}, run'.op = run.op,
           StageHost' = Succeeded(run.op, AbstractPc, StageHost),
           AbstractPc' = IF AbstractPc # FirstStage(run.op) THEN "report"
                         ELSE IF AbstractPc = "hub" THEN "kubelet" ELSE "hub",
           run'.ok = (AbstractPc' = "report")
    PROVE  Stages!StageSucceeds
<1>1. /\ StageRun \in StageRuns /\ StageRun' \in StageRuns
      /\ StageRun'.op = StageRun.op /\ StageRun.op = run.op /\ StageRun.pc = AbstractPc
      /\ StageRun'.pc = AbstractPc' /\ StageRun'.ok = (AbstractPc' = "report")
  BY StageRunIs, StageRunIsNext
<1>2. Stages!Following = AbstractPc'
  BY <1>1 DEF StageRun, Stages!Following, Stages!FirstStage, FirstStage
<1>3. StageRun' = [StageRun EXCEPT !.pc = StageRun'.pc, !.ok = StageRun'.ok]
  BY <1>1, StageRunTo, Zenon
<1>4. StageRun' = [StageRun EXCEPT !.pc = Stages!Following, !.ok = (Stages!Following = "report")]
  BY <1>1, <1>2, <1>3, Zenon
<1> QED BY <1>1, <1>4 DEF Stages!StageSucceeds, StageRun, StageHost, Stages!Succeeded, Succeeded,
        Stages!HostOf, HostOf, Stages!NormalHost, NormalHost

LEMMA Fails ==
    ASSUME TypeOK, TypeOK', AbstractPc \in {"hub", "kubelet"}, run'.op = run.op, run'.ok = run.ok,
           AbstractPc' = "report", StageHost' \in Failed(run.op, AbstractPc, StageHost)
    PROVE  Stages!StageFails
<1>1. /\ StageRun \in StageRuns /\ StageRun' \in StageRuns /\ StageRun'.op = StageRun.op
      /\ StageRun.op = run.op /\ StageRun.pc = AbstractPc
      /\ StageRun'.pc = "report" /\ StageRun'.ok = StageRun.ok
  BY StageRunIs, StageRunIsNext
<1>2. StageRun' = [StageRun EXCEPT !.pc = StageRun'.pc]
  BY <1>1, StageRunTo, Zenon
<1>3. StageRun' = [StageRun EXCEPT !.pc = "report"]
  BY <1>1, <1>2, Zenon
<1> QED BY <1>1, <1>3 DEF Stages!StageFails, StageRun, StageHost, Stages!Failed, Failed,
        Stages!ConvertTypes, ConvertTypes

-----------------------------------------------------------------------------
(* What steps of NodeHost come to *)

\* Within a stage nothing happens of which HostStages speaks.
LEMMA Inside ==
    ASSUME TypeOK, TypeOK', NEW pc \in Pcs, Goto(pc), pc \notin StageStarts,
           \/ run.pc \in HubPcs /\ pc \in HubPcs
           \/ run.pc \in KubeletPcs /\ pc \in KubeletPcs
    PROVE  UNCHANGED Stages!vars
<1>1. run'.pc = pc /\ run'.op = run.op /\ run'.ok = run.ok /\ before' = before
  BY DEF Goto, TypeOK, Runs
<1>2. AbstractPc' = AbstractPc /\ StageHost' = StageHost
  BY <1>1 DEF AbstractPc, StageHost, HubPcs, KubeletPcs
<1> QED BY <1>1, <1>2, Stutters

\* A stage succeeds and the run goes on to its next one.
LEMMA NextStage ==
    ASSUME TypeOK, TypeOK', StageInv,
           NEW pc \in {"backupEnv", "removeHub"}, Goto(pc),
           IF pc = "backupEnv" THEN run.pc \in HubPcs /\ run.op \in ConvertTypes
                               ELSE run.pc \in KubeletPcs /\ run.op = "NormalNode",
           Host' = Succeeded(run.op, IF pc = "backupEnv" THEN "hub" ELSE "kubelet", before)
    PROVE  Stages!StageSucceeds
<1>1. run'.pc = pc /\ run'.op = run.op /\ run'.ok = FALSE /\ before' = Host'
  BY DEF Goto, StageInv, StageStarts, HubPcs, KubeletPcs, TypeOK, Runs
<1>2. AbstractPc = IF pc = "backupEnv" THEN "hub" ELSE "kubelet"
  BY DEF AbstractPc, HubPcs, KubeletPcs
<1>3. AbstractPc' = IF pc = "backupEnv" THEN "kubelet" ELSE "hub"
  BY <1>1 DEF AbstractPc, HubPcs, KubeletPcs
<1>4. FirstStage(run.op) = AbstractPc
  BY <1>2 DEF FirstStage, ConvertTypes
<1>5. StageHost = before /\ StageHost' = Host'
  BY <1>1 DEF StageHost, HubPcs, KubeletPcs
<1> QED BY <1>1, <1>2, <1>3, <1>4, <1>5, Succeeds

\* The second stage succeeds and the run reports it.
LEMMA LastStage ==
    ASSUME TypeOK, TypeOK', Report(TRUE),
           IF run.op = "NormalNode" THEN run.pc \in HubPcs ELSE run.pc \in KubeletPcs,
           Host' = Succeeded(run.op, IF run.op = "NormalNode" THEN "hub" ELSE "kubelet", before)
    PROVE  Stages!StageSucceeds
<1>1. run'.pc = "report" /\ run'.op = run.op /\ run'.ok = TRUE
  BY DEF Report, TypeOK, Runs
<1>2. AbstractPc = IF run.op = "NormalNode" THEN "hub" ELSE "kubelet"
  BY DEF AbstractPc, HubPcs, KubeletPcs
<1>3. AbstractPc' = "report"
  BY <1>1 DEF AbstractPc, HubPcs, KubeletPcs
<1>4. FirstStage(run.op) # AbstractPc
  BY <1>2 DEF FirstStage
<1>5. StageHost = before /\ StageHost' = Host'
  BY <1>1 DEF StageHost, HubPcs, KubeletPcs
<1> QED BY <1>1, <1>2, <1>3, <1>4, <1>5, Succeeds

\* A stage fails and the run reports it.
LEMMA StageFailed ==
    ASSUME TypeOK, TypeOK', StageInv, Report(FALSE), NEW stage \in {"hub", "kubelet"},
           IF stage = "hub" THEN run.pc \in HubPcs ELSE run.pc \in KubeletPcs,
           Host' \in Failed(run.op, stage, before)
    PROVE  Stages!StageFails
<1>1. run'.pc = "report" /\ run'.op = run.op /\ run'.ok = run.ok
  BY DEF Report, StageInv, HubPcs, KubeletPcs, TypeOK, Runs
<1>2. AbstractPc = stage
  BY DEF AbstractPc, HubPcs, KubeletPcs
<1>3. AbstractPc' = "report"
  BY <1>1 DEF AbstractPc, HubPcs, KubeletPcs
<1>4. StageHost = before /\ StageHost' = Host'
  BY <1>1 DEF StageHost, HubPcs, KubeletPcs
<1> QED BY <1>1, <1>2, <1>3, <1>4, Fails

-----------------------------------------------------------------------------
(* The refinement *)

\* The steps of a conversion.
LEMMA ConvertKeepsContract ==
    ASSUME TypeOK, TypeOK', OpInv, BackupInv, StageInv, "rollback" \notin FaultKinds, Convert
    PROVE  Stages!Next \/ UNCHANGED Stages!vars
<1>0. before \in Hosts /\ run.op \in NodeTypes
  BY DEF TypeOK, Runs
<1> USE DEF HubPcs, KubeletPcs, Pcs, StageStarts, At
<1>1. CASE CompareHub
  <2>1. \E pc \in {"waitSame", "writeHub"} : Goto(pc)
    BY <1>1 DEF CompareHub, Pass
  <2> QED BY <1>1, <2>1, Inside DEF CompareHub
<1>2. CASE WriteHub
  BY <1>2, Inside DEF WriteHub
<1>3. CASE WaitSame
  <2>1. run.op \in ConvertTypes /\ Host' = Host /\ Host = before /\ before.hub = run.op
    BY <1>0, <1>3 DEF WaitSame, Pass, OpInv, ConvertPcs, StageInv, Restarting, Host, Hosts, files
  <2>2. CASE Goto("backupEnv")
    <3>1. Host' = Succeeded(run.op, "hub", before)
      BY <1>0, <2>1 DEF Succeeded, HostOf, Hosts, ConvertTypes
    <3> QED BY <1>3, <2>1, <2>2, <3>1, NextStage DEF WaitSame, Stages!Next
  <2>3. CASE Report(FALSE)
    <3>1. Host' \in Failed(run.op, "hub", before)
      BY <2>1 DEF Failed, ConvertTypes
    <3> QED BY <1>3, <2>3, <3>1, StageFailed DEF WaitSame, Stages!Next
  <2> QED BY <1>3, <2>2, <2>3 DEF WaitSame, Pass
<1>4. CASE WaitHub
  <2>1. CASE Goto("dropHub")
    BY <1>4, <2>1, Inside DEF WaitHub
  <2>2. CASE Pass("backupEnv")
    <3>1. run.op \in ConvertTypes
      BY <1>4 DEF WaitHub, OpInv, ConvertPcs
    <3>2. Host' = Succeeded(run.op, "hub", before)
      BY <1>0, <1>4, <2>2, <3>1
         DEF WaitHub, Pass, StageInv, Host, Succeeded, HostOf, Hosts, ConvertTypes, files
    <3> QED BY <1>4, <2>2, <3>1, <3>2, NextStage DEF WaitHub, Pass, Stages!Next
  <2> QED BY <1>4, <2>1, <2>2 DEF WaitHub, Wait
<1>5. CASE DropHub
  <2>1. CASE Goto("restoreHub")
    BY <1>5, <2>1, Inside DEF DropHub
  <2>2. CASE Report(FALSE) /\ hubBackup = "none"
    <3>1. run.op \in ConvertTypes
      BY <1>5 DEF DropHub, OpInv, ConvertPcs
    <3>2. Host' \in Failed(run.op, "hub", before)
      BY <1>0, <1>5, <2>2, <3>1
         DEF DropHub, OnlyHub, StageInv, Host, Failed, Hosts, ConvertTypes, Endpoint
    <3> QED BY <1>5, <2>2, <3>2, StageFailed DEF DropHub, Stages!Next
  <2> QED BY <1>5, <2>1, <2>2 DEF DropHub
<1>6. CASE RestoreHub
  <2>1. run.op \in ConvertTypes
    BY <1>6 DEF RestoreHub, OpInv, ConvertPcs
  <2>2. Host' \in Failed(run.op, "hub", before)
    BY <1>0, <1>6, <2>1
       DEF RestoreHub, OnlyHub, StageInv, Host, Failed, Hosts, ConvertTypes, Endpoint, TypeOK
  <2> QED BY <1>6, <2>2, StageFailed DEF RestoreHub, Stages!Next
<1>7. CASE BackupEnv
  BY <1>7, Inside DEF BackupEnv
<1>8. CASE WriteEnv
  <2>1. \E pc \in {"waitKubelet", "restart"} : Goto(pc)
    BY <1>8 DEF WriteEnv, Pass
  <2> QED BY <1>8, <2>1, Inside DEF WriteEnv
<1>9. CASE Restart
  <2>1. \E pc \in {"waitKubelet", "rollBack"} : Goto(pc)
    BY <1>9 DEF Restart, RestartTo
  <2> QED BY <1>9, <2>1, Inside DEF Restart
<1>10. CASE WaitKubelet
  <2>1. CASE Goto("rollBack")
    BY <1>10, <2>1, Inside DEF WaitKubelet
  <2>2. CASE Report(TRUE) /\ UNCHANGED <<files, kubelet>>
    <3>1. run.op \in ConvertTypes
      BY <1>10 DEF WaitKubelet, OpInv, ConvertPcs
    <3>2. Host' = Succeeded(run.op, "kubelet", before)
      BY <1>0, <1>10, <2>2, <3>1
         DEF WaitKubelet, StageInv, Restarting, Host, Succeeded, HostOf, Hosts, ConvertTypes, files
    <3> QED BY <1>10, <2>2, <3>1, <3>2, LastStage DEF WaitKubelet, ConvertTypes, Stages!Next
  <2> QED BY <1>10, <2>1, <2>2 DEF WaitKubelet, Wait
<1>11. CASE RollBack
  BY <1>11, Inside DEF RollBack
<1>12. CASE RollRestart
  <2>1. kubelet' = env /\ hub' = hub /\ before.hub = hub
    BY <1>12 DEF RollRestart, Fault, files, StageInv
  <2>2. Host' = [hub |-> before.hub, kubelet |-> Endpoint(env)]
    BY <2>1 DEF Host, Endpoint
  <2>3. Endpoint(env) = IF run.op = "NormalNode" THEN before.kubelet ELSE "apiserver"
    BY <1>12 DEF RollRestart, StageInv
  <2>4. Host' \in Failed(run.op, "kubelet", before)
    BY <1>0, <2>2, <2>3 DEF Failed, Hosts
  <2> QED BY <1>12, <2>4, StageFailed DEF RollRestart, Stages!Next
<1> QED BY <1>1, <1>2, <1>3, <1>4, <1>5, <1>6, <1>7, <1>8, <1>9, <1>10, <1>11, <1>12 DEF Convert

\* The steps of a revert.
LEMMA RevertKeepsContract ==
    ASSUME TypeOK, TypeOK', OpInv, BackupInv, StageInv, Revert
    PROVE  Stages!Next \/ UNCHANGED Stages!vars
<1>0. before \in Hosts /\ run.op = "NormalNode" /\ run.ok \in BOOLEAN
  BY DEF TypeOK, Runs, OpInv, RevertPcs, Revert, CheckBackup, RestoreEnv, RevertRestart, RevertWait,
     RevertRollBack, RemoveHub, At
<1> USE DEF HubPcs, KubeletPcs, Pcs, StageStarts, At
\* A kubelet that talks to the API server is what the first stage is for.
<1>1. ASSUME Host' = [hub |-> before.hub, kubelet |-> "apiserver"]
      PROVE  Host' = Succeeded(run.op, "kubelet", before)
  BY <1>0, <1>1 DEF Succeeded, HostOf, NormalHost, Hosts
<1>2. CASE CheckBackup
  <2>1. CASE Goto("restoreEnv")
    BY <1>2, <2>1, Inside DEF CheckBackup
  <2>2. CASE Pass("removeHub") /\ envBackup.conf = "absent"
    <3>1. Endpoint(kubelet) = "apiserver" /\ before.hub = hub
      BY <1>2, <2>2 DEF CheckBackup, StageInv, Restarting, BackupInv, BackupIsOriginal, Endpoint,
         TypeOK, Files, Confs
    <3>2. Host' = [hub |-> before.hub, kubelet |-> "apiserver"]
      BY <2>2, <3>1 DEF Pass, Host, files, Endpoint
    <3> QED BY <1>0, <1>1, <1>2, <2>2, <3>2, NextStage DEF CheckBackup, Pass, Stages!Next
  <2> QED BY <1>2, <2>1, <2>2 DEF CheckBackup
<1>3. CASE RestoreEnv
  <2>1. CASE Goto("revertRestart")
    BY <1>3, <2>1, Inside DEF RestoreEnv
  <2>2. CASE Pass("removeHub") /\ env = envBackup
    <3>1. Endpoint(kubelet) = "apiserver" /\ before.hub = hub
      BY <1>3, <2>2 DEF RestoreEnv, StageInv, Restarting, BackupInv, BackupIsOriginal
    <3>2. Host' = [hub |-> before.hub, kubelet |-> "apiserver"]
      BY <2>2, <3>1 DEF Pass, Host, files, Endpoint
    <3> QED BY <1>0, <1>1, <1>3, <2>2, <3>2, NextStage DEF RestoreEnv, Pass, Stages!Next
  <2> QED BY <1>3, <2>1, <2>2 DEF RestoreEnv
<1>4. CASE RevertRestart
  <2>1. \E pc \in {"revertWait", "revertRollBack"} : Goto(pc)
    BY <1>4 DEF RevertRestart, RestartTo
  <2> QED BY <1>4, <2>1, Inside DEF RevertRestart
<1>5. CASE RevertWait
  <2>1. CASE Goto("revertRollBack")
    BY <1>5, <2>1, Inside DEF RevertWait
  <2>2. CASE Pass("removeHub")
    <3>1. Endpoint(kubelet) = "apiserver" /\ before.hub = hub
      BY <1>5 DEF RevertWait, StageInv, Restarting
    <3>2. Host' = [hub |-> before.hub, kubelet |-> "apiserver"]
      BY <2>2, <3>1 DEF Pass, Host, files, Endpoint
    <3> QED BY <1>0, <1>1, <1>5, <2>2, <3>2, NextStage DEF RevertWait, Pass, Stages!Next
  <2> QED BY <1>5, <2>1, <2>2 DEF RevertWait, Wait
<1>6. CASE RevertRollBack
  BY <1>6, Inside DEF RevertRollBack
<1>7. CASE RemoveHub
  <2>1. before = Host /\ hub' = "none" /\ kubelet' = kubelet
    BY <1>7 DEF RemoveHub, OnlyHub, StageInv
  <2>2. Host' = Succeeded(run.op, "hub", before)
    BY <1>0, <2>1 DEF Host, Succeeded, HostOf, NormalHost, Hosts, Endpoint
  <2> QED BY <1>0, <1>7, <2>2, LastStage DEF RemoveHub, Stages!Next
<1> QED BY <1>2, <1>3, <1>4, <1>5, <1>6, <1>7 DEF Revert

\* A run begins, reports or is cut off between its stages.
LEMMA AroundKeepsContract ==
    ASSUME TypeOK, TypeOK', StageInv, FaultKinds \subseteq {"prepare", "service", "pause"},
           (\E op \in NodeTypes : Begin(op)) \/ Finish \/ CutOff
    PROVE  Stages!Next
<1>1. CASE \E op \in NodeTypes : Begin(op)
  <2>1. PICK op \in NodeTypes : Begin(op)
    BY <1>1
  <2>2. StageRun.pc = "idle"
    BY <2>1, StageRunIs DEF Begin, At, AbstractPc, HubPcs, KubeletPcs
  <2>3. StageRun' = [pc |-> FirstStage(op), op |-> op, ok |-> FALSE]
    <3>1. run' = [pc |-> IF op = "NormalNode" THEN "checkBackup" ELSE "compareHub",
                  op |-> op, ok |-> FALSE]
      BY <2>1 DEF Begin
    <3>2. AbstractPc' = FirstStage(op)
      BY <3>1 DEF AbstractPc, HubPcs, KubeletPcs, FirstStage
    <3>3. StageRun' \in StageRuns /\ StageRun'.pc = FirstStage(op)
          /\ StageRun'.op = op /\ StageRun'.ok = FALSE
      BY <3>1, <3>2, StageRunIsNext
    <3> QED BY <3>3 DEF StageRuns
  <2>4. StageHost' = StageHost
    BY <2>1 DEF Begin, At, StageHost
  <2> QED BY <2>1, <2>2, <2>3, <2>4
          DEF Stages!Next, Stages!Begin, StageRun, StageHost, Stages!FirstStage, FirstStage,
              Stages!NodeTypes, NodeTypes, Stages!ConvertTypes, ConvertTypes
<1>2. CASE Finish \/ CutOff
  <2>1. run.pc \in StageStarts \cup {"report"} /\ run' = Idle /\ Host' = Host
    BY <1>2 DEF Finish, CutOff, At, Fault, files, Host, Endpoint
  <2>2. StageRun.pc # "idle"
    BY <2>1, StageRunIs DEF AbstractPc, StageStarts, HubPcs, KubeletPcs
  <2>3. StageRun' = Idle
    <3>1. AbstractPc' = "idle"
      BY <2>1 DEF AbstractPc, Idle, HubPcs, KubeletPcs
    <3>2. StageRun' \in StageRuns /\ StageRun'.pc = "idle" /\ StageRun'.op = "NormalNode"
          /\ StageRun'.ok = FALSE
      BY <2>1, <3>1, StageRunIsNext DEF Idle
    <3> QED BY <3>2 DEF StageRuns, Idle
  <2>4. StageHost' = StageHost
    BY <2>1 DEF StageHost, StageInv, StageStarts, Idle
  <2> QED BY <2>2, <2>3, <2>4 DEF Stages!Next, Stages!End, Stages!Idle, Idle, StageRun, StageHost
<1> QED BY <1>1, <1>2

\* A stage that gives up at its start leaves the host as it was.
LEMMA GiveUpKeepsContract ==
    ASSUME TypeOK, TypeOK', OpInv, StageInv, GiveUp
    PROVE  Stages!Next
<1>1. Report(FALSE) /\ Host' = Host /\ Host = before
  BY DEF GiveUp, StageInv, StageStarts, Host, Endpoint, files
<1>2. PICK stage \in {"hub", "kubelet"} :
          IF stage = "hub" THEN run.pc \in HubPcs ELSE run.pc \in KubeletPcs
  BY DEF GiveUp, StageStarts, HubPcs, KubeletPcs
<1>3. before \in Failed(run.op, stage, before)
  BY DEF Failed, TypeOK, Hosts
<1> QED BY <1>1, <1>2, <1>3, StageFailed DEF Stages!Next

\* Every step of NodeHost is a step of HostStages, or none.
LEMMA StepKeepsContract ==
    ASSUME TypeOK, TypeOK', OpInv, BackupInv, StageInv, FaultKinds \subseteq {"prepare", "service", "pause"},
           [Next]_vars
    PROVE  Stages!Next \/ UNCHANGED Stages!vars
<1>1. CASE Convert
  BY <1>1, ConvertKeepsContract
<1>2. CASE Revert
  BY <1>2, RevertKeepsContract
<1>3. CASE (\E op \in NodeTypes : Begin(op)) \/ Finish \/ CutOff
  BY <1>3, AroundKeepsContract
<1>4. CASE \E f \in Flags : Edit(f)
  <2>1. run' = run /\ before' = before /\ hub' = hub /\ run.pc = "idle"
    BY <1>4 DEF Edit, At, history
  <2>2. Endpoint(kubelet') = Endpoint(kubelet)
    BY <1>4, <2>1 DEF Edit, StageInv, Restarting, Endpoint, TypeOK, Files
  <2> QED BY <2>1, <2>2, Stutters DEF StageHost, Host, AbstractPc, Endpoint
<1>5. CASE UNCHANGED vars
  BY <1>5, Stutters DEF vars, files, history, StageHost, Host, AbstractPc, Endpoint
<1>6. CASE GiveUp
  BY <1>6, GiveUpKeepsContract
<1> QED BY <1>1, <1>2, <1>3, <1>4, <1>5, <1>6 DEF Next

\* Whatever services fail, in whatever order runs follow one another and between
\* whichever stages they are cut off, edgectl keeps the contract that the
\* operator model has of its stages: on a host that has a kubeadm-flags.env, as
\* long as no run is cut off within a stage and rollbacks restart the kubelet.
THEOREM StagesImplemented ==
    ASSUME FaultKinds \subseteq {"prepare", "service", "pause"}, "absent" \notin InitialConfs
    PROVE  Spec => ImplementsStages
<1>1. Init => TypeOK /\ OpInv
  BY InitTypes
<1>2. Init => BackupInv /\ StageInv
  BY HostAssumption DEF Init, BackupInv, BackupIsOriginal, StageInv, StageStarts, HubPcs, KubeletPcs,
     Restarting, Endpoint, NoFile, Idle
<1>3. Init => Stages!Init
  BY HostAssumption DEF Init, Stages!Init, Stages!Idle, Idle, Stages!NormalHost, NormalHost, Host,
     AbstractPc, HubPcs, KubeletPcs, Endpoint, NoFile
<1>4. TypeOK /\ OpInv /\ BackupInv /\ StageInv /\ [Next]_vars =>
          (TypeOK /\ OpInv /\ BackupInv /\ StageInv)'
  BY TypeStep, OpStep, BackupStep, StageStep
<1>5. TypeOK /\ TypeOK' /\ OpInv /\ BackupInv /\ StageInv /\ [Next]_vars =>
          [Stages!Next]_(Stages!vars)
  BY StepKeepsContract
<1> QED BY <1>1, <1>2, <1>3, <1>4, <1>5, PTL DEF Spec, ImplementsStages, Stages!Spec
=============================================================================

------------------------- MODULE YurtOperatorProofs -------------------------
(* Theorems about YurtOperator and their proofs. *)
EXTENDS YurtOperator, TLAPS

-----------------------------------------------------------------------------
(* Types *)

\* The object that Create starts from and that a deletion leaves is well typed.
LEMMA NoClusterType ==
    ASSUME NEW state \in {"absent", "present", "gone"}
    PROVE  NoCluster(state) \in Clusters
BY DEF NoCluster, Clusters, NoSpec, SpecRecords, NoCondition, Conditions, Flags, Phases

\* What SyncCluster puts into a cache is well typed.
LEMMA ViewType ==
    ASSUME NEW c \in Clusters, NEW n \in Nodes, NEW label \in Labels, NEW edge \in Edges
    PROVE  ViewOf(c, n, label, edge) \in Views
BY DEF ViewOf, Views, Clusters

\* A stage of edgectl, whichever way it ends, makes a host of a host.
LEMMA HostType ==
    ASSUME NEW h \in Hosts, NEW op \in NodeTypes, NEW stage \in {"hub", "kubelet"}
    PROVE  /\ Succeeded(op, stage, h) \in Hosts
           /\ Failed(op, stage, h) \subseteq Hosts
BY DEF Succeeded, Failed, Hosts, HostOf, NormalHost, NodeTypes, ConvertTypes

\* Completing a spec by a merge patch gives a spec.
LEMMA MergeType ==
    ASSUME NEW live \in SpecRecords, NEW before \in SpecRecords
    PROVE  MergeSpec(live, before) \in SpecRecords
BY DEF MergeSpec, MergeFlag, SpecRecords, Flags

\* A reconciler at rest is well typed.
LEMMA IdleTypes == IdleManager \in Managers /\ IdleAgent \in Agents
BY NoClusterType DEF IdleManager, Managers, IdleAgent, Agents, NodeTypes, ConvertTypes, Edges, Phases

\* A copy that a pass starts with, and what a pass does to its own record.
LEMMA ManagerTypes ==
    ASSUME TypeOK, NEW err \in BOOLEAN,
           NEW pc \in {"idle", "hub", "tunnel", "delTunnel", "status", "patchStatus"}
    PROVE  /\ Begin(pc, err) => mgr' \in Managers
           /\ Goto(pc, err) => mgr' \in Managers
           /\ mgr.err \in BOOLEAN
<1>1. Begin(pc, err) => mgr' \in Managers
  BY DEF TypeOK, Begin, Managers, Phases
<1>2. Goto(pc, err) => mgr' \in Managers
  BY DEF TypeOK, Goto, Managers
<1>3. mgr.err \in BOOLEAN
  BY DEF TypeOK, Managers
<1> QED BY <1>1, <1>2, <1>3

\* The object after Update: a new spec at a new generation.
LEMMA SpecChangeType ==
    ASSUME NEW c \in Clusters, NEW s \in SpecRecords, NEW g \in Nat
    PROVE  [c EXCEPT !.spec = s, !.gen = g] \in Clusters
BY DEF Clusters

\* The object after PatchStatus: a new phase and observed generation.
LEMMA StatusChangeType ==
    ASSUME NEW c \in Clusters, NEW phase \in Phases, NEW o \in Nat
    PROVE  [c EXCEPT !.phase = phase, !.obsGen = o] \in Clusters
BY DEF Clusters

\* The object after the patch of a first pass: finalizer and completed spec.
LEMMA ApprovedType ==
    ASSUME NEW c \in Clusters, NEW s \in SpecRecords, NEW g \in Nat
    PROVE  [c EXCEPT !.fin = TRUE, !.spec = s, !.gen = g] \in Clusters
BY DEF Clusters

\* The object after edgectl's patch: a new condition of one node.
LEMMA ConditionChangeType ==
    ASSUME NEW c \in Clusters, NEW n \in Nodes, NEW cond \in Conditions
    PROVE  [c EXCEPT !.cond[n] = cond] \in Clusters
BY DEF Clusters

\* The types hold at the start, when nothing is installed.
LEMMA TypeInit == Init => TypeOK
<1> SUFFICES ASSUME Init PROVE TypeOK
  OBVIOUS
<1>1. yc \in Clusters /\ mview \in Clusters
  BY NoClusterType DEF Init
<1>2. aview \in [Nodes -> Views]
  BY NoClusterType, ViewType DEF Init, Edges
<1>3. mgr \in Managers /\ agent \in [Nodes -> Agents]
  BY IdleTypes DEF Init
<1> QED
  BY <1>1, <1>2, <1>3 DEF Init, TypeOK, Edges, Templates, Hosts, NormalHost, NodeCopy, NodeCopies

\* Create, Update, Delete and Relabel keep the types.
LEMMA TypeUser ==
    ASSUME TypeOK, User
    PROVE  TypeOK'
<1>1. CASE \E s \in Specs : Create(s)
  <2>1. PICK s \in Specs : Create(s)
    BY <1>1
  <2>2. yc' \in Clusters
    <3>1. s \in SpecRecords
      BY ConstantsAssumption
    <3>2. NoCluster("present") \in Clusters
      BY NoClusterType
    <3>3. yc' = [NoCluster("present") EXCEPT !.spec = s, !.gen = 1]
      BY <2>1 DEF Create, NoCluster
    <3> QED BY <3>1, <3>2, <3>3, SpecChangeType
  <2> QED BY <2>1, <2>2 DEF Create, TypeOK, mgrVars, agentVars, bounds
<1>2. CASE \E s \in Specs : Update(s)
  <2>1. PICK s \in Specs : Update(s)
    BY <1>2
  <2>2. yc' \in Clusters
    <3>1. s \in SpecRecords
      BY ConstantsAssumption
    <3>2. yc \in Clusters /\ yc.gen \in Nat
      BY DEF TypeOK, Clusters
    <3>3. yc.gen + 1 \in Nat
      BY <3>2
    <3>4. [yc EXCEPT !.spec = s, !.gen = yc.gen + 1] \in Clusters
      BY <3>1, <3>2, <3>3, SpecChangeType
    <3>5. yc' = [yc EXCEPT !.spec = s, !.gen = yc.gen + 1]
      BY <2>1 DEF Update
    <3> QED BY <3>4, <3>5
  <2> QED BY <2>1, <2>2 DEF Update, TypeOK, mgrVars, agentVars, bounds
<1>3. CASE Delete
  <2>1. yc' \in Clusters
    <3>1. yc \in Clusters /\ yc.gen + 1 \in Nat
      BY DEF TypeOK, Clusters
    <3>2. [yc EXCEPT !.deleting = TRUE, !.gen = yc.gen + 1] \in Clusters
      BY <3>1 DEF Clusters
    <3> QED BY <1>3, <3>2, NoClusterType DEF Delete
  <2> QED BY <1>3, <2>1 DEF Delete, TypeOK, mgrVars, agentVars, bounds
<1>4. CASE \E n \in Nodes, l \in Labels : Relabel(n, l)
  BY <1>4 DEF Relabel, TypeOK, mgrVars, agentVars
<1> QED BY <1>1, <1>2, <1>3, <1>4 DEF User

\* The events that reach the caches for one node keep the types.
LEMMA TypeCaches ==
    ASSUME TypeOK, NEW n \in Nodes, CacheStep(n)
    PROVE  TypeOK'
<1>1. CASE NodeEvent(n)
  <2>1. mnode' \in [Nodes -> NodeCopies]
    BY <1>1 DEF NodeEvent, NodeCopy, NodeCopies, TypeOK, Edges
  <2> QED BY <1>1, <2>1 DEF NodeEvent, TypeOK, apiVars, agentVars, bounds
<1>2. CASE LabelControlPlane(n)
  <2>1. mnode' \in [Nodes -> NodeCopies] /\ edgeLabel' \in [Nodes -> Edges]
    BY <1>2 DEF LabelControlPlane, NodeCopies, TypeOK, Edges
  <2>2. faults' \in Nat
    BY <1>2 DEF LabelControlPlane, TypeOK, Fault, NoFault
  <2> QED BY <1>2, <2>1, <2>2 DEF LabelControlPlane, TypeOK, agentVars
<1>3. CASE SyncCluster(n)
  <2>1. ViewOf(yc, n, aview[n].label, aview[n].edge) \in Views
    BY ViewType DEF TypeOK, Views
  <2> QED BY <1>3, <2>1 DEF SyncCluster, TypeOK, apiVars, mgrVars, bounds
<1>4. CASE SyncNode(n)
  <2>1. [aview[n] EXCEPT !.label = nodeLabel[n], !.edge = edgeLabel[n]] \in Views
    BY DEF TypeOK, Views
  <2> QED BY <1>4, <2>1 DEF SyncNode, TypeOK, apiVars, mgrVars, bounds
<1> QED BY <1>1, <1>2, <1>3, <1>4 DEF CacheStep

\* A step with or without a fault keeps the fault counter a number.
LEMMA TypeFault ==
    ASSUME TypeOK, NoFault \/ \E kind \in AllFaultKinds : Fault(kind)
    PROVE  faults' \in Nat
BY DEF TypeOK, NoFault, Fault

\* The part of TypeOK that the frame of the manager's actions leaves alone.
LEMMA TypeMgrFrame ==
    ASSUME TypeOK, MgrFrame, yc' \in Clusters, templates' \subseteq Templates,
           res' \in [Resources -> Nat], mgr' \in Managers, faults' \in Nat
    PROVE  TypeOK'
BY DEF TypeOK, MgrFrame, agentVars

\* The steps of the manager's pass that apply things keep the types.
LEMMA TypeApply ==
    ASSUME TypeOK, Approve \/ ApplyTrans \/ ApplyHub \/ ApplyTunnel
    PROVE  TypeOK'
<1>1. CASE Approve
  <2>1. mgr' \in Managers
    BY <1>1, ManagerTypes DEF Approve
  <2> QED BY <1>1, <2>1, TypeMgrFrame DEF Approve, TypeOK, NoFault
<1>2. CASE ApplyTrans
  <2>1. mgr' \in Managers
    BY <1>2, ManagerTypes DEF ApplyTrans
  <2>2. templates' \subseteq Templates
    BY <1>2 DEF ApplyTrans, TypeOK, Templates
  <2>3. faults' \in Nat
    BY <1>2, TypeFault DEF ApplyTrans, AllFaultKinds
  <2> QED BY <1>2, <2>1, <2>2, <2>3, TypeMgrFrame DEF ApplyTrans, TypeOK
<1>3. CASE ApplyHub
  <2>1. mgr' \in Managers
    BY <1>3, ManagerTypes DEF ApplyHub
  <2>2. templates' \subseteq Templates
    BY <1>3 DEF ApplyHub, TypeOK, Templates
  <2>3. faults' \in Nat
    BY <1>3, TypeFault DEF ApplyHub, AllFaultKinds
  <2>4. res' \in [Resources -> Nat]
    <3>1. [res EXCEPT !["hub"] = mgr.copy.gen] \in [Resources -> Nat]
      BY DEF TypeOK, Managers, Clusters
    <3> QED BY <1>3, <3>1 DEF ApplyHub, TypeOK
  <2> QED BY <1>3, <2>1, <2>2, <2>3, <2>4, TypeMgrFrame DEF ApplyHub, TypeOK
<1>4. CASE ApplyTunnel
  <2>1. mgr' \in Managers
    BY <1>4, ManagerTypes DEF ApplyTunnel
  <2>2. templates' \subseteq Templates
    BY <1>4 DEF ApplyTunnel, TypeOK, Templates
  <2>3. faults' \in Nat
    BY <1>4, TypeFault DEF ApplyTunnel, AllFaultKinds
  <2>4. res' \in [Resources -> Nat]
    <3> DEFINE Done(parts) == [r \in Resources |->
                 IF r \notin parts THEN res[r]
                 ELSE IF mgr.copy.spec.tunnel[r] = "on" THEN mgr.copy.gen ELSE 0]
    <3>1. \A parts : Done(parts) \in [Resources -> Nat]
      BY DEF TypeOK, Managers, Clusters
    <3>2. res' = res \/ \E parts : res' = Done(parts)
      BY <1>4 DEF ApplyTunnel
    <3> QED BY <3>1, <3>2 DEF TypeOK
  <2> QED BY <1>4, <2>1, <2>2, <2>3, <2>4, TypeMgrFrame DEF ApplyTunnel, TypeOK
<1> QED BY <1>1, <1>2, <1>3, <1>4

\* The steps of the manager's pass that delete things keep the types.
LEMMA TypeDelete ==
    ASSUME TypeOK, DeleteHub \/ DeleteTunnel
    PROVE  TypeOK'
<1>1. \A parts : Without(parts) \in [Resources -> Nat]
  BY DEF Without, TypeOK
<1>2. CASE DeleteHub
  <2>1. mgr' \in Managers
    BY <1>2, ManagerTypes DEF DeleteHub
  <2>2. faults' \in Nat
    BY <1>2, TypeFault DEF DeleteHub, AllFaultKinds
  <2>3. res' \in [Resources -> Nat]
    BY <1>1, <1>2 DEF DeleteHub, TypeOK
  <2> QED BY <1>2, <2>1, <2>2, <2>3, TypeMgrFrame DEF DeleteHub, TypeOK
<1>3. CASE DeleteTunnel
  <2>1. mgr' \in Managers
    BY <1>3, ManagerTypes DEF DeleteTunnel
  <2>2. faults' \in Nat
    BY <1>3, TypeFault DEF DeleteTunnel, AllFaultKinds
  <2>3. res' \in [Resources -> Nat]
    BY <1>1, <1>3 DEF DeleteTunnel, TypeOK
  <2> QED BY <1>3, <2>1, <2>2, <2>3, TypeMgrFrame DEF DeleteTunnel, TypeOK
<1> QED BY <1>2, <1>3

\* What reconcileStatus computes is well typed.
LEMMA StatusTypes ==
    ASSUME TypeOK
    PROVE  ObservedGen \in Nat /\ PhaseOf(mgr.copy) \in Phases /\ Unfinished(mgr.copy) \in Phases
BY DEF TypeOK, Managers, Clusters, ObservedGen, PhaseOf, Unfinished, Phases

\* The object that the status patch makes is well typed.
LEMMA WithStatusType ==
    ASSUME TypeOK, NEW phase \in Phases, NEW obsGen \in Nat
    PROVE  WithStatus(phase, obsGen) \in Clusters
<1> DEFINE ph == Sent(phase, mgr.copy.phase, yc.phase)
           og == Sent(obsGen, mgr.copy.obsGen, yc.obsGen)
<1>1. ph \in Phases /\ og \in Nat
  BY DEF TypeOK, Clusters, Sent
<1>2. WithStatus(phase, obsGen) = yc \/ WithStatus(phase, obsGen) = [yc EXCEPT !.phase = ph, !.obsGen = og]
  BY DEF WithStatus
<1>3. yc \in Clusters
  BY DEF TypeOK
<1> HIDE DEF ph, og
<1>4. [yc EXCEPT !.phase = ph, !.obsGen = og] \in Clusters
  BY <1>1, <1>3, StatusChangeType
<1> QED BY <1>2, <1>3, <1>4

\* What a pass records, whether its patch arrives or not: the phase and the
\* generation that it computed, earlier or now.
LEMMA PatchStatusIs ==
    ASSUME TypeOK, PatchStatus
    PROVE  \E phase \in Phases, obsGen \in {mgr.obsGen, mgr.copy.gen, mgr.copy.obsGen} :
               /\ yc' = yc \/ yc' = WithStatus(phase, obsGen)
               /\ \/ mgr.pc = "status" /\ mgr.copy.fin /\ obsGen = ObservedGen
                  \/ mgr.pc = "patchStatus" /\ obsGen = mgr.obsGen
<1>1. mgr.phase \in Phases /\ PhaseOf(mgr.copy) \in Phases /\ Unfinished(mgr.copy) \in Phases
  BY StatusTypes DEF TypeOK, Managers
<1>2. ObservedGen \in {mgr.copy.gen, mgr.copy.obsGen}
  BY DEF ObservedGen
<1> QED BY <1>1, <1>2 DEF PatchStatus, PatchStatusTo

\* What the status patch makes of the object.
LEMMA StatusPatch ==
    ASSUME TypeOK, PatchStatus
    PROVE  /\ mgr'.pc = "idle" /\ UNCHANGED <<mview, res>>
           /\ (mgr.pc = "status" /\ mgr.copy.fin) \/ mgr.pc = "patchStatus"
           /\ yc'.state = yc.state /\ yc'.fin = yc.fin
           /\ yc'.deleting = yc.deleting /\ yc'.gen = yc.gen
           /\ yc'.spec = yc.spec /\ yc'.cond = yc.cond
           /\ yc.state # "present" => yc' = yc
           /\ \/ yc'.obsGen = yc.obsGen
              \/ /\ yc'.obsGen # mgr.copy.obsGen
                 /\ yc'.obsGen = IF mgr.pc = "status" THEN ObservedGen ELSE mgr.obsGen
<1>1. PICK phase \in Phases, obsGen \in {mgr.obsGen, mgr.copy.gen, mgr.copy.obsGen} :
          /\ yc' = yc \/ yc' = WithStatus(phase, obsGen)
          /\ \/ mgr.pc = "status" /\ mgr.copy.fin /\ obsGen = ObservedGen
             \/ mgr.pc = "patchStatus" /\ obsGen = mgr.obsGen
  BY PatchStatusIs
<1>2. mgr'.pc = "idle" /\ UNCHANGED <<mview, res>>
  BY DEF PatchStatus, IdleManager, MgrFrame
<1> DEFINE ph == Sent(phase, mgr.copy.phase, yc.phase)
           og == Sent(obsGen, mgr.copy.obsGen, yc.obsGen)
<1>3. yc' = yc \/ (yc.state = "present" /\ yc' = [yc EXCEPT !.phase = ph, !.obsGen = og])
  BY <1>1 DEF WithStatus
<1>4. og = yc.obsGen \/ (og = obsGen /\ obsGen # mgr.copy.obsGen)
  BY DEF Sent
<1> HIDE DEF ph, og
<1>5. /\ yc'.state = yc.state /\ yc'.fin = yc.fin
      /\ yc'.deleting = yc.deleting /\ yc'.gen = yc.gen
      /\ yc'.spec = yc.spec /\ yc'.cond = yc.cond
      /\ yc.state # "present" => yc' = yc
      /\ yc'.obsGen = yc.obsGen \/ (yc'.obsGen = obsGen /\ obsGen # mgr.copy.obsGen)
  BY <1>3, <1>4 DEF TypeOK, Clusters
<1> QED BY <1>1, <1>2, <1>5

\* The patch of metadata and spec: the object may be approved or released.
LEMMA MetaPatch ==
    ASSUME TypeOK, PatchMeta
    PROVE  /\ mgr.pc = "status" /\ mgr'.pc = "patchStatus" /\ mgr'.copy = mgr.copy
           /\ mgr'.obsGen = ObservedGen /\ UNCHANGED <<mview, res>>
           /\ ~mgr.copy.fin \/ Release
           /\ \/ yc' = yc
              \/ /\ yc.state = "present" /\ mgr.copy.fin /\ Release
                 /\ yc' = NoCluster("gone")
              \/ yc.state = "present" /\ ~mgr.copy.fin /\ yc' = Approved
<1>1. /\ mgr.pc = "status" /\ mgr'.pc = "patchStatus" /\ mgr'.copy = mgr.copy
      /\ mgr'.obsGen = ObservedGen /\ UNCHANGED <<mview, res>>
  BY DEF PatchMeta, MgrFrame, TypeOK, Managers
<1> QED BY <1>1 DEF PatchMeta

\* What an approval leaves as it was.
LEMMA ApprovedIs ==
    ASSUME TypeOK
    PROVE  /\ Approved.state = yc.state /\ Approved.fin = TRUE
           /\ Approved.deleting = yc.deleting /\ Approved.obsGen = yc.obsGen
           /\ Approved.cond = yc.cond
           /\ \/ Approved.gen = yc.gen /\ Approved.spec = yc.spec
              \/ Approved.gen = yc.gen + 1
<1> DEFINE spec == MergeSpec(yc.spec, mgr.copy.spec)
           gen == IF spec = yc.spec THEN yc.gen ELSE yc.gen + 1
<1>1. Approved = [yc EXCEPT !.fin = TRUE, !.spec = spec, !.gen = gen]
  BY DEF Approved
<1>2. (gen = yc.gen /\ spec = yc.spec) \/ gen = yc.gen + 1
  OBVIOUS
<1> HIDE DEF spec, gen
<1> QED BY <1>1, <1>2 DEF TypeOK, Clusters

\* The two deferred patches of a manager's pass keep the types.
LEMMA TypePatch ==
    ASSUME TypeOK, PatchMeta \/ PatchStatus
    PROVE  TypeOK'
<1>1. CASE PatchStatus
  <2>1. mgr.obsGen \in Nat /\ mgr.copy.gen \in Nat /\ mgr.copy.obsGen \in Nat /\ yc \in Clusters
    BY DEF TypeOK, Managers, Clusters
  <2>2. yc' \in Clusters
    BY <1>1, <2>1, PatchStatusIs, WithStatusType
  <2>3. faults' \in Nat
    BY <1>1, TypeFault DEF PatchStatus, PatchStatusTo, AllFaultKinds
  <2> QED BY <1>1, <2>2, <2>3, TypeMgrFrame, IdleTypes DEF PatchStatus, TypeOK
<1>2. CASE PatchMeta
  <2>1. mgr' \in Managers
    BY <1>2, StatusTypes DEF PatchMeta, TypeOK, Managers
  <2>2. yc' \in Clusters
    <3> DEFINE spec == MergeSpec(yc.spec, mgr.copy.spec)
               gen == IF spec = yc.spec THEN yc.gen ELSE yc.gen + 1
    <3>1. yc \in Clusters /\ yc.spec \in SpecRecords /\ yc.gen \in Nat
      BY DEF TypeOK, Clusters
    <3>2. mgr.copy.spec \in SpecRecords
      BY DEF TypeOK, Managers, Clusters
    <3>3. spec \in SpecRecords
      BY <3>1, <3>2, MergeType
    <3>4. gen \in Nat
      BY <3>1
    <3>5. Approved = [yc EXCEPT !.fin = TRUE, !.spec = spec, !.gen = gen]
      BY DEF Approved
    <3> HIDE DEF spec, gen
    <3>6. Approved \in Clusters
      BY <3>1, <3>3, <3>4, <3>5, ApprovedType
    <3> QED BY <1>2, <3>1, <3>6, NoClusterType DEF PatchMeta
  <2>3. faults' \in Nat
    BY <1>2, TypeFault DEF PatchMeta, AllFaultKinds
  <2> QED BY <1>2, <2>1, <2>2, <2>3, TypeMgrFrame DEF PatchMeta, TypeOK
<1> QED BY <1>1, <1>2

\* The part of TypeOK that the frame of an agent's actions leaves alone.
LEMMA TypeAgentFrame ==
    ASSUME TypeOK, NEW n \in Nodes, AgentFrame(n), yc' \in Clusters,
           edgeLabel' \in [Nodes -> Edges], agent' \in [Nodes -> Agents],
           host' \in [Nodes -> Hosts], kcm' \in [Nodes -> {"on", "off"}],
           unreported' \in [Nodes -> BOOLEAN], faults' \in Nat
    PROVE  TypeOK'
BY DEF TypeOK, AgentFrame, mgrVars

\* The record of an agent's pass stays well typed as the pass goes on or ends.
LEMMA AgentTypes ==
    ASSUME TypeOK, NEW n \in Nodes
    PROVE  /\ agent[n] \in Agents
           /\ \A pc \in {"get", "hub", "kubelet", "report", "label"} :
                AgentGoto(n, pc) => agent' \in [Nodes -> Agents]
           /\ \A ok \in BOOLEAN : Finish(n, ok) => agent' \in [Nodes -> Agents]
<1>1. agent[n] \in Agents
  BY DEF TypeOK
<1>2. \A pc \in {"get", "hub", "kubelet", "report", "label"} :
        AgentGoto(n, pc) => agent' \in [Nodes -> Agents]
  BY DEF TypeOK, AgentGoto, Agents
<1>3. ASSUME NEW ok \in BOOLEAN, Finish(n, ok)
      PROVE  agent' \in [Nodes -> Agents]
  <2>1. [agent[n] EXCEPT !.pc = "report", !.ok = ok] \in Agents
    BY <1>1 DEF Agents
  <2>2. agent' = [agent EXCEPT ![n] = [agent[n] EXCEPT !.pc = "report", !.ok = ok]]
    BY <1>3 DEF Finish
  <2> QED BY <2>1, <2>2 DEF TypeOK
<1> QED BY <1>1, <1>2, <1>3

\* The agent's pass up to the start of edgectl keeps the types.
LEMMA TypeAgentReconcile ==
    ASSUME TypeOK, NEW n \in Nodes, AgentReconcile(n)
    PROVE  TypeOK'
<1>1. kcm' \in [Nodes -> {"on", "off"}]
  BY DEF AgentReconcile, TypeOK
<1>2. faults' \in Nat
  BY TypeFault DEF AgentReconcile, AllFaultKinds
<1>3. agent' \in [Nodes -> Agents]
  <2> DEFINE v == aview[n]
             type == Wanted(v.spec, v.deleting, n, v.label)
  <2>1. type \in NodeTypes /\ v.edge \in Edges
    BY DEF Wanted, NodeType, NodeTypes, ConvertTypes, TypeOK, Views
  <2>2. \A pc \in {"get", "label"} :
          [pc |-> pc, op |-> type, gen |-> 0, ok |-> FALSE, edge |-> v.edge] \in Agents
    BY <2>1 DEF Agents
  <2>3. \/ agent' = agent
        \/ \E pc \in {"get", "label"} : agent' = [agent EXCEPT ![n] =
              [pc |-> pc, op |-> type, gen |-> 0, ok |-> FALSE, edge |-> v.edge]]
    BY DEF AgentReconcile
  <2> QED BY <2>2, <2>3 DEF TypeOK
<1> QED BY <1>1, <1>2, <1>3, TypeAgentFrame DEF AgentReconcile, TypeOK

\* edgectl's reading of the live object keeps the types.
LEMMA TypeEdgectlGet ==
    ASSUME TypeOK, NEW n \in Nodes, EdgectlGet(n)
    PROVE  TypeOK'
<1>1. faults' \in Nat
  BY TypeFault DEF EdgectlGet, AllFaultKinds
<1>2. agent' \in [Nodes -> Agents]
  <2> DEFINE Read(pc, ok) ==
        agent' = [agent EXCEPT ![n].pc = pc, ![n].ok = ok, ![n].gen = yc.gen]
  <2>1. ASSUME NEW pc \in {"hub", "kubelet", "report"}, NEW ok \in BOOLEAN, Read(pc, ok)
        PROVE  agent' \in [Nodes -> Agents]
    <3>1. yc.gen \in Nat
      BY DEF TypeOK, Clusters
    <3>2. [agent[n] EXCEPT !.pc = pc, !.ok = ok, !.gen = yc.gen] \in Agents
      BY <3>1, AgentTypes DEF Agents
    <3>3. agent' = [agent EXCEPT ![n] = [agent[n] EXCEPT !.pc = pc, !.ok = ok, !.gen = yc.gen]]
      BY <2>1
    <3> QED BY <3>2, <3>3 DEF TypeOK
  <2>2. AgentGoto(n, "label") \/ \E pc \in {"hub", "kubelet", "report"}, ok \in BOOLEAN : Read(pc, ok)
    BY DEF EdgectlGet, FirstStage
  <2> HIDE DEF Read
  <2> QED BY <2>1, <2>2, AgentTypes
<1> QED BY <1>1, <1>2, TypeAgentFrame DEF EdgectlGet, TypeOK

\* A stage of edgectl keeps the types.
LEMMA TypeStage ==
    ASSUME TypeOK, NEW n \in Nodes, NEW stage \in {"hub", "kubelet"}, NEW op \in NodeTypes,
           NEW next \in {"hub", "kubelet", "report"}, Stage(n, stage, op, next)
    PROVE  TypeOK'
<1>1. faults' \in Nat
  BY TypeFault DEF Stage, AllFaultKinds
<1>2. agent' \in [Nodes -> Agents]
  BY AgentTypes DEF Stage
<1>3. PICK h \in Hosts : ChangeHost(n, h)
  <2>1. host[n] \in Hosts
    BY DEF TypeOK
  <2> QED BY <2>1, HostType DEF Stage
<1> QED BY <1>1, <1>2, <1>3, TypeAgentFrame DEF ChangeHost, TypeOK

\* The condition patch and the Node patch keep the types.
LEMMA TypeReport ==
    ASSUME TypeOK, NEW n \in Nodes, ReportCondition(n) \/ PatchNode(n)
    PROVE  TypeOK'
<1>1. CASE ReportCondition(n)
  <2>1. faults' \in Nat
    BY <1>1, TypeFault DEF ReportCondition, AllFaultKinds
  <2>2. agent' \in [Nodes -> Agents]
    BY <1>1, AgentTypes DEF ReportCondition
  <2>3. yc' \in Clusters
    <3>1. ConditionOf(agent[n]) \in Conditions
      BY AgentTypes DEF ConditionOf, Conditions, Agents
    <3>2. [yc EXCEPT !.cond[n] = ConditionOf(agent[n])] \in Clusters
      BY <3>1, ConditionChangeType DEF TypeOK
    <3> QED BY <1>1, <3>2 DEF ReportCondition, TypeOK
  <2> QED BY <1>1, <2>1, <2>2, <2>3, TypeAgentFrame DEF ReportCondition, TypeOK
<1>2. CASE PatchNode(n)
  <2>1. faults' \in Nat
    BY <1>2, TypeFault DEF PatchNode, AllFaultKinds
  <2>2. agent' \in [Nodes -> Agents]
    BY <1>2, IdleTypes DEF PatchNode, TypeOK
  <2>3. edgeLabel' \in [Nodes -> Edges]
    BY <1>2 DEF PatchNode, Sent, EdgeFor, TypeOK, Edges
  <2> QED BY <1>2, <2>1, <2>2, <2>3, TypeAgentFrame DEF PatchNode, TypeOK
<1> QED BY <1>1, <1>2

\* A killed manager or agent keeps the types.
LEMMA TypeCrash ==
    ASSUME TypeOK, ManagerCrash \/ \E n \in Nodes : AgentCrash(n)
    PROVE  TypeOK'
<1>1. CASE ManagerCrash
  <2>1. faults' \in Nat
    BY <1>1, TypeFault DEF ManagerCrash, AllFaultKinds
  <2> QED BY <1>1, <2>1, IdleTypes DEF ManagerCrash, TypeOK, apiVars, agentVars
<1>2. CASE \E n \in Nodes : AgentCrash(n)
  <2>1. PICK n \in Nodes : AgentCrash(n)
    BY <1>2
  <2>2. faults' \in Nat
    BY <2>1, TypeFault DEF AgentCrash, AllFaultKinds
  <2> QED BY <2>1, <2>2, IdleTypes DEF AgentCrash, TypeOK, apiVars, mgrVars
<1> QED BY <1>1, <1>2

\* TypeOK is inductive: every variable keeps its type, at every size of the
\* cluster and whatever faults the run allows.
THEOREM TypeCorrect == Spec => []TypeOK
<1>1. TypeOK /\ [Next]_vars => TypeOK'
  <2> SUFFICES ASSUME TypeOK, [Next]_vars PROVE TypeOK'
    OBVIOUS
  <2>1. CASE User
    BY <2>1, TypeUser
  <2>2. CASE SyncManager
    BY <2>2 DEF SyncManager, TypeOK, apiVars, agentVars, bounds
  <2>3. CASE ManagerStep
    BY <2>3, TypeApply, TypeDelete, TypePatch DEF ManagerStep
  <2>4. CASE ManagerCrash
    BY <2>4, TypeCrash
  <2>5. ASSUME NEW n \in Nodes, CacheStep(n)
        PROVE  TypeOK'
    BY <2>5, TypeCaches
  <2>6. ASSUME NEW n \in Nodes, AgentStep(n)
        PROVE  TypeOK'
    <3>1. CASE AgentReconcile(n) \/ EdgectlGet(n)
      BY <3>1, TypeAgentReconcile, TypeEdgectlGet
    <3>2. CASE SetupYurtHub(n) \/ SetupKubelet(n) \/ RevertKubelet(n) \/ RemoveYurtHub(n)
      BY <3>2, TypeStage DEF SetupYurtHub, SetupKubelet, RevertKubelet, RemoveYurtHub,
                             NodeTypes
    <3>3. CASE ReportCondition(n) \/ PatchNode(n)
      BY <3>3, TypeReport
    <3> QED BY <2>6, <3>1, <3>2, <3>3 DEF AgentStep
  <2>7. ASSUME NEW n \in Nodes, AgentCrash(n)
        PROVE  TypeOK'
    BY <2>7, TypeCrash
  <2>8. CASE UNCHANGED vars
    BY <2>8 DEF vars, apiVars, mgrVars, agentVars, bounds, TypeOK
  <2> QED BY <2>1, <2>2, <2>3, <2>4, <2>5, <2>6, <2>7, <2>8 DEF Next
<1> QED BY <1>1, TypeInit, PTL DEF Spec
-----------------------------------------------------------------------------
(* The proxy of a kubelet *)

\* KubeletHasProxy is not inductive: which half of the host a stage may change
\* depends on what the stage before it left.
ProxyInv ==
    \A n \in Nodes :
        /\ host[n].kubelet = "hub" => host[n].hub # "none"
        /\ agent[n].pc = "kubelet" /\ agent[n].op \in ConvertTypes => host[n].hub # "none"
        /\ agent[n].pc = "hub" /\ agent[n].op = "NormalNode" => host[n].kubelet = "apiserver"

\* An agent that is not in a stage is bound by nothing but the host.
LEMMA ProxyOutside ==
    ASSUME TypeOK, ProxyInv, NEW n \in Nodes, NEW a, host' = host,
           agent' = [agent EXCEPT ![n] = a], a.pc \notin {"hub", "kubelet"}
    PROVE  ProxyInv'
BY DEF ProxyInv, TypeOK

\* When edgectl starts its first stage, a revert starts with the kubelet and a
\* convert with the manifest, so ProxyInv asks nothing new of the host.
LEMMA ProxyGet ==
    ASSUME TypeOK, ProxyInv, NEW n \in Nodes, EdgectlGet(n)
    PROVE  ProxyInv'
<1>1. host' = host
  BY DEF EdgectlGet
<1>2. \A k \in Nodes \ {n} : agent'[k] = agent[k]
  BY DEF EdgectlGet, AgentGoto, TypeOK
<1>3. agent'[n].op = agent[n].op
  BY DEF EdgectlGet, AgentGoto, TypeOK, Agents
<1>4. agent'[n].pc \in {"label", "report", FirstStage(agent[n].op)}
  BY DEF EdgectlGet, AgentGoto, TypeOK, Agents
<1> QED BY <1>1, <1>2, <1>3, <1>4 DEF ProxyInv, FirstStage, ConvertTypes

\* A stage, whichever way it ends, leaves what the next stage needs.
LEMMA ProxyStage ==
    ASSUME TypeOK, ProxyInv, NEW n \in Nodes, NEW stage \in {"hub", "kubelet"},
           NEW op \in NodeTypes, NEW next \in {"hub", "kubelet", "report"},
           \/ op \in ConvertTypes /\ <<stage, next>> \in {<<"hub", "kubelet">>, <<"kubelet", "report">>}
           \/ op = "NormalNode" /\ <<stage, next>> \in {<<"kubelet", "hub">>, <<"hub", "report">>},
           Stage(n, stage, op, next)
    PROVE  ProxyInv'
<1>1. \A k \in Nodes \ {n} : agent'[k] = agent[k] /\ host'[k] = host[k]
  BY DEF Stage, AgentGoto, Finish, ChangeHost, TypeOK
<1>2. host[n] \in Hosts /\ agent[n].pc = stage /\ agent[n].op = op
  BY DEF Stage, TypeOK
<1>3. CASE /\ host'[n] = Succeeded(op, stage, host[n])
           /\ agent'[n].pc = next /\ agent'[n].op = op
  BY <1>1, <1>2, <1>3 DEF ProxyInv, Succeeded, HostOf, NormalHost, Hosts, ConvertTypes, NodeTypes
<1>4. CASE host'[n] \in Failed(op, stage, host[n]) /\ agent'[n].pc = "report"
  BY <1>1, <1>2, <1>4 DEF ProxyInv, Failed, Hosts, ConvertTypes, NodeTypes
<1>5. \/ /\ host'[n] = Succeeded(op, stage, host[n])
         /\ agent'[n].pc = next /\ agent'[n].op = op
      \/ host'[n] \in Failed(op, stage, host[n]) /\ agent'[n].pc = "report"
  BY DEF Stage, AgentGoto, Finish, ChangeHost, TypeOK, Agents
<1> QED BY <1>3, <1>4, <1>5

\* Every step of an agent keeps ProxyInv.
LEMMA ProxyAgent ==
    ASSUME TypeOK, ProxyInv, NEW n \in Nodes, AgentStep(n)
    PROVE  ProxyInv'
<1>1. CASE AgentReconcile(n)
  <2>1. agent' = agent \/ \E pc \in {"get", "label"} : \E op, edge : agent' = [agent EXCEPT ![n] =
            [pc |-> pc, op |-> op, gen |-> 0, ok |-> FALSE, edge |-> edge]]
    BY <1>1 DEF AgentReconcile
  <2>2. host' = host
    BY <1>1 DEF AgentReconcile
  <2> QED BY <2>1, <2>2, ProxyOutside DEF ProxyInv
<1>2. CASE EdgectlGet(n)
  BY <1>2, ProxyGet
<1>3. CASE SetupYurtHub(n) \/ SetupKubelet(n)
  BY <1>3, ProxyStage DEF SetupYurtHub, SetupKubelet, NodeTypes
<1>4. CASE RevertKubelet(n) \/ RemoveYurtHub(n)
  BY <1>4, ProxyStage DEF RevertKubelet, RemoveYurtHub, NodeTypes
<1>5. CASE ReportCondition(n)
  <2>1. agent' = [agent EXCEPT ![n] = [agent[n] EXCEPT !.pc = "label"]] /\ host' = host
    BY <1>5 DEF ReportCondition, AgentGoto
  <2>2. [agent[n] EXCEPT !.pc = "label"].pc = "label"
    BY DEF TypeOK, Agents
  <2> QED BY <2>1, <2>2, ProxyOutside
<1>6. CASE PatchNode(n)
  BY <1>6, ProxyOutside DEF PatchNode, IdleAgent
<1> QED BY <1>1, <1>2, <1>3, <1>4, <1>5, <1>6 DEF AgentStep

\* A kubelet never talks to a yurt-hub that is not there, on any number of
\* nodes and whatever stages fail or are cut off.
THEOREM ProxyKept == Spec => []KubeletHasProxy
<1>1. Init => ProxyInv
  BY DEF Init, ProxyInv, NormalHost, IdleAgent
<1>2. TypeOK /\ ProxyInv /\ [Next]_vars => ProxyInv'
  <2> SUFFICES ASSUME TypeOK, ProxyInv, [Next]_vars PROVE ProxyInv'
    OBVIOUS
  <2>1. CASE host' = host /\ agent' = agent
    BY <2>1 DEF ProxyInv
  <2>2. CASE User \/ SyncManager \/ ManagerCrash
    BY <2>1, <2>2 DEF User, Create, Update, Delete, Relabel, SyncManager, ManagerCrash, agentVars
  <2>3. CASE ManagerStep
    BY <2>1, <2>3 DEF ManagerStep, Approve, ApplyTrans, ApplyHub, ApplyTunnel, DeleteHub,
                      DeleteTunnel, PatchMeta, PatchStatus, PatchStatusTo, MgrFrame, agentVars
  <2>4. ASSUME NEW n \in Nodes, CacheStep(n) PROVE ProxyInv'
    BY <2>1, <2>4 DEF CacheStep, NodeEvent, LabelControlPlane, SyncCluster, SyncNode, agentVars
  <2>5. ASSUME NEW n \in Nodes, AgentStep(n) PROVE ProxyInv'
    BY <2>5, ProxyAgent
  <2>6. ASSUME NEW n \in Nodes, AgentCrash(n) PROVE ProxyInv'
    BY <2>6, ProxyOutside DEF AgentCrash, IdleAgent
  <2>7. CASE UNCHANGED vars
    BY <2>1, <2>7 DEF vars, agentVars
  <2> QED BY <2>2, <2>3, <2>4, <2>5, <2>6, <2>7 DEF Next
<1>3. ProxyInv => KubeletHasProxy
  BY DEF ProxyInv, KubeletHasProxy
<1> QED BY <1>1, <1>2, <1>3, TypeCorrect, PTL DEF Spec
-----------------------------------------------------------------------------
(* Generations *)

\* The generations the caches and the passes hold, which an object that gains a
\* generation leaves behind.
Held(g) ==
    /\ mview.gen <= g /\ mview.obsGen <= g
    /\ mgr.copy.gen <= g /\ mgr.copy.obsGen <= g /\ mgr.obsGen <= g
    /\ \A n \in Nodes : aview[n].gen <= g /\ agent[n].gen <= g

\* GenerationsIssued is not inductive: the manager's copy and what it is about
\* to patch become the object's ObservedGeneration.
IssuedInv ==
    yc.state # "gone" =>
        /\ yc.state = "absent" => yc.gen = 0
        /\ yc.obsGen <= yc.gen
        /\ \A n \in Nodes : yc.cond[n].gen <= yc.gen
        /\ Held(yc.gen)

\* No number in Held or in the object is anything but a generation.
LEMMA GenTypes ==
    ASSUME TypeOK
    PROVE  /\ yc.gen \in Nat /\ yc.obsGen \in Nat
           /\ mview.gen \in Nat /\ mview.obsGen \in Nat
           /\ mgr.copy.gen \in Nat /\ mgr.copy.obsGen \in Nat /\ mgr.obsGen \in Nat
           /\ \A n \in Nodes : /\ yc.cond[n].gen \in Nat /\ aview[n].gen \in Nat
                               /\ agent[n].gen \in Nat
BY DEF TypeOK, Clusters, Conditions, Managers, Views, Agents

\* A copy of an earlier generation is a copy of an earlier generation later on.
LEMMA HeldLater ==
    ASSUME TypeOK, NEW g \in Nat, NEW h \in Nat, g <= h, Held(g)
    PROVE  Held(h)
BY GenTypes DEF Held

\* The caches and the passes stay as they are while the object moves on.
LEMMA IssuedObject ==
    ASSUME TypeOK, TypeOK', IssuedInv, UNCHANGED <<mview, mgr, aview, agent>>,
           yc'.state # "gone" =>
               /\ yc.state # "gone"
               /\ yc'.state = "absent" => yc'.gen = 0
               /\ yc.gen <= yc'.gen
               /\ yc'.obsGen <= yc'.gen
               /\ \A n \in Nodes : yc'.cond[n].gen <= yc'.gen
    PROVE  IssuedInv'
<1> SUFFICES ASSUME yc'.state # "gone" PROVE IssuedInv'
  BY DEF IssuedInv
<1>1. yc.gen \in Nat /\ yc'.gen \in Nat
  BY DEF TypeOK, Clusters
<1>2. yc.gen <= yc'.gen /\ Held(yc.gen)
  BY DEF IssuedInv
<1>3. Held(yc'.gen)
  <2> DEFINE g == yc.gen
             h == yc'.gen
  <2> HIDE DEF g, h
  <2>1. g \in Nat /\ h \in Nat /\ g <= h /\ Held(g)
    BY <1>1, <1>2 DEF g, h
  <2>2. Held(h)
    BY <2>1, HeldLater
  <2> QED BY <2>2 DEF h
<1>4. Held(yc.gen)'
  BY <1>3 DEF Held
<1> QED BY <1>4 DEF IssuedInv

\* The user's steps only raise the generation, or start or end the object.
LEMMA IssuedUser ==
    ASSUME TypeOK, TypeOK', IssuedInv, User
    PROVE  IssuedInv'
<1>1. CASE \E s \in Specs : Create(s)
  <2>1. PICK s \in Specs : Create(s)
    BY <1>1
  <2>2. /\ yc'.state = "present" /\ yc'.gen = 1 /\ yc'.obsGen = 0
        /\ \A n \in Nodes : yc'.cond[n].gen = 0
    BY <2>1 DEF Create, NoCluster, NoCondition
  <2>3. yc.state = "absent" /\ UNCHANGED <<mview, mgr, aview, agent>>
    BY <2>1 DEF Create, mgrVars, agentVars
  <2>4. Held(0)
    BY <2>3 DEF IssuedInv
  <2>5. Held(1)
    BY <2>4, HeldLater
  <2>6. Held(1)'
    BY <2>3, <2>5 DEF Held
  <2> QED BY <2>2, <2>6 DEF IssuedInv
<1>2. CASE (\E s \in Specs : Update(s)) \/ Delete \/ \E n \in Nodes, l \in Labels : Relabel(n, l)
  <2>1. UNCHANGED <<mview, mgr, aview, agent>>
    BY <1>2 DEF Update, Delete, Relabel, mgrVars, agentVars
  <2>2. yc'.state = "gone" \/ yc' = yc \/
        /\ yc'.state = yc.state /\ yc.state = "present" /\ yc'.obsGen = yc.obsGen
        /\ yc'.cond = yc.cond /\ yc'.gen = yc.gen + 1
    <3>1. yc = [state |-> yc.state, gen |-> yc.gen, spec |-> yc.spec, deleting |-> yc.deleting,
                fin |-> yc.fin, phase |-> yc.phase, obsGen |-> yc.obsGen, cond |-> yc.cond]
      BY DEF TypeOK, Clusters
    <3>2. CASE \E s \in Specs : Update(s)
      BY <3>1, <3>2 DEF Update
    <3>3. CASE Delete
      BY <3>1, <3>3 DEF Delete, NoCluster
    <3>4. CASE \E n \in Nodes, l \in Labels : Relabel(n, l)
      BY <3>4 DEF Relabel
    <3> QED BY <1>2, <3>2, <3>3, <3>4
  <2>3. CASE yc'.state = "gone"
    BY <2>1, <2>3, IssuedObject
  <2>4. CASE yc' = yc
    BY <2>1, <2>4 DEF IssuedInv, Held
  <2>5. CASE /\ yc'.state = yc.state /\ yc.state = "present" /\ yc'.obsGen = yc.obsGen
             /\ yc'.cond = yc.cond /\ yc'.gen = yc.gen + 1
    BY <2>1, <2>5, GenTypes, IssuedObject DEF IssuedInv
  <2> QED BY <2>2, <2>3, <2>4, <2>5
<1> QED BY <1>1, <1>2 DEF User

\* A cache that catches up holds a generation that was issued.
LEMMA IssuedCaches ==
    ASSUME TypeOK, IssuedInv, SyncManager \/ ManagerCrash \/
             \E n \in Nodes : CacheStep(n) \/ AgentCrash(n)
    PROVE  IssuedInv'
<1>1. CASE SyncManager
  BY <1>1, GenTypes DEF SyncManager, IssuedInv, Held, apiVars, agentVars
<1>2. CASE ManagerCrash
  BY <1>2, GenTypes DEF ManagerCrash, IdleManager, NoCluster, IssuedInv, Held, apiVars, agentVars
<1>3. ASSUME NEW n \in Nodes, NodeEvent(n) \/ LabelControlPlane(n) PROVE IssuedInv'
  BY <1>3 DEF NodeEvent, LabelControlPlane, IssuedInv, Held, apiVars, agentVars
<1>4. ASSUME NEW n \in Nodes, SyncCluster(n) \/ SyncNode(n) PROVE IssuedInv'
  <2>1. UNCHANGED <<yc, mview, mgr, agent>>
    BY <1>4 DEF SyncCluster, SyncNode, apiVars, mgrVars
  <2>2. \A k \in Nodes : aview'[k].gen \in {yc.gen, aview[k].gen}
    <3>1. CASE SyncCluster(n)
      BY <3>1 DEF SyncCluster, ViewOf, TypeOK
    <3>2. CASE SyncNode(n)
      <4>1. aview' = [aview EXCEPT ![n] =
                [aview[n] EXCEPT !.label = nodeLabel[n], !.edge = edgeLabel[n]]]
        BY <3>2 DEF SyncNode
      <4>2. aview[n] \in Views
        BY DEF TypeOK
      <4>3. [aview[n] EXCEPT !.label = nodeLabel[n], !.edge = edgeLabel[n]].gen = aview[n].gen
        BY <4>2 DEF Views
      <4> QED BY <4>1, <4>3 DEF TypeOK
    <3> QED BY <1>4, <3>1, <3>2
  <2> QED BY <2>1, <2>2, GenTypes DEF IssuedInv, Held
<1>5. ASSUME NEW n \in Nodes, AgentCrash(n) PROVE IssuedInv'
  BY <1>5, GenTypes DEF AgentCrash, IdleAgent, ViewOf, TypeOK, IssuedInv, Held, apiVars, mgrVars
<1> QED BY <1>1, <1>2, <1>3, <1>4, <1>5 DEF CacheStep

\* The manager records no generation but its copy's.
LEMMA IssuedManager ==
    ASSUME TypeOK, TypeOK', IssuedInv, ManagerStep
    PROVE  IssuedInv'
<1>1. UNCHANGED <<mview, aview, agent>>
  BY DEF ManagerStep, Approve, ApplyTrans, ApplyHub, ApplyTunnel, DeleteHub,
         DeleteTunnel, PatchMeta, PatchStatus, PatchStatusTo, MgrFrame, agentVars
<1>2. CASE Approve \/ ApplyTrans \/ ApplyHub \/ ApplyTunnel \/ DeleteHub \/ DeleteTunnel
  <2>1. yc' = yc
    BY <1>2 DEF Approve, ApplyTrans, ApplyHub, ApplyTunnel, DeleteHub, DeleteTunnel
  <2>2. (\E pc, err : Begin(pc, err)) \/ (\E pc, err : Goto(pc, err))
    BY <1>2 DEF Approve, ApplyTrans, ApplyHub, ApplyTunnel, DeleteHub, DeleteTunnel
  <2>3. \/ mgr'.copy = mview /\ mgr'.obsGen = 0
        \/ mgr'.copy = mgr.copy /\ mgr'.obsGen = mgr.obsGen
    <3>1. ASSUME NEW pc, NEW err, Begin(pc, err)
          PROVE  mgr'.copy = mview /\ mgr'.obsGen = 0
      BY <3>1 DEF Begin
    <3>2. ASSUME NEW pc, NEW err, Goto(pc, err)
          PROVE  mgr'.copy = mgr.copy /\ mgr'.obsGen = mgr.obsGen
      BY <3>2 DEF Goto, TypeOK, Managers
    <3> QED BY <2>2, <3>1, <3>2
  <2> QED BY <1>1, <2>1, <2>3, GenTypes DEF IssuedInv, Held
<1>3. CASE PatchMeta
  <2>1. mgr'.copy = mgr.copy /\ mgr'.obsGen \in {mgr.copy.gen, mgr.copy.obsGen}
    BY <1>3, MetaPatch DEF ObservedGen
  <2>2. CASE yc' = yc \/ yc' = NoCluster("gone")
    BY <1>1, <2>1, <2>2 DEF IssuedInv, Held, NoCluster
  <2>3. CASE yc.state = "present" /\ yc' = Approved
    BY <1>1, <2>1, <2>3, ApprovedIs, GenTypes DEF IssuedInv, Held
  <2> QED BY <1>3, <2>2, <2>3, MetaPatch
<1>4. CASE PatchStatus
  <2>1. mgr'.copy.gen = 0 /\ mgr'.copy.obsGen = 0 /\ mgr'.obsGen = 0
    BY <1>4 DEF PatchStatus, IdleManager, NoCluster
  <2>2. yc'.obsGen \in {yc.obsGen, mgr.obsGen, mgr.copy.gen, mgr.copy.obsGen}
    BY <1>4, StatusPatch DEF ObservedGen
  <2> QED BY <1>1, <1>4, <2>1, <2>2, StatusPatch, GenTypes DEF IssuedInv, Held
<1> QED BY <1>2, <1>3, <1>4 DEF ManagerStep

\* edgectl records no generation but the one it read.
LEMMA IssuedAgent ==
    ASSUME TypeOK, IssuedInv, NEW n \in Nodes, AgentStep(n)
    PROVE  IssuedInv'
<1>1. UNCHANGED <<mview, mgr, aview>>
  BY DEF AgentStep, AgentReconcile, EdgectlGet, SetupYurtHub, SetupKubelet, RevertKubelet,
         RemoveYurtHub, Stage, ChangeHost, ReportCondition, PatchNode, AgentFrame, mgrVars
<1>2. \A k \in Nodes \ {n} : agent'[k] = agent[k]
  BY DEF AgentStep, AgentReconcile, EdgectlGet, SetupYurtHub, SetupKubelet, RevertKubelet,
         RemoveYurtHub, Stage, Finish, AgentGoto, ReportCondition, PatchNode, TypeOK
<1>3. agent'[n].gen \in {0, yc.gen, agent[n].gen}
  <2>1. CASE AgentReconcile(n) \/ PatchNode(n)
    BY <2>1 DEF AgentReconcile, PatchNode, IdleAgent, TypeOK
  <2>2. CASE EdgectlGet(n)
    BY <2>2 DEF EdgectlGet, AgentGoto, TypeOK, Agents
  <2>3. CASE SetupYurtHub(n) \/ SetupKubelet(n) \/ RevertKubelet(n) \/ RemoveYurtHub(n) \/ ReportCondition(n)
    BY <2>3 DEF SetupYurtHub, SetupKubelet, RevertKubelet, RemoveYurtHub, Stage, Finish, AgentGoto,
                ReportCondition, TypeOK, Agents
  <2> QED BY <2>1, <2>2, <2>3 DEF AgentStep
<1>4. /\ yc'.state = yc.state /\ yc'.gen = yc.gen /\ yc'.obsGen = yc.obsGen
      /\ \A k \in Nodes : yc'.cond[k].gen \in {0, yc.cond[k].gen, agent[k].gen}
  <2>1. CASE ReportCondition(n)
    <3> DEFINE cond == ConditionOf(agent[n])
    <3>1. yc' = yc \/ yc' = [yc EXCEPT !.cond = [yc.cond EXCEPT ![n] = cond]]
      BY <2>1 DEF ReportCondition
    <3>2. cond.gen \in {0, agent[n].gen}
      BY DEF ConditionOf
    <3> HIDE DEF cond
    <3> QED BY <3>1, <3>2 DEF TypeOK, Clusters
  <2>2. CASE ~ReportCondition(n)
    BY <2>2 DEF AgentStep, AgentReconcile, EdgectlGet, SetupYurtHub, SetupKubelet, RevertKubelet,
                RemoveYurtHub, Stage, ChangeHost, PatchNode
  <2> QED BY <2>1, <2>2
<1> QED BY <1>1, <1>2, <1>3, <1>4, GenTypes DEF IssuedInv, Held

\* IssuedInv is inductive.
LEMMA IssuedAlways == Spec => []IssuedInv
<1>1. Init => IssuedInv
  BY DEF Init, NoCluster, NoCondition, IdleManager, IdleAgent, ViewOf, IssuedInv, Held
<1>2. TypeOK /\ TypeOK' /\ IssuedInv /\ [Next]_vars => IssuedInv'
  <2>1. UNCHANGED vars /\ IssuedInv => IssuedInv'
    BY DEF vars, apiVars, mgrVars, agentVars, IssuedInv, Held
  <2> QED BY <2>1, IssuedUser, IssuedCaches, IssuedManager, IssuedAgent DEF Next
<1> QED BY <1>1, <1>2, TypeCorrect, PTL DEF Spec

\* Nothing anywhere refers to a generation before it is issued, however many
\* updates overtake a cache or a pass.
THEOREM GenerationsSound == Spec => []GenerationsIssued
<1>1. IssuedInv => GenerationsIssued
  BY DEF IssuedInv, Held, GenerationsIssued
<1> QED BY <1>1, IssuedAlways, PTL
=============================================================================

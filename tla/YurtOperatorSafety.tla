------------------------- MODULE YurtOperatorSafety -------------------------
(* Theorems about what YurtOperator does to hosts and resources: nothing *)
(* before the approval, conditions that are true, nothing left behind;   *)
(* and about what the manager records in the object.                     *)
EXTENDS YurtOperatorProofs

-----------------------------------------------------------------------------
(* Nothing before the approval *)

Unapproved == yc.state # "gone" /\ ~yc.fin

\* ApprovedFirst with the caches and the pass, none of which has seen a
\* finalizer; an object that does not exist has none.
ApprovedInv ==
    /\ yc.state = "absent" => ~yc.fin
    /\ Unapproved =>
        /\ templates = {}
        /\ \A r \in Resources : res[r] = 0
        /\ ~mview.fin
        /\ mgr.pc # "idle" => mgr.pc \in {"status", "patchStatus"} /\ ~mgr.copy.fin
        /\ \A n \in Nodes : /\ host[n] = NormalHost /\ kcm[n] = "on"
                            /\ agent[n] = IdleAgent /\ ~aview[n].fin

\* Users change no more than the object and the labels; a deletion marks only
\* what has its finalizer.
LEMMA ApprovedUser ==
    ASSUME TypeOK, ApprovedInv, User
    PROVE  ApprovedInv'
<1>1. UNCHANGED <<templates, res, mview, mgr, aview, agent, host, kcm>>
  BY DEF User, Create, Update, Delete, Relabel, mgrVars, agentVars
<1>2. /\ yc'.state = "absent" => ~yc'.fin
      /\ Unapproved' => Unapproved
  <2>1. CASE \E s \in Specs : Create(s)
    BY <2>1 DEF Create, NoCluster, ApprovedInv, Unapproved
  <2>2. CASE \E s \in Specs : Update(s)
    BY <2>2 DEF Update, TypeOK, Clusters, Unapproved
  <2>3. CASE Delete
    BY <2>3 DEF Delete, NoCluster, TypeOK, Clusters, Unapproved
  <2>4. CASE \E n \in Nodes, l \in Labels : Relabel(n, l)
    BY <2>4 DEF Relabel, ApprovedInv, Unapproved
  <2> QED BY <2>1, <2>2, <2>3, <2>4 DEF User
<1> QED BY <1>1, <1>2 DEF ApprovedInv

\* What a cache gets is the object as it is.
LEMMA ApprovedCaches ==
    ASSUME TypeOK, ApprovedInv,
           SyncManager \/ ManagerCrash \/ \E n \in Nodes : CacheStep(n) \/ AgentCrash(n)
    PROVE  ApprovedInv'
<1>1. CASE SyncManager
  BY <1>1 DEF SyncManager, ApprovedInv, Unapproved, apiVars, agentVars
<1>2. CASE ManagerCrash
  BY <1>2 DEF ManagerCrash, IdleManager, ApprovedInv, Unapproved, apiVars, agentVars
<1>3. ASSUME NEW n \in Nodes, NodeEvent(n) \/ LabelControlPlane(n) PROVE ApprovedInv'
  BY <1>3 DEF NodeEvent, LabelControlPlane, ApprovedInv, Unapproved, apiVars, agentVars
<1>4. ASSUME NEW n \in Nodes, SyncCluster(n) \/ SyncNode(n) PROVE ApprovedInv'
  <2>1. UNCHANGED <<yc, templates, res, mview, mgr, agent, host, kcm>>
    BY <1>4 DEF SyncCluster, SyncNode, apiVars, mgrVars
  <2>2. \A k \in Nodes : aview'[k].fin \in {yc.fin, aview[k].fin}
    <3>1. CASE SyncCluster(n)
      BY <3>1 DEF SyncCluster, ViewOf, TypeOK
    <3>2. CASE SyncNode(n)
      <4>1. aview' = [aview EXCEPT ![n] =
                [aview[n] EXCEPT !.label = nodeLabel[n], !.edge = edgeLabel[n]]]
        BY <3>2 DEF SyncNode
      <4>2. aview[n] \in Views
        BY DEF TypeOK
      <4>3. [aview[n] EXCEPT !.label = nodeLabel[n], !.edge = edgeLabel[n]].fin = aview[n].fin
        BY <4>2 DEF Views
      <4> QED BY <4>1, <4>3 DEF TypeOK
    <3> QED BY <1>4, <3>1, <3>2
  <2> QED BY <2>1, <2>2 DEF ApprovedInv, Unapproved
<1>5. ASSUME NEW n \in Nodes, AgentCrash(n) PROVE ApprovedInv'
  BY <1>5 DEF AgentCrash, IdleAgent, ViewOf, TypeOK, ApprovedInv, Unapproved, apiVars, mgrVars
<1> QED BY <1>1, <1>2, <1>3, <1>4, <1>5 DEF CacheStep

\* Before the approval the manager can only approve, and its patch adds the
\* finalizer.
LEMMA ApprovedManager ==
    ASSUME TypeOK, ApprovedInv, ManagerStep
    PROVE  ApprovedInv'
<1>1. UNCHANGED <<mview, aview, agent, host, kcm>>
  BY DEF ManagerStep, Approve, ApplyTrans, ApplyHub, ApplyTunnel, DeleteHub,
         DeleteTunnel, PatchMeta, PatchStatus, PatchStatusTo, MgrFrame, agentVars
<1>2. \/ yc' = yc \/ yc'.state = "gone"
      \/ yc'.fin /\ yc'.state = "present"
      \/ yc'.fin = yc.fin /\ yc'.state = yc.state
  <2>1. CASE PatchMeta
    <3>1. yc' = NoCluster("gone") => yc'.state = "gone"
      BY DEF NoCluster
    <3>2. yc.state = "present" /\ yc' = Approved => yc'.fin /\ yc'.state = "present"
      BY ApprovedIs
    <3> QED BY <2>1, <3>1, <3>2, MetaPatch
  <2>2. CASE PatchStatus
    BY <2>2, StatusPatch
  <2>3. CASE ~PatchMeta /\ ~PatchStatus
    BY <2>3 DEF ManagerStep, Approve, ApplyTrans, ApplyHub, ApplyTunnel, DeleteHub, DeleteTunnel
  <2> QED BY <2>1, <2>2, <2>3
<1>3. Unapproved' => Unapproved
  BY <1>2 DEF Unapproved
<1>4. yc'.state = "absent" => ~yc'.fin
  BY <1>2 DEF ApprovedInv
<1>5. ASSUME Unapproved
      PROVE  /\ UNCHANGED <<templates, res>>
             /\ mgr'.pc # "idle" => mgr'.pc \in {"status", "patchStatus"} /\ ~mgr'.copy.fin
  <2>1. CASE Approve
    BY <1>5, <2>1 DEF Approve, Begin, ApprovedInv
  <2>2. CASE PatchMeta
    BY <1>5, <2>2, MetaPatch DEF PatchMeta, ApprovedInv
  <2>3. CASE PatchStatus
    BY <1>5, <2>3, StatusPatch DEF PatchStatus
  <2>4. CASE ApplyTrans \/ ApplyHub \/ ApplyTunnel \/ DeleteHub \/ DeleteTunnel
    BY <1>5, <2>4 DEF ApplyTrans, ApplyHub, ApplyTunnel, DeleteHub, DeleteTunnel, ApprovedInv
  <2> QED BY <2>1, <2>2, <2>3, <2>4 DEF ManagerStep
<1> QED BY <1>1, <1>3, <1>4, <1>5 DEF ApprovedInv

\* Before the approval an agent does nothing at all.
LEMMA ApprovedAgent ==
    ASSUME TypeOK, ApprovedInv, NEW n \in Nodes, AgentStep(n)
    PROVE  ApprovedInv'
<1>1. ~Unapproved
  <2> SUFFICES ASSUME Unapproved PROVE FALSE
    OBVIOUS
  <2>1. agent[n].pc = "idle" /\ ~aview[n].fin
    BY DEF ApprovedInv, IdleAgent
  <2> QED BY <2>1 DEF AgentStep, AgentReconcile, IsApproved, EdgectlGet, SetupYurtHub, SetupKubelet,
                      RevertKubelet, RemoveYurtHub, Stage, ReportCondition, PatchNode
<1>2. yc'.state = yc.state /\ yc'.fin = yc.fin
  BY DEF AgentStep, AgentReconcile, EdgectlGet, SetupYurtHub, SetupKubelet, RevertKubelet,
         RemoveYurtHub, Stage, ChangeHost, ReportCondition, PatchNode, TypeOK, Clusters
<1> QED BY <1>1, <1>2 DEF ApprovedInv, Unapproved

\* ApprovedInv is inductive.
LEMMA ApprovedAlways == Spec => []ApprovedInv
<1>1. Init => ApprovedInv
  BY DEF Init, NoCluster, ViewOf, IdleManager, ApprovedInv
<1>2. TypeOK /\ ApprovedInv /\ [Next]_vars => ApprovedInv'
  <2>1. UNCHANGED vars /\ ApprovedInv => ApprovedInv'
    BY DEF vars, apiVars, mgrVars, agentVars, ApprovedInv, Unapproved
  <2> QED BY <2>1, ApprovedUser, ApprovedCaches, ApprovedManager, ApprovedAgent DEF Next
<1> QED BY <1>1, <1>2, TypeCorrect, PTL DEF Spec

\* Nothing is touched before the finalizer is in the API server: with any
\* number of nodes, stale caches and crashes.
THEOREM ApprovalComesFirst == Spec => []ApprovedFirst
<1>1. TypeOK /\ ApprovedInv => ApprovedFirst
  BY DEF ApprovedInv, Unapproved, ApprovedFirst
<1> QED BY <1>1, TypeCorrect, ApprovedAlways, PTL DEF Spec

-----------------------------------------------------------------------------
(* Conditions are true *)

\* A run of edgectl for the type made the host, or found yurt-hub not enabled
\* for it: then at a generation whose spec, while it lasts, says so.
Made(n, type, gen) ==
    \/ host[n] = HostOf(type)
    \/ /\ type \in ConvertTypes
       /\ yc.state = "present" /\ gen = yc.gen => yc.spec.hub[type] # "on"

\* CompletedIsReal with what a run knows between its stages, and of a run that
\* has ended well but not reported yet.
RealInv ==
    \A n \in Nodes :
        /\ agent[n].pc = "kubelet" /\ agent[n].op \in ConvertTypes => host[n].hub = agent[n].op
        /\ agent[n].pc = "hub" /\ agent[n].op = "NormalNode" => host[n].kubelet = "apiserver"
        /\ agent[n].pc = "report" /\ agent[n].ok => Made(n, agent[n].op, agent[n].gen)
        /\ yc.state = "present" /\ yc.cond[n].status = "True" /\ unreported[n] = FALSE
             => Made(n, yc.cond[n].reason, yc.cond[n].gen)

\* The object moves on under the hosts and the conditions: a spec changes only
\* with the generation, and nothing refers to a generation to come.
LEMMA RealObject ==
    ASSUME TypeOK, TypeOK', IssuedInv, RealInv, UNCHANGED <<agent, host, unreported>>,
           yc'.state = "present" =>
               /\ yc.state = "present" /\ yc'.cond = yc.cond
               /\ yc'.gen > yc.gen \/ (yc'.gen = yc.gen /\ yc'.spec = yc.spec)
    PROVE  RealInv'
<1>1. ASSUME NEW n \in Nodes, NEW type, NEW gen \in Nat, Made(n, type, gen),
             yc.state = "present" => gen <= yc.gen
      PROVE  Made(n, type, gen)'
  BY <1>1, GenTypes DEF Made, TypeOK, Clusters
<1>2. ASSUME NEW n \in Nodes, yc.state = "present"
      PROVE  agent[n].gen <= yc.gen /\ yc.cond[n].gen <= yc.gen
  BY <1>2 DEF IssuedInv, Held
<1> QED BY <1>1, <1>2, GenTypes DEF RealInv

\* Users and the manager.
LEMMA RealOthers ==
    ASSUME TypeOK, TypeOK', IssuedInv, ApprovedInv, RealInv, User \/ ManagerStep
    PROVE  RealInv'
<1>1. UNCHANGED <<agent, host, unreported>>
  BY DEF User, Create, Update, Delete, Relabel, ManagerStep, Approve, ApplyTrans, ApplyHub,
         ApplyTunnel, DeleteHub, DeleteTunnel, PatchMeta, PatchStatus, PatchStatusTo, MgrFrame, agentVars
<1>2. CASE \E s \in Specs : Create(s)
  <2>1. \A n \in Nodes : agent[n] = IdleAgent
    BY <1>2 DEF Create, ApprovedInv, Unapproved
  <2>2. \A n \in Nodes : yc'.cond[n].status = "None"
    BY <1>2 DEF Create, NoCluster, NoCondition
  <2> QED BY <1>1, <2>1, <2>2 DEF RealInv, IdleAgent
<1>3. CASE ~\E s \in Specs : Create(s)
  <2>1. yc = [state |-> yc.state, gen |-> yc.gen, spec |-> yc.spec, deleting |-> yc.deleting,
              fin |-> yc.fin, phase |-> yc.phase, obsGen |-> yc.obsGen, cond |-> yc.cond]
    BY DEF TypeOK, Clusters
  <2>2. yc'.state = "present" =>
               /\ yc.state = "present" /\ yc'.cond = yc.cond
               /\ yc'.gen > yc.gen \/ (yc'.gen = yc.gen /\ yc'.spec = yc.spec)
    <3>1. CASE \E s \in Specs : Update(s)
      BY <2>1, <3>1, GenTypes DEF Update
    <3>2. CASE Delete
      BY <2>1, <3>2, GenTypes DEF Delete, NoCluster
    <3>3. CASE PatchMeta
      BY <3>3, MetaPatch, ApprovedIs, GenTypes DEF NoCluster
    <3>4. CASE PatchStatus
      BY <3>4, StatusPatch, GenTypes
    <3>5. CASE ~PatchMeta /\ ~PatchStatus /\ (ManagerStep \/ \E n \in Nodes, l \in Labels : Relabel(n, l))
      BY <3>5, GenTypes DEF Relabel, ManagerStep, Approve, ApplyTrans, ApplyHub, ApplyTunnel,
                            DeleteHub, DeleteTunnel
    <3> QED BY <1>3, <3>1, <3>2, <3>3, <3>4, <3>5 DEF User
  <2> QED BY <1>1, <2>2, RealObject
<1> QED BY <1>2, <1>3

\* A pass or a crash of one agent that leaves the object, the host and its
\* history alone, outside the stages and with nothing to report.
LEMMA RealOutside ==
    ASSUME TypeOK, RealInv, NEW n \in Nodes, NEW a, agent' = [agent EXCEPT ![n] = a],
           a.pc \notin {"hub", "kubelet", "report"}, UNCHANGED <<yc, host, unreported>>
    PROVE  RealInv'
BY DEF RealInv, Made, TypeOK

\* edgectl enters its first stage, or has nothing to do and says so.
LEMMA RealGet ==
    ASSUME TypeOK, RealInv, NEW n \in Nodes, EdgectlGet(n)
    PROVE  RealInv'
<1>1. UNCHANGED <<yc, host, unreported>>
  BY DEF EdgectlGet, AgentFrame
<1>2. \A k \in Nodes \ {n} : agent'[k] = agent[k]
  BY DEF EdgectlGet, AgentGoto, TypeOK
<1>3. agent'[n].op = agent[n].op /\ agent[n].op \in NodeTypes
  BY DEF EdgectlGet, AgentGoto, TypeOK, Agents
<1>4. \/ agent'[n].pc \in {"label", FirstStage(agent[n].op)}
      \/ agent'[n].pc = "report" /\ agent'[n].ok = FALSE
      \/ /\ agent'[n].pc = "report" /\ agent[n].op \in ConvertTypes
         /\ yc.spec.hub[agent[n].op] # "on"
  BY DEF EdgectlGet, AgentGoto, TypeOK, Agents
<1> USE DEF Made
<1>5. Made(n, agent[n].op, yc.gen) \/ yc.spec.hub[agent[n].op] = "on" \/ agent[n].op = "NormalNode"
  BY <1>3 DEF NodeTypes
<1> QED BY <1>1, <1>2, <1>3, <1>4, <1>5 DEF RealInv, FirstStage, ConvertTypes

\* The stages.
LEMMA RealStage ==
    ASSUME TypeOK, RealInv, NEW n \in Nodes, NEW stage \in {"hub", "kubelet"},
           NEW op \in NodeTypes, NEW next \in {"hub", "kubelet", "report"},
           \/ op \in ConvertTypes /\ <<stage, next>> \in {<<"hub", "kubelet">>, <<"kubelet", "report">>}
           \/ op = "NormalNode" /\ <<stage, next>> \in {<<"kubelet", "hub">>, <<"hub", "report">>},
           Stage(n, stage, op, next)
    PROVE  RealInv'
<1>1. \A k \in Nodes \ {n} : /\ agent'[k] = agent[k] /\ host'[k] = host[k]
                              /\ unreported'[k] = unreported[k]
  BY DEF Stage, AgentGoto, Finish, ChangeHost, TypeOK
<1>2. host[n] \in Hosts /\ agent[n].pc = stage /\ agent[n].op = op /\ yc' = yc
  BY DEF Stage, ChangeHost, TypeOK
<1>3. \/ /\ host'[n] = Succeeded(op, stage, host[n])
         /\ agent'[n].pc = next /\ agent'[n].op = op
      \/ agent'[n].pc = "report" /\ agent'[n].ok = FALSE
  BY DEF Stage, AgentGoto, Finish, ChangeHost, TypeOK, Agents
<1>4. unreported'[n] = FALSE => host'[n] = host[n] /\ unreported[n] = FALSE
  BY Zenon DEF Stage, ChangeHost, TypeOK
<1>5. ASSUME yc.state = "present", yc.cond[n].status = "True", unreported'[n] = FALSE
      PROVE  Made(n, yc.cond[n].reason, yc.cond[n].gen)'
  BY <1>2, <1>4, <1>5 DEF RealInv, Made
<1>6. /\ agent'[n].pc = "kubelet" /\ agent'[n].op \in ConvertTypes => host'[n].hub = agent'[n].op
      /\ agent'[n].pc = "hub" /\ agent'[n].op = "NormalNode" => host'[n].kubelet = "apiserver"
      /\ agent'[n].pc = "report" /\ agent'[n].ok => host'[n] = HostOf(agent'[n].op)
  <2>1. CASE op \in ConvertTypes /\ stage = "kubelet"
    BY <1>2, <1>3, <2>1 DEF RealInv, Succeeded, HostOf, Hosts, ConvertTypes, NodeTypes
  <2>2. CASE op = "NormalNode" /\ stage = "hub"
    BY <1>2, <1>3, <2>2 DEF RealInv, Succeeded, HostOf, NormalHost, Hosts, ConvertTypes, NodeTypes
  <2>3. CASE op \in ConvertTypes /\ stage = "hub"
    BY <1>2, <1>3, <2>3 DEF Succeeded, HostOf, Hosts, ConvertTypes, NodeTypes
  <2>4. CASE op = "NormalNode" /\ stage = "kubelet"
    BY <1>2, <1>3, <2>4 DEF Succeeded, HostOf, NormalHost, Hosts, ConvertTypes, NodeTypes
  <2> QED BY <2>1, <2>2, <2>3, <2>4
<1>7. agent'[n].pc = "report" /\ agent'[n].ok => Made(n, agent[n].op, agent[n].gen)'
  BY <1>6 DEF Made
<1> DEFINE Real(k) ==
             /\ agent[k].pc = "kubelet" /\ agent[k].op \in ConvertTypes => host[k].hub = agent[k].op
             /\ agent[k].pc = "hub" /\ agent[k].op = "NormalNode" => host[k].kubelet = "apiserver"
             /\ agent[k].pc = "report" /\ agent[k].ok => Made(k, agent[k].op, agent[k].gen)
             /\ yc.state = "present" /\ yc.cond[k].status = "True" /\ unreported[k] = FALSE
                  => Made(k, yc.cond[k].reason, yc.cond[k].gen)
<1>8. Real(n)'
  BY <1>2, <1>5, <1>6, <1>7
<1>9. ASSUME NEW k \in Nodes \ {n} PROVE Real(k)'
  <2>1. Real(k)
    BY DEF RealInv
  <2> QED BY <1>1, <1>2, <2>1 DEF Made
<1> QED BY <1>8, <1>9 DEF RealInv

\* What a run reports is what it made.
LEMMA RealReport ==
    ASSUME TypeOK, TypeOK', RealInv, NEW n \in Nodes, ReportCondition(n)
    PROVE  RealInv'
<1>1. host' = host /\ agent' = [agent EXCEPT ![n] = [agent[n] EXCEPT !.pc = "label"]]
  BY DEF ReportCondition, AgentGoto
<1>2. agent'[n].pc = "label" /\ \A k \in Nodes \ {n} : agent'[k] = agent[k]
  BY <1>1 DEF TypeOK, Agents
<1>3. \/ UNCHANGED <<yc, unreported>>
      \/ /\ yc.state = "present"
         /\ yc' = [yc EXCEPT !.cond = [yc.cond EXCEPT ![n] = ConditionOf(agent[n])]]
         /\ unreported' = [unreported EXCEPT ![n] = FALSE]
  BY DEF ReportCondition
<1>4. /\ yc'.state = yc.state /\ yc'.gen = yc.gen /\ yc'.spec = yc.spec
      /\ \A k \in Nodes \ {n} : yc'.cond[k] = yc.cond[k] /\ unreported'[k] = unreported[k]
  BY <1>3 DEF TypeOK, Clusters
<1>5. \/ yc'.cond[n] = yc.cond[n] /\ unreported'[n] = unreported[n]
      \/ yc'.cond[n] = ConditionOf(agent[n])
  BY <1>3 DEF TypeOK, Clusters
<1>6. agent[n].pc = "report" /\ agent[n].ok \in BOOLEAN
  BY DEF ReportCondition, TypeOK, Agents
<1>7. ASSUME yc'.cond[n] = ConditionOf(agent[n]), yc'.cond[n].status = "True"
      PROVE  Made(n, yc.cond[n].reason, yc.cond[n].gen)'
  <2>1. agent[n].ok /\ yc'.cond[n].reason = agent[n].op /\ yc'.cond[n].gen = agent[n].gen
    BY <1>6, <1>7 DEF ConditionOf
  <2>2. Made(n, agent[n].op, agent[n].gen)
    BY <1>6, <2>1 DEF RealInv
  <2> QED BY <1>1, <1>4, <2>1, <2>2 DEF Made
<1> QED BY <1>1, <1>2, <1>4, <1>5, <1>7 DEF RealInv, Made

\* Every step of an agent keeps RealInv.
LEMMA RealAgent ==
    ASSUME TypeOK, TypeOK', RealInv, NEW n \in Nodes, AgentStep(n)
    PROVE  RealInv'
<1>1. CASE AgentReconcile(n)
  <2>1. agent' = agent \/ \E pc \in {"get", "label"} : \E op, edge : agent' = [agent EXCEPT ![n] =
            [pc |-> pc, op |-> op, gen |-> 0, ok |-> FALSE, edge |-> edge]]
    BY <1>1 DEF AgentReconcile
  <2>2. UNCHANGED <<yc, host, unreported>>
    BY <1>1 DEF AgentReconcile
  <2> QED BY <2>1, <2>2, RealOutside DEF RealInv, Made
<1>2. CASE EdgectlGet(n)
  BY <1>2, RealGet
<1>3. CASE SetupYurtHub(n) \/ SetupKubelet(n)
  BY <1>3, RealStage DEF SetupYurtHub, SetupKubelet, NodeTypes
<1>4. CASE RevertKubelet(n) \/ RemoveYurtHub(n)
  BY <1>4, RealStage DEF RevertKubelet, RemoveYurtHub, NodeTypes
<1>5. CASE ReportCondition(n)
  BY <1>5, RealReport
<1>6. CASE PatchNode(n)
  BY <1>6, RealOutside DEF PatchNode, IdleAgent
<1> QED BY <1>1, <1>2, <1>3, <1>4, <1>5, <1>6 DEF AgentStep

\* RealInv is inductive, with the invariants it rests on.
LEMMA RealAlways == Spec => [](TypeOK /\ IssuedInv /\ ApprovedInv /\ RealInv)
<1>1. Init => RealInv
  BY DEF Init, NoCluster, IdleAgent, RealInv
<1>2. TypeOK /\ TypeOK' /\ IssuedInv /\ ApprovedInv /\ RealInv /\ [Next]_vars => RealInv'
  <2> SUFFICES ASSUME TypeOK, TypeOK', IssuedInv, ApprovedInv, RealInv, [Next]_vars
               PROVE  RealInv'
    OBVIOUS
  <2>1. CASE UNCHANGED <<yc, agent, host, unreported>>
    BY <2>1 DEF RealInv, Made
  <2>2. CASE User \/ ManagerStep
    BY <2>2, RealOthers
  <2>3. CASE SyncManager \/ ManagerCrash \/ UNCHANGED vars
    BY <2>1, <2>3 DEF SyncManager, ManagerCrash, vars, apiVars, agentVars
  <2>4. ASSUME NEW n \in Nodes, CacheStep(n) PROVE RealInv'
    BY <2>1, <2>4 DEF CacheStep, NodeEvent, LabelControlPlane, SyncCluster, SyncNode, apiVars, agentVars
  <2>5. ASSUME NEW n \in Nodes, AgentStep(n) PROVE RealInv'
    BY <2>5, RealAgent
  <2>6. ASSUME NEW n \in Nodes, AgentCrash(n) PROVE RealInv'
    BY <2>6, RealOutside DEF AgentCrash, IdleAgent, apiVars
  <2> QED BY <2>2, <2>3, <2>4, <2>5, <2>6 DEF Next
<1> QED BY <1>1, <1>2, TypeCorrect, IssuedAlways, ApprovedAlways, PTL DEF Spec

\* A condition that counts is true of its host, or the host's change has not
\* been recorded: for any number of nodes, edits, labels, faults and crashes.
THEOREM ConditionsAreTrue == Spec => []CompletedIsReal
<1>1. TypeOK /\ RealInv => CompletedIsReal
  BY DEF TypeOK, RealInv, Made, CompletedIsReal
<1> QED BY <1>1, RealAlways, PTL

-----------------------------------------------------------------------------
(* Nothing left behind *)

Removed == \A r \in Resources : res[r] = 0

Busy == mgr.pc # "idle"

\* A copy c of the object is not later than the object, and one that does not
\* show the deletion is of an earlier generation than one that does.
Behind(c) ==
    c.state = "present" /\ yc.state # "gone" =>
        /\ yc.state = "present"
        /\ c.gen <= yc.gen
        /\ c.deleting => yc.deleting
        /\ yc.deleting /\ ~c.deleting => c.gen < yc.gen

\* Only an object with a finalizer is marked.
MarkedKept(c) == c.deleting => c.fin /\ c.state = "present"

\* The manager's cache is behind the object and its pass behind its cache; the
\* steps of a pass go with what its copy says.
OrderInv ==
    /\ Behind(mview) /\ MarkedKept(yc) /\ MarkedKept(mview)
    /\ Busy =>
        /\ Behind(mgr.copy) /\ MarkedKept(mgr.copy)
        /\ mgr.copy.state = "present"
        /\ mgr.copy.deleting => mview.state = "gone" \/ mview.deleting
        /\ mgr.pc \in {"hub", "tunnel"} => mgr.copy.fin /\ ~mgr.copy.deleting
        /\ mgr.pc = "delTunnel" => mgr.copy.deleting
        /\ mgr.pc = "patchStatus" =>
             IF mgr.copy.fin THEN mgr.copy.deleting /\ mgr.obsGen = mgr.copy.gen
             ELSE mgr.obsGen \in {mgr.copy.gen, mgr.copy.obsGen}

\* A version of the object whose deletion a pass has recorded as observed.
Recorded(c) == c.deleting /\ c.obsGen = c.gen

\* The removal is over: the object is gone, or some record says that a pass has
\* removed everything.
Settled ==
    \/ yc.state = "gone" \/ Recorded(yc) \/ Recorded(mview)
    \/ Busy /\ Recorded(mgr.copy)
    \/ mgr.pc = "patchStatus" /\ mgr.copy.fin

\* From then on there is nothing, and no pass that would apply anything; before
\* that, a pass that saw no error has removed what it has been through.
CleanInv ==
    /\ Settled => /\ Removed
                  /\ mview.state = "present" /\ mview.fin => mview.deleting
                  /\ Busy /\ mgr.copy.fin => mgr.copy.deleting
    /\ mgr.pc = "delTunnel" /\ mgr.err = FALSE => res["hub"] = 0
    /\ mgr.pc = "status" /\ mgr.copy.deleting /\ mgr.err = FALSE => Removed

\* The object changes under a manager that stands still.
LEMMA CleanObject ==
    ASSUME TypeOK, TypeOK', OrderInv, CleanInv, UNCHANGED <<mview, mgr, res>>,
           \/ /\ yc'.state = yc.state /\ yc'.gen = yc.gen /\ yc'.deleting = yc.deleting
              /\ yc'.fin = yc.fin /\ yc'.obsGen = yc.obsGen
           \/ /\ yc.state = "present" /\ yc'.state = "present" /\ yc'.gen = yc.gen + 1
              /\ yc.deleting => yc'.deleting
              /\ yc'.deleting => yc'.fin
              /\ yc'.obsGen < yc'.gen
    PROVE  OrderInv' /\ CleanInv'
<1>1. OrderInv'
  BY GenTypes DEF OrderInv, Behind, MarkedKept, Busy
<1>2. Settled' => Settled
  BY GenTypes DEF Settled, Recorded, Busy, TypeOK, Clusters
<1> QED BY <1>1, <1>2 DEF CleanInv, Removed, Busy

\* What users do.
LEMMA CleanUser ==
    ASSUME TypeOK, TypeOK', IssuedInv, ApprovedInv, OrderInv, CleanInv, User
    PROVE  OrderInv' /\ CleanInv'
<1>1. UNCHANGED <<mview, mgr, res>>
  BY DEF User, Create, Update, Delete, Relabel, mgrVars
<1>2. yc = [state |-> yc.state, gen |-> yc.gen, spec |-> yc.spec, deleting |-> yc.deleting,
            fin |-> yc.fin, phase |-> yc.phase, obsGen |-> yc.obsGen, cond |-> yc.cond]
  BY DEF TypeOK, Clusters
<1>3. CASE \E s \in Specs : Create(s)
  <2>1. yc.state = "absent" /\ yc'.state = "present" /\ yc'.deleting = FALSE
    BY <1>3 DEF Create, NoCluster
  <2>2. mview.state # "present" /\ ~Busy
    BY <2>1 DEF OrderInv, Behind
  <2>3. OrderInv'
    BY <1>1, <2>1, <2>2 DEF OrderInv, Behind, MarkedKept, Busy
  <2>4. Settled' => Settled
    BY <1>1, <2>1 DEF Settled, Recorded, Busy
  <2> QED BY <1>1, <2>3, <2>4 DEF CleanInv, Removed, Busy
<1>4. CASE \E s \in Specs : Update(s)
  BY <1>1, <1>2, <1>4, GenTypes, CleanObject DEF Update, OrderInv, MarkedKept, IssuedInv
<1>5. CASE Delete /\ yc.fin
  <2>1. /\ yc.state = "present" /\ yc'.state = "present" /\ yc'.gen = yc.gen + 1
        /\ yc'.deleting = TRUE /\ yc'.fin = yc.fin /\ yc'.obsGen = yc.obsGen
    BY <1>2, <1>5 DEF Delete
  <2>2. yc'.obsGen < yc'.gen
    BY <2>1, GenTypes DEF IssuedInv
  <2> QED BY <1>1, <1>5, <2>1, <2>2, CleanObject
<1>6. CASE Delete /\ ~yc.fin
  <2>1. yc.state = "present" /\ yc'.state = "gone" /\ yc'.deleting = FALSE
    BY <1>6 DEF Delete, NoCluster
  <2>2. Removed /\ ~mview.fin /\ (Busy => mgr.pc \in {"status", "patchStatus"} /\ ~mgr.copy.fin)
    BY <1>6, <2>1 DEF ApprovedInv, Unapproved, Removed, Busy
  <2>3. OrderInv'
    BY <1>1, <2>1 DEF OrderInv, Behind, MarkedKept, Busy
  <2> QED BY <1>1, <2>2, <2>3 DEF CleanInv, Removed, Busy
<1>7. CASE \E n \in Nodes, l \in Labels : Relabel(n, l)
  BY <1>1, <1>7, CleanObject DEF Relabel
<1> QED BY <1>3, <1>4, <1>5, <1>6, <1>7 DEF User

\* Agents and edgectl change no more of the object than a condition.
LEMMA CleanAgents ==
    ASSUME TypeOK, TypeOK', OrderInv, CleanInv, NEW n \in Nodes,
           CacheStep(n) \/ AgentStep(n) \/ AgentCrash(n)
    PROVE  OrderInv' /\ CleanInv'
<1>1. UNCHANGED <<mview, mgr, res>>
  BY DEF CacheStep, NodeEvent, LabelControlPlane, SyncCluster, SyncNode, AgentCrash, AgentStep, AgentReconcile, EdgectlGet, SetupYurtHub,
         SetupKubelet, RevertKubelet, RemoveYurtHub, Stage, ChangeHost, ReportCondition, PatchNode,
         AgentFrame, apiVars, mgrVars
<1>2. /\ yc'.state = yc.state /\ yc'.gen = yc.gen /\ yc'.deleting = yc.deleting
      /\ yc'.fin = yc.fin /\ yc'.obsGen = yc.obsGen
  BY DEF CacheStep, NodeEvent, LabelControlPlane, SyncCluster, SyncNode, AgentCrash, AgentStep, AgentReconcile, EdgectlGet, SetupYurtHub,
         SetupKubelet, RevertKubelet, RemoveYurtHub, Stage, ChangeHost, ReportCondition, PatchNode,
         apiVars, TypeOK, Clusters
<1> QED BY <1>1, <1>2, CleanObject

\* The manager's cache catches up.
LEMMA CleanCaches ==
    ASSUME TypeOK, TypeOK', OrderInv, CleanInv, SyncManager \/ ManagerCrash
    PROVE  OrderInv' /\ CleanInv'
<1>1. UNCHANGED <<yc, res>> /\ mview' \in {mview, yc} /\ (mgr' = mgr \/ mgr' = IdleManager)
  BY DEF SyncManager, ManagerCrash, apiVars
<1>2. mgr'.pc # "idle" => mgr' = mgr
  BY <1>1 DEF IdleManager
<1>3. Settled' => Settled
  BY <1>1, <1>2 DEF Settled, Recorded, Busy
<1>4. Settled /\ yc.state = "present" => yc.deleting
  BY DEF Settled, Recorded, OrderInv, Behind, MarkedKept, Busy
<1>5. yc.gen \in Nat
  BY DEF TypeOK, Clusters
<1>6. OrderInv'
  BY <1>1, <1>2, <1>5 DEF OrderInv, Behind, MarkedKept, Busy, TypeOK, Clusters
<1> QED BY <1>1, <1>2, <1>3, <1>4, <1>6 DEF CleanInv, Removed, Busy

\* A pass that begins on the cached copy: to approve, to apply, to remove.
LEMMA CleanBegin ==
    ASSUME TypeOK, OrderInv, CleanInv, NEW pc \in {"status", "hub", "delTunnel"}, NEW err \in BOOLEAN,
           mview.state = "present", UNCHANGED <<yc, mview>>, Begin(pc, err),
           \/ pc = "status" /\ ~mview.fin /\ res' = res
           \/ pc = "hub" /\ mview.fin /\ ~mview.deleting /\ res' = res
           \/ /\ pc = "delTunnel" /\ mview.fin /\ mview.deleting
              /\ res' = Without({"hub"}) \/ (err = TRUE /\ res' = res)
    PROVE  OrderInv' /\ CleanInv'
<1>1. mgr'.pc = pc /\ mgr'.copy = mview /\ mgr'.err = err
  BY DEF Begin
<1>2. OrderInv'
  BY <1>1 DEF OrderInv, Behind, MarkedKept, Busy
<1>3. Settled' => Settled
  BY <1>1 DEF Settled, Recorded, Busy
<1>4. Removed => Removed'
  BY DEF Removed, Without
<1>5. pc = "delTunnel" /\ err = FALSE => res'["hub"] = 0
  BY DEF Without, Resources
<1>6. pc = "status" => mview.deleting = FALSE
  BY DEF OrderInv, MarkedKept, TypeOK, Clusters
<1> QED BY <1>1, <1>2, <1>3, <1>4, <1>5, <1>6 DEF CleanInv, Busy

\* The parts of a pass that follow.
LEMMA CleanGoto ==
    ASSUME TypeOK, OrderInv, CleanInv, NEW err \in BOOLEAN, UNCHANGED <<yc, mview>>,
           \/ mgr.pc = "hub" /\ Goto("tunnel", err)
           \/ mgr.pc = "tunnel" /\ Goto("status", err)
           \/ /\ mgr.pc = "delTunnel" /\ Goto("status", err)
              /\ res' = Without(TunnelParts) \/ res' = Without({"server"}) \/ res' = res
              /\ err = FALSE => mgr.err = FALSE /\ res' = Without(TunnelParts)
    PROVE  OrderInv' /\ CleanInv'
<1>1. mgr'.copy = mgr.copy /\ mgr'.pc \in {"tunnel", "status"} /\ mgr'.err = err
  BY DEF Goto, TypeOK, Managers
<1>2. OrderInv'
  BY <1>1 DEF OrderInv, Behind, MarkedKept, Busy, Goto, TypeOK, Managers
<1>3. Settled' => Settled
  BY <1>1 DEF Settled, Recorded, Busy
<1>4. CASE mgr.pc \in {"hub", "tunnel"}
  <2>1. mgr.copy.fin /\ ~mgr.copy.deleting /\ Busy
    BY <1>4 DEF OrderInv, Busy
  <2>2. ~Settled
    BY <2>1 DEF CleanInv
  <2> QED BY <1>1, <1>2, <1>3, <2>1, <2>2 DEF CleanInv
<1>5. CASE mgr.pc = "delTunnel"
  <2>1. Removed => Removed'
    BY <1>5 DEF Removed, Without
  <2>2. err = FALSE => Removed'
    BY <1>5 DEF CleanInv, Removed, Without, Resources
  <2>3. mgr'.pc = "status"
    BY <1>5 DEF Goto, TypeOK, Managers
  <2> QED BY <1>1, <1>2, <1>3, <1>5, <2>1, <2>2, <2>3 DEF CleanInv, Busy
<1> QED BY <1>4, <1>5

\* The patch of finalizer and spec.
LEMMA CleanPatchMeta ==
    ASSUME TypeOK, TypeOK', IssuedInv, OrderInv, CleanInv, PatchMeta
    PROVE  OrderInv' /\ CleanInv'
<1>1. /\ mgr.pc = "status" /\ mgr'.pc = "patchStatus" /\ mgr'.copy = mgr.copy
      /\ mgr'.obsGen = ObservedGen /\ UNCHANGED <<mview, res>>
  BY MetaPatch
<1>2. \/ yc' = yc
      \/ mgr.copy.fin /\ yc' = NoCluster("gone")
      \/ ~mgr.copy.fin /\ yc.state = "present" /\ yc' = Approved
  BY MetaPatch
<1>3. CASE ~mgr.copy.fin
  <2>1. yc' = yc \/ /\ yc.state = "present" /\ yc'.state = "present" /\ yc'.fin
                    /\ yc'.deleting = yc.deleting /\ yc'.obsGen = yc.obsGen
                    /\ yc'.gen \in {yc.gen, yc.gen + 1}
    BY <1>2, <1>3, ApprovedIs
  <2>2. yc.state # "gone" => yc.obsGen <= yc.gen
    BY DEF IssuedInv
  <2>3. Settled' => Settled
    BY <1>1, <1>3, <2>1, <2>2, GenTypes DEF Settled, Recorded, Busy
  <2>4. OrderInv'
    BY <1>1, <1>3, <2>1, GenTypes DEF OrderInv, Behind, MarkedKept, Busy, ObservedGen
  <2> QED BY <1>1, <1>3, <2>3, <2>4 DEF CleanInv, Removed, Busy
<1>4. CASE mgr.copy.fin
  <2>1. mgr.copy.deleting /\ ObservedGen = mgr.copy.gen
    BY <1>4, MetaPatch DEF Release, AllDone
  <2>2. Removed
    BY <1>1, <2>1 DEF ObservedGen, CleanInv, Settled, Recorded, Busy, TypeOK, Managers
  <2>3. mview.state = "present" => mview.deleting
    BY <1>1, <2>1 DEF OrderInv, Busy
  <2>4. OrderInv'
    BY <1>1, <1>2, <1>4, <2>1, GenTypes DEF NoCluster, OrderInv, Behind, MarkedKept, Busy
  <2> QED BY <1>1, <1>4, <2>1, <2>2, <2>3, <2>4 DEF CleanInv, Removed, Busy
<1> QED BY <1>3, <1>4

\* The patch of the status: what it records as observed has been removed.
LEMMA CleanPatchStatus ==
    ASSUME TypeOK, TypeOK', OrderInv, CleanInv, PatchStatus
    PROVE  OrderInv' /\ CleanInv'
<1> DEFINE obsGen == IF mgr.pc = "status" THEN ObservedGen ELSE mgr.obsGen
<1>1. (mgr.pc = "status" /\ mgr.copy.fin) \/ mgr.pc = "patchStatus"
  BY StatusPatch
<1>2. mgr'.pc = "idle" /\ UNCHANGED <<mview, res>>
  BY StatusPatch
<1>3. /\ yc'.state = yc.state /\ yc'.gen = yc.gen /\ yc'.deleting = yc.deleting /\ yc'.fin = yc.fin
      /\ \/ yc'.obsGen = yc.obsGen
         \/ yc.state = "present" /\ yc'.obsGen = obsGen /\ obsGen # mgr.copy.obsGen
  BY StatusPatch
<1>4. OrderInv'
  BY <1>2, <1>3 DEF OrderInv, Behind, MarkedKept, Busy
<1>5. ASSUME Recorded(yc)', ~Recorded(yc)
      PROVE  Removed /\ (mview.state = "present" /\ mview.fin => mview.deleting)
  <2>1. /\ yc.state = "present" /\ yc.deleting /\ obsGen = yc.gen /\ obsGen # mgr.copy.obsGen
    BY <1>3, <1>5 DEF Recorded
  <2>2. Busy /\ obsGen = mgr.copy.gen
    BY <1>1, <2>1 DEF ObservedGen, OrderInv, Busy
  <2>3. mgr.copy.deleting /\ mgr.copy.fin
    BY <2>1, <2>2, GenTypes DEF OrderInv, Behind, MarkedKept
  <2>4. Removed
    <3>1. CASE mgr.pc = "patchStatus"
      BY <2>3, <3>1 DEF CleanInv, Settled
    <3>2. CASE mgr.pc = "status"
      <4>1. mgr.err = FALSE
        BY <2>1, <3>2 DEF ObservedGen, TypeOK, Managers
      <4> QED BY <2>3, <3>2, <4>1 DEF CleanInv
    <3> QED BY <1>1, <3>1, <3>2
  <2> QED BY <2>2, <2>3, <2>4 DEF OrderInv
<1>6. Settled' => Settled \/ (Recorded(yc)' /\ ~Recorded(yc))
  BY <1>2, <1>3 DEF Settled, Recorded, Busy
<1> QED BY <1>2, <1>4, <1>5, <1>6 DEF CleanInv, Removed, Busy

\* Every step of the manager, when no failed read is taken for an object that is
\* not there.
LEMMA CleanManager ==
    ASSUME "swallow" \notin FaultKinds, TypeOK, TypeOK', IssuedInv, OrderInv, CleanInv, ManagerStep
    PROVE  OrderInv' /\ CleanInv'
<1>1. ~Fault("swallow") /\ mgr.err \in BOOLEAN
  BY DEF Fault, TypeOK, Managers
<1>2. CASE Approve
  BY <1>2, CleanBegin DEF Approve, MgrFrame
<1>3. CASE ApplyTrans
  BY <1>3, CleanBegin DEF ApplyTrans, MgrFrame
<1>4. CASE DeleteHub
  <2>1. \E err \in BOOLEAN : /\ Begin("delTunnel", err)
                             /\ res' = Without({"hub"}) \/ (err = TRUE /\ res' = res)
    BY <1>1, <1>4 DEF DeleteHub
  <2> QED BY <1>4, <2>1, CleanBegin DEF DeleteHub, MgrFrame
<1>5. CASE ApplyHub
  BY <1>1, <1>5, CleanGoto DEF ApplyHub, MgrFrame
<1>6. CASE ApplyTunnel
  <2>1. \E err \in BOOLEAN : Goto("status", err)
    BY <1>1, <1>6 DEF ApplyTunnel
  <2> QED BY <1>6, <2>1, CleanGoto DEF ApplyTunnel, MgrFrame
<1>7. CASE DeleteTunnel
  <2>1. \E err \in BOOLEAN :
          /\ Goto("status", err)
          /\ res' = Without(TunnelParts) \/ res' = Without({"server"}) \/ res' = res
          /\ err = FALSE => mgr.err = FALSE /\ res' = Without(TunnelParts)
    BY <1>1, <1>7 DEF DeleteTunnel
  <2> QED BY <1>7, <2>1, CleanGoto DEF DeleteTunnel, MgrFrame
<1>8. CASE PatchMeta
  BY <1>8, CleanPatchMeta
<1>9. CASE PatchStatus
  BY <1>9, CleanPatchStatus
<1> QED BY <1>2, <1>3, <1>4, <1>5, <1>6, <1>7, <1>8, <1>9 DEF ManagerStep

\* Both are inductive together.
LEMMA CleanAlways ==
    ASSUME "swallow" \notin FaultKinds
    PROVE  Spec => [](OrderInv /\ CleanInv)
<1>1. Init => OrderInv /\ CleanInv
  BY DEF Init, NoCluster, IdleManager, OrderInv, Behind, MarkedKept, Busy, CleanInv, Settled, Recorded
<1>2. TypeOK /\ TypeOK' /\ IssuedInv /\ ApprovedInv /\ OrderInv /\ CleanInv /\ [Next]_vars
        => OrderInv' /\ CleanInv'
  <2>1. UNCHANGED vars /\ TypeOK /\ TypeOK' /\ OrderInv /\ CleanInv => OrderInv' /\ CleanInv'
    BY CleanObject DEF vars, apiVars, mgrVars
  <2> QED BY <2>1, CleanUser, CleanAgents, CleanCaches, CleanManager DEF Next
<1> QED BY <1>1, <1>2, TypeCorrect, IssuedAlways, ApprovedAlways, PTL DEF Spec

\* An object that is gone has left none of its resources behind and no later
\* pass brings one back: unless a failed read passes for an absent object, with
\* any number of nodes, edits, other faults and crashes of the manager.
THEOREM GoneIsClean ==
    ASSUME "swallow" \notin FaultKinds
    PROVE  Spec => []GoneMeansClean
<1>1. CleanInv => GoneMeansClean
  BY DEF CleanInv, Settled, Removed, GoneMeansClean
<1> QED BY <1>1, CleanAlways, PTL

-----------------------------------------------------------------------------
(* What a step may do to the object *)

\* The number that a pass has computed and not patched yet.
Recording ==
    mgr.pc = "patchStatus" => mgr.obsGen \in {mgr.copy.gen, mgr.copy.obsGen}

\* What the API server shows as observed is not later than what the manager has
\* in its cache, or than what its pass works on; a pass is never ahead of the
\* cache.
StatusInv ==
    /\ yc.fin => yc.state = "present"
    /\ yc.state = "present" /\ mview.state = "present" => yc.obsGen <= mview.gen
    /\ Busy =>
        /\ Recording
        /\ yc.state = "present" => yc.obsGen <= mgr.copy.gen
        /\ yc.state = "present" /\ mview.state = "present" => mgr.copy.gen <= mview.gen

\* The object changes, and neither the cache nor the pass does.
LEMMA StatusObject ==
    ASSUME TypeOK, TypeOK', StatusInv, UNCHANGED <<mview, mgr>>,
           yc'.fin => yc'.state = "present",
           yc'.state = "present" =>
               \/ yc'.obsGen = 0
               \/ yc.state = "present" /\ yc'.obsGen = yc.obsGen,
           yc'.state = "present" /\ Busy /\ mview.state = "present" => yc.state = "present"
    PROVE  StatusInv'
BY GenTypes DEF StatusInv, Busy, Recording

\* The steps that are neither the user's nor the deferred function's keep what
\* the object shows but for conditions.
LEMMA StatusKept ==
    ASSUME TypeOK,
           \/ SyncManager \/ ManagerCrash
           \/ ManagerStep /\ ~PatchMeta /\ ~PatchStatus
           \/ \E n \in Nodes : CacheStep(n) \/ AgentStep(n) \/ AgentCrash(n)
           \/ UNCHANGED vars
    PROVE  /\ yc'.state = yc.state /\ yc'.fin = yc.fin /\ yc'.deleting = yc.deleting
           /\ yc'.obsGen = yc.obsGen
           /\ yc.state = "gone" => yc' = yc
<1>1. ASSUME NEW n \in Nodes, ReportCondition(n)
      PROVE  yc' = yc \/ (yc.state = "present" /\ yc' = [yc EXCEPT !.cond[n] = ConditionOf(agent[n])])
  BY <1>1 DEF ReportCondition
<1>2. ASSUME NEW n \in Nodes, CacheStep(n) \/ AgentStep(n) \/ AgentCrash(n), ~ReportCondition(n)
      PROVE  yc' = yc
  BY <1>2 DEF CacheStep, NodeEvent, LabelControlPlane, SyncCluster, SyncNode, AgentCrash, AgentStep, AgentReconcile, EdgectlGet, SetupYurtHub,
              SetupKubelet, RevertKubelet, RemoveYurtHub, Stage, ChangeHost, PatchNode, apiVars
<1>3. CASE SyncManager \/ ManagerCrash \/ UNCHANGED vars
  BY <1>3 DEF SyncManager, ManagerCrash, vars, apiVars
<1>4. CASE ManagerStep /\ ~PatchMeta /\ ~PatchStatus
  BY <1>4 DEF ManagerStep, Approve, ApplyTrans, ApplyHub, ApplyTunnel, DeleteHub, DeleteTunnel
<1>5. ASSUME NEW n \in Nodes, CacheStep(n) \/ AgentStep(n) \/ AgentCrash(n)
      PROVE  /\ yc'.state = yc.state /\ yc'.fin = yc.fin /\ yc'.deleting = yc.deleting
             /\ yc'.obsGen = yc.obsGen
             /\ yc.state = "gone" => yc' = yc
  BY <1>1, <1>2, <1>5 DEF TypeOK, Clusters
<1> QED BY <1>3, <1>4, <1>5

\* What users make of it.
LEMMA UserObject ==
    ASSUME TypeOK, (\E s \in Specs : Update(s)) \/ Delete
    PROVE  /\ yc.state = "present" /\ yc'.state \in {"present", "gone"}
           /\ yc'.state = "present" =>
                yc'.obsGen = yc.obsGen /\ yc'.fin = yc.fin /\ (yc.deleting => yc'.deleting)
           /\ yc'.state = "gone" => ~yc.fin /\ ~yc'.fin
<1>1. yc = [state |-> yc.state, gen |-> yc.gen, spec |-> yc.spec, deleting |-> yc.deleting,
            fin |-> yc.fin, phase |-> yc.phase, obsGen |-> yc.obsGen, cond |-> yc.cond]
  BY DEF TypeOK, Clusters
<1>2. CASE \E s \in Specs : Update(s)
  BY <1>1, <1>2 DEF Update
<1>3. CASE Delete /\ yc.fin
  BY <1>1, <1>3 DEF Delete
<1>4. CASE Delete /\ ~yc.fin
  BY <1>4 DEF Delete, NoCluster
<1> QED BY <1>2, <1>3, <1>4

-----------------------------------------------------------------------------
(* The status never goes back *)

\* A user creates, edits or deletes the object, or relabels a node.
LEMMA StatusUser ==
    ASSUME TypeOK, TypeOK', IssuedInv, StatusInv, User
    PROVE  StatusInv'
<1>1. UNCHANGED <<mview, mgr>>
  BY DEF User, Create, Update, Delete, Relabel, mgrVars
<1>2. CASE \E s \in Specs : Create(s)
  <2>1. yc.state = "absent" /\ yc'.state = "present" /\ yc'.obsGen = 0 /\ yc.gen = 0
    BY <1>2 DEF Create, NoCluster, IssuedInv
  <2>2. mview.gen \in Nat /\ mgr.copy.gen \in Nat /\ mview.gen <= 0 /\ mgr.copy.gen <= 0
    BY <2>1, GenTypes DEF IssuedInv, Held
  <2>3. Recording' <=> Recording
    BY <1>1 DEF Recording
  <2> QED BY <1>1, <2>1, <2>2, <2>3 DEF StatusInv, Busy
<1>3. CASE (\E s \in Specs : Update(s)) \/ Delete
  <2>1. /\ yc.state = "present"
        /\ yc'.state = "present" => yc'.obsGen = yc.obsGen
        /\ yc'.fin => yc'.state = "present"
    BY <1>3, UserObject
  <2> QED BY <1>1, <2>1, StatusObject
<1>4. CASE \E n \in Nodes, l \in Labels : Relabel(n, l)
  BY <1>1, <1>4 DEF Relabel, StatusInv, Busy, Recording
<1> QED BY <1>2, <1>3, <1>4 DEF User

\* A cache gets a version of the object.
LEMMA StatusCaches ==
    ASSUME TypeOK, IssuedInv, StatusInv, SyncManager \/ ManagerCrash
    PROVE  StatusInv'
<1>1. /\ yc' = yc /\ mgr' \in {mgr, IdleManager}
      /\ mview' = yc \/ (mview' = mview /\ mgr' = IdleManager)
  BY DEF SyncManager, ManagerCrash, apiVars
<1>2. yc.state = "present" => yc.obsGen <= yc.gen /\ mgr.copy.gen <= yc.gen
  BY DEF IssuedInv, Held
<1> QED BY <1>1, <1>2 DEF StatusInv, Busy, Recording, IdleManager

\* The manager takes a step of its pass, or is killed.
LEMMA StatusManager ==
    ASSUME TypeOK, TypeOK', IssuedInv, StatusInv, ManagerStep
    PROVE  StatusInv'
<1>1. CASE PatchMeta
  <2>1. ObservedGen \in {mgr.copy.gen, mgr.copy.obsGen}
    BY DEF ObservedGen
  <2> QED BY <1>1, <2>1, MetaPatch, ApprovedIs DEF StatusInv, Busy, Recording, NoCluster
<1>2. CASE PatchStatus
  <2>1. yc'.obsGen = yc.obsGen \/ yc'.obsGen = mgr.copy.gen
    BY <1>2, StatusPatch DEF ObservedGen, StatusInv, Busy, Recording
  <2> QED BY <1>2, <2>1, StatusPatch DEF StatusInv, Busy
<1>3. CASE Approve \/ ApplyTrans \/ DeleteHub
  <2>1. /\ mview.state = "present" /\ yc' = yc /\ mview' = mview
        /\ mgr'.pc # "patchStatus" /\ mgr'.copy = mview
    BY <1>3 DEF Approve, ApplyTrans, DeleteHub, Begin, MgrFrame
  <2> QED BY <2>1, GenTypes DEF StatusInv, Busy, Recording
<1>4. CASE ApplyHub \/ ApplyTunnel \/ DeleteTunnel
  <2>1. /\ yc' = yc /\ mview' = mview /\ Busy
        /\ mgr'.pc # "patchStatus" /\ mgr'.copy = mgr.copy
    <3>1. \E err : Goto("tunnel", err) \/ Goto("status", err)
      BY <1>4 DEF ApplyHub, ApplyTunnel, DeleteTunnel
    <3>2. mgr'.pc \in {"tunnel", "status"} /\ mgr'.copy = mgr.copy
      BY <3>1 DEF Goto, TypeOK, Managers
    <3> QED BY <1>4, <3>2 DEF ApplyHub, ApplyTunnel, DeleteTunnel, MgrFrame, Busy
  <2> QED BY <2>1 DEF StatusInv, Busy, Recording
<1> QED BY <1>1, <1>2, <1>3, <1>4 DEF ManagerStep

\* StatusInv is inductive.
LEMMA StatusAlways == Spec => []StatusInv
<1>1. Init => StatusInv
  BY DEF Init, NoCluster, IdleManager, StatusInv, Busy
<1>2. TypeOK /\ TypeOK' /\ IssuedInv /\ StatusInv /\ [Next]_vars => StatusInv'
  <2> SUFFICES ASSUME TypeOK, TypeOK', IssuedInv, StatusInv, [Next]_vars PROVE StatusInv'
    OBVIOUS
  <2>1. CASE UNCHANGED vars
    BY <2>1 DEF vars, apiVars, mgrVars, StatusInv, Busy, Recording
  <2>2. ASSUME NEW n \in Nodes, CacheStep(n) \/ AgentStep(n) \/ AgentCrash(n)
        PROVE  StatusInv'
    <3>1. UNCHANGED <<mview, mgr>>
      BY <2>2 DEF CacheStep, NodeEvent, LabelControlPlane, SyncCluster, SyncNode, AgentCrash, AgentStep, AgentReconcile, EdgectlGet, SetupYurtHub,
                  SetupKubelet, RevertKubelet, RemoveYurtHub, Stage, ChangeHost, ReportCondition,
                  PatchNode, AgentFrame, mgrVars
    <3> QED BY <2>2, <3>1, StatusKept, StatusObject DEF StatusInv
  <2> QED BY <2>1, <2>2, StatusUser, StatusCaches, StatusManager DEF Next
<1> QED BY <1>1, <1>2, TypeCorrect, IssuedAlways, PTL DEF Spec

\* However old the copies are that passes work on and wherever they are cut off,
\* an observed generation is never lowered, an approval or a deletion never
\* undone, and an object that is gone does not come back.
THEOREM StatusKeepsRising == Spec => StatusNeverRegresses
<1> DEFINE Rises ==
        /\ yc.state = "present" /\ yc'.state = "present" =>
             /\ yc.obsGen <= yc'.obsGen
             /\ yc.fin => yc'.fin
             /\ yc.deleting => yc'.deleting
        /\ yc.state = "gone" => yc' = yc
<1>1. TypeOK /\ TypeOK' /\ StatusInv /\ [Next]_vars => Rises
  <2> SUFFICES ASSUME TypeOK, TypeOK', StatusInv, [Next]_vars PROVE Rises
    OBVIOUS
  <2>1. CASE User
    <3>1. CASE \E s \in Specs : Create(s)
      BY <3>1 DEF Create
    <3>2. CASE (\E s \in Specs : Update(s)) \/ Delete
      BY <3>2, UserObject, GenTypes
    <3>3. CASE \E n \in Nodes, l \in Labels : Relabel(n, l)
      BY <3>3, GenTypes DEF Relabel
    <3> QED BY <2>1, <3>1, <3>2, <3>3 DEF User
  <2>2. CASE PatchMeta
    <3>1. yc' = NoCluster("gone") => yc'.state = "gone"
      BY DEF NoCluster
    <3>2. yc.state = "present" /\ yc' = Approved =>
            yc'.fin /\ yc'.state = "present" /\ yc'.obsGen = yc.obsGen /\ yc'.deleting = yc.deleting
      BY ApprovedIs
    <3>3. yc.obsGen <= yc.obsGen
      BY GenTypes
    <3> QED BY <2>2, <3>1, <3>2, <3>3, MetaPatch
  <2>3. CASE PatchStatus
    <3>1. yc'.obsGen = yc.obsGen \/ yc'.obsGen = mgr.copy.gen
      BY <2>3, StatusPatch DEF ObservedGen, StatusInv, Busy, Recording
    <3> QED BY <2>3, <3>1, StatusPatch, GenTypes DEF StatusInv, Busy
  <2> QED BY <2>1, <2>2, <2>3, StatusKept, GenTypes DEF Next
<1>2. TypeOK /\ TypeOK' /\ StatusInv /\ [Next]_vars => [Rises]_vars
  BY <1>1
<1> QED BY <1>2, TypeCorrect, StatusAlways, PTL DEF Spec, StatusNeverRegresses

-----------------------------------------------------------------------------
(* The observed generation is that of work done *)

\* A pass that has seen no error has applied what it has been through.
AppliedInv ==
    mgr.copy.fin /\ ~mgr.copy.deleting /\ NoNil(mgr.copy.spec) /\ mgr.err = FALSE =>
        /\ mgr.pc = "tunnel" => res["hub"] = mgr.copy.gen
        /\ mgr.pc = "status" => UpToDate(mgr.copy.spec, mgr.copy.gen)

\* A step of the manager keeps what a pass has applied or removed by then.
LEMMA AppliedManager ==
    ASSUME "swallow" \notin FaultKinds, TypeOK, OrderInv, AppliedInv, ManagerStep
    PROVE  AppliedInv'
<1>1. ~Fault("swallow") /\ mgr.err \in BOOLEAN /\ mgr \in Managers
  <2>1. mgr \in Managers
    BY DEF TypeOK
  <2>2. mgr.err \in BOOLEAN
    BY <2>1 DEF Managers
  <2> QED BY <2>1, <2>2 DEF Fault
<1>2. CASE Approve
  BY <1>2 DEF Approve, Begin, AppliedInv
<1>3. CASE ApplyTrans
  BY <1>3 DEF ApplyTrans, Begin, AppliedInv
<1>4. CASE ApplyHub
  <2>1. \/ Goto("tunnel", TRUE)
        \/ Goto("tunnel", mgr.err) /\ res' = [res EXCEPT !["hub"] = mgr.copy.gen]
    BY <1>4 DEF ApplyHub
  <2>2. res' = [res EXCEPT !["hub"] = mgr.copy.gen] => res'["hub"] = mgr.copy.gen
    BY DEF TypeOK, Resources
  <2> QED BY <1>1, <2>1, <2>2 DEF Goto, AppliedInv, Managers
<1>5. CASE ApplyTunnel
  <2> DEFINE flag == mgr.copy.spec.tunnel
             done == [r \in Resources |->
                 IF r \notin TunnelParts THEN res[r] ELSE IF flag[r] = "on" THEN mgr.copy.gen ELSE 0]
  <2>1. mgr.pc = "tunnel"
    BY <1>5 DEF ApplyTunnel
  <2>2. \/ Goto("status", TRUE)
        \/ flag["server"] = "nil" \/ flag["agent"] = "nil"
        \/ Goto("status", mgr.err) /\ res' = done
    BY <1>1, <1>5 DEF ApplyTunnel
  <2>3. CASE Goto("status", TRUE)
    BY <1>1, <2>3 DEF Goto, AppliedInv, Managers
  <2>4. CASE flag["server"] = "nil" \/ flag["agent"] = "nil"
    <3>1. ~NoNil(mgr.copy.spec)
      BY <2>4 DEF NoNil, TunnelParts
    <3>2. mgr'.copy = mgr.copy
      <4>1. \E err : Goto("status", err)
        BY <1>5 DEF ApplyTunnel
      <4> QED BY <1>1, <4>1 DEF Goto, Managers
    <3> QED BY <3>1, <3>2 DEF AppliedInv
  <2>5. CASE Goto("status", mgr.err) /\ res' = done
    <3>1. mgr'.copy = mgr.copy /\ mgr'.pc = "status" /\ mgr'.err = mgr.err
      BY <1>1, <2>5 DEF Goto, Managers
    <3>2. res'["hub"] = res["hub"]
          /\ \A p \in TunnelParts : res'[p] = IF flag[p] = "on" THEN mgr.copy.gen ELSE 0
      BY <2>5 DEF TunnelParts, Resources
    <3> QED BY <2>1, <3>1, <3>2 DEF AppliedInv, UpToDate
  <2> QED BY <2>2, <2>3, <2>4, <2>5
<1>6. CASE DeleteHub
  BY <1>6 DEF DeleteHub, Begin, AppliedInv
<1>7. CASE DeleteTunnel
  <2>1. mgr.copy.deleting
    BY <1>7 DEF DeleteTunnel, OrderInv, Busy
  <2>2. mgr'.copy = mgr.copy
    <3>1. \E err : Goto("status", err)
      BY <1>7 DEF DeleteTunnel
    <3> QED BY <1>1, <3>1 DEF Goto, Managers
  <2> QED BY <2>1, <2>2 DEF AppliedInv
<1>8. CASE PatchMeta
  BY <1>8, MetaPatch DEF AppliedInv
<1>9. CASE PatchStatus
  BY <1>9, StatusPatch DEF AppliedInv
<1> QED BY <1>2, <1>3, <1>4, <1>5, <1>6, <1>7, <1>8, <1>9 DEF ManagerStep

\* AppliedInv is inductive: nobody but the manager applies anything.
LEMMA AppliedAlways ==
    ASSUME "swallow" \notin FaultKinds
    PROVE  Spec => []AppliedInv
<1>1. Init => AppliedInv
  BY DEF Init, NoCluster, IdleManager, AppliedInv
<1>2. TypeOK /\ OrderInv /\ AppliedInv /\ [Next]_vars => AppliedInv'
  <2> SUFFICES ASSUME TypeOK, OrderInv, AppliedInv, [Next]_vars PROVE AppliedInv'
    OBVIOUS
  <2>1. ASSUME ~ManagerStep
        PROVE  res' = res /\ (mgr' = mgr \/ mgr' = IdleManager)
    <3>1. ASSUME NEW n \in Nodes, CacheStep(n) \/ AgentStep(n) \/ AgentCrash(n)
          PROVE  UNCHANGED <<mgr, res>>
      BY <3>1 DEF CacheStep, NodeEvent, LabelControlPlane, SyncCluster, SyncNode, AgentCrash, AgentStep, AgentReconcile, EdgectlGet, SetupYurtHub,
                  SetupKubelet, RevertKubelet, RemoveYurtHub, Stage, ChangeHost, ReportCondition,
                  PatchNode, AgentFrame, apiVars, mgrVars
    <3>2. User \/ UNCHANGED vars => UNCHANGED <<mgr, res>>
      BY DEF User, Create, Update, Delete, Relabel, vars, apiVars, mgrVars
    <3>3. SyncManager \/ ManagerCrash => res' = res /\ (mgr' = mgr \/ mgr' = IdleManager)
      BY DEF SyncManager, ManagerCrash, apiVars
    <3> QED BY <2>1, <3>1, <3>2, <3>3 DEF Next
  <2>2. CASE ~ManagerStep
    BY <2>1, <2>2 DEF AppliedInv, IdleManager, NoCluster, UpToDate
  <2> QED BY <2>2, AppliedManager
<1> QED BY <1>1, <1>2, TypeCorrect, CleanAlways, PTL DEF Spec

\* Of an approved object a generation is recorded as observed only when all that
\* its spec asks for has been applied from that generation, or, of a deleted
\* one, when all has been removed: as long as no failed read passes for an
\* answer, whatever else fails and wherever managers are killed.
THEOREM ObservedIsApplied ==
    ASSUME "swallow" \notin FaultKinds
    PROVE  Spec => ObservedMeansApplied
<1> DEFINE Done ==
        yc.state = "present" /\ yc'.state = "present" /\ yc'.obsGen > yc.obsGen =>
          \/ ~mgr.copy.fin
          \/ mgr.copy.deleting /\ \A r \in Resources : res[r] = 0
          \/ ~mgr.copy.deleting /\
             (NoNil(mgr.copy.spec) => UpToDate(mgr.copy.spec, yc'.obsGen))
<1>1. TypeOK /\ TypeOK' /\ OrderInv /\ CleanInv /\ AppliedInv /\ [Next]_vars => Done
  <2> SUFFICES ASSUME TypeOK, TypeOK', OrderInv, CleanInv, AppliedInv, [Next]_vars,
                      yc.state = "present", yc'.state = "present", yc'.obsGen > yc.obsGen,
                      mgr.copy.fin
               PROVE  \/ mgr.copy.deleting /\ \A r \in Resources : res[r] = 0
                      \/ ~mgr.copy.deleting /\
                         (NoNil(mgr.copy.spec) => UpToDate(mgr.copy.spec, yc'.obsGen))
    OBVIOUS
  <2>1. yc'.obsGen # yc.obsGen
    BY GenTypes
  <2>2. PatchStatus
    <3>1. CASE User
      <4>1. ~\E s \in Specs : Create(s)
        BY DEF Create
      <4>2. ~\E n \in Nodes, l \in Labels : Relabel(n, l)
        BY <2>1 DEF Relabel
      <4> QED BY <2>1, <3>1, <4>1, <4>2, UserObject DEF User
    <3>2. ~PatchMeta
      BY <2>1, MetaPatch, ApprovedIs DEF NoCluster
    <3> QED BY <2>1, <3>1, <3>2, StatusKept DEF Next
  <2>3. /\ mgr.pc \in {"status", "patchStatus"}
        /\ yc'.obsGen # mgr.copy.obsGen
        /\ yc'.obsGen = IF mgr.pc = "status" THEN ObservedGen ELSE mgr.obsGen
    BY <2>1, <2>2, StatusPatch
  <2>4. CASE mgr.pc = "patchStatus"
    <3>1. mgr.copy.deleting
      BY <2>4 DEF OrderInv, Busy
    <3> QED BY <2>4, <3>1 DEF CleanInv, Settled, Removed
  <2>5. CASE mgr.pc = "status"
    <3>1. mgr.err = FALSE /\ yc'.obsGen = mgr.copy.gen
      BY <2>3, <2>5 DEF ObservedGen, TypeOK, Managers
    <3> QED BY <2>5, <3>1 DEF CleanInv, Removed, AppliedInv
  <2> QED BY <2>3, <2>4, <2>5
<1>2. TypeOK /\ TypeOK' /\ OrderInv /\ CleanInv /\ AppliedInv /\ [Next]_vars => [Done]_vars
  BY <1>1
<1> QED BY <1>2, TypeCorrect, CleanAlways, AppliedAlways, PTL DEF Spec, ObservedMeansApplied

-----------------------------------------------------------------------------
(* The release of the finalizer *)

\* The finalizer goes only when every node whose condition the manager knows is
\* reverted, all of them in the same state: for any number of nodes, in
\* whatever order they report.
THEOREM ReleaseIsLast == Spec => ReleaseFindsReverted
<1> DEFINE Reverted ==
        yc.fin /\ yc'.state = "gone" =>
          \A n \in Nodes :
             mgr.copy.cond[n] = yc.cond[n] /\ yc.cond[n] # NoCondition /\ ~unreported[n]
               => host[n] = NormalHost
<1>1. TypeOK /\ TypeOK' /\ StatusInv /\ CompletedIsReal /\ [Next]_vars => Reverted
  <2> SUFFICES ASSUME TypeOK, TypeOK', StatusInv, CompletedIsReal, [Next]_vars,
                      yc.fin, yc'.state = "gone", NEW n \in Nodes,
                      mgr.copy.cond[n] = yc.cond[n], yc.cond[n] # NoCondition, ~unreported[n]
               PROVE  host[n] = NormalHost
    OBVIOUS
  <2>1. yc.state = "present"
    BY DEF StatusInv
  <2>2. PatchMeta
    <3>1. ~PatchStatus
      BY <2>1, StatusPatch
    <3>2. CASE User
      <4>1. ~\E s \in Specs : Create(s)
        BY <2>1 DEF Create
      <4>2. ~\E k \in Nodes, l \in Labels : Relabel(k, l)
        BY <2>1 DEF Relabel
      <4> QED BY <3>2, <4>1, <4>2, UserObject DEF User
    <3> QED BY <2>1, <3>1, <3>2, StatusKept DEF Next
  <2>3. Release
    BY <2>1, <2>2, MetaPatch, ApprovedIs
  <2>4. Completed("NormalNode", yc.cond[n], mgr.copy.gen)
    BY <2>3 DEF Release, AllDone, Wanted
  <2>5. yc.cond[n].status = "True" /\ yc.cond[n].reason = "NormalNode"
    BY <2>4 DEF Completed, Reported
  <2>6. "NormalNode" \notin ConvertTypes
    BY DEF ConvertTypes
  <2> QED BY <2>1, <2>5, <2>6 DEF CompletedIsReal, HostOf
<1>2. TypeOK /\ TypeOK' /\ StatusInv /\ CompletedIsReal /\ [Next]_vars => [Reverted]_vars
  BY <1>1
<1> QED BY <1>2, TypeCorrect, StatusAlways, ConditionsAreTrue, PTL DEF Spec, ReleaseFindsReverted
=============================================================================

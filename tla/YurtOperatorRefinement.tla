----------------------- MODULE YurtOperatorRefinement -----------------------
(* YurtOperator implements ManagerContract: among caches, edits, agents and    *)
(* crashes the manager keeps what it promises of the resources.                *)
EXTENDS YurtOperatorSafety

\* What the contract has of a version of the object.
LEMMA AbstractIs ==
    ASSUME NEW c \in Clusters
    PROVE  LET a == AbstractCluster(c) IN
           /\ a.state = c.state /\ a.gen = c.gen /\ a.deleting = c.deleting
           /\ a.approved = c.fin /\ a.obs = c.obsGen
           /\ a.whole = NoNil(c.spec) /\ a.wants \in SUBSET Resources
           /\ c.state = "present" => a \in Contract!Clusters
<1>1. c \in [state: {"absent", "present", "gone"}, gen: Nat, spec: SpecRecords,
             deleting: BOOLEAN, fin: BOOLEAN, phase: Phases, obsGen: Nat, cond: [Nodes -> Conditions]]
  BY DEF Clusters
<1>2. NoNil(c.spec) \in BOOLEAN
  BY DEF NoNil
<1>3. AbstractCluster(c).wants \in SUBSET Resources
  BY DEF AbstractCluster, Resources
<1> QED
  BY <1>1, <1>2, <1>3 DEF AbstractCluster, Contract!Clusters

\* What it asks of a resource.
LEMMA GoalIs ==
    ASSUME NEW c \in Clusters, c.state = "present", NEW u \in Resources
    PROVE  Contract!Goal(AbstractCluster(c), u) =
             IF c.deleting \/ (u \in TunnelParts /\ c.spec.tunnel[u] # "on") THEN 0 ELSE c.gen
<1>1. u \in AbstractCluster(c).wants <=> u = "hub" \/ (u \in TunnelParts /\ c.spec.tunnel[u] = "on")
  BY DEF AbstractCluster
<1>2. u = "hub" <=> u \notin TunnelParts
  BY DEF Resources, TunnelParts
<1> QED
  BY <1>1, <1>2, AbstractIs DEF Contract!Goal

\* Nothing that the contract sees of the object changes.
LEMMA AbstractSame ==
    ASSUME NEW c \in Clusters, NEW d \in Clusters,
           d.state = c.state, d.gen = c.gen, d.deleting = c.deleting, d.fin = c.fin,
           d.spec = c.spec, d.obsGen = c.obsGen
    PROVE  AbstractCluster(d) = AbstractCluster(c)
BY DEF AbstractCluster

\* An object that is not there is nothing.
LEMMA AbstractNothing ==
    ASSUME NEW state \in {"absent", "gone"}
    PROVE  AbstractCluster(NoCluster(state)) = Contract!Nothing(state)
<1>1. NoNil(NoSpec) = FALSE
  BY DEF NoNil, NoSpec, ConvertTypes
<1>2. NoCluster(state) = [state |-> state, gen |-> 0, spec |-> NoSpec, deleting |-> FALSE,
                          fin |-> FALSE, phase |-> "None", obsGen |-> 0,
                          cond |-> [n \in Nodes |-> NoCondition]]
  BY DEF NoCluster
<1> DEFINE c == NoCluster(state)
<1>3. c.state = state /\ c.gen = 0 /\ c.deleting = FALSE /\ c.fin = FALSE /\ c.obsGen = 0
      /\ NoNil(c.spec) = FALSE
  BY <1>1, <1>2
<1>4. state # "present"
  OBVIOUS
<1> HIDE DEF c
<1>5. AbstractCluster(c) =
        [state |-> c.state, gen |-> c.gen, deleting |-> c.deleting, approved |-> c.fin,
         whole |-> NoNil(c.spec), wants |-> {}, obs |-> c.obsGen]
  BY <1>3, <1>4 DEF AbstractCluster
<1> QED
  BY <1>3, <1>5 DEF c, Contract!Nothing

\* Steps that the contract does not see.
LEMMA ContractStutters ==
    ASSUME TypeOK, TypeOK', mview' = mview, mgr' = mgr, res' = res,
           yc'.state = yc.state, yc'.gen = yc.gen, yc'.deleting = yc.deleting, yc'.fin = yc.fin,
           yc'.spec = yc.spec, yc'.obsGen = yc.obsGen
    PROVE  UNCHANGED Contract!vars
<1>1. AbstractCluster(yc') = AbstractCluster(yc)
  BY AbstractSame DEF TypeOK
<1> QED
  BY <1>1 DEF Contract!vars, AbstractPass, AbstractUnits

-----------------------------------------------------------------------------
(* Users and caches *)

\* An object is created, edited, marked or removed.
LEMMA UserKeepsContract ==
    ASSUME TypeOK, TypeOK', User
    PROVE  Contract!Next \/ UNCHANGED Contract!vars
<1> DEFINE a == AbstractCluster(yc)
           b == AbstractCluster(yc')
<1>1. mview' = mview /\ mgr' = mgr /\ res' = res
  BY DEF User, Create, Update, Delete, Relabel, mgrVars
<1>2. UNCHANGED <<AbstractCluster(mview), AbstractPass, AbstractUnits>>
  BY <1>1 DEF AbstractPass, AbstractUnits
<1>3. yc \in Clusters /\ yc' \in Clusters
  BY DEF TypeOK
<1>4. CASE \E s \in Specs : Create(s)
  <2>1. /\ yc.state = "absent" /\ yc'.state = "present" /\ yc'.gen = 1
        /\ yc'.deleting = FALSE /\ yc'.fin = FALSE /\ yc'.obsGen = 0
    BY <1>4 DEF Create, NoCluster
  <2>2. Contract!Fresh(b) /\ ~b.approved /\ a.state = "absent"
    BY <1>3, <2>1, AbstractIs DEF Contract!Fresh
  <2>3. Contract!Create
    BY <1>2, <2>2 DEF Contract!Create
  <2> QED
    BY <2>3 DEF Contract!Next
<1>5. CASE \E s \in Specs : Update(s)
  <2>1. PICK s \in Specs : yc.state = "present" /\ yc' = [yc EXCEPT !.spec = s, !.gen = @ + 1]
    BY <1>5 DEF Update
  <2>2. /\ yc'.state = "present" /\ yc'.gen = yc.gen + 1 /\ yc'.deleting = yc.deleting
        /\ yc'.fin = yc.fin /\ yc'.obsGen = yc.obsGen
    BY <1>3, <2>1 DEF Clusters
  <2>3. b = [a EXCEPT !.whole = NoNil(yc'.spec), !.wants = b.wants, !.gen = @ + 1]
    <3>1. a \in Contract!Clusters /\ b \in Contract!Clusters
      BY <1>3, <2>1, <2>2, AbstractIs
    <3>2. /\ b.state = a.state /\ b.gen = a.gen + 1 /\ b.deleting = a.deleting
          /\ b.approved = a.approved /\ b.obs = a.obs /\ b.whole = NoNil(yc'.spec)
      BY <1>3, <2>1, <2>2, AbstractIs
    <3> HIDE DEF a, b
    <3> QED
      BY <3>1, <3>2 DEF Contract!Clusters
  <2>4. NoNil(yc'.spec) \in BOOLEAN /\ b.wants \in SUBSET Resources /\ a.state = "present"
    BY <1>3, <2>1, AbstractIs DEF NoNil
  <2> HIDE DEF a, b
  <2>5. \E whole \in BOOLEAN, wants \in SUBSET Resources :
            b = [a EXCEPT !.whole = whole, !.wants = wants, !.gen = @ + 1]
    BY <2>3, <2>4
  <2>6. b.gen > a.gen
    <3>1. b.gen = yc'.gen /\ a.gen = yc.gen
      BY <1>3, AbstractIs DEF a, b
    <3> QED
      BY <1>3, <2>2, <3>1 DEF Clusters
  <2>7. Contract!Edit
    BY <1>2, <2>4, <2>5, <2>6 DEF Contract!Edit, a, b
  <2> QED
    BY <2>7 DEF Contract!Next
<1>6. CASE Delete /\ yc.fin
  <2>1. yc.state = "present" /\ ~yc.deleting /\ yc' = [yc EXCEPT !.deleting = TRUE, !.gen = @ + 1]
    BY <1>6 DEF Delete
  <2>2. /\ yc'.state = "present" /\ yc'.gen = yc.gen + 1 /\ yc'.deleting = TRUE
        /\ yc'.fin = yc.fin /\ yc'.obsGen = yc.obsGen /\ yc'.spec = yc.spec
    BY <1>3, <2>1 DEF Clusters
  <2>3. b = [a EXCEPT !.deleting = TRUE, !.gen = @ + 1]
    <3>1. a \in Contract!Clusters /\ b \in Contract!Clusters
      BY <1>3, <2>1, <2>2, AbstractIs
    <3>2. /\ b.state = a.state /\ b.gen = a.gen + 1 /\ b.deleting = TRUE
          /\ b.approved = a.approved /\ b.obs = a.obs
      BY <1>3, <2>1, <2>2, AbstractIs
    <3>3. b.wants = a.wants /\ b.whole = a.whole
      BY <2>1, <2>2 DEF AbstractCluster
    <3> HIDE DEF a, b
    <3> QED
      BY <3>1, <3>2, <3>3 DEF Contract!Clusters
  <2>4. a.state = "present" /\ a.approved /\ ~a.deleting
    BY <1>3, <1>6, <2>1, AbstractIs
  <2>5. b.gen > a.gen
    <3>1. b.gen = yc'.gen /\ a.gen = yc.gen
      BY <1>3, AbstractIs
    <3> HIDE DEF a, b
    <3> QED
      BY <1>3, <2>2, <3>1 DEF Clusters
  <2> HIDE DEF a, b
  <2>6. Contract!Edit
    BY <1>2, <2>3, <2>4, <2>5 DEF Contract!Edit, a, b
  <2> QED
    BY <2>6 DEF Contract!Next
<1>7. CASE Delete /\ ~yc.fin
  <2>1. yc.state = "present" /\ yc' = NoCluster("gone")
    BY <1>7 DEF Delete
  <2>2. b = Contract!Nothing("gone") /\ a.state = "present" /\ ~a.approved
    BY <1>3, <1>7, <2>1, AbstractIs, AbstractNothing
  <2>3. Contract!Drop
    BY <1>2, <2>2 DEF Contract!Drop
  <2> QED
    BY <2>3 DEF Contract!Next
<1>8. CASE \E n \in Nodes, l \in Labels : Relabel(n, l)
  BY <1>1, <1>8, ContractStutters DEF Relabel
<1> QED
  BY <1>4, <1>5, <1>6, <1>7, <1>8 DEF User

\* The cache catches up, or the pass dies with its manager and records nothing.
LEMMA CachesKeepContract ==
    ASSUME SyncManager \/ ManagerCrash
    PROVE  Contract!Next
<1>1. UNCHANGED <<AbstractCluster(yc), AbstractUnits>>
  BY DEF SyncManager, ManagerCrash, apiVars, AbstractUnits
<1>2. CASE SyncManager
  BY <1>1, <1>2 DEF SyncManager, AbstractPass, Contract!Sync, Contract!Next
<1>3. CASE ManagerCrash
  <2>1. AbstractPass.busy /\ mgr' = IdleManager /\ UNCHANGED AbstractCluster(mview)
    BY <1>3 DEF ManagerCrash, AbstractPass
  <2>2. AbstractPass' = Contract!Idle
    BY <2>1, AbstractNothing DEF AbstractPass, IdleManager, Contract!Idle
  <2> QED
    BY <1>1, <2>1, <2>2 DEF Contract!Record, Contract!Next
<1> QED
  BY <1>2, <1>3

\* Agents and Node events.
LEMMA AgentsKeepContract ==
    ASSUME TypeOK, TypeOK', NEW n \in Nodes,
           CacheStep(n) \/ AgentStep(n) \/ AgentCrash(n)
    PROVE  UNCHANGED Contract!vars
<1>1. UNCHANGED <<mview, mgr, res>>
  BY DEF CacheStep, NodeEvent, LabelControlPlane, SyncCluster, SyncNode, AgentCrash, AgentStep, AgentReconcile, EdgectlGet, SetupYurtHub,
         SetupKubelet, RevertKubelet, RemoveYurtHub, Stage, ChangeHost, ReportCondition, PatchNode,
         AgentFrame, apiVars, mgrVars
<1>2. /\ yc'.state = yc.state /\ yc'.gen = yc.gen /\ yc'.deleting = yc.deleting
      /\ yc'.fin = yc.fin /\ yc'.obsGen = yc.obsGen /\ yc'.spec = yc.spec
  BY DEF CacheStep, NodeEvent, LabelControlPlane, SyncCluster, SyncNode, AgentCrash, AgentStep, AgentReconcile, EdgectlGet, SetupYurtHub,
         SetupKubelet, RevertKubelet, RemoveYurtHub, Stage, ChangeHost, ReportCondition, PatchNode,
         apiVars, TypeOK, Clusters
<1> QED
  BY <1>1, <1>2, ContractStutters

-----------------------------------------------------------------------------
(* The manager *)

\* The generation that a resource is due to be at, by copy c; 0 for none.
Due(c, u) ==
    IF c.deleting \/ (u \in TunnelParts /\ c.spec.tunnel[u] # "on") THEN 0 ELSE c.gen

\* Resources that change become what the copy asks for.
Due1(c) == \A u \in Resources : res'[u] = res[u] \/ res'[u] = Due(c, u)

\* What the contract has of such a step.
LEMMA MovesIs ==
    ASSUME TypeOK, TypeOK', NEW c \in Clusters, c.state = "present", Due1(c),
           res' = res \/ c.fin
    PROVE  Contract!Moves(AbstractCluster(c))
<1> DEFINE a == AbstractCluster(c)
<1>1. /\ AbstractUnits \in [Resources -> SUBSET Nat] /\ AbstractUnits' \in [Resources -> SUBSET Nat]
      /\ \A u \in Resources : AbstractUnits[u] = {res[u]} /\ AbstractUnits'[u] = {res'[u]}
  BY DEF AbstractUnits, TypeOK
<1>2. \A u \in Resources : Contract!Goal(a, u) = Due(c, u)
  BY GoalIs DEF Due
<1>3. \A u \in Resources : /\ AbstractUnits'[u] # {}
                           /\ AbstractUnits'[u] \subseteq AbstractUnits[u] \cup {Contract!Goal(a, u)}
  BY <1>1, <1>2 DEF Due1
<1>4. AbstractUnits' # AbstractUnits => a.approved
  <2>1. res' = res => AbstractUnits' = AbstractUnits
    BY DEF AbstractUnits
  <2> QED
    BY <2>1, AbstractIs
<1> HIDE DEF a
<1>5. Contract!Moves(a)
  BY <1>1, <1>3, <1>4 DEF Contract!Moves
<1> QED
  BY <1>5 DEF a

\* A pass begins, with the first part of its work.
LEMMA BeginKeepsContract ==
    ASSUME TypeOK, TypeOK', Approve \/ ApplyTrans \/ DeleteHub
    PROVE  Contract!Next
<1>1. /\ mgr.pc = "idle" /\ mview.state = "present" /\ mview \in Clusters
      /\ yc' = yc /\ mview' = mview
  BY DEF Approve, ApplyTrans, DeleteHub, MgrFrame, TypeOK
<1>2. mgr'.pc # "idle" /\ mgr'.copy = mview
  BY DEF Approve, ApplyTrans, DeleteHub, Begin
<1>3. AbstractPass' = [busy |-> TRUE, copy |-> AbstractCluster(mview)] /\ ~AbstractPass.busy
  BY <1>1, <1>2 DEF AbstractPass
<1>4. res' = res \/ (mview.fin /\ mview.deleting /\ res' = Without({"hub"}))
  BY DEF Approve, ApplyTrans, DeleteHub
<1>5. Due1(mview)
  BY <1>4 DEF Due1, Due, Without
<1>6. Contract!Moves(AbstractCluster(mview))
  BY <1>1, <1>4, <1>5, MovesIs
<1>7. AbstractCluster(mview).state = "present"
  BY <1>1, AbstractIs
<1>8. UNCHANGED <<AbstractCluster(yc), AbstractCluster(mview)>>
  BY <1>1
<1>9. Contract!Begin
  BY <1>3, <1>6, <1>7, <1>8 DEF Contract!Begin
<1> QED
  BY <1>9 DEF Contract!Next

\* It goes on.
LEMMA WorkKeepsContract ==
    ASSUME TypeOK, TypeOK', OrderInv, ApplyHub \/ ApplyTunnel \/ DeleteTunnel, "swallow" \notin FaultKinds
    PROVE  Contract!Next
<1> DEFINE c == mgr.copy
<1>1. /\ Busy /\ yc' = yc /\ mview' = mview /\ c \in Clusters
  BY DEF ApplyHub, ApplyTunnel, DeleteTunnel, MgrFrame, Busy, TypeOK, Managers
<1>2. mgr'.pc # "idle" /\ mgr'.copy = mgr.copy
  <2>1. \E err : Goto("tunnel", err) \/ Goto("status", err)
    BY DEF ApplyHub, ApplyTunnel, DeleteTunnel
  <2> QED
    BY <2>1 DEF Goto, TypeOK, Managers
<1>3. AbstractPass' = AbstractPass /\ AbstractPass.busy /\ AbstractPass.copy = AbstractCluster(c)
  BY <1>1, <1>2 DEF AbstractPass, Busy
<1>4. c.state = "present" /\ c.fin
  BY <1>1 DEF OrderInv, ApplyHub, ApplyTunnel, DeleteTunnel, MarkedKept
<1>5. Due1(c)
  <2>1. CASE ApplyHub
    <3>1. ~c.deleting /\ "hub" \notin TunnelParts
      BY <1>1, <2>1 DEF OrderInv, ApplyHub, TunnelParts
    <3>2. res' = res \/ res' = [res EXCEPT !["hub"] = c.gen]
      BY <2>1 DEF ApplyHub
    <3> QED
      BY <3>1, <3>2 DEF Due1, Due, TypeOK
  <2>2. CASE ApplyTunnel
    <3>1. ~c.deleting
      BY <1>1, <2>2 DEF OrderInv, ApplyTunnel
    <3>2. \/ res' = res
          \/ \E parts \in SUBSET TunnelParts :
               res' = [r \in Resources |->
                  IF r \notin parts THEN res[r] ELSE IF c.spec.tunnel[r] = "on" THEN c.gen ELSE 0]
      BY <2>2 DEF ApplyTunnel, TunnelParts
    <3> QED
      BY <3>1, <3>2 DEF Due1, Due
  <2>3. CASE DeleteTunnel
    <3>1. c.deleting
      BY <1>1, <2>3 DEF OrderInv, DeleteTunnel
    <3>2. res' = res \/ \E parts : res' = Without(parts)
      BY <2>3 DEF DeleteTunnel
    <3> QED
      BY <3>1, <3>2 DEF Due1, Due, Without
  <2> QED
    BY <2>1, <2>2, <2>3
<1>6. Contract!Moves(AbstractCluster(c))
  BY <1>1, <1>4, <1>5, MovesIs
<1>7. UNCHANGED <<AbstractCluster(yc), AbstractCluster(mview)>>
  BY <1>1
<1> HIDE DEF c
<1>8. Contract!Work
  BY <1>3, <1>6, <1>7 DEF Contract!Work
<1> QED
  BY <1>8 DEF Contract!Next

\* Completing a spec takes nothing away.
LEMMA MergeGrows ==
    ASSUME NEW live \in SpecRecords, NEW before \in SpecRecords
    PROVE  LET spec == MergeSpec(live, before) IN
           /\ NoNil(live) => NoNil(spec)
           /\ \A p \in TunnelParts : live.tunnel[p] = "on" => spec.tunnel[p] = "on"
<1> DEFINE spec == MergeSpec(live, before)
<1>1. /\ \A t \in ConvertTypes : spec.hub[t] = MergeFlag(live.hub[t], before.hub[t])
      /\ \A p \in TunnelParts : spec.tunnel[p] = MergeFlag(live.tunnel[p], before.tunnel[p])
  BY DEF MergeSpec, SpecRecords
<1>2. \A x, y : MergeFlag(x, y) \in {x, "on"}
  BY DEF MergeFlag
<1> HIDE DEF spec
<1>3. NoNil(live) => NoNil(spec)
  BY <1>1, <1>2 DEF NoNil
<1>4. \A p \in TunnelParts : live.tunnel[p] = "on" => spec.tunnel[p] = "on"
  BY <1>1, <1>2
<1> QED
  BY <1>3, <1>4 DEF spec

\* The first pass adds the finalizer and completes the spec.
LEMMA ApproveKeepsContract ==
    ASSUME TypeOK, TypeOK', Busy, AbstractPass' = AbstractPass, mview' = mview, res' = res,
           ~mgr.copy.fin, yc.state = "present", yc' = Approved
    PROVE  Contract!Approve
<1> DEFINE a == AbstractCluster(yc)
           b == AbstractCluster(yc')
           spec == MergeSpec(yc.spec, mgr.copy.spec)
<1>1. yc \in Clusters /\ yc' \in Clusters /\ mgr.copy \in Clusters
      /\ yc.spec \in SpecRecords /\ mgr.copy.spec \in SpecRecords
  BY DEF TypeOK, Managers, Clusters
<1>2. /\ yc'.state = "present" /\ yc'.deleting = yc.deleting /\ yc'.fin = TRUE
      /\ yc'.obsGen = yc.obsGen /\ yc'.spec = spec
      /\ yc'.gen = IF spec = yc.spec THEN yc.gen ELSE yc.gen + 1
  BY <1>1 DEF Approved, Clusters
<1>3. AbstractPass.busy /\ ~AbstractPass.copy.approved
  BY <1>1, AbstractIs DEF AbstractPass, Busy
<1>4. a \in Contract!Clusters /\ b \in Contract!Clusters /\ a.state = "present"
  BY <1>1, <1>2, AbstractIs
<1>5. /\ b.state = a.state /\ b.deleting = a.deleting /\ b.approved = TRUE /\ b.obs = a.obs
      /\ b.gen = IF spec = yc.spec THEN a.gen ELSE a.gen + 1
  BY <1>1, <1>2, AbstractIs
<1>6. UNCHANGED <<AbstractCluster(mview), AbstractUnits>>
  BY DEF AbstractUnits
<1>7. CASE spec = yc.spec
  <2>1. b.whole = a.whole /\ b.wants = a.wants
    BY <1>2, <1>7 DEF AbstractCluster
  <2> HIDE DEF a, b, spec
  <2>2. b = [a EXCEPT !.approved = TRUE]
    BY <1>4, <1>5, <1>7, <2>1 DEF Contract!Clusters
  <2> QED
    BY <1>3, <1>4, <1>6, <2>2 DEF Contract!Approve, a, b
<1>8. CASE spec # yc.spec
  <2>1. (NoNil(yc.spec) => NoNil(yc'.spec))
        /\ \A p \in TunnelParts : yc.spec.tunnel[p] = "on" => yc'.spec.tunnel[p] = "on"
    BY <1>1, <1>2, MergeGrows
  <2>2. a.whole => b.whole
    BY <1>1, <2>1, AbstractIs
  <2>3. a.wants \subseteq b.wants
    BY <1>2, <2>1 DEF AbstractCluster
  <2> HIDE DEF a, b, spec
  <2>4. b = [a EXCEPT !.approved = TRUE, !.whole = b.whole, !.wants = b.wants, !.gen = @ + 1]
    BY <1>4, <1>5, <1>8 DEF Contract!Clusters
  <2>5. b.whole \in BOOLEAN /\ b.wants \in SUBSET Resources
    BY <1>4 DEF Contract!Clusters
  <2>6. \E whole \in BOOLEAN, wants \in SUBSET Resources :
            /\ a.whole => whole
            /\ a.wants \subseteq wants
            /\ b = [a EXCEPT !.approved = TRUE, !.whole = whole, !.wants = wants, !.gen = @ + 1]
    BY <2>2, <2>3, <2>4, <2>5
  <2> QED
    BY <1>3, <1>4, <1>6, <2>6 DEF Contract!Approve, a, b
<1> QED
  BY <1>7, <1>8

\* The patch of metadata and spec.
LEMMA PatchMetaKeepsContract ==
    ASSUME TypeOK, TypeOK', OrderInv, CleanInv, PatchMeta
    PROVE  Contract!Next \/ UNCHANGED Contract!vars
<1>1. /\ Busy /\ mgr'.pc # "idle" /\ mgr'.copy = mgr.copy /\ mgr.copy \in Clusters
      /\ mview' = mview /\ res' = res
  BY MetaPatch DEF Busy, TypeOK, Managers
<1>2. AbstractPass' = AbstractPass
  BY <1>1 DEF AbstractPass, Busy
<1>3. \/ yc' = yc
      \/ mgr.copy.fin /\ Release /\ yc.state = "present" /\ yc' = NoCluster("gone")
      \/ ~mgr.copy.fin /\ yc.state = "present" /\ yc' = Approved
  BY MetaPatch
<1>4. CASE yc' = yc
  BY <1>1, <1>2, <1>4 DEF Contract!vars, AbstractUnits
<1>5. CASE mgr.copy.fin /\ Release /\ yc.state = "present" /\ yc' = NoCluster("gone")
  <2>1. mgr.pc = "status" /\ mgr.copy.deleting /\ ObservedGen = mgr.copy.gen
    BY <1>5, MetaPatch DEF Release, AllDone
  <2>2. Removed
    BY <1>1, <2>1 DEF ObservedGen, CleanInv, Settled, Recorded, TypeOK, Managers
  <2>3. AbstractPass.busy /\ AbstractPass.copy.approved /\ AbstractPass.copy.deleting
    BY <1>1, <1>5, <2>1, AbstractIs DEF AbstractPass, Busy
  <2>4. Contract!AtGoal(AbstractPass.copy)
    BY <2>2, <2>3 DEF Removed, AbstractUnits, Contract!AtGoal, Contract!Goal
  <2>5. AbstractCluster(yc).state = "present" /\ AbstractCluster(yc') = Contract!Nothing("gone")
    BY <1>5, AbstractIs, AbstractNothing DEF TypeOK
  <2>6. UNCHANGED <<AbstractCluster(mview), AbstractUnits>>
    BY <1>1 DEF AbstractUnits
  <2>7. Contract!Release
    BY <1>2, <2>3, <2>4, <2>5, <2>6 DEF Contract!Release
  <2> QED
    BY <2>7 DEF Contract!Next
<1>6. CASE ~mgr.copy.fin /\ yc.state = "present" /\ yc' = Approved
  BY <1>1, <1>2, <1>6, ApproveKeepsContract DEF Contract!Next
<1> QED
  BY <1>3, <1>4, <1>5, <1>6

\* The patch of the status.
LEMMA PatchStatusKeepsContract ==
    ASSUME TypeOK, TypeOK', OrderInv, CleanInv, AppliedInv, StatusInv, PatchStatus
    PROVE  Contract!Next
<1> DEFINE a == AbstractCluster(yc)
           b == AbstractCluster(yc')
           copy == AbstractCluster(mgr.copy)
<1>1. Busy /\ mgr' = IdleManager /\ mview' = mview /\ res' = res
  BY StatusPatch DEF PatchStatus, Busy
<1>2. yc \in Clusters /\ yc' \in Clusters /\ mgr.copy \in Clusters
  BY DEF TypeOK, Managers
<1>3. AbstractPass.busy /\ AbstractPass.copy = copy /\ AbstractPass' = Contract!Idle
  BY <1>1, AbstractNothing DEF AbstractPass, Busy, IdleManager, Contract!Idle
<1>4. UNCHANGED <<AbstractCluster(mview), AbstractUnits>>
  BY <1>1 DEF AbstractUnits
<1>5. yc'.spec = yc.spec
  BY StatusPatch
<1>6. CASE yc'.obsGen = yc.obsGen
  <2>1. b = a
    BY <1>2, <1>5, <1>6, AbstractSame, StatusPatch
  <2> HIDE DEF copy
  <2> QED
    BY <1>3, <1>4, <2>1 DEF Contract!Record, Contract!Next
<1>7. CASE yc'.obsGen # yc.obsGen
  <2>1. /\ yc.state = "present" /\ yc'.state = "present" /\ mgr.pc \in {"status", "patchStatus"}
        /\ yc'.obsGen # mgr.copy.obsGen
        /\ yc'.obsGen = IF mgr.pc = "status" THEN ObservedGen ELSE mgr.obsGen
    BY <1>7, StatusPatch
  <2>2. yc'.obsGen = mgr.copy.gen
    BY <1>1, <2>1 DEF ObservedGen, StatusInv, Recording
  <2>3. yc.obsGen < mgr.copy.gen
    BY <1>1, <1>7, <2>1, <2>2, GenTypes DEF StatusInv
  <2>4. b = [a EXCEPT !.obs = copy.gen]
    <3>1. a \in Contract!Clusters /\ b \in Contract!Clusters
      BY <1>2, <2>1, AbstractIs
    <3>2. /\ b.state = a.state /\ b.gen = a.gen /\ b.deleting = a.deleting
          /\ b.approved = a.approved /\ b.obs = copy.gen
      BY <1>2, <2>2, AbstractIs, StatusPatch
    <3>3. b.wants = a.wants /\ b.whole = a.whole
      BY <1>5, StatusPatch DEF AbstractCluster
    <3> HIDE DEF a, b, copy
    <3> QED
      BY <3>1, <3>2, <3>3 DEF Contract!Clusters
  <2>5. ASSUME mgr.copy.fin, mgr.copy.deleting \/ NoNil(mgr.copy.spec)
        PROVE  Contract!AtGoal(copy)
    <3>1. mgr.copy.state = "present"
      BY <1>1 DEF OrderInv
    <3>2. SUFFICES \A u \in Resources : res[u] = Due(mgr.copy, u)
      BY <1>2, <3>1, GoalIs DEF Contract!AtGoal, AbstractUnits, Due
    <3>3. CASE mgr.copy.deleting
      <4>1. Removed
        BY <1>1, <2>1, <2>5, <3>3 DEF CleanInv, Settled, ObservedGen, TypeOK, Managers
      <4> QED
        BY <3>3, <4>1 DEF Removed, Due
    <3>4. CASE ~mgr.copy.deleting
      <4>1. mgr.pc = "status"
        BY <1>1, <2>1, <2>5, <3>4 DEF OrderInv
      <4>2. mgr.err = FALSE
        BY <2>1, <4>1 DEF ObservedGen, TypeOK, Managers
      <4>3. UpToDate(mgr.copy.spec, mgr.copy.gen)
        BY <2>5, <3>4, <4>1, <4>2 DEF AppliedInv
      <4> QED
        BY <3>4, <4>3 DEF UpToDate, Due, Resources, TunnelParts
    <3> QED
      BY <3>3, <3>4
  <2>6. copy.approved /\ (copy.deleting \/ copy.whole) => Contract!AtGoal(copy)
    <3>1. copy.approved = mgr.copy.fin /\ copy.deleting = mgr.copy.deleting
          /\ copy.whole = NoNil(mgr.copy.spec)
      BY <1>2, AbstractIs
    <3> QED
      BY <2>5, <3>1
  <2>7. a.state = "present" /\ a.obs < copy.gen
    BY <1>2, <2>1, <2>3, AbstractIs
  <2> HIDE DEF copy
  <2>8. Contract!Record
    BY <1>3, <1>4, <2>4, <2>6, <2>7 DEF Contract!Record
  <2> QED
    BY <2>8 DEF Contract!Next
<1> QED
  BY <1>6, <1>7

-----------------------------------------------------------------------------
(* The refinement *)

\* Every step of the system is one of the contract, or none.
LEMMA OperatorKeepsContract ==
    ASSUME "swallow" \notin FaultKinds, TypeOK, TypeOK', OrderInv, CleanInv, AppliedInv, StatusInv,
           [Next]_vars
    PROVE  Contract!Next \/ UNCHANGED Contract!vars
<1>1. CASE UNCHANGED vars
  BY <1>1, ContractStutters DEF vars, apiVars, mgrVars
<1>2. CASE ManagerStep
  BY <1>2, BeginKeepsContract, WorkKeepsContract, PatchMetaKeepsContract, PatchStatusKeepsContract
     DEF ManagerStep
<1> QED
  BY <1>1, <1>2, UserKeepsContract, CachesKeepContract, AgentsKeepContract DEF Next

\* With any number of nodes, specs, edits, crashes and failed calls, but for
\* swallowed reads, the manager keeps the contract: nothing changes but towards
\* what an approved copy asks for, and what it records or releases is so.
THEOREM ContractImplemented ==
    ASSUME "swallow" \notin FaultKinds
    PROVE  Spec => ImplementsContract
<1>1. Init => Contract!Init
  <2> SUFFICES ASSUME Init PROVE Contract!Init
    OBVIOUS
  <2>1. AbstractCluster(yc) = Contract!Nothing("absent") /\ AbstractCluster(mview) = AbstractCluster(yc)
    BY AbstractNothing DEF Init
  <2>2. AbstractPass = Contract!Idle
    BY AbstractNothing DEF Init, AbstractPass, IdleManager, Contract!Idle
  <2>3. AbstractUnits = Contract!Nowhere
    BY DEF Init, AbstractUnits, Contract!Nowhere
  <2> QED
    BY <2>1, <2>2, <2>3 DEF Contract!Init
<1>2. TypeOK /\ TypeOK' /\ OrderInv /\ CleanInv /\ AppliedInv /\ StatusInv /\ [Next]_vars
        => [Contract!Next]_(Contract!vars)
  BY OperatorKeepsContract
<1> QED
  BY <1>1, <1>2, TypeCorrect, CleanAlways, AppliedAlways, StatusAlways, PTL
     DEF Spec, ImplementsContract, Contract!Spec
=============================================================================

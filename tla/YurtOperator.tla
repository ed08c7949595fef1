---------------------------- MODULE YurtOperator ----------------------------
(***************************************************************************)
(* The YurtCluster operator: the API server that stores the singleton       *)
(* YurtCluster and the Nodes, the manager's reconciler, one agent per node, *)
(* and the edgectl program an agent runs to convert or revert its host.     *)
(*                                                                          *)
(* Every reconciler decides on a cached copy of the API objects, and every  *)
(* write is a JSON merge patch that sends only the fields the writer        *)
(* changed relative to its own copy.  edgectl alone reads the live object.  *)
(***************************************************************************)
EXTENDS Integers, FiniteSets, HostContract

CONSTANTS
    Nodes,         \* the nodes of the cluster
    ControlPlane,  \* those with the control-plane label
    Labels,        \* values of the node label that NodeSet selectors match
    Specs,         \* the specs the user writes
    MaxGen,        \* bound: the user edits the spec only below this generation
    MaxRelabel,    \* bound: how often the user relabels nodes
    FaultKinds,    \* the kinds of faults that happen, of AllFaultKinds
    MaxFaults      \* bound: how many faults happen

TunnelParts == {"server", "agent"}
Resources == TunnelParts \cup {"hub"}
Flags == {"on", "off", "nil"}
Templates == {"trans", "hub", "tunnel"}

\* api: a call to the API server fails; swallow: the read that precedes a
\* delete fails; node: a host is not ready or a health check times out;
\* crash: a manager or an agent process is killed and restarted.
AllFaultKinds == {"api", "swallow", "node", "crash"}

SpecRecords ==
    [cloud: SUBSET (Nodes \X Labels), edge: SUBSET (Nodes \X Labels),
     hub: [ConvertTypes -> Flags], tunnel: [TunnelParts -> Flags]]

Conditions ==
    [status: {"None", "True", "False"}, reason: NodeTypes \cup {"None"}, gen: Nat]

ASSUME ConstantsAssumption ==
    /\ IsFiniteSet(Nodes)
    /\ ControlPlane \subseteq Nodes
    /\ Labels # {}
    /\ Specs \subseteq SpecRecords
    /\ Specs # {}
    /\ MaxGen \in Nat /\ MaxRelabel \in Nat /\ MaxFaults \in Nat
    /\ FaultKinds \subseteq AllFaultKinds

VARIABLES
    yc,         \* the YurtCluster object in the API server
    nodeLabel,  \* nodeLabel[n]: the selector label of the Node object
    edgeLabel,  \* edgeLabel[n]: its is-edge-worker label
    templates,  \* the template ConfigMaps that exist
    res,        \* res[r]: the generation the objects of r were rendered from, 0 if absent
    mview,      \* the manager's cached YurtCluster
    mnode,      \* the manager's cached Nodes: selector and edge labels
    mgr,        \* the manager's reconcile pass
    aview,      \* aview[n]: the YurtCluster and the Node in agent n's cache
    agent,      \* agent[n]: agent n's reconcile pass and its edgectl run
    host,       \* host[n]: the yurt-hub manifest and the endpoint of the kubelet
    kcm,        \* kcm[n]: the nodelifecycle controller in the node's manifest
    unreported, \* history: edgectl changed host[n] and recorded no condition since
    relabels,   \* bound counter
    faults      \* bound counter

apiVars == <<yc, nodeLabel, edgeLabel, templates, res>>
mgrVars == <<mview, mnode, mgr>>
agentVars == <<aview, agent, host, kcm, unreported>>
bounds == <<relabels, faults>>
vars == <<apiVars, mgrVars, agentVars, bounds>>

-----------------------------------------------------------------------------
(* The YurtCluster object *)

NoCondition == [status |-> "None", reason |-> "None", gen |-> 0]

NoSpec ==
    [cloud |-> {}, edge |-> {}, hub |-> [t \in ConvertTypes |-> "nil"],
     tunnel |-> [p \in TunnelParts |-> "nil"]]

NoCluster(state) ==
    [state |-> state, gen |-> 0, spec |-> NoSpec, deleting |-> FALSE,
     fin |-> FALSE, phase |-> "None", obsGen |-> 0,
     cond |-> [n \in Nodes |-> NoCondition]]

Phases == {"None", "Converting", "Deleting", "Succeed"}

Clusters ==
    [state: {"absent", "present", "gone"}, gen: Nat, spec: SpecRecords,
     deleting: BOOLEAN, fin: BOOLEAN,
     phase: Phases, obsGen: Nat, cond: [Nodes -> Conditions]]

\* Complete: an Enabled the user left out becomes true.
Default(flag) == IF flag = "nil" THEN "on" ELSE flag

Complete(spec) ==
    [spec EXCEPT !.hub = [t \in ConvertTypes |-> Default(spec.hub[t])],
                 !.tunnel = [p \in TunnelParts |-> Default(spec.tunnel[p])]]

\* The merge patch of a pass that completed the spec: only what was nil in
\* the writer's copy is sent.
MergeFlag(live, before) == IF before = "nil" THEN "on" ELSE live

MergeSpec(live, before) ==
    [live EXCEPT
        !.hub = [t \in ConvertTypes |-> MergeFlag(live.hub[t], before.hub[t])],
        !.tunnel = [p \in TunnelParts |-> MergeFlag(live.tunnel[p], before.tunnel[p])]]

\* GetNodeType: a node both sets select is a cloud node.
NodeType(spec, n, label) ==
    IF <<n, label>> \in spec.cloud THEN "CloudNode"
    ELSE IF <<n, label>> \in spec.edge THEN "EdgeNode" ELSE "NormalNode"

\* Mutant: the agents go on converting while the object is being deleted.
WantedWhileDeleting(spec, deleting, n, label) == NodeType(spec, n, label)

\* What the agent of a node with this label has to make of its host.
Wanted(spec, deleting, n, label) ==
    IF deleting THEN "NormalNode" ELSE NodeType(spec, n, label)

Reported(cond, type, gen) ==
    cond.status = "True" /\ cond.reason = type /\ cond.gen = gen

\* IsNodeConvertOrRevertCompleted; without a condition a node counts as reverted.
Completed(type, cond, gen) ==
    \/ Reported(cond, type, gen)
    \/ type = "NormalNode" /\ cond = NoCondition

-----------------------------------------------------------------------------
(* Caches and passes *)

\* What a cache holds for agent n: its own condition and its own Node.
ViewOf(c, n, label, edge) ==
    [state |-> c.state, gen |-> c.gen, spec |-> c.spec, deleting |-> c.deleting,
     fin |-> c.fin, cond |-> c.cond[n], label |-> label, edge |-> edge]

Edges == {"absent", "true", "false"}

Views ==
    [state: {"absent", "present", "gone"}, gen: Nat, spec: SpecRecords,
     deleting: BOOLEAN, fin: BOOLEAN, cond: Conditions, label: Labels, edge: Edges]

\* What the manager's cache holds for a Node; its edge label matters on the
\* control plane alone.
NodeCopy(n, label, edge) ==
    [label |-> label, edge |-> IF n \in ControlPlane THEN edge ELSE "absent"]

NodeCopies == [label: Labels, edge: Edges]

IdleAgent == [pc |-> "idle", op |-> "NormalNode", gen |-> 0, ok |-> FALSE, edge |-> "absent"]

Agents ==
    [pc: {"idle", "get", "hub", "kubelet", "report", "label"}, op: NodeTypes,
     gen: Nat, ok: BOOLEAN, edge: Edges]

IdleManager ==
    [pc |-> "idle", copy |-> NoCluster("absent"), err |-> FALSE, phase |-> "None", obsGen |-> 0]

Managers ==
    [pc: {"idle", "hub", "tunnel", "delTunnel", "status", "patchStatus"},
     copy: Clusters, err: BOOLEAN, phase: Phases, obsGen: Nat]

TypeOK ==
    /\ yc \in Clusters
    /\ nodeLabel \in [Nodes -> Labels]
    /\ edgeLabel \in [Nodes -> Edges]
    /\ templates \subseteq Templates
    /\ res \in [Resources -> Nat]
    /\ mview \in Clusters
    /\ mnode \in [Nodes -> NodeCopies]
    /\ mgr \in Managers
    /\ aview \in [Nodes -> Views]
    /\ agent \in [Nodes -> Agents]
    /\ host \in [Nodes -> Hosts]
    /\ kcm \in [Nodes -> {"on", "off"}]
    /\ unreported \in [Nodes -> BOOLEAN]
    /\ relabels \in Nat
    /\ faults \in Nat

Init ==
    /\ yc = NoCluster("absent")
    /\ nodeLabel \in [Nodes -> Labels]
    /\ edgeLabel = [n \in Nodes |-> "absent"]
    /\ templates = {}
    /\ res = [r \in Resources |-> 0]
    /\ mview = yc
    /\ mnode = [n \in Nodes |-> NodeCopy(n, nodeLabel[n], edgeLabel[n])]
    /\ mgr = IdleManager
    /\ aview = [n \in Nodes |-> ViewOf(yc, n, nodeLabel[n], "absent")]
    /\ agent = [n \in Nodes |-> IdleAgent]
    /\ host = [n \in Nodes |-> NormalHost]
    /\ kcm = [n \in Nodes |-> "on"]
    /\ unreported = [n \in Nodes |-> FALSE]
    /\ relabels = 0
    /\ faults = 0

\* A step that goes wrong, and one that does not.
Fault(kind) ==
    /\ kind \in FaultKinds
    /\ faults < MaxFaults
    /\ faults' = faults + 1

NoFault == UNCHANGED faults

-----------------------------------------------------------------------------
(* The user *)

Create(s) ==
    /\ yc.state = "absent"
    /\ yc' = [NoCluster("present") EXCEPT !.gen = 1, !.spec = s]
    /\ UNCHANGED <<nodeLabel, edgeLabel, templates, res, mgrVars, agentVars, bounds>>

Update(s) ==
    /\ yc.state = "present"
    /\ yc.gen < MaxGen
    /\ s # yc.spec
    /\ yc' = [yc EXCEPT !.spec = s, !.gen = @ + 1]
    /\ UNCHANGED <<nodeLabel, edgeLabel, templates, res, mgrVars, agentVars, bounds>>

\* Without a finalizer the object goes at once; with one it is marked, and the
\* mark starts a generation.
Delete ==
    /\ yc.state = "present"
    /\ ~yc.deleting
    /\ yc' = IF yc.fin THEN [yc EXCEPT !.deleting = TRUE, !.gen = @ + 1]
                       ELSE NoCluster("gone")
    /\ UNCHANGED <<nodeLabel, edgeLabel, templates, res, mgrVars, agentVars, bounds>>

Relabel(n, l) ==
    /\ relabels < MaxRelabel
    /\ l # nodeLabel[n]
    /\ relabels' = relabels + 1
    /\ nodeLabel' = [nodeLabel EXCEPT ![n] = l]
    /\ UNCHANGED <<yc, edgeLabel, templates, res, mgrVars, agentVars, faults>>

User ==
    \/ \E s \in Specs : Create(s) \/ Update(s)
    \/ Delete
    \/ \E n \in Nodes, l \in Labels : Relabel(n, l)

-----------------------------------------------------------------------------
(* Caches.  A copy that brings nothing new is no step. *)

SyncManager ==
    /\ mview # yc
    /\ mview' = yc
    /\ UNCHANGED <<apiVars, mnode, mgr, agentVars, bounds>>

\* A Node event reaches the manager.
NodeEvent(n) ==
    /\ mnode' = [mnode EXCEPT ![n] = NodeCopy(n, nodeLabel[n], edgeLabel[n])]
    /\ mnode' # mnode
    /\ UNCHANGED <<apiVars, mview, mgr, agentVars, bounds>>

\* NodeToYurtClusterMapFunc labels a control-plane node: in the copy that the
\* event brought, which is the one in the cache, and then by a patch of what it
\* changed; an error of the patch is only logged.
LabelControlPlane(n) ==
    /\ n \in ControlPlane
    /\ mnode[n].edge # "false"
    /\ mnode' = [mnode EXCEPT ![n].edge = "false"]
    /\ \/ NoFault /\ edgeLabel' = [edgeLabel EXCEPT ![n] = "false"]
       \/ Fault("api") /\ UNCHANGED edgeLabel
    /\ UNCHANGED <<yc, nodeLabel, templates, res, mview, mgr, agentVars, relabels>>

\* The two informers of an agent run on their own: a new YurtCluster may be met
\* with an old Node, and the other way round.
SyncCluster(n) ==
    /\ aview' = [aview EXCEPT ![n] = ViewOf(yc, n, @.label, @.edge)]
    /\ aview' # aview
    /\ UNCHANGED <<apiVars, mgrVars, agent, host, kcm, unreported, bounds>>

SyncNode(n) ==
    /\ aview' = [aview EXCEPT ![n] = [@ EXCEPT !.label = nodeLabel[n], !.edge = edgeLabel[n]]]
    /\ aview' # aview
    /\ UNCHANGED <<apiVars, mgrVars, agent, host, kcm, unreported, bounds>>

CacheStep(n) == NodeEvent(n) \/ LabelControlPlane(n) \/ SyncCluster(n) \/ SyncNode(n)

-----------------------------------------------------------------------------
(* The manager's reconciler: one pass from "idle" back to "idle" *)

\* Mutant: the error of a part that failed is dropped.
GotoForgetful(pc, err) == mgr' = [mgr EXCEPT !.pc = pc]

Goto(pc, err) == mgr' = [mgr EXCEPT !.pc = pc, !.err = err]
MgrFrame == UNCHANGED <<nodeLabel, edgeLabel, mview, mnode, agentVars, relabels>>

\* A pass works on the copy it reads from the cache.
Begin(pc, err) ==
    mgr' = [pc |-> pc, copy |-> mview, err |-> err, phase |-> "None", obsGen |-> 0]

\* The first pass only adds the finalizer and completes the spec, in its copy.
Approve ==
    /\ mgr.pc = "idle" /\ mview.state = "present" /\ ~mview.fin
    /\ Begin("status", FALSE) /\ NoFault
    /\ MgrFrame /\ UNCHANGED <<yc, templates, res>>

\* reconcile, first part: the trans template.  Errors are collected.
ApplyTrans ==
    /\ mgr.pc = "idle" /\ mview.state = "present" /\ mview.fin /\ ~mview.deleting
    /\ \/ NoFault /\ templates' = templates \cup {"trans"} /\ Begin("hub", FALSE)
       \/ Fault("api") /\ UNCHANGED templates /\ Begin("hub", TRUE)
    /\ MgrFrame /\ UNCHANGED <<yc, res>>

\* reconcileYurtHub: the template, then the objects.  A failed call may have
\* taken effect.
ApplyHub ==
    LET done == [res EXCEPT !["hub"] = mgr.copy.gen] IN
    /\ mgr.pc = "hub"
    /\ \/ /\ NoFault /\ Goto("tunnel", mgr.err)
          /\ templates' = templates \cup {"hub"} /\ res' = done
       \/ /\ Fault("api") /\ Goto("tunnel", TRUE)
          /\ \/ UNCHANGED <<templates, res>>
             \/ templates' = templates \cup {"hub"} /\ res' \in {res, done}
    /\ MgrFrame /\ UNCHANGED yc

\* reconcileYurtTunnel: the template, then the server and the agent, each of
\* them applied or deleted as its flag says.  A nil flag panics: the pass is
\* abandoned, and its deferred function sees no error, not even the ones that
\* the earlier parts returned.
ApplyTunnel ==
    LET flag == mgr.copy.spec.tunnel
        Done(parts) == [r \in Resources |->
            IF r \notin parts THEN res[r] ELSE IF flag[r] = "on" THEN mgr.copy.gen ELSE 0]
        Nil(parts) == \E p \in parts : flag[p] = "nil"
    IN
    /\ mgr.pc = "tunnel"
    /\ \/ /\ templates' = templates \cup {"tunnel"}
          /\ \/ NoFault /\ ~Nil(TunnelParts) /\ Goto("status", mgr.err) /\ res' = Done(TunnelParts)
             \/ NoFault /\ flag["server"] = "nil" /\ Goto("status", FALSE) /\ UNCHANGED res
             \/ /\ NoFault /\ flag["server"] # "nil" /\ flag["agent"] = "nil"
                /\ Goto("status", FALSE) /\ res' = Done({"server"})
             \/ /\ Fault("api") /\ Goto("status", TRUE)
                /\ \E parts \in {{}, {"server"}, TunnelParts} :
                     ~Nil(parts \cup {"server"}) /\ res' = Done(parts)
             \/ /\ Fault("swallow") /\ ~Nil(TunnelParts) /\ Goto("status", mgr.err)
                /\ \E parts \in SUBSET TunnelParts :
                     (\A p \in TunnelParts \ parts : flag[p] = "off") /\ res' = Done(parts)
       \/ Fault("api") /\ Goto("status", TRUE) /\ UNCHANGED <<templates, res>>
    /\ MgrFrame /\ UNCHANGED yc

Without(parts) == [r \in Resources |-> IF r \in parts THEN 0 ELSE res[r]]

\* reconcileDelete, first part: the objects of yurt-hub, rendered from its
\* template.  Delete takes any error of the read it starts with for "maybe has
\* been deleted already".
DeleteHub ==
    /\ mgr.pc = "idle" /\ mview.state = "present" /\ mview.fin /\ mview.deleting
    /\ \/ "hub" \notin templates /\ NoFault /\ Begin("delTunnel", TRUE) /\ UNCHANGED res
       \/ "hub" \in templates /\ NoFault /\ Begin("delTunnel", FALSE) /\ res' = Without({"hub"})
       \/ /\ Fault("api") /\ Begin("delTunnel", TRUE)
          /\ \/ UNCHANGED res
             \/ "hub" \in templates /\ res' = Without({"hub"})
       \/ "hub" \in templates /\ Fault("swallow") /\ Begin("delTunnel", FALSE) /\ UNCHANGED res
    /\ MgrFrame /\ UNCHANGED <<yc, templates>>

DeleteTunnel ==
    /\ mgr.pc = "delTunnel"
    /\ \/ "tunnel" \notin templates /\ NoFault /\ Goto("status", TRUE) /\ UNCHANGED res
       \/ /\ "tunnel" \in templates /\ NoFault /\ Goto("status", mgr.err)
          /\ res' = Without(TunnelParts)
       \/ /\ Fault("api") /\ Goto("status", TRUE)
          /\ \/ UNCHANGED res
             \/ "tunnel" \in templates /\ res' \in {Without({"server"}), Without(TunnelParts)}
       \/ /\ "tunnel" \in templates /\ Fault("swallow") /\ Goto("status", mgr.err)
          /\ \E parts \in SUBSET TunnelParts : res' = Without(parts)
    /\ MgrFrame /\ UNCHANGED <<yc, templates>>

\* Mutants: the observed generation is one ahead, is the live object's and not
\* the one the pass worked on, or is never recorded.
ObservedGenAhead == IF mgr.err THEN mgr.copy.obsGen ELSE mgr.copy.gen + 1
ObservedGenLive == IF mgr.err THEN mgr.copy.obsGen ELSE yc.gen
ObservedGenNever == mgr.copy.obsGen

\* reconcileStatus: the work is done when this pass, or an earlier one at the
\* same generation, succeeded and every node is completed.
ObservedGen == IF mgr.err THEN mgr.copy.obsGen ELSE mgr.copy.gen

AllDone ==
    LET c == mgr.copy IN
    /\ ObservedGen = c.gen
    /\ \A n \in Nodes :
         Completed(Wanted(c.spec, c.deleting, n, mnode[n].label), c.cond[n], c.gen)

Unfinished(c) == IF c.deleting THEN "Deleting" ELSE "Converting"
PhaseOf(c) == IF AllDone THEN "Succeed" ELSE Unfinished(c)

\* Mutant: the finalizer goes whatever the pass and the nodes came to.
ReleaseAtOnce == mgr.copy.fin /\ mgr.copy.deleting

Release == mgr.copy.fin /\ mgr.copy.deleting /\ AllDone

\* The patch of a first pass on the live object.
Approved ==
    LET spec == MergeSpec(yc.spec, mgr.copy.spec)
    IN [yc EXCEPT !.fin = TRUE, !.spec = spec, !.gen = IF spec = yc.spec THEN @ ELSE @ + 1]

\* The deferred function computes the status in the copy and then patches
\* metadata and spec, when the pass changed the finalizer; for an object that
\* is gone the answer is NotFound.  When the nodes cannot be listed the
\* generation is in the copy already, and the work counts as unfinished.
PatchMeta ==
    LET Compute(phase) ==
            mgr' = [mgr EXCEPT !.pc = "patchStatus", !.err = FALSE,
                               !.phase = phase, !.obsGen = ObservedGen]
        Patched(cluster) == yc' = IF yc.state # "present" THEN yc ELSE cluster
    IN /\ mgr.pc = "status"
       /\ \/ /\ ~mgr.copy.fin \/ Release
             /\ Compute(PhaseOf(mgr.copy))
             /\ \/ NoFault /\ Patched(IF mgr.copy.fin THEN NoCluster("gone") ELSE Approved)
                \/ Fault("api") /\ UNCHANGED yc
          \/ ~mgr.copy.fin /\ Fault("api") /\ Compute(Unfinished(mgr.copy)) /\ Patched(Approved)
       /\ MgrFrame /\ UNCHANGED <<templates, res>>

\* Mutant: the whole object is sent, as an update does.
SentAlways(new, copied, live) == new

\* A field whose value equals that of the writer's copy is not sent.
Sent(new, copied, live) == IF new = copied THEN live ELSE new

\* Then the status, which ends the pass.
WithStatus(phase, obsGen) ==
    IF yc.state # "present" THEN yc
    ELSE [yc EXCEPT !.phase = Sent(phase, mgr.copy.phase, @),
                    !.obsGen = Sent(obsGen, mgr.copy.obsGen, @)]

PatchStatusTo(phase, obsGen) ==
    \/ NoFault /\ yc' = WithStatus(phase, obsGen)
    \/ Fault("api") /\ UNCHANGED yc

PatchStatus ==
    /\ \/ /\ mgr.pc = "status" /\ mgr.copy.fin /\ ~Release
          /\ PatchStatusTo(PhaseOf(mgr.copy), ObservedGen)
       \/ /\ mgr.pc = "status" /\ mgr.copy.fin /\ Fault("api")
          /\ yc' = WithStatus(Unfinished(mgr.copy), ObservedGen)
       \/ mgr.pc = "patchStatus" /\ PatchStatusTo(mgr.phase, mgr.obsGen)
    /\ mgr' = IdleManager
    /\ MgrFrame /\ UNCHANGED <<templates, res>>

\* The manager is killed.  The next one fills its caches from the API server's,
\* which may be as old as those that were lost.
ManagerCrash ==
    /\ mgr.pc # "idle"
    /\ Fault("crash")
    /\ mgr' = IdleManager
    /\ UNCHANGED <<apiVars, mview, mnode, agentVars, relabels>>

ManagerStep ==
    \/ Approve \/ ApplyTrans \/ ApplyHub \/ ApplyTunnel
    \/ DeleteHub \/ DeleteTunnel \/ PatchMeta \/ PatchStatus

-----------------------------------------------------------------------------
(* The agent of node n: one pass from "idle" back to "idle" *)

AgentFrame(n) ==
    UNCHANGED <<nodeLabel, templates, res, mgrVars, aview, relabels>>

AgentGoto(n, pc) == agent' = [agent EXCEPT ![n].pc = pc]
\* Mutant: the error of a stage is not looked at.
FinishWell(n, ok) == agent' = [agent EXCEPT ![n].pc = "report", ![n].ok = TRUE]

Finish(n, ok) == agent' = [agent EXCEPT ![n].pc = "report", ![n].ok = ok]

\* Mutant: the node's type is written into the label.
EdgeForType(type) == type

EdgeFor(type) ==
    CASE type = "CloudNode" -> "false" [] type = "EdgeNode" -> "true" [] OTHER -> "absent"

\* Mutant: the agents do not wait for the finalizer.
IsApprovedEarly(v) == v.state = "present"

\* The agent leaves alone what the operator has not approved.
IsApproved(v) == v.state = "present" /\ v.fin

\* reconcile and reconcileDelete: the nodelifecycle controller of a
\* control-plane node first, and nothing more when its manifest cannot be
\* rewritten, when the cached condition says the work is done, or when a node to
\* convert is not ready.  The edge label changes in the pass's copy of the Node,
\* which is patched at its end.
AgentReconcile(n) ==
    LET v == aview[n]
        type == Wanted(v.spec, v.deleting, n, v.label)
    IN /\ agent[n].pc = "idle"
       /\ IsApproved(v)
       /\ \/ n \in ControlPlane /\ Fault("node") /\ UNCHANGED <<kcm, agent>>
          \/ /\ IF n \in ControlPlane
                THEN kcm' = [kcm EXCEPT ![n] = IF v.deleting THEN "on" ELSE "off"]
                ELSE UNCHANGED kcm
             /\ \/ /\ Completed(type, v.cond, v.gen)
                   /\ NoFault /\ UNCHANGED agent
                \/ /\ ~Completed(type, v.cond, v.gen)
                   /\ type \in ConvertTypes
                   /\ Fault("node") /\ UNCHANGED agent
                \/ /\ ~Completed(type, v.cond, v.gen)
                   /\ \E pc \in {"get", "label"} :
                        /\ IF pc = "get" THEN NoFault /\ "trans" \in templates
                           ELSE IF "trans" \in templates THEN Fault("api") ELSE NoFault
                        /\ agent' = [agent EXCEPT ![n] =
                             [pc |-> pc, op |-> type, gen |-> 0, ok |-> FALSE, edge |-> v.edge]]
       /\ AgentFrame(n) /\ UNCHANGED <<yc, edgeLabel, host, unreported>>

\* edgectl reads the live object: without one it reports nothing; without
\* yurt-hub enabled, and when a nil Enabled panics, it reports success; without
\* the yurt-hub template it reports failure.
EdgectlGet(n) ==
    LET op == agent[n].op
        Read(pc, ok) == agent' = [agent EXCEPT ![n].pc = pc, ![n].ok = ok, ![n].gen = yc.gen]
    IN /\ agent[n].pc = "get"
       /\ \/ yc.state # "present" /\ NoFault /\ AgentGoto(n, "label")
          \/ /\ yc.state = "present"
             /\ \/ op = "NormalNode" /\ NoFault /\ Read(FirstStage(op), FALSE)
                \/ op \in ConvertTypes /\ NoFault /\
                   IF yc.spec.hub[op] # "on" THEN Read("report", TRUE)
                   ELSE IF "hub" \notin templates THEN Read("report", FALSE)
                   ELSE Read(FirstStage(op), FALSE)
                \/ Fault("api") /\ AgentGoto(n, "label")
                \/ /\ op \in ConvertTypes => yc.spec.hub[op] = "on"
                   /\ Fault("node") /\ Read("report", FALSE)
       /\ AgentFrame(n) /\ UNCHANGED <<yc, edgeLabel, host, kcm, unreported>>

\* A stage of edgectl that ends well, and goes on to next or reports; and one
\* that fails and reports.
ChangeHost(n, h) ==
    /\ host' = [host EXCEPT ![n] = h]
    /\ unreported' = [unreported EXCEPT ![n] = @ \/ h # host[n]]
    /\ AgentFrame(n) /\ UNCHANGED <<yc, edgeLabel, kcm>>

Stage(n, stage, op, next) ==
    /\ agent[n].pc = stage
    /\ agent[n].op = op
    /\ \/ /\ NoFault
          /\ IF next = "report" THEN Finish(n, TRUE) ELSE AgentGoto(n, next)
          /\ ChangeHost(n, Succeeded(op, stage, host[n]))
       \/ /\ Fault("node")
          /\ Finish(n, FALSE)
          /\ \E h \in Failed(op, stage, host[n]) : ChangeHost(n, h)

SetupYurtHub(n) == \E op \in ConvertTypes : Stage(n, "hub", op, "kubelet")
SetupKubelet(n) == \E op \in ConvertTypes : Stage(n, "kubelet", op, "report")
RevertKubelet(n) == Stage(n, "kubelet", "NormalNode", "hub")
RemoveYurtHub(n) == Stage(n, "hub", "NormalNode", "report")

\* Mutant: no run records its generation.
ConditionOfNoGen(a) ==
    [status |-> IF a.ok THEN "True" ELSE "False", reason |-> a.op, gen |-> 0]

\* A failed run records no generation.
ConditionOf(a) ==
    [status |-> IF a.ok THEN "True" ELSE "False", reason |-> a.op,
     gen |-> IF a.ok THEN a.gen ELSE 0]

\* edgectl's deferred functions: the condition is set and patched into the
\* object, if it still exists.
ReportCondition(n) ==
    LET a == agent[n] IN
    /\ a.pc = "report"
    /\ AgentGoto(n, "label")
    /\ \/ /\ NoFault /\ yc.state = "present"
          /\ yc' = [yc EXCEPT !.cond[n] = ConditionOf(a)]
          /\ unreported' = [unreported EXCEPT ![n] = FALSE]
       \/ NoFault /\ yc.state # "present" /\ UNCHANGED <<yc, unreported>>
       \/ Fault("api") /\ UNCHANGED <<yc, unreported>>
    /\ AgentFrame(n) /\ UNCHANGED <<edgeLabel, host, kcm>>

\* The agent's deferred patch of its Node.
PatchNode(n) ==
    /\ agent[n].pc = "label"
    /\ agent' = [agent EXCEPT ![n] = IdleAgent]
    /\ \/ NoFault /\ edgeLabel' = [edgeLabel EXCEPT ![n] =
                       Sent(EdgeFor(agent[n].op), agent[n].edge, @)]
       \/ Fault("api") /\ UNCHANGED edgeLabel
    /\ AgentFrame(n) /\ UNCHANGED <<yc, host, kcm, unreported>>

\* The agent goes down between two steps of a pass.  What is left when it goes
\* down inside a stage of edgectl is the subject of NodeHost.
AgentCrash(n) ==
    /\ agent[n].pc # "idle"
    /\ Fault("crash")
    /\ agent' = [agent EXCEPT ![n] = IdleAgent]
    /\ UNCHANGED <<apiVars, mgrVars, aview, host, kcm, unreported, relabels>>

AgentStep(n) ==
    \/ AgentReconcile(n) \/ EdgectlGet(n) \/ SetupYurtHub(n) \/ SetupKubelet(n)
    \/ RevertKubelet(n) \/ RemoveYurtHub(n) \/ ReportCondition(n) \/ PatchNode(n)

-----------------------------------------------------------------------------
Next ==
    \/ User
    \/ SyncManager \/ ManagerStep \/ ManagerCrash
    \/ \E n \in Nodes : CacheStep(n) \/ AgentStep(n) \/ AgentCrash(n)

\* Watches deliver eventually, and a kubelet updates its Node often enough for
\* every reconciler to be called again and again; users owe nothing.
Fairness ==
    /\ WF_mview(SyncManager) /\ WF_mgr(ManagerStep)
    /\ \A n \in Nodes :
         /\ WF_mnode(NodeEvent(n)) /\ WF_mnode(LabelControlPlane(n))
         /\ WF_aview(SyncCluster(n)) /\ WF_aview(SyncNode(n))
         /\ WF_<<agent, kcm, faults>>(AgentStep(n))

Spec == Init /\ [][Next]_vars
FairSpec == Spec /\ Fairness

-----------------------------------------------------------------------------
(* Safety *)

\* No record of the object, in the API server, in a cache or in a pass, claims
\* a generation the API server has not issued: ObservedGeneration and the
\* conditions compare equal to Generation only for work done at it.
GenerationsIssued ==
    yc.state = "present" =>
        /\ yc.obsGen <= yc.gen
        /\ mview.gen <= yc.gen
        /\ \A n \in Nodes :
             /\ yc.cond[n].gen <= yc.gen
             /\ aview[n].gen <= yc.gen
             /\ agent[n].gen <= yc.gen

\* A condition that says "reverted", at whatever generation, or "converted" at
\* the current one is true of the host, unless edgectl was cut off between
\* a stage that changed the host and recording it, or yurt-hub is not enabled for the
\* node's type (runConvert then reports success and leaves the host alone).
CompletedIsReal ==
    \A n \in Nodes :
        LET c == yc.cond[n] IN
        /\ yc.state = "present"
        /\ c.status = "True"
        /\ c.reason \in ConvertTypes => c.gen = yc.gen /\ yc.spec.hub[c.reason] = "on"
        /\ ~unreported[n]
        => host[n] = HostOf(c.reason)

\* The finalizer is what makes the operator touch anything: until it is
\* persisted no host, no manifest and no resource has changed and no pass of
\* an agent is under way (the agent's "not approved by operator" return).
ApprovedFirst ==
    yc.state \in {"absent", "present"} /\ ~yc.fin =>
        /\ templates = {}
        /\ \A r \in Resources : res[r] = 0
        /\ \A n \in Nodes :
             host[n] = NormalHost /\ kcm[n] = "on" /\ agent[n] = IdleAgent

\* The object goes away only after a pass at the deleting generation has
\* removed the objects of yurt-hub and yurt-tunnel that a deletion is to remove
\* (ManagedObjects says which those are), and no later pass re-creates one; the
\* read that fails before a delete is the one exception (see DeleteHub).
GoneMeansClean ==
    yc.state = "gone" => \A r \in Resources : res[r] = 0

\* revertKubelet runs before removeYurtHub and setupYurtHub before
\* setupKubelet: whatever stage fails and whatever runs are cut off between two
\* stages, a kubelet that talks to yurt-hub has a yurt-hub to talk to.
KubeletHasProxy ==
    \A n \in Nodes : host[n].kubelet = "hub" => host[n].hub # "none"

-----------------------------------------------------------------------------
(* What a step may never do *)

\* The status never goes back: a pass that works on an old copy does not lower
\* the ObservedGeneration that an earlier one recorded, and a deleted object
\* stays marked, keeps its finalizer until it goes, and never comes back.
StatusNeverRegresses ==
    [][/\ yc.state = "present" /\ yc'.state = "present" =>
            /\ yc.obsGen <= yc'.obsGen
            /\ yc.fin => yc'.fin
            /\ yc.deleting => yc'.deleting
       /\ yc.state = "gone" => yc' = yc]_vars

NoNil(spec) ==
    /\ \A t \in ConvertTypes : spec.hub[t] # "nil"
    /\ \A p \in TunnelParts : spec.tunnel[p] # "nil"

\* The objects of every resource are those of generation gen of the spec.
UpToDate(spec, gen) ==
    /\ res["hub"] = gen
    /\ \A p \in TunnelParts : res[p] = IF spec.tunnel[p] = "on" THEN gen ELSE 0

\* A pass over an approved object raises ObservedGeneration only with every
\* resource applied from that very generation, or, once the object is deleted,
\* with every resource removed: not when one of the calls failed, nor when an
\* earlier manager died half way (the comment on WithStatusObservedGeneration).
\* A nil flag is excepted: the panic it causes runs the deferred function with
\* no error, and the generation is recorded all the same.
ObservedMeansApplied ==
    [][yc.state = "present" /\ yc'.state = "present" /\ yc'.obsGen > yc.obsGen =>
         \/ ~mgr.copy.fin
         \/ mgr.copy.deleting /\ \A r \in Resources : res[r] = 0
         \/ ~mgr.copy.deleting /\
            (NoNil(mgr.copy.spec) => UpToDate(mgr.copy.spec, yc'.obsGen))]_vars

\* When the finalizer goes, each node with a condition that the manager's copy
\* shows as it is in the API server has a reverted host, on all nodes at once,
\* unless an edgectl run was cut off there.
ReleaseFindsReverted ==
    [][yc.fin /\ yc'.state = "gone" =>
         \A n \in Nodes :
            mgr.copy.cond[n] = yc.cond[n] /\ yc.cond[n] # NoCondition /\ ~unreported[n]
              => host[n] = NormalHost]_vars

-----------------------------------------------------------------------------
(* Refinement *)

\* What the contract has of a YurtCluster.
AbstractCluster(c) ==
    [state |-> c.state, gen |-> c.gen, deleting |-> c.deleting, approved |-> c.fin,
     whole |-> NoNil(c.spec),
     wants |-> IF c.state # "present" THEN {}
               ELSE {"hub"} \cup {p \in TunnelParts : c.spec.tunnel[p] = "on"},
     obs |-> c.obsGen]

AbstractPass == [busy |-> mgr.pc # "idle", copy |-> AbstractCluster(mgr.copy)]
AbstractUnits == [r \in Resources |-> {res[r]}]

Contract == INSTANCE ManagerContract WITH
    Units <- Resources, obj <- AbstractCluster(yc), view <- AbstractCluster(mview),
    pass <- AbstractPass, unit <- AbstractUnits

\* Whatever users, agents and caches do meanwhile, the resources change only
\* towards what the approved copy of a pass asks for, a generation is observed
\* only with all of them there, and the object is released only with none left,
\* swallowed reads aside.
ImplementsContract == Contract!Spec

-----------------------------------------------------------------------------
(* Liveness *)

Served(n) == Completed(Wanted(yc.spec, yc.deleting, n, nodeLabel[n]), yc.cond[n], yc.gen)

\* Once users and faults stop, the object of a spec without nil reports Succeed
\* for its own generation, with every node completed and the tunnel parts as
\* the spec says: a stale copy, a skipped status field or a failed pass is
\* always made up for by a later pass.
Converges ==
    <>[](yc.state = "present" /\ ~yc.deleting /\ NoNil(yc.spec) =>
           /\ yc.phase = "Succeed"
           /\ yc.obsGen = yc.gen
           /\ \A n \in Nodes : Served(n)
           /\ UpToDate(yc.spec, yc.gen))

\* A deletion that is asked for once the templates exist, or that they come to
\* exist under, completes: the object does not stay marked for ever.
DeletionCompletes ==
    <>[](yc.state = "present" /\ yc.deleting => templates # Templates)
=============================================================================

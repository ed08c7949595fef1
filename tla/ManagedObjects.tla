--------------------------- MODULE ManagedObjects ---------------------------
(***************************************************************************)
(* What a pass of the manager does to the cluster, object by object.  A pass *)
(* is a plan of calls: apply a template, load it, apply or delete the        *)
(* objects rendered from it.  The plan has three parts that do not wait for  *)
(* one another (trans, hub, tunnel); an error ends its part.  Every call on  *)
(* an object starts with a read that looks for the skip annotation.          *)
(* YurtOperator has the passes among caches, agents and status; here the     *)
(* parts are the whole story and the nodes' answers a free choice.           *)
(***************************************************************************)
EXTENDS Integers, Sequences

CONSTANTS
    Specs,       \* the tunnel specs the user writes
    MaxGen,      \* bound: the user edits the spec only below this generation
    MaxMasters,  \* bound: nodes with the control-plane label
    Touchable,   \* the objects an administrator removes or annotates
    FaultKinds,  \* the kinds of faults that happen, of AllFaultKinds
    MaxEvents    \* bound: how many faults, changes of the nodes and touched objects

\* api: a call fails and may have taken effect; swallow: the read before an
\* apply or a delete fails; count: the control-plane nodes cannot be listed;
\* crash: the manager is killed.
AllFaultKinds == {"api", "swallow", "count", "crash"}

\* The data keys of the templates, in the order they are applied in.
HubObjects == <<"hubCfg", "hubRole", "hubBinding">>
ServerObjects ==
    <<"serverAccount", "serverRole", "serverBinding", "serverSvc", "internalSvc", "serverCfg">>
Workloads == <<"serverDaemon", "serverDeploy">>

\* Mutant: the service that only some specs have is forgotten.
ServerDeletesOnly == <<"serverDaemon", "serverDeploy", "serverSvc", "internalSvc">>

\* The order they are deleted in; the account, the roles and the config stay.
ServerDeletes == <<"serverDaemon", "serverDeploy", "serverSvc", "internalSvc", "nodePortSvc">>

Templates == {"transTpl", "hubTpl", "tunnelTpl"}
ToSet(seq) == {seq[i] : i \in DOMAIN seq}
Objects ==
    Templates \cup ToSet(HubObjects) \cup ToSet(ServerObjects) \cup ToSet(Workloads)
              \cup {"nodePortSvc", "agentDaemon"}

\* The manifests that carry the annotation themselves: what administrators
\* adapt is created once and then left alone.
SelfSkipping == Templates \cup {"hubCfg", "internalSvc", "serverCfg"}

Flags == {"on", "off", "nil"}
SpecRecords == [server: Flags, agent: Flags, public: BOOLEAN, count: Nat]

ASSUME ObjectsAssumption ==
    /\ Specs \subseteq SpecRecords /\ Specs # {}
    /\ Touchable \subseteq Objects
    /\ MaxGen \in Nat /\ MaxMasters \in Nat /\ MaxEvents \in Nat
    /\ FaultKinds \subseteq AllFaultKinds

VARIABLES
    yc,       \* the YurtCluster, from its approval on
    cached,   \* the manager's cached copy
    masters,  \* the number of control-plane nodes
    store,    \* store[o]: the object o in the API server
    mgr,      \* the pass: its next call, its copy, its errors, the nodes it counted
    excused,  \* history: objects last touched by an administrator or a failed read
    events    \* bound counter

vars == <<yc, cached, masters, store, mgr, excused, events>>

\* gen is the generation the object was rendered from, 0 when there is none;
\* servers is its --server-count, replicas that of the Deployment.
Absent == [gen |-> 0, skip |-> FALSE, servers |-> 0, replicas |-> 0]
Exists(o) == store[o].gen # 0

Clusters ==
    [state: {"present", "gone"}, gen: Nat, spec: Specs, deleting: BOOLEAN, obs: Nat]

-----------------------------------------------------------------------------
(* The plan of a pass *)

Calls ==
    [do: {"apply", "delete", "load", "count", "panic"}, obj: Objects,
     part: {"trans", "hub", "tunnel"}]

Call(do, obj, part) == <<[do |-> do, obj |-> obj, part |-> part]>>
Each(do, objs, part) ==
    [i \in DOMAIN objs |-> [do |-> do, obj |-> objs[i], part |-> part]]

\* reconcileYurtTunnelServer; a nil Enabled is dereferenced.
ServerCalls(spec) ==
    CASE spec.server = "nil" -> Call("panic", "tunnelTpl", "tunnel")
      [] spec.server = "off" -> Each("delete", ServerDeletes, "tunnel")
      [] spec.server = "on" ->
           Call("count", "tunnelTpl", "tunnel")
           \o (IF spec.public THEN <<>> ELSE Call("delete", "nodePortSvc", "tunnel"))
           \o Each("apply", ServerObjects, "tunnel")
           \o (IF spec.public THEN Call("apply", "nodePortSvc", "tunnel") ELSE <<>>)
           \o Each("apply", Workloads, "tunnel")

\* reconcileYurtTunnelAgent.
AgentCalls(spec) ==
    Call(CASE spec.agent = "nil" -> "panic"
           [] spec.agent = "off" -> "delete"
           [] spec.agent = "on" -> "apply", "agentDaemon", "tunnel")

\* reconcile.
ApplyPlan(spec) ==
    Call("apply", "transTpl", "trans")
    \o Call("apply", "hubTpl", "hub") \o Call("load", "hubTpl", "hub")
    \o Each("apply", HubObjects, "hub")
    \o Call("apply", "tunnelTpl", "tunnel") \o Call("load", "tunnelTpl", "tunnel")
    \o ServerCalls(spec) \o AgentCalls(spec)

\* reconcileDelete.
DeletePlan ==
    Call("load", "hubTpl", "hub") \o Each("delete", HubObjects, "hub")
    \o Call("load", "tunnelTpl", "tunnel") \o Each("delete", ServerDeletes, "tunnel")
    \o Call("delete", "agentDaemon", "tunnel")

ApplyPlans == [spec \in Specs |-> ApplyPlan(spec)]
PlanOf(copy) == IF copy.deleting THEN DeletePlan ELSE ApplyPlans[copy.spec]

-----------------------------------------------------------------------------
Idle(copy) == [busy |-> FALSE, step |-> 1, copy |-> copy, err |-> FALSE, size |-> 0]

Managers == [busy: BOOLEAN, step: Nat, copy: Clusters, err: BOOLEAN, size: Nat]

TypeOK ==
    /\ yc \in Clusters /\ cached \in Clusters
    /\ masters \in 0..MaxMasters
    /\ store \in [Objects -> [gen: Nat, skip: BOOLEAN, servers: Nat, replicas: Nat]]
    /\ mgr \in Managers
    /\ excused \subseteq Objects
    /\ events \in Nat

Init ==
    /\ yc \in [state: {"present"}, gen: {1}, spec: Specs, deleting: {FALSE}, obs: {0}]
    /\ cached = yc
    /\ masters \in 0..MaxMasters
    /\ store = [o \in Objects |-> Absent]
    /\ mgr = Idle(yc)
    /\ excused = {}
    /\ events = 0

Event == events < MaxEvents /\ events' = events + 1
Fault(kind) == kind \in FaultKinds /\ Event
NoFault == UNCHANGED events

-----------------------------------------------------------------------------
(* Users, administrators and the cache *)

Update(s) ==
    /\ yc.state = "present" /\ yc.gen < MaxGen /\ s # yc.spec
    /\ yc' = [yc EXCEPT !.spec = s, !.gen = @ + 1]
    /\ UNCHANGED <<cached, masters, store, mgr, excused, events>>

\* The object has its finalizer, so a deletion marks it.
Delete ==
    /\ yc.state = "present" /\ ~yc.deleting
    /\ yc' = [yc EXCEPT !.deleting = TRUE, !.gen = @ + 1]
    /\ UNCHANGED <<cached, masters, store, mgr, excused, events>>

Join ==
    /\ Event
    /\ masters' \in (0..MaxMasters) \ {masters}
    /\ UNCHANGED <<yc, cached, store, mgr, excused>>

\* An administrator removes an object, or adds or drops its skip annotation.
Touch(o) ==
    /\ Event
    /\ Exists(o)
    /\ store' \in {[store EXCEPT ![o] = Absent], [store EXCEPT ![o].skip = ~@]}
    /\ excused' = excused \cup {o}
    /\ UNCHANGED <<yc, cached, masters, mgr>>

Sync ==
    /\ cached # yc
    /\ cached' = yc
    /\ UNCHANGED <<yc, masters, store, mgr, excused, events>>

-----------------------------------------------------------------------------
(* The pass *)

Begin ==
    /\ ~mgr.busy /\ cached.state = "present"
    /\ mgr' = [Idle(cached) EXCEPT !.busy = TRUE]
    /\ UNCHANGED <<yc, cached, masters, store, excused, events>>

Plan == PlanOf(mgr.copy)
Last == Len(Plan)
Now == Plan[mgr.step]
Doing(do) == mgr.busy /\ mgr.step <= Last /\ Now.do = do

Proceed == mgr' = [mgr EXCEPT !.step = @ + 1]

\* The calls from here to before that belong to the part of the present one.
SamePart(before) ==
    /\ \A i \in mgr.step..before - 1 : Plan[i].part = Now.part
    /\ before <= Last => Plan[before].part # Now.part

\* Mutants: the loop over the keys goes on after an error; the error is logged
\* and not returned.
DropCall == mgr' = [mgr EXCEPT !.step = @ + 1, !.err = TRUE]
DropSilently ==
    \E next \in mgr.step + 1..Last + 1 : SamePart(next) /\ mgr' = [mgr EXCEPT !.step = next]

\* An error ends the part it happens in and is collected.
DropPart ==
    \E next \in mgr.step + 1..Last + 1 :
        SamePart(next) /\ mgr' = [mgr EXCEPT !.step = next, !.err = TRUE]

Max(a, b) == IF a > b THEN a ELSE b

\* Mutants: as many replicas as servers are asked for; fewer than none.
ReplicasAll(count, size) == count
ReplicasBelow(count, size) == count - size

\* The servers that the DaemonSet does not run on the control plane.
Replicas(count, size) == Max(count - size, 0)

\* What is applied for o: the server's workloads are told how many servers
\* there are, and never fewer than the control plane has nodes.
Rendered(o) ==
    LET count == mgr.copy.spec.count IN
    [gen |-> mgr.copy.gen, skip |-> o \in SelfSkipping,
     servers |-> IF o \in ToSet(Workloads) THEN Max(mgr.size, count) ELSE 0,
     replicas |-> IF o = "serverDeploy" THEN Replicas(count, mgr.size) ELSE 0]

\* The object is applied on the server's side, which keeps an annotation that
\* somebody else gave it.
Written(o) == [Rendered(o) EXCEPT !.skip = @ \/ store[o].skip]

PassFrame == UNCHANGED <<yc, cached, masters>>

\* Apply: an object that is there and annotated is left alone; a read that
\* fails finds no annotation.
Apply ==
    LET o == Now.obj
        written == [store EXCEPT ![o] = Written(o)]
    IN /\ Doing("apply")
       /\ \/ /\ NoFault /\ Proceed
             /\ store' = IF store[o].skip THEN store ELSE written
             /\ excused' = excused \ {o}
          \/ /\ store[o].skip /\ Fault("swallow") /\ Proceed
             /\ store' = written
             /\ excused' = excused \cup {o}
          \/ /\ Fault("api") /\ DropPart
             /\ store' \in {store} \cup (IF store[o].skip THEN {} ELSE {written})
             /\ UNCHANGED excused
       /\ PassFrame

\* Delete reads twice: for the annotation, and to see whether there is anything
\* to delete.  Either read may fail without an error.
DeleteObject ==
    LET o == Now.obj
        without == [store EXCEPT ![o] = Absent]
    IN /\ Doing("delete")
       /\ \/ /\ NoFault /\ Proceed
             /\ store' = IF store[o].skip THEN store ELSE without
             /\ excused' = excused \ {o}
          \/ /\ Exists(o) /\ Fault("swallow") /\ Proceed
             /\ store' \in {store, without}
             /\ excused' = excused \cup {o}
          \/ /\ Fault("api") /\ DropPart
             /\ store' \in {store} \cup (IF store[o].skip THEN {} ELSE {without})
             /\ UNCHANGED excused
       /\ PassFrame

Load ==
    /\ Doing("load")
    /\ \/ Exists(Now.obj) /\ NoFault /\ Proceed
       \/ ~Exists(Now.obj) /\ NoFault /\ DropPart
       \/ Fault("api") /\ DropPart
    /\ PassFrame /\ UNCHANGED <<store, excused>>

\* An error in counting is only logged; the size is then 0.
Count ==
    /\ Doing("count")
    /\ \/ NoFault /\ mgr' = [mgr EXCEPT !.step = @ + 1, !.size = masters]
       \/ Fault("count") /\ Proceed
    /\ PassFrame /\ UNCHANGED <<store, excused>>

\* The pass unwinds to the deferred function, which sees no error.
Panic ==
    /\ Doing("panic")
    /\ mgr' = [mgr EXCEPT !.step = Last + 1, !.err = FALSE]
    /\ NoFault /\ PassFrame /\ UNCHANGED <<store, excused>>

Observed == IF mgr.err THEN mgr.copy.obs ELSE mgr.copy.gen

\* The deferred function: the observed generation, and the release of a deleted
\* object, for which the nodes have to be done as well.
End ==
    /\ mgr.busy /\ mgr.step > Last
    /\ mgr' = Idle(mgr.copy)
    /\ \/ /\ NoFault
          /\ \/ /\ mgr.copy.deleting /\ Observed = mgr.copy.gen
                /\ yc' = [yc EXCEPT !.state = "gone"]
             \/ yc' = [yc EXCEPT !.obs = IF yc.state = "gone" \/ Observed = mgr.copy.obs
                                         THEN @ ELSE Observed]
       \/ Fault("api") /\ UNCHANGED yc
    /\ UNCHANGED <<cached, masters, store, excused>>

\* The next manager's cache may be as old as the one that is lost.
Crash ==
    /\ mgr.busy /\ Fault("crash")
    /\ mgr' = Idle(mgr.copy)
    /\ UNCHANGED <<yc, cached, masters, store, excused>>

ManagerStep == Begin \/ Apply \/ DeleteObject \/ Load \/ Count \/ Panic \/ End

Next ==
    \/ \E s \in Specs : Update(s)
    \/ Delete \/ Join \/ Sync \/ ManagerStep \/ Crash
    \/ \E o \in Touchable : Touch(o)

Spec == Init /\ [][Next]_vars

\* A cache gets what it lacks, and Node events and retries call the reconciler
\* again and again.
FairSpec == Spec /\ WF_vars(Sync) /\ WF_vars(ManagerStep)

-----------------------------------------------------------------------------
(* What the passes achieve *)

NoNil(spec) == spec.server # "nil" /\ spec.agent # "nil"

\* What a spec asks to be there and not to be there.
Wanted(spec) ==
    Templates \cup ToSet(HubObjects)
    \cup (IF spec.server = "on" THEN ToSet(ServerObjects) \cup ToSet(Workloads) ELSE {})
    \cup (IF spec.server = "on" /\ spec.public THEN {"nodePortSvc"} ELSE {})
    \cup (IF spec.agent = "on" THEN {"agentDaemon"} ELSE {})

\* The account, the roles and the config of a server are never removed.
Kept == Templates \cup {"serverAccount", "serverRole", "serverBinding", "serverCfg"}

Unwanted(spec, deleting) == Objects \ (Kept \cup (IF deleting THEN {} ELSE Wanted(spec)))

Stays(o) == Exists(o) /\ store[o].skip

\* A workload of the tunnel server is never there before its account, its
\* roles and its config are, and never newer than they are, annotated ones
\* aside: whatever call fails, the part stops before the workloads.
WorkloadHasItsBase ==
    \A w \in ToSet(Workloads), o \in {"serverAccount", "serverRole", "serverBinding", "serverCfg"} :
        Exists(w) /\ ~Stays(w) /\ o \notin excused /\ w \notin excused =>
            Stays(o) \/ store[o].gen >= store[w].gen

\* ObservedGeneration rises only when every object the spec wants is there at
\* that generation and the others are gone, but for annotated ones and those
\* that were touched since the pass saw to them.
ObservedMeansObjects ==
    [][yc'.obs > yc.obs =>
         LET c == mgr.copy IN
         /\ ~c.deleting /\ NoNil(c.spec) =>
              \A o \in Wanted(c.spec) \ excused : Stays(o) \/ store[o].gen = yc'.obs
         /\ c.deleting \/ NoNil(c.spec) =>
              \A o \in Unwanted(c.spec, c.deleting) \ excused : Stays(o) \/ ~Exists(o)]_vars

\* When the YurtCluster is gone, what it leaves behind are its templates, the
\* account, roles and config of the tunnel server, objects that carry the skip
\* annotation, and those that slipped through a failed read.
GoneLeavesLittle ==
    yc.state = "gone" =>
        \A o \in Objects \ (Kept \cup excused) : Stays(o) \/ ~Exists(o)

-----------------------------------------------------------------------------
(* Refinement *)

\* The objects that are YurtOperator's resources: those that a deletion removes
\* and every spec that switches the unit on has, self-annotated ones aside.
Units == {"hub", "server", "agent"}

UnitObjects(u) ==
    CASE u = "hub" -> {"hubRole", "hubBinding"}
      [] u = "server" -> {"serverDaemon", "serverDeploy", "serverSvc"}
      [] u = "agent" -> {"agentDaemon"}

\* Annotated objects and those last touched by somebody else are not.
InHands(o) == o \notin excused /\ ~Stays(o)

\* What the contract has of a YurtCluster, and of none.
NoCluster(state) ==
    [state |-> state, gen |-> 0, deleting |-> FALSE, approved |-> FALSE,
     whole |-> FALSE, wants |-> {}, obs |-> 0]

AbstractCluster(c) ==
    IF c.state = "gone" THEN NoCluster("gone")
    ELSE [state |-> "present", gen |-> c.gen, deleting |-> c.deleting, approved |-> TRUE,
          whole |-> NoNil(c.spec), obs |-> c.obs,
          wants |-> {"hub"} \cup {u \in {"server", "agent"} : c.spec[u] = "on"}]

AbstractPass ==
    [busy |-> mgr.busy,
     copy |-> IF mgr.busy THEN AbstractCluster(mgr.copy) ELSE NoCluster("absent")]
AbstractUnits ==
    [u \in Units |-> {store[o].gen : o \in {x \in UnitObjects(u) : InHands(x)}}]

Contract == INSTANCE ManagerContract WITH
    obj <- AbstractCluster(yc), view <- AbstractCluster(cached),
    pass <- AbstractPass, unit <- AbstractUnits

\* Call by call, and whichever of them fails, the objects keep the contract of
\* YurtOperator's passes, whatever administrators do with them.
ImplementsContract == Contract!Spec

\* The right number of servers: the DaemonSet's, one on each control-plane
\* node, and the replicas are as many as each server is told, and no fewer than
\* asked for.
CountsRight(spec) ==
    LET told == {store[w].servers : w \in {x \in ToSet(Workloads) : ~store[x].skip}} IN
    told \subseteq {Max(masters, spec.count)} /\
    (~store["serverDeploy"].skip => masters + store["serverDeploy"].replicas = Max(masters, spec.count))

\* Once users, administrators and faults stop, the objects become and stay what
\* the object asks for: a removed one comes back, one that was missed is made up
\* for, the servers are recounted.  A deletion needs the templates.
Repairs ==
    <>[](yc.state = "present" /\ NoNil(yc.spec) =>
           IF yc.deleting
           THEN Exists("hubTpl") /\ Exists("tunnelTpl") =>
                    \A o \in Unwanted(yc.spec, TRUE) : Stays(o) \/ ~Exists(o)
           ELSE /\ \A o \in Wanted(yc.spec) : Stays(o) \/ store[o].gen = yc.gen
                /\ \A o \in Unwanted(yc.spec, FALSE) : Stays(o) \/ ~Exists(o)
                /\ yc.spec.server = "on" => CountsRight(yc.spec))
=============================================================================

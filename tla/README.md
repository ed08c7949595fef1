# A TLA+ model of the YurtCluster operator

The operator turns the nodes of a Kubernetes cluster into OpenYurt nodes and
back.  A user writes one object, the YurtCluster named "cluster", whose spec
says which nodes are cloud nodes and which are edge nodes.  A manager and one
agent per node reconcile towards it.  This directory models that machinery in
TLA+, checks it with TLC on small instances and proves parts of it with TLAPS
for instances of every size.

Paths below are relative to `src/`.

## 1. The system

### Components

| Component | State it keeps | Operations |
|---|---|---|
| API server (external) | the YurtCluster with generation, deletion mark, finalizer, status; the Nodes; ConfigMaps and other objects | create, update, delete, merge patch, watch |
| Manager, `pkg/controllers/manager/yurtcluster_controller.go` | an informer cache | `Reconcile`: approve, apply, delete, `reconcileStatus`, deferred patch; `NodeToYurtClusterMapFunc` |
| Agent, `pkg/controllers/agent/yurtcluster_controller.go` | an informer cache | `Reconcile`: nodelifecycle manifest, completion test, edge label, convert or revert through a shell command, deferred patch |
| Helpers, `pkg/controllers/util/util.go` | none | `GetNodeType`, `inNodeSet`, `IsNodeConvertOrRevertCompleted` |
| Patch helper, `pkg/patcher/patch.go` | the object as its user first saw it | `Patch`: two JSON merge patches |
| edgectl, `cmd/edgectl/app/cmd/convert.go`, `revert.go`, `app/util/util.go` | files on the host, backups in its work directory | `runConvert`, `runRevert`, `LoadKubeletConfiguration` |
| Files, services, manifests, `pkg/util/*.go` | none | copy, compare, restart, `Apply`, `Delete`, nodelifecycle functions |
| Templates, `pkg/templates` | three ConfigMaps in the cluster | load, render, merge arguments; the shell commands of `trans.yaml` |

`PROJECT.json` lists all of them, the ones that are not modelled too.

### How they interact

* **Through the API server only.**  Manager and agents never call each other.
  The manager's finalizer on the object is its approval: an agent does nothing
  before it sees it.  The agents' answer is a condition per node in the
  object's status, which edgectl writes.  The manager lets a deleted object go
  when the conditions say that every node is reverted.
* **On copies.**  A reconciler reads from its cache at the start of a pass.
  What it writes at the end is the difference between its copy after and before
  the pass; a field that does not differ is not sent, and no precondition is
  attached.  edgectl reads the live object, at another moment than the agent
  that started it.
* **Through a shell.**  An agent runs edgectl inside a here-document whose last
  commands succeed, so the exit code of edgectl is lost; only the condition
  tells how it went.
* **Deferred functions.**  The manager records status on every exit of a pass,
  a panic included.  edgectl records the condition the same way, and its two
  stages roll back files and kubelet in deferred functions.

### What is hard

Stale copies on three sides; a pass that outlives the deletion of its object;
status that must never claim more than was done; processes that die between
two effects; a host that must never have its kubelet on a proxy that is not
there; backups that outlive what they were taken for; files that are edited as
text, by several writers, any number of times; a pass of some twenty calls of
which any may fail, on objects that others may annotate or remove.
`PROJECT.json`, "hazards", lists each at its line.

### What makes each component correct

* *Manager*: the observed generation rises only over work done
  (`ObservedMeansApplied`), never goes back and never exceeds the generation
  (`StatusNeverRegresses`, `GenerationsIssued`); the object goes only when its
  resources are gone and its nodes are reverted (`GoneMeansClean`,
  `ReleaseFindsReverted`); in the end it reports success (`Converges`,
  `DeletionCompletes`).  Object by object: workloads come after what they need
  (`WorkloadHasItsBase`), an observed generation stands for objects of that
  generation (`ObservedMeansObjects`), a deletion leaves only what it never
  deletes (`GoneLeavesLittle`), and what is missing or wrong is put right
  (`Repairs`).
* *Agent*: it touches nothing without approval (`ApprovedFirst`); a condition
  describes the host (`CompletedIsReal`).
* *edgectl*: the kubelet always has its proxy (`KubeletHasProxy`); a run keeps
  the contract of its stages (`ImplementsStages`); the backup is the original
  file (`BackupIsOriginal`) and success is true of the files
  (`ReportedFilesAreRight`).
* *Contents of files*: whatever flags there were, the kubelet connects to where
  the last run wanted it (`KubeletConnectsAsMeant`), yurt-hub is not its own
  upstream (`UpstreamIsNotItself`), it is not replaced without a reason
  (`ReplacedForAReason`); the nodelifecycle controller is off and on again
  (`LifecycleFollows`) and no other is (`OthersAreLeftAlone`).
* *Node sets*: `inNodeSet` selects the set its comment describes (theorem
  `MergedThenRemoved`).

## 2. The modules

```
  HostContract              types of nodes, hosts, outcomes of a stage of edgectl
   |     |     |    \
   |     |     |     HostStages        runs of edgectl as sequences of stages
   |     |     |         ^ implemented by
   |     |     |     NodeHost          runs of edgectl file by file
   |     |     |       NodeHostProofs        theorems, one that it implements HostStages
   |     |     |       NodeHostClaims        a claim that code refutes
   |     |     |         MCNodeHost          instances for TLC
   |     |  YurtOperator   API server, caches, manager, agents, edgectl by stages
   |     |     YurtOperatorProofs      theorems on types, proxies, generations
   |     |       YurtOperatorSafety    theorems on approval, conditions, deletion,
   |     |                             status and release
   |     |         YurtOperatorRefinement  theorem: it implements ManagerContract
   |     |     YurtOperatorClaims      claims that code refutes
   |     |       MCYurtOperator        instances for TLC, with specs built from
   |     |                             NodeSelection (inNodeSet and its theorem)
   |  HubManifest           contents of yurt-hub.yaml
   |       \  KubeletArgs   the kubelet's arguments, NodeLifecycle those of the
   |        |     |         kube-controller-manager; both take entries out of
   |        |     |         lists with Pruning
   |      HostFiles         the contents of a host's files, run after run
   |        HostFilesProofs theorems, with ListLemmas on Pruning and lists
   |        MCHostFiles     instances for TLC
  ManagedObjects            a pass of the manager object by object
     ManagedObjectsProofs   theorems, one that it implements ManagerContract
     MCManagedObjects       instances for TLC
  ManagerContract           what a pass promises of the objects it manages,
                            implemented by YurtOperator and by ManagedObjects
```

### YurtOperator

| Variable | Code |
|---|---|
| `yc` | the live YurtCluster: `gen` (metadata.generation), `deleting`, `fin`, `spec`, `phase`, `obsGen`, `cond` |
| `nodeLabel`, `edgeLabel` | the label the node sets select on, and `is-edge-worker` |
| `templates`, `res` | the template ConfigMaps; the generation from which the objects of yurt-hub, tunnel server and tunnel agent were last applied, 0 when they do not exist |
| `mview`, `mnode`, `aview` | the informer caches of manager and agents |
| `mgr`, `agent` | the pass under way: next step, its own copy, errors so far |
| `host`, `kcm` | the yurt-hub manifest and the endpoint of the kubelet; the nodelifecycle flag of the kube-controller-manager manifest |
| `unreported` | history: edgectl has changed the host and recorded no condition since |

A pass is split where another process can see an effect between its steps:

* manager: `Approve`, or `ApplyTrans`, `ApplyHub`, `ApplyTunnel`, or
  `DeleteHub`, `DeleteTunnel`; then `PatchMeta` (finalizer and spec, when they
  changed) and `PatchStatus`, which compute what `reconcileStatus` computes.
  A panic on a nil `Enabled` is the branch that goes to the status with no
  error: the deferred function runs with `reterr` nil.  When the nodes cannot be
  listed, the observed generation is set by then and the phase stays
  `Unfinished`; both are patched.  A call that fails may have had its effect, in
  `ApplyHub`, `ApplyTunnel`, `DeleteHub` and `DeleteTunnel`.
* agent: `AgentReconcile` (up to the start of edgectl), `EdgectlGet` (the live
  read and the checks that follow), `SetupYurtHub` and `SetupKubelet` or
  `RevertKubelet` and `RemoveYurtHub`, `ReportCondition`, `PatchNode`.
* around them: `Create`, `Update`, `Delete`, `Relabel` by the user; `SyncManager`
  and `NodeEvent`, `SyncCluster` and `SyncNode`, by which the informers catch up
  (and skip versions), each on its own: an agent may meet a new YurtCluster with
  an old Node, and the other way round; `LabelControlPlane`, the handler of Node
  events, which labels a control-plane node in the manager's cached copy and
  sends the difference; `ManagerCrash` and `AgentCrash`, after which the caches
  may be as old as those that were lost.

Merge patches are modelled by what they do: `Sent` keeps the live value of a
field that equals the writer's copy, `MergeSpec` completes only flags that were
nil in that copy.  A spec gives a node type by a relation of nodes and labels,
`cloud` before `edge` as in `GetNodeType`; `MCYurtOperator` builds the relation
from node sets with `NodeSelection`, clause by clause as `inNodeSet` does.

### HostContract, HostStages, NodeHost

`YurtOperator` needs only what a stage of edgectl makes of a host:
`Succeeded` and `Failed`.  `NodeHost` has the files (`yurt-hub.yaml`,
`kubeadm-flags.env`, the backups of both, the temporary one of a revert), the
running kubelet and each copy, write, restart and wait.  `kubeadm-flags.env` is
a value of the administrator's flags and the form of its kubeconfig flags,
because the rewriting in `setupKubelet` is not idempotent: applied to its own
result it moves the arguments (`"first"` becomes `"again"`), which is why a
second conversion restarts a kubelet that a cut-off first one did not.
`ImplementsStages` says that `NodeHost` implements `HostStages`, whose steps
are those outcomes: the host a stage began with is replaced by the host it left
when the run leaves the stage.  A stage may also fail at its start, before it has
deferred its rollback (`GiveUp`, fault `prepare`), and then leaves the host as it
was.  The contract is that of stages that are not cut
off and whose rollback, if any, succeeds, on a host that has a
`kubeadm-flags.env`; the runs outside it are the subject of `NH_cutoff` and of
`NodeHostClaims`.

### ManagedObjects

`YurtOperator` treats the objects of one resource as a unit.  `ManagedObjects`
has each of them, and the manager alone.

| Variable | Code |
|---|---|
| `yc`, `cached` | the YurtCluster from its approval on, and the manager's copy |
| `store` | each object: the generation it was rendered from, its skip annotation, the server count and the replicas it was told |
| `mgr` | the pass: the index of its next call, its copy, whether it has an error, the nodes it counted |
| `masters` | the number of nodes with the control-plane label |
| `excused` | history: objects an administrator or a failed read touched since a pass last saw to them |

A pass is a plan of calls, `ApplyPlan(spec)` or `DeletePlan`, in the order of
the code: template, load, objects, for yurt-hub and for the tunnel.  An error
ends the part it happens in and the pass goes on with the next part, as
`reconcile` collects errors (`DropPart`); the error may come before or after
the call had its effect.  `Apply` and `DeleteObject` include `ShouldSkip` and its
reads, whose failure counts as "not annotated" and, in `Delete`, as "not there"
(`"swallow"`).  `Written` is the server-side apply: the annotation of another field manager
stays, which matters only when the read before it has failed.  `Count` logs its
error and goes on with no nodes.  `End` is the
deferred function.  `Touch` is an administrator who removes an object or changes
its annotation, `Join` a change of the control plane.

### ManagerContract

`YurtOperator` has the objects of yurt-hub, of the tunnel server and of the
tunnel agent as one generation each (`res`), and applies each in one step;
`ManagedObjects` has the calls one by one.  `ManagerContract` says what both
promise: `unit[u]`, the generations that the objects of a unit were rendered
from, moves only towards what the pass's copy of the YurtCluster asks for
(`Goal`: its generation, or 0 for a unit that is switched off or being deleted),
under an approved copy only, in any order and with some of the objects at a
time (`Moves`); a generation is recorded as observed only in a state in which
every object is at the goal of the copy (`Record`), unless that copy leaves a
flag out; and a deleted YurtCluster goes only when no object is left
(`Release`).  A pass that dies ends like one that records nothing.  A crash, an
error or an edit may come between any two steps, and
objects may slip out of the manager's hands (`Lose`, `Moves`), of which nothing is
promised.

`ImplementsContract` in each module is `Contract!Spec` under its mapping.  In
`YurtOperator` a unit is the set with the one generation `res[u]`.  In
`ManagedObjects` it is the set of the generations of those of `UnitObjects(u)`
that are `InHands`: neither annotated nor last touched by an administrator or a
failed read.  An object comes back into the manager's hands when a pass has
seen to it, at the generation the pass is for.  `UnitObjects` are the objects
that every spec with the unit switched on has and a deletion removes; the ones
that annotate themselves, the service that only some specs have and what a
deletion keeps are left to the other properties of `MO_passes`.  A pass of
`YurtOperator` releases the object in one patch and has its status still to
write, one of `ManagedObjects` ends with it; the contract allows both.

### HostFiles, KubeletArgs, HubManifest, NodeLifecycle

`NodeHost` has the steps of a run and treats contents as opaque values.
`HostFiles` has whole runs, and contents.  A convert succeeds, fails with a
rollback of the kubelet, or fails before there is anything to roll back.

| Variable | Code |
|---|---|
| `unit`, `env`, `envBackup` | the arguments of the kubelet's unit, those in `kubeadm-flags.env`, its backup |
| `form` | history: `env` as `NodeHost` sees it, `"none"`, `"own"`, `"first"`, `"again"` |
| `hub`, `hubBackup` | `yurt-hub.yaml` and its backup: type, image, arguments |
| `spec` | the spec of the YurtCluster |
| `kcm` | the `--controllers` flags of `kube-controller-manager.yaml` |
| `hubSpec`, `mode`, `given`, `kcmMode` | history: what the files stem from |

`KubeletArgs` has the rewriting of `setupKubelet` and the regular expression of
`parseKubeConfigPath`, which is greedy; `HubManifest` the choice of the image
and `MergeExtraArgsForContainer`, with the random order of a Go map where two
keys come to the same flag; `NodeLifecycle` the two functions of `util/file.go`
and, as the outside they aim at, which controllers a list of names runs.
Both take entries out of a list with `Pruned` (module `Pruning`).
`FormsAreRight` ties the two views together: the forms in which `NodeHost`
knows a rewritten file are what `Rewritten` makes of the arguments.

### NodeSelection

A regular expression is the set of names it matches, a selector the set of
labels, and one that cannot be compiled matches nothing.  The theorem
`MergedThenRemoved` is the comment on `NodeSet`, proved of `InNodeSet`.

## 3. The runs

Runs that pass (all but `HF_contents` disable the deadlock check: users may stop,
and counters of edits, runs and faults are bounded):

| Run | Instance | Properties | Shows |
|---|---|---|---|
| `YO_edits` | one worker, two specs (unset flags; swapped labels with some flags off), one edit, a deletion | `TypeOK`, `GenerationsIssued`, `ApprovedFirst`, `ObservedMeansApplied`, `StatusNeverRegresses`, `ImplementsContract` | bookkeeping under lag alone |
| `YO_faults` | one control-plane node, one API, host or crash fault | `CompletedIsReal`, `GoneMeansClean`, `KubeletHasProxy`, `ObservedMeansApplied`, `ReleaseFindsReverted` | truth of status, and of the release, under a fault at any step |
| `YO_twonodes` | a control-plane node and a worker, both converted (`FromConverted`), a deletion | `ReleaseFindsReverted` | both agents revert and report, in any order and on copies of any age, and the manager waits for both |
| `YO_relabel` | one worker of an applied object (`FromApplied`), relabelled twice: from cloud to edge and back, or the reverse | `CompletedIsReal` | a condition of the other type is not taken for this one's, nor one of the same generation that becomes current again for what another run has since made of the host |
| `YO_live` | one API fault or swallowed read, fairness | `Converges`, `DeletionCompletes` | nothing gets stuck |
| `NH_stages` | two sets of flags, five runs, three failures of services or at the start of a stage or cuts between stages, one change of flags | `TypeOK`, `ImplementsStages` | the contract |
| `NH_cutoff` | the same with cuts and reboots anywhere and failing rollbacks | `BackupIsOriginal`, `ReportedFilesAreRight` | what survives any cut |
| `MO_passes` | three tunnel specs, one edit and a deletion, no or one control-plane node, one fault, touched object or change of nodes, fairness | `TypeOK`, `WorkloadHasItsBase`, `GoneLeavesLittle`, `ObservedMeansObjects`, `ImplementsContract`, `Repairs` | passes that fail at any of their calls |
| `HF_contents` | four units, three contents of `kubeadm-flags.env`, three specs, seven manifests of the kube-controller-manager; any number of runs and edits | `TypeOK`, `KubeletConnectsAsMeant`, `UpstreamIsNotItself`, `FormsAreRight`, `LifecycleFollows`, `OthersAreLeftAlone`, `ReplacedForAReason` | text edits that must come to the right meaning however often they are repeated |

Runs that must fail check one sentence of the documentation, a comment or a
message each, and the counterexample is a behaviour of the code; "findings" in
`PROJECT.json` quotes the sentence:

| Run | Claim | What happens |
|---|---|---|
| `YO_gone` | `GoneMeansReverted` | object deleted during a first convert: the manager sees a node without a condition, lets the object go, and the node stays converted |
| `YO_edgelabel` | `EdgeLabelFollows` | the agent's Node copy lags, the label is not in its patch, and the condition stops later passes |
| `NH_revert` | `RevertedMeansDirect` | "reverted successfully" with the kubelet still on yurt-hub, after a revert that was cut off between file and restart |

### What the properties except

The exceptions in the passing properties are behaviours of the code, not
conveniences of the model:

* `CompletedIsReal` excepts a host that edgectl changed without recording it.  If
  the label then flips back, the condition from before counts as current.
  It also excepts types for which yurt-hub is disabled, where `runConvert`
  reports success and leaves the host as it is.
* `ObservedMeansApplied` excepts nil flags: the panic of the pass runs the
  deferred function without an error.
* `GoneMeansClean` and, in `YurtOperator`, `ImplementsContract` are not checked under
  the fault `swallow`: `Delete` takes any failed read for an object that is gone,
  and the properties then fail.
* `BackupIsOriginal` says that there is a file to revert to, not that it is
  recent: flags changed between two conversions are lost by the second revert.
* `ReportedFilesAreRight` is about files; the running kubelet may differ, for a
  convert as well as for a revert.
* The finalizer may go before the agent of a control-plane node has seen the
  deletion, and then `kcm` stays off.  `LabelControlPlane` overwrites the edge label
  of a control-plane node whatever an agent set.  `Approved` may complete a flag
  that the user has set since the manager's copy was read.
* `DeletionCompletes` and `Repairs` suppose that the templates exist: the first
  says that from some point on no object stays marked while all three do.  An object that is deleted before its first normal pass keeps
  its finalizer for ever: every deleting pass fails on the missing template,
  and only a normal pass would create it.
* `BackupIsOriginal` and `ReportedFilesAreRight` are about hosts with a
  `kubeadm-flags.env`.  Without one there is nothing to back up, `revertKubelet`
  leaves the kubelet as it is for want of a backup, and `removeYurtHub` then
  takes away the yurt-hub it is connected to.
* `ObservedMeansObjects` and `GoneLeavesLittle` except `excused` objects and those
  with the skip annotation; the templates and three other objects carry it in
  their own manifest (`SelfSkipping`) and are never updated once they are there.
  A deletion keeps the account, the roles and the config of the tunnel server
  and the templates (`Kept`).
* `UpstreamIsNotItself` and `ReplacedForAReason` are about units that pass a
  `--kubeconfig`, as kubeadm's does.  Without one, the last `--kubeconfig` of a
  converted kubelet is the one that points at yurt-hub, and a second conversion
  makes yurt-hub its own upstream.  (It has an upstream in any case, which the
  first half of `UpstreamIsNotItself` says of every unit.)  `ReplacedForAReason` excepts extra arguments
  that name a flag twice (`Ambiguous`).
* `HostFiles` supposes of the administrators (`AdministratorsAssumption`) that
  the kubeconfigs they name are their own (`OwnKubeConfigs`) and not the one that
  edgectl writes, that these exist and name the API server by the same address,
  and that no extra argument gives yurt-hub an empty upstream or itself.
  `FilesAssumption` leaves out an empty `--controllers=`, which
  `DisableNodeLifeCycleController` turns into a list with an empty entry.
* When a convert fails after a revert, the backup of an earlier `yurt-hub.yaml` is
  put back, although the host had none (`HubFails`; `hubSpec` is then `Unknown`).
* `LifecycleFollows` excepts manifests on which the text edits have no effect: a
  list that names the controller itself or begins by switching it off, and a
  program that is started through another one.

### Bounds

`MaxGen` stops edits (a deletion may go one beyond it, and a completion another),
`MaxRelabel` relabelling, `MaxFaults` faults; in `NodeHost` `MaxRuns`,
`MaxEdits`, `MaxFaults`.  Nodes interact only through the object and the
manager's conjunction over all of them, so one node shows the races of a node
with the manager and two show the conjunction.  Two generations are enough for
a copy to be older than a condition, than an observed generation and than a
deletion.  Two relabels bring a node back to the type it had.  `FromApplied` and
`FromConverted` begin at states that runs of `Spec` from `Create` on come to when nobody
interferes (`Converges` says that they do): an approved and applied object with all
copies fresh, and the nodes yet to be converted or converted already.  What comes
before is in `YO_edits` and `YO_faults`, and leaving it out makes room for the second
relabel and for the second agent.  One fault at any of the steps of some tens of steps covers what a
fault does, including a second attempt; five runs of edgectl are a conversion,
another type, a revert and a repetition after a failure.  The passing
instances have between 160 000 and four million states and take at most three
minutes each.  In `MO_passes` the three specs are a public server with an agent,
a server behind a node port with more replicas than nodes, and a server
switched off with the agent's flag left out: the edit between two of them adds
and removes each optional object; one event is a fault at any of the calls.
`HF_contents` bounds nothing but its inputs: any number of runs.
The mutants in the modules (marked "Mutant") are the plausible bugs that each
property was seen to catch within its own bounds.

### Fairness

`FairSpec` assumes that every informer eventually gets the version it lacks, that the
handler of Node events is eventually called, and that
a reconciler that can act is eventually called, in `ManagedObjects` as well.
The code justifies the second although errors are swallowed on the way (the
shell command): every reconciler watches Nodes, and the kubelets update these
every few minutes at the latest.  Within a pass, steps follow one another.
The subscripts are the variables of the actor a condition is about, which every
step of it that matters changes; the other variables are left out to keep the
check small.
Users, faults and crashes have no fairness.

## 4. The proofs

`YurtOperatorProofs` proves, for all constants that satisfy
`ConstantsAssumption`, any number of nodes, faults and edits:

* `TypeCorrect == Spec => []TypeOK`.  The invariant is inductive; one lemma per
  action.
* `ProxyKept == Spec => []KubeletHasProxy`.  The invariant is not inductive: a
  run may be between its stages.  `ProxyInv` adds that an agent about to set up
  its kubelet has a yurt-hub manifest and that one about to remove yurt-hub has
  a kubelet on the API server.  It rests on the order of the stages alone.
* `GenerationsSound == Spec => []GenerationsIssued`.  `IssuedInv` extends the
  bound to the places a generation passes through: the copy the manager works
  on, the generation it is about to record, those in caches.  A cache never has
  a later generation than the API server has now, because generations only
  rise (`HeldLater`).

`NodeHostProofs` proves of one host, for all flags and any number of runs,
edits and faults that satisfy `HostAssumption`:

* `TypeCorrect == Spec => []TypeOK`.  The types are inductive only together
  with `OpInv`, a run takes the steps of its own type: `WriteHub` writes the
  manifest of the type of the run.
* `BackupKept`, `Spec => []BackupIsOriginal`, and `ReportsRight`,
  `Spec => []ReportedFilesAreRight`, when the host has a `kubeadm-flags.env` to
  begin with (`"absent" \notin InitialConfs`; without it there is nothing to
  back up).  `BackupInv` adds that a run about to write, restore or roll back
  holds what it would restore; `ReportInv` adds, for each step of a run, the
  files it has seen to by then, and that nothing is reported while a run is
  under way, so a run that is cut off reports nothing.  Neither mentions faults:
  a cut leaves every file as it is, and the next run compares contents rather
  than trusting what an earlier one claimed.

`YurtOperatorSafety` builds on the first of these:

* `ApprovalComesFirst == Spec => []ApprovedFirst`.  `ApprovedInv` adds that no
  cache and no pass holds an approved copy of an object that is not approved,
  and that the manager past its approval step works on an approved one.
* `ConditionsAreTrue == Spec => []CompletedIsReal`.  `RealInv` follows a run of
  edgectl: what it has read, what it has done to the host by each of its steps,
  and that what it is about to report is true.  Stale conditions are told from
  true ones by their generation, hence the use of `IssuedInv`.
* `GoneIsClean`: `Spec => []GoneMeansClean` when `"swallow" \notin FaultKinds`.
  `CleanInv` says what a deleting pass has removed by each step, and that
  after it no pass on a copy that is not deleting can still be under way.

and, of its action properties:

* `StatusKeepsRising == Spec => StatusNeverRegresses`.  A merge patch sends only
  what differs from the writer's copy; `StatusInv` orders the generations and
  observed generations of object, cache and pass, so what differs is newer.
* `ObservedIsApplied`: `Spec => ObservedMeansApplied` without swallowed reads.
  `AppliedInv` says which resources a pass without an error has applied, or
  removed, by each of its steps, and at which generation.
* `ReleaseIsLast == Spec => ReleaseFindsReverted`, from `CompletedIsReal` and the
  invariants of the copies.

`NodeHostProofs` ends with `StagesImplemented`: `Spec => ImplementsStages` when
the faults are failing services, stages that fail at their start and cuts between
stages, and the hosts have a `kubeadm-flags.env`.  `StageInv` says, for each step inside a stage, how the host
differs from the one the stage began with and what the run still holds to roll
back with; a stage step of `HostStages` is then the step that leaves the stage,
and every other one is a stutter.  There is a lemma for each way to leave a
stage and one for the steps inside.

`YurtOperatorRefinement` proves `ContractImplemented`: `Spec => ImplementsContract`
when `"swallow" \notin FaultKinds`, with a lemma for each kind of step.  Users,
caches and crashes are steps of the contract under any states; nodes and agents
are stutters.  That a pass moves resources only towards its copy's goal needs
`OrderInv` (a step of the applying part is on an approved copy that is not being
deleted); that it records only what is at its goal needs `AppliedInv`, or
`CleanInv` when it deletes, and that the record is newer `StatusInv`; that a
released object has left nothing needs `CleanInv`.

`NodeSelection` proves `MergedThenRemoved` (section 2).

`ManagedObjectsProofs` proves, of any specs, control plane, touched objects and
faults that satisfy `ObjectsAssumption`, all safety properties of `MO_passes`:
`TypeCorrect`, `BasesFirstAlways` (`WorkloadHasItsBase`), `LittleIsLeft`
(`GoneLeavesLittle`) and `ObservedIsThere` (`ObservedMeansObjects`).  First come
facts about the plans, which are sequences put together from pieces: the calls
they consist of (`ApplyPlanIs`, `DeletePlanIs`), that the calls of a part stand
together (`PartsStandTogether`), that no plan applies what it deletes
(`CallsAre`), that one that does not panic sees to every object
(`AllAreSeenTo`), and that the bases come before the workloads (`BasesFirst`).
The inductive invariant is
`IInv`: `CopyInv` orders the copies by age; `PassInv` says that the calls before
the present one are done, those of its own part in any case and those of all
parts when there was no error; `CleanInv` that a deletion that has been observed
is done and only deletions follow it.

Its last theorem is `ContractImplemented`, `Spec => ImplementsContract`, with no
hypothesis on faults or administrators: `InHands` says of which objects the
contract speaks.  `SeenInv` adds that a pass works on an object that was there,
and that nothing is recorded beyond what the manager has seen.  An apply or a delete is
a `Work` of the contract because no plan applies what it deletes (`CallsAre`)
and because an object that one of them leaves as it is was in hand before or is
not in hand after (`CallsNear`); the end of a pass is a `Record` or a `Release`
because a pass without an error has done its whole plan (`AllDoneAtEnd`) and
because of `CleanInv`.

`HostFilesProofs` proves all seven properties of `HF_contents`, of any
arguments, specs and manifests that satisfy `FilesAssumption` and
`AdministratorsAssumption`, and of any number of runs, edits and passes:
`TypeCorrect`, `KubeletConnects`, `UpstreamIsAnother`, `FormsCorrect`,
`LifecycleIsSwitched`, `OthersKept`, `ReplacedOnlyForAReason`.  Its lists have
any length, and the functions on them are recursive, so the facts it needs of
them are proved by induction.  `ListLemmas` has that induction for sets instead
of predicates (`NumberInduction`, `ListInduction`: a set with the empty list
and, with each list, those one entry longer, has all lists), from the library's
theorem that every set of numbers has a least one, and with it what `Pruned`
does to a list: it keeps exactly the entries that are not to be dropped, step
by step as the list grows, and a list that has none to drop stays as it is.  The rest is in three parts.

* *The kubelet's arguments.*  `First` and `Again` are the two forms of a rewritten
  file: edgectl's flags among the arguments, with its `--kubeconfig` or its empty
  `--bootstrap-kubeconfig` at the end.  A convert turns any own form into `First`, and
  `First` into `Again`, which stays (`EnvInv`, `FormsCorrect`); in each of them
  the last `--kubeconfig` of the line is edgectl's.
* *yurt-hub.yaml.*  `HubInv` says that both the manifest and its backup were
  rendered with an upstream (`Served`) and, while the spec they stem from is
  known, that the manifest is one of the contents that spec renders to.  That
  the upstream is the same on every run, `"apiserver"`, comes from `EnvInv`: the
  greedy expression finds the unit's `--kubeconfig` whatever form the file has.
* *The controllers of the kube-controller-manager.*  `KcmInv` holds the lists
  against those that were given: `Alike` says that two lists say the same of
  every other controller, `Says` what a list says of one and `Verdict` whether it
  runs it; a pass may add, move or take out its own
  `Switch` and nothing else.

Model-checked only: liveness (`Converges`, `DeletionCompletes`, `Repairs`), which
needs fairness and `ENABLED` and is out of reach of the prover.  The claims of
section 3 are refuted, by their counterexamples.

## 5. What is not modelled

* Ports, certificate names, string defaults, the text of templates beyond what
  section 2 names, discovery and decoding of manifests.
* The paths of the kubelet's configuration file and of its static pods, and its
  health port: fixed on a host.  (The expression for `--pod-manifest-path` ends
  in a quote that the command line does not have, so the path always is that of
  the configuration file or the default.)
* Label selectors as terms: a selector is the set of labels it matches, and what
  the library's matcher makes of a nil or empty one is left to it.
* A Node that is deleted while edgectl runs (edgectl then reports success
  without acting, and the host it speaks of is no longer part of the cluster).
* Rollbacks that fail, in `HostContract` and so in `YurtOperator`; `NodeHost` has
  them (`NH_cutoff`).
* Kubeconfigs given as two arguments, `--kubeconfig path`, which no expression of
  edgectl finds, and a missing `/etc/kubernetes/kubelet.conf`.
* A YurtCluster that is created again under the same name.  This was explored
  with a second object in `YurtOperator`: `GenerationsIssued` then fails, through
  the observed generation as well as through a node's condition, since merge
  patches carry no uid and a pass or a run of edgectl on the old object writes
  into the new one; the other invariants of `YO_edits` and `YO_faults` held.
  No sentence of the sources promises otherwise, and the generations of two
  objects would double every statement about one, so it is not in the module.
* Client set-up, command lines, logging, charts and scripts.
* In `YurtOperator` an agent is cut off between the stages of edgectl only;
  inside a stage, see `NodeHost`.  There, operations on files that exist
  succeed but for those a stage begins with (`GiveUp`), and a restart that is said to succeed starts the kubelet with the
  file as it is.
* Nodes and conditions in `ManagedObjects`: whether the nodes are done is a free
  choice in `End`.  `ManagedObjects` begins when the object has been approved.

## 6. Plan

Done: the core with its theorems (`YurtOperator`), edgectl by stages and by steps
with the refinement between them, checked and proved (`HostContract`,
`HostStages`, `NodeHost`), the manager object by object (`ManagedObjects`) and
what both models of it promise (`ManagerContract`), checked and proved, the
contents of the files (`HostFiles` and what it extends), node sets
(`NodeSelection`).

Left: a second YurtCluster under the same name, once the sources say what is to
hold of it (section 5).

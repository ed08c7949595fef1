------------------------------ MODULE HostFiles ------------------------------
(***************************************************************************)
(* What is in the files of a control-plane host: the flags of the kubelet,   *)
(* the manifest of yurt-hub and that of the kube-controller-manager, as the  *)
(* agent, edgectl and an administrator write them in any order.  Where        *)
(* NodeHost has the steps of a run and treats contents as opaque, runs are    *)
(* whole here and contents are what matters.                                   *)
(***************************************************************************)
EXTENDS NodeLifecycle, KubeletArgs, HubManifest

CONSTANTS
    Units,     \* the arguments that the kubelet's service unit may pass
    EnvArgs,   \* what an administrator writes into kubeadm-flags.env
    Specs,     \* the specs of the YurtCluster
    Written    \* the kube-controller-manager manifests an administrator writes

ASSUME FilesAssumption ==
    /\ Units \subseteq Seq(Args) /\ Units # {}
    /\ EnvArgs \subseteq Seq(Args) /\ EnvArgs # {}
    /\ Specs \subseteq HubSpecs /\ Specs # {}
    /\ Written \subseteq Manifests /\ Written # {}
    /\ \A manifest \in Written : \A i \in DOMAIN manifest.lists : manifest.lists[i] # <<>>

\* Administrators name kubeconfigs of their own, which exist, as kubeadm's does,
\* and name the API server in the same way; and nobody tells yurt-hub to use
\* nothing or itself.
ASSUME AdministratorsAssumption ==
    /\ \A args \in Units \cup EnvArgs : \A i \in DOMAIN args :
           args[i].flag = "kubeconfig" => args[i].value \in OwnKubeConfigs
    /\ \A s \in Specs, type \in ConvertTypes : \A a \in s.hub[type].extraArgs :
           a.name = "server-addr" => a.value \notin {"", "hub"}

VARIABLES
    unit,      \* the arguments of the service unit
    env,       \* the arguments in kubeadm-flags.env, which the kubelet runs with
    envBackup, \* its backup: none or one
    form,      \* history: env as NodeHost sees it, a member of its Confs
    hub,       \* yurt-hub.yaml
    hubBackup, \* its backup
    spec,      \* the spec of the YurtCluster
    hubSpec,   \* history: the spec that hub was rendered from, or Unknown
    mode,      \* history: what the last run or edit made of the kubelet
    kcm,       \* the manifest of the kube-controller-manager
    given,     \* history: that manifest as the administrator wrote it
    kcmMode    \* history: what the last pass made of it

kubeletVars == <<env, envBackup, form, mode>>
hubVars == <<hub, hubBackup, hubSpec>>
kcmVars == <<kcm, given, kcmMode>>
vars == <<unit, kubeletVars, hubVars, spec, kcmVars>>

\* A yurt-hub.yaml that was put back after a revert may be of any spec.
Unknown == [repository |-> "unknown"]

\* The command line of the running kubelet.
Line == unit \o env

\* LoadKubeletConfiguration: the upstream server that a run finds in it.
Upstream == ServerIn(Path(Line))

HasKubeConfig(args) == \E i \in DOMAIN args : args[i].flag = "kubeconfig"

FormOf(args) == IF HasKubeConfig(args) THEN "own" ELSE "none"

\* The rewriting as NodeHost has it.
NextForm(f) == IF f = "none" THEN "first" ELSE "again"

TypeOK ==
    /\ unit \in Seq(Args) /\ env \in Seq(Args)
    /\ envBackup \in {<<>>} \cup {<<args>> : args \in EnvArgs}
    /\ form \in {"none", "own", "first", "again"}
    /\ hub \in Manifest \cup {NoManifest} /\ hubBackup \in Manifest \cup {NoManifest}
    /\ spec \in Specs /\ hubSpec \in Specs \cup {Unknown}
    /\ mode \in {"direct", "hub", "edited"}
    /\ kcm \in Manifests /\ given \in Written
    /\ kcmMode \in {"given", "on", "off"}

Init ==
    /\ unit \in Units
    /\ env \in EnvArgs /\ form = FormOf(env)
    /\ envBackup = <<>>
    /\ hub = NoManifest /\ hubBackup = NoManifest
    /\ spec \in Specs /\ hubSpec = Unknown
    /\ mode = "direct"
    /\ kcm \in Written /\ given = kcm
    /\ kcmMode = "given"

-----------------------------------------------------------------------------
(* edgectl *)

\* Mutant: the backup is renewed by each run.
BackupAnew == <<env>>

\* The backup is taken by the first run that gets there, and kept.
Backup == IF envBackup = <<>> THEN <<env>> ELSE envBackup

\* setupYurtHub compares, backs up and writes; when yurt-hub does not come up
\* the file goes and a backup comes back, also one from before a revert.
HubWritten(content) ==
    /\ hub' = content
    /\ hubBackup' = IF hub \in {NoManifest, content} THEN hubBackup ELSE hub
    /\ hubSpec' = IF hub = content THEN hubSpec ELSE spec

HubFails(content) ==
    LET backup == IF hub = NoManifest THEN hubBackup ELSE hub IN
    /\ hub' = IF hub = content THEN hub ELSE backup
    /\ hubBackup' = IF hub \in {NoManifest, content} THEN hubBackup ELSE hub
    /\ hubSpec' = IF hub = NoManifest THEN Unknown ELSE hubSpec

\* A convert run that succeeds; one that fails in its second stage, whose
\* rollback brings the backup back; and one that fails in its first, or in its
\* second before there is a rollback.
Convert(type) ==
    \E content \in Contents(spec, type, Upstream) :
        /\ \/ /\ HubWritten(content)
              /\ env' = Rewritten(env) /\ form' = NextForm(form)
              /\ envBackup' = Backup /\ mode' = "hub"
           \/ /\ HubWritten(content)
              /\ env' = Backup[1] /\ form' = FormOf(Backup[1])
              /\ envBackup' = Backup /\ mode' = "direct"
           \/ (HubWritten(content) \/ HubFails(content)) /\ UNCHANGED kubeletVars
        /\ UNCHANGED <<unit, spec, kcmVars>>

\* A revert run.
Revert ==
    /\ env' = IF envBackup = <<>> THEN env ELSE envBackup[1]
    /\ form' = IF envBackup = <<>> THEN form ELSE FormOf(envBackup[1])
    /\ mode' = "direct"
    /\ hub' = NoManifest
    /\ UNCHANGED <<unit, envBackup, hubBackup, hubSpec, spec, kcmVars>>

\* The agent's pass on a control-plane node, before it looks at the node's type.
DisableLifecycle ==
    /\ kcm' = Disable(kcm) /\ kcmMode' = "off"
    /\ UNCHANGED <<unit, kubeletVars, hubVars, spec, given>>

EnableLifecycle ==
    /\ kcm' = Enable(kcm) /\ kcmMode' = "on"
    /\ UNCHANGED <<unit, kubeletVars, hubVars, spec, given>>

-----------------------------------------------------------------------------
(* Administrators and users *)

\* kubeadm-flags.env is written anew, as an upgrade does.
EditEnv(args) ==
    /\ env' = args /\ form' = FormOf(args) /\ mode' = "edited"
    /\ UNCHANGED <<unit, envBackup, hubVars, spec, kcmVars>>

EditManifest(manifest) ==
    /\ kcm' = manifest /\ given' = manifest /\ kcmMode' = "given"
    /\ UNCHANGED <<unit, kubeletVars, hubVars, spec>>

EditSpec(s) == spec' = s /\ UNCHANGED <<unit, kubeletVars, hubVars, kcmVars>>

Next ==
    \/ \E type \in ConvertTypes : Convert(type)
    \/ Revert \/ DisableLifecycle \/ EnableLifecycle
    \/ \E args \in EnvArgs : EditEnv(args)
    \/ \E manifest \in Written : EditManifest(manifest)
    \/ \E s \in Specs : EditSpec(s)

Spec == Init /\ [][Next]_vars

-----------------------------------------------------------------------------
(* The kubelet's flags and yurt-hub's manifest *)

\* After a convert the kubelet goes through yurt-hub, and after a failed one or
\* a revert as the administrator has it, whatever --kubeconfig the unit and the
\* file had: the last one counts.  (A backup is older than an edit that came
\* after the first convert; it is still the administrator's.)
KubeletConnectsAsMeant ==
    /\ mode = "hub" => Connects(Line) = "yurt"
    /\ mode \in {"direct", "edited"} => Connects(Line) # "yurt"

\* yurt-hub always has an upstream, and it is never yurt-hub itself, although the
\* API server's address is read from the flags of a kubelet that may be
\* converted already: the second for a unit that passes a --kubeconfig, as
\* kubeadm's does.
UpstreamIsNotItself ==
    hub # NoManifest =>
        /\ hub.args["server-addr"] # ""
        /\ HasKubeConfig(unit) => hub.args["server-addr"] # "hub"

\* A yurt-hub.yaml is replaced by another one only for a reason: the node
\* changes its type or the spec changed.  Otherwise each run would restart the
\* proxy of its node.  A name given twice in the extra arguments is the
\* exception: Go's order of the map then decides what is rendered.
ReplacedForAReason ==
    [][HasKubeConfig(unit) /\ hub # NoManifest /\ hub' \notin {hub, NoManifest} =>
         \/ hub'.type # hub.type
         \/ hubSpec # spec
         \/ Ambiguous(spec.hub[hub.type].extraArgs)]_vars

\* NodeHost's two forms of a rewritten file are what the arguments come to: no
\* more than one more run moves them, and from then on nothing changes.
FormsAreRight ==
    /\ form = "first" => /\ Rewritten(env) # env
                         /\ env[Len(env)] = Arg("kubeconfig", "yurt")
    /\ form = "again" => Rewritten(env) = env
    /\ form \in {"none", "own"} <=> ~\E i \in DOMAIN env : env[i] = Arg("kubeconfig", "yurt")

-----------------------------------------------------------------------------
(* The kube-controller-manager *)

\* After the pass that disables it the nodelifecycle controller is off, unless
\* the list names it or the manifest starts the program through something
\* else; after the one that enables it, it is on, unless a list begins by
\* switching it off or leaves it out.
LifecycleFollows ==
    /\ kcmMode = "off" /\ kcm.direct /\ ~NamesIt(kcm) => ~Runs(kcm, "nodelifecycle")
    /\ kcmMode = "on" /\ ~BeginsOff(kcm) /\ (\E i \in DOMAIN kcm.lists : Contains(kcm.lists[i], On("*")))
         => Runs(kcm, "nodelifecycle")

\* No other controller is switched by that, in any number of passes: except the
\* two that a new flag asks for, where the administrator had none.
OthersAreLeftAlone ==
    \A name \in {"attach", "bootstrapsigner", "tokencleaner"} :
        \/ Runs(kcm, name) = Runs(given, name)
        \/ given.lists = <<>> /\ name \in OffByDefault
=============================================================================

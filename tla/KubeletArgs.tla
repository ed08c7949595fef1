----------------------------- MODULE KubeletArgs -----------------------------
(***************************************************************************)
(* The command line of the kubelet: the arguments its service unit passes,   *)
(* then those of KUBELET_KUBEADM_ARGS in kubeadm-flags.env.  setupKubelet     *)
(* rewrites the second part, and edgectl guesses from the whole line where   *)
(* the API server is.                                                         *)
(***************************************************************************)
EXTENDS FiniteSetsExt, Pruning

\* Arguments "--flag=value".  The kubeconfigs are the administrator's: the
\* kubelet.conf that kubeadm writes, which edgectl falls back on, and two other
\* files, one of which ends in kubelet.conf as well; the one for bootstrapping,
\* which also does; and the one that points at yurt-hub.
Arg(flag, value) == [flag |-> flag, value |-> value]
OwnKubeConfigs == {"kubelet.conf", "local-kubelet.conf", "another"}
Args == [flag: {"kubeconfig", "bootstrap", "other"},
         value: OwnKubeConfigs \cup {"bootstrap-kubelet.conf", "yurt", "", "x"}]

Bootstraps == {a \in Args : a.flag = "bootstrap"}

EndsInKubeletConf(value) ==
    value \in {"kubelet.conf", "local-kubelet.conf", "bootstrap-kubelet.conf", "yurt"}

\* Mutants: the new flags come first; --bootstrap-kubeconfig is cleared where
\* it stands.
RewrittenFront(args) ==
    <<Arg("bootstrap", ""), Arg("kubeconfig", "yurt")>> \o Pruned(args, Bootstraps)
RewrittenInPlace(args) ==
    [i \in DOMAIN args |-> IF args[i].flag = "kubeconfig" THEN Arg("kubeconfig", "yurt") ELSE args[i]]
    \o <<Arg("bootstrap", "")>>

\* setupKubelet: each --kubeconfig is replaced where it stands; the empty
\* --bootstrap-kubeconfig goes to the end, followed by --kubeconfig when there
\* was none.
Rewritten(args) ==
    LET kept == Pruned(args, Bootstraps)
        there == \E i \in DOMAIN kept : kept[i].flag = "kubeconfig"
    IN [i \in DOMAIN kept |-> IF kept[i].flag = "kubeconfig" THEN Arg("kubeconfig", "yurt") ELSE kept[i]]
       \o <<Arg("bootstrap", "")>>
       \o (IF there THEN <<>> ELSE <<Arg("kubeconfig", "yurt")>>)

KubeConfigs(line) == {i \in DOMAIN line : line[i].flag = "kubeconfig"}

\* The kubelet takes the last value of a flag.
Connects(line) == IF KubeConfigs(line) = {} THEN "" ELSE line[Max(KubeConfigs(line))].value

\* Mutant: the last --kubeconfig is taken.
PathLast(line) == IF KubeConfigs(line) = {} THEN "kubelet.conf" ELSE Connects(line)

\* parseKubeConfigPath: the expression is greedy, from the first --kubeconfig=
\* to the last kubelet.conf after it; a match that spans more than one "=" is an
\* error, and the path is then the default.
Path(line) ==
    LET first == Min(KubeConfigs(line))
        ends == {i \in DOMAIN line : i >= first /\ EndsInKubeletConf(line[i].value)}
    IN IF KubeConfigs(line) # {} /\ ends = {first} THEN line[first].value ELSE "kubelet.conf"

\* The server in the kubeconfig at that path: the yurt-hub on the same host in
\* the file that edgectl writes, the API server in the administrator's.
ServerIn(path) ==
    IF path = "yurt" THEN "hub" ELSE IF path \in OwnKubeConfigs THEN "apiserver" ELSE ""
=============================================================================

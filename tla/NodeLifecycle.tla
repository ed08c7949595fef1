---------------------------- MODULE NodeLifecycle ----------------------------
(***************************************************************************)
(* The manifest of the kube-controller-manager on a control-plane node and   *)
(* what the agent makes of its --controllers flags: the nodelifecycle        *)
(* controller is switched off while a YurtCluster is in charge and on again  *)
(* when it is deleted.                                                        *)
(***************************************************************************)
EXTENDS SequencesExt, Pruning

\* An entry of a --controllers list is a name, or a name with a minus; a
\* manifest has such lists in its command, in order, none of them empty, and
\* runs the kube-controller-manager directly or through something else, as a
\* shell.
On(name) == [name |-> name, on |-> TRUE]
Off(name) == [name |-> name, on |-> FALSE]
Entries ==
    [name: {"*", "nodelifecycle", "attach", "bootstrapsigner", "tokencleaner"}, on: BOOLEAN]
Manifests == [direct: BOOLEAN, lists: Seq(Seq(Entries))]

\* The controllers that "*" does not include.
OffByDefault == {"bootstrapsigner", "tokencleaner"}

\* What the kube-controller-manager runs: the lists of all flags add up, the
\* first mention of a name counts, then "*".
Runs(manifest, name) ==
    LET all == IF manifest.lists = <<>> THEN <<On("*")>> ELSE FlattenSeq(manifest.lists)
        mentions == {i \in DOMAIN all : all[i].name = name}
    IN IF mentions # {} THEN all[Min(mentions)].on
       ELSE Contains(all, On("*")) /\ name \notin OffByDefault

Asked == <<On("*"), On("bootstrapsigner"), On("tokencleaner"), Off("nodelifecycle")>>

\* Mutants: a flag that is there is left alone; the new flag names only what is
\* switched off.
DisableUnlessSet(manifest) ==
    IF manifest.direct /\ manifest.lists = <<>> THEN [manifest EXCEPT !.lists = <<Asked>>] ELSE manifest
DisableOnly(manifest) ==
    IF manifest.direct /\ manifest.lists = <<>>
    THEN [manifest EXCEPT !.lists = <<<<Off("nodelifecycle")>>>>] ELSE manifest

\* DisableNodeLifeCycleController: the first --controllers flag gets the entry,
\* unless it has it; without a flag there will be one.
Disable(manifest) ==
    IF ~manifest.direct THEN manifest
    ELSE IF manifest.lists = <<>> THEN [manifest EXCEPT !.lists = <<Asked>>]
    ELSE IF Contains(manifest.lists[1], Off("nodelifecycle")) THEN manifest
    ELSE [manifest EXCEPT !.lists[1] = Append(@, Off("nodelifecycle"))]

\* EnableNodeLifeCycleController: ",-nodelifecycle" goes from every flag; the
\* first entry of a list has no comma before it.
Enable(manifest) ==
    LET Cut(list) ==
            IF list = <<>> THEN list
            ELSE <<Head(list)>> \o Pruned(Tail(list), {Off("nodelifecycle")})
    IN [manifest EXCEPT !.lists = [i \in DOMAIN @ |-> Cut(@[i])]]

\* A list on which neither of the two has the effect its name promises: one
\* that names the controller itself, or begins by switching it off, or a
\* manifest that starts the program through something else.
NamesIt(manifest) == \E i \in DOMAIN manifest.lists : Contains(manifest.lists[i], On("nodelifecycle"))
BeginsOff(manifest) ==
    \E i \in DOMAIN manifest.lists :
        manifest.lists[i] # <<>> /\ Head(manifest.lists[i]) = Off("nodelifecycle")
=============================================================================

----------------------------- MODULE HubManifest -----------------------------
(***************************************************************************)
(* The content of yurt-hub.yaml: the static pod of the node's type, with the *)
(* image, the upstream server and the extra arguments of the spec merged in. *)
(***************************************************************************)
EXTENDS FiniteSets, HostContract

Arguments == {"v", "server-addr"}
Texts == {"", "2", "4", "apiserver", "hub", "local", "latest", "repo"}

\* extraArgs: the keys of the map may have their dashes or not.
ExtraArgs == [name: Arguments, dashes: BOOLEAN, value: Texts]
ComponentConfigs == [repository: Texts, tag: Texts, extraArgs: SUBSET ExtraArgs]
HubSpecs == [repository: Texts, tag: Texts, hub: [ConvertTypes -> ComponentConfigs]]

\* GetYurtComponentImageByType: the component's own values before the common ones.
Image(spec, type) ==
    LET own == spec.hub[type]
        Prefer(a, b) == IF a # "" THEN a ELSE b
    IN [repository |-> Prefer(own.repository, spec.repository), tag |-> Prefer(own.tag, spec.tag)]

\* A name that is given both with and without dashes.
Ambiguous(extraArgs) == \E a, b \in extraArgs : a.name = b.name /\ a # b

\* MergeExtraArgsForContainer: the extra arguments overwrite and add; the result
\* is sorted, so it is a function of the names.  Of two keys that come to the
\* same name, the order of the map decides, which is any.
Merged(args, extraArgs) ==
    LET named(n) == {a \in extraArgs : a.name = n}
    IN {merged \in [DOMAIN args -> {args[n] : n \in DOMAIN args} \cup {a.value : a \in extraArgs}] :
          \A n \in DOMAIN args :
              IF named(n) = {} THEN merged[n] = args[n]
              ELSE \E a \in named(n) : merged[n] = a.value}

\* What setupYurtHub may render.
Contents(spec, type, upstream) ==
    {[type |-> type, image |-> Image(spec, type), args |-> args] :
        args \in Merged([n \in Arguments |-> IF n = "v" THEN "2" ELSE upstream], spec.hub[type].extraArgs)}

Manifest ==
    [type: ConvertTypes, image: [repository: Texts, tag: Texts], args: [Arguments -> Texts]]
NoManifest == [type |-> "none"]
=============================================================================

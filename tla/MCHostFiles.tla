----------------------------- MODULE MCHostFiles -----------------------------
(* Small instances of HostFiles for TLC. *)
EXTENDS HostFiles

\* kubeadm's unit, one that names a file of its own, with or without kubeadm's
\* ending, and one that leaves it to kubeadm-flags.env.
SomeUnits ==
    {<<Arg("bootstrap", "bootstrap-kubelet.conf"), Arg("kubeconfig", "kubelet.conf")>>,
     <<Arg("kubeconfig", "another"), Arg("other", "x")>>,
     <<Arg("kubeconfig", "local-kubelet.conf")>>,
     <<>>}

SomeEnvArgs ==
    {<<Arg("other", "x")>>,
     <<Arg("kubeconfig", "kubelet.conf"), Arg("other", "x"), Arg("bootstrap", "bootstrap-kubelet.conf")>>,
     <<Arg("kubeconfig", "another"), Arg("kubeconfig", "local-kubelet.conf")>>}

Plain == [repository |-> "", tag |-> "", extraArgs |-> {}]
With(extraArgs) == [Plain EXCEPT !.extraArgs = extraArgs]
Extra(name, dashes, value) == [name |-> name, dashes |-> dashes, value |-> value]

\* A plain spec; one with an image and an argument for edge nodes; and one that
\* gives an argument twice.
SomeSpecs ==
    {[repository |-> "repo", tag |-> "latest", hub |-> [t \in ConvertTypes |-> Plain]],
     [repository |-> "repo", tag |-> "latest",
      hub |-> [CloudNode |-> Plain,
               EdgeNode |-> [repository |-> "local", tag |-> "", extraArgs |-> {Extra("v", FALSE, "4")}]]],
     [repository |-> "repo", tag |-> "latest",
      hub |-> [CloudNode |-> With({Extra("v", FALSE, "4"), Extra("v", TRUE, "2")}), EdgeNode |-> Plain]]}

Direct(lists) == [direct |-> TRUE, lists |-> lists]

\* kubeadm's flag; none; lists that name the controller, begin by switching it
\* off, or do so further on; two flags; a wrapped program.
SomeManifests ==
    {Direct(<<<<On("*"), On("bootstrapsigner"), On("tokencleaner")>>>>),
     Direct(<<>>),
     Direct(<<<<On("nodelifecycle"), On("*")>>>>),
     Direct(<<<<Off("nodelifecycle"), On("*")>>>>),
     Direct(<<<<On("*"), Off("attach"), Off("nodelifecycle")>>>>),
     Direct(<<<<On("attach")>>, <<On("*"), Off("tokencleaner")>>>>),
     [direct |-> FALSE, lists |-> <<<<On("*")>>>>]}
=============================================================================

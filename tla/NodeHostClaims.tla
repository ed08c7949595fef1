--------------------------- MODULE NodeHostClaims ---------------------------
(***************************************************************************)
(* What a comment in edgectl says of a host and its steps do not always do:  *)
(* the claim is refuted by a run of its own.                                  *)
(***************************************************************************)
EXTENDS NodeHost

\* "revertKubelet reverts kubelet to connect kube-api-server directly": when a
\* revert has reported "Node was reverted successfully", the kubelet talks to
\* the API server.  A revert that was cut off between restoring the file and
\* restarting the kubelet leaves the next one with nothing to do.
RevertedMeansDirect ==
    reported.ok /\ reported.op = "NormalNode" => Endpoint(kubelet) = "apiserver"
=============================================================================

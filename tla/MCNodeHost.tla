----------------------------- MODULE MCNodeHost -----------------------------
(* Small instances of NodeHost for TLC. *)
EXTENDS NodeHostClaims

CONSTANTS v1, v2   \* the flags of the kubelet before and after an upgrade
=============================================================================

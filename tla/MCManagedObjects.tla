-------------------------- MODULE MCManagedObjects --------------------------
(* Small instances of ManagedObjects for TLC. *)
EXTENDS ManagedObjects

Tunnel(server, agent, public, count) ==
    [server |-> server, agent |-> agent, public |-> public, count |-> count]

\* A public server and an agent; two servers behind a node port; no server and
\* the agent's flag left out.
SomeSpecs ==
    {Tunnel("on", "on", TRUE, 0), Tunnel("on", "off", FALSE, 2), Tunnel("off", "nil", FALSE, 0)}
SomeObjects == {"hubTpl", "serverRole", "internalSvc", "serverDaemon"}
=============================================================================

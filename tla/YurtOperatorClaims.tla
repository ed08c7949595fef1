------------------------- MODULE YurtOperatorClaims -------------------------
(***************************************************************************)
(* What the documentation, a comment or a name in the code says of the       *)
(* operator and the code does not do: each claim is refuted by a run of its  *)
(* own.                                                                       *)
(***************************************************************************)
EXTENDS YurtOperator

Settled(n) == agent[n] = IdleAgent /\ aview[n].state = "gone"

\* "Revert the cluster to normal: kubectl delete yurtclusters cluster"
\* (charts/README.md): once the object is gone and the agents know it, every
\* host is a normal one.  An edgectl run that has not reported yet is "no
\* conditions, treat it as a normal node" to the manager.
GoneMeansReverted ==
    yc.state = "gone" /\ (\A n \in Nodes : Settled(n)) =>
        \A n \in Nodes : host[n] = NormalHost

\* "add edge label for node" and "remove edge label from node labels" (the
\* agent's reconcile functions): an agent whose caches are up to date and that
\* has nothing left to do has given its worker node the label of its type.
EdgeLabelFollows ==
    \A n \in Nodes \ ControlPlane :
        /\ yc.state = "present" /\ yc.fin
        /\ yc.cond[n] # NoCondition /\ Served(n)
        /\ agent[n] = IdleAgent
        /\ aview[n] = ViewOf(yc, n, nodeLabel[n], edgeLabel[n])
        => edgeLabel[n] = EdgeFor(Wanted(yc.spec, yc.deleting, n, nodeLabel[n]))
=============================================================================

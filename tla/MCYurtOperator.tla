--------------------------- MODULE MCYurtOperator ---------------------------
(* Small instances of YurtOperator for TLC. *)
EXTENDS YurtOperatorClaims

CONSTANTS m, w,       \* a control-plane node and a worker
          cloud, edge \* values of the node-type label

S == INSTANCE NodeSelection

On(label) == S!Selected([S!NoNodeSet EXCEPT !.selector = Labels \cap {label}])

\* The worker, which a pattern names, unless an instance has no worker; a
\* pattern that does not compile excludes nobody.
Worker ==
    S!Selected([S!NoNodeSet EXCEPT !.namePattern = [kind |-> "valid", names |-> Nodes \cap {w, m}],
                               !.excludedNames = {m},
                               !.excludedNamePattern = [kind |-> "invalid", names |-> {w}]])

\* A spec that selects nodes by label, as the sample manifest does.
Sample(hubCloud, hubEdge, server, agentFlag) ==
    [cloud |-> On(cloud), edge |-> On(edge),
     hub |-> [CloudNode |-> hubCloud, EdgeNode |-> hubEdge],
     tunnel |-> [server |-> server, agent |-> agentFlag]]

Full == Sample("on", "on", "on", "on")
Unset == Sample("nil", "nil", "nil", "nil")
Half == [Sample("off", "on", "off", "off") EXCEPT !.cloud = On(edge), !.edge = On(cloud)]
Nobody == [Full EXCEPT !.cloud = {}, !.edge = {}]

\* The specs of the runs: one; the worker by name and the other nodes by label;
\* ones that leave flags out, or switch some off and swap the roles of the
\* labels, each also written over the other; and one that selects no node.
OnlyFull == {Full}
OnlyBoth == {[Full EXCEPT !.cloud = On(cloud) \ Worker, !.edge = Worker]}
Editing == {Unset, Half}
Switching == {Full, Nobody}

\* Where a run of Spec gets to when nobody interferes (see Converges): the spec
\* is approved and applied, every copy is fresh, and the nodes of done have been
\* converted, the others' agents having yet to begin.  Instances that are about
\* what comes next start here.
Start(done) ==
    LET s == CHOOSE s \in Specs : TRUE
        Type(n) == IF n \in done THEN NodeType(s, n, nodeLabel[n]) ELSE "NormalNode"
    IN
    /\ nodeLabel \in [Nodes -> Labels]
    /\ yc = [NoCluster("present") EXCEPT
                !.gen = 1, !.spec = s, !.fin = TRUE, !.obsGen = 1,
                !.phase = IF done = Nodes THEN "Succeed" ELSE "Converting",
                !.cond = [n \in Nodes |->
                            IF n \in done THEN [status |-> "True", reason |-> Type(n), gen |-> 1]
                            ELSE NoCondition]]
    /\ edgeLabel = [n \in Nodes |->
                      IF n \in ControlPlane THEN "false" ELSE EdgeFor(Type(n))]
    /\ templates = Templates
    /\ res = [r \in Resources |-> 1]
    /\ mview = yc
    /\ mnode = [n \in Nodes |-> NodeCopy(n, nodeLabel[n], edgeLabel[n])]
    /\ mgr = IdleManager
    /\ aview = [n \in Nodes |-> ViewOf(yc, n, nodeLabel[n], edgeLabel[n])]
    /\ agent = [n \in Nodes |-> IdleAgent]
    /\ host = [n \in Nodes |-> HostOf(Type(n))]
    /\ kcm = [n \in Nodes |-> IF n \in ControlPlane \cap done THEN "off" ELSE "on"]
    /\ unreported = [n \in Nodes |-> FALSE]
    /\ relabels = 0 /\ faults = 0

FromApplied == Start({}) /\ [][Next]_vars
FromConverted == Start(Nodes) /\ [][Next]_vars
=============================================================================

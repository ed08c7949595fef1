---------------------------- MODULE NodeSelection ----------------------------
(***************************************************************************)
(* The node sets of a YurtCluster spec: which nodes, with which labels, its  *)
(* clauses select.  YurtOperator works with the relation that comes out.     *)
(***************************************************************************)

CONSTANTS
    Nodes,   \* the nodes, by name
    Labels   \* values of the node label that selectors match

\* A regular expression is the set of names it matches; one that does not
\* compile is reported in the log and matches nothing, as does an empty one.
Patterns == [kind: {"unset", "valid", "invalid"}, names: SUBSET Nodes]

\* A selector is the set of labels it matches; without one, or with terms that
\* do not parse, nothing matches.
NodeSets ==
    [names: SUBSET Nodes, namePattern: Patterns, selector: SUBSET Labels,
     excludedNames: SUBSET Nodes, excludedNamePattern: Patterns]

Matches(pattern, n) == pattern.kind = "valid" /\ n \in pattern.names

\* inNodeSet: three ways in, each tried when those before it failed, then two
\* ways out.
InNodeSet(n, label, set) ==
    /\ \/ n \in set.names
       \/ Matches(set.namePattern, n)
       \/ label \in set.selector
    /\ n \notin set.excludedNames
    /\ ~Matches(set.excludedNamePattern, n)

Selected(set) == {p \in Nodes \X Labels : InNodeSet(p[1], p[2], set)}

-----------------------------------------------------------------------------
NamesOf(pattern) == IF pattern.kind = "valid" THEN pattern.names ELSE {}

\* The clauses come to the set that the comment on NodeSet describes: "merge the
\* nodes that selected by Names, NamePattern, and Selector, and then remove the
\* nodes that match ExcludedNames and ExcludedNamePattern", with the patterns
\* that compile; whatever the order in which inNodeSet gives up on a node.
THEOREM MergedThenRemoved ==
    ASSUME NEW set \in NodeSets
    PROVE  Selected(set) =
             ((((set.names \cup NamesOf(set.namePattern)) \X Labels)
                 \cup (Nodes \X set.selector))
              \ ((set.excludedNames \cup NamesOf(set.excludedNamePattern)) \X Labels))
<1>1. set.names \subseteq Nodes /\ set.selector \subseteq Labels /\ set.excludedNames \subseteq Nodes
    BY DEF NodeSets
<1>2. NamesOf(set.namePattern) \subseteq Nodes /\ NamesOf(set.excludedNamePattern) \subseteq Nodes
    BY DEF NodeSets, Patterns, NamesOf
<1>3. ASSUME NEW n \in Nodes, NEW l \in Labels
      PROVE  InNodeSet(n, l, set) <=>
               /\ n \in set.names \cup NamesOf(set.namePattern) \/ l \in set.selector
               /\ n \notin set.excludedNames \cup NamesOf(set.excludedNamePattern)
    BY DEF InNodeSet, Matches, NamesOf
<1>4. ASSUME NEW p \in Nodes \X Labels
      PROVE  p \in Selected(set) <=> InNodeSet(p[1], p[2], set)
    BY DEF Selected
<1>5. Selected(set) \subseteq Nodes \X Labels
    BY DEF Selected
<1> DEFINE merged == set.names \cup NamesOf(set.namePattern)
           removed == set.excludedNames \cup NamesOf(set.excludedNamePattern)
<1>6. ASSUME NEW p \in Nodes \X Labels
      PROVE  p \in Selected(set) <=>
               p \in ((merged \X Labels) \cup (Nodes \X set.selector)) \ (removed \X Labels)
    <2>1. p = <<p[1], p[2]>> /\ p[1] \in Nodes /\ p[2] \in Labels
        OBVIOUS
    <2>2. p \in Selected(set) <=> (p[1] \in merged \/ p[2] \in set.selector) /\ p[1] \notin removed
        BY <1>3, <1>4, <2>1
    <2>3. (p \in merged \X Labels <=> p[1] \in merged) /\ (p \in Nodes \X set.selector <=> p[2] \in set.selector)
        BY <2>1
    <2>4. p \in removed \X Labels <=> p[1] \in removed
        BY <2>1
    <2> QED BY <2>2, <2>3, <2>4
<1>7. ((merged \X Labels) \cup (Nodes \X set.selector)) \ (removed \X Labels) \subseteq Nodes \X Labels
    BY <1>1, <1>2
<1> QED BY <1>5, <1>6, <1>7

-----------------------------------------------------------------------------
NoPattern == [kind |-> "unset", names |-> {}]
NoNodeSet ==
    [names |-> {}, namePattern |-> NoPattern, selector |-> {},
     excludedNames |-> {}, excludedNamePattern |-> NoPattern]
=============================================================================

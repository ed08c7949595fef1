-------------------------- MODULE ManagerContract ---------------------------
(***************************************************************************)
(* What the manager promises of the objects it manages, whatever they are    *)
(* and in whatever order a pass goes through them.  They come in units, those *)
(* of yurt-hub, of the tunnel server and of the tunnel agent.  YurtOperator,  *)
(* which has each unit as one generation, and ManagedObjects, which has every *)
(* call on every object, implement it.                                       *)
(***************************************************************************)
EXTENDS Naturals

CONSTANT Units

VARIABLES
    obj,   \* the YurtCluster, as far as the manager's work depends on it
    view,  \* the manager's cached copy
    pass,  \* whether a pass is under way, and the copy it works on
    unit   \* unit[u]: the generations the objects of u were rendered from, of
           \* those that are in the manager's hands

vars == <<obj, view, pass, unit>>

\* whole: no flag is left out; wants: the units it switches on; obs: the
\* observed generation.
Clusters ==
    [state: {"present"}, gen: Nat, deleting: BOOLEAN, approved: BOOLEAN,
     whole: BOOLEAN, wants: SUBSET Units, obs: Nat]

Nothing(state) ==
    [state |-> state, gen |-> 0, deleting |-> FALSE, approved |-> FALSE,
     whole |-> FALSE, wants |-> {}, obs |-> 0]

Idle == [busy |-> FALSE, copy |-> Nothing("absent")]

\* 0 stands for an object that does not exist.
Nowhere == [u \in Units |-> {0}]

Fresh(c) == c \in Clusters /\ c.gen = 1 /\ ~c.deleting /\ c.obs = 0

\* Before the first pass; or from an approval on.
Init ==
    /\ obj = Nothing("absent") \/ (Fresh(obj) /\ obj.approved)
    /\ view = obj
    /\ pass = Idle
    /\ unit = Nowhere

Create ==
    /\ obj.state = "absent"
    /\ Fresh(obj') /\ ~obj'.approved
    /\ UNCHANGED <<view, pass, unit>>

\* An edit and a deletion start a generation.
Edit ==
    /\ obj.state = "present" /\ obj'.gen > obj.gen
    /\ \/ \E whole \in BOOLEAN, wants \in SUBSET Units :
            obj' = [obj EXCEPT !.whole = whole, !.wants = wants, !.gen = @ + 1]
       \/ obj.approved /\ ~obj.deleting /\ obj' = [obj EXCEPT !.deleting = TRUE, !.gen = @ + 1]
    /\ UNCHANGED <<view, pass, unit>>

\* What nobody approved goes at once.
Drop ==
    /\ obj.state = "present" /\ ~obj.approved
    /\ obj' = Nothing("gone")
    /\ UNCHANGED <<view, pass, unit>>

Sync == view' = obj /\ UNCHANGED <<obj, pass, unit>>

\* What a copy of the YurtCluster asks of the objects of a unit.
Goal(copy, u) == IF copy.deleting \/ u \notin copy.wants THEN 0 ELSE copy.gen

AtGoal(copy) == \A u \in Units : unit[u] \subseteq {Goal(copy, u)}

\* Some objects become what an approved copy asks for and the others stay as
\* they are, or slip out of the manager's hands.
Moves(copy) ==
    /\ unit' \in [Units -> SUBSET Nat]
    /\ \A u \in Units : unit'[u] \subseteq unit[u] \cup {Goal(copy, u)}
    /\ unit' # unit => copy.approved

\* Somebody else takes an object in hand.
Lose ==
    /\ unit' # unit
    /\ unit' \in [Units -> SUBSET Nat]
    /\ \A u \in Units : unit'[u] \subseteq unit[u]
    /\ UNCHANGED <<obj, view, pass>>

Begin ==
    /\ ~pass.busy /\ view.state = "present"
    /\ pass' = [busy |-> TRUE, copy |-> view]
    /\ Moves(view)
    /\ UNCHANGED <<obj, view>>

Work == pass.busy /\ UNCHANGED <<obj, view, pass>> /\ Moves(pass.copy)

\* The approval may complete flags, which starts a generation.
Approve ==
    /\ pass.busy /\ ~pass.copy.approved /\ obj.state = "present"
    /\ \/ obj' = [obj EXCEPT !.approved = TRUE]
       \/ \E whole \in BOOLEAN, wants \in SUBSET Units :
            /\ obj.whole => whole
            /\ obj.wants \subseteq wants
            /\ obj' = [obj EXCEPT !.approved = TRUE, !.whole = whole, !.wants = wants,
                                  !.gen = @ + 1]
    /\ UNCHANGED <<view, pass, unit>>

\* A deleted object goes when nothing is left; the pass may have more to do.
Release ==
    /\ pass.busy /\ pass.copy.approved /\ pass.copy.deleting
    /\ obj.state = "present"
    /\ obj' = Nothing("gone")
    /\ AtGoal(pass.copy)
    /\ pass' \in {pass, Idle}
    /\ UNCHANGED <<view, unit>>

\* The pass ends, or dies with its manager.  It may record that it observed its
\* generation, which it does with every object as its copy asks, unless a flag
\* is left out.
Record ==
    /\ pass.busy /\ pass' = Idle
    /\ \/ UNCHANGED obj
       \/ LET copy == pass.copy IN
          /\ obj.state = "present" /\ obj.obs < copy.gen
          /\ copy.approved /\ (copy.deleting \/ copy.whole) => AtGoal(copy)
          /\ obj' = [obj EXCEPT !.obs = copy.gen]
    /\ UNCHANGED <<view, unit>>

Next ==
    \/ Create \/ Edit \/ Drop \/ Sync \/ Lose
    \/ Begin \/ Work \/ Approve \/ Release \/ Record

Spec == Init /\ [][Next]_vars
=============================================================================

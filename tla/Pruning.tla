------------------------------ MODULE Pruning -------------------------------
(***************************************************************************)
(* Lists of arguments and of controllers with some of their entries taken    *)
(* out, as edgectl and the agent take them out of the text of a file.         *)
(***************************************************************************)
EXTENDS Integers, Sequences

\* The entries of the list that are not to be dropped, in their order.
Pruned(list, drop) ==
    LET kept[i \in 0..Len(list)] ==
            IF i = 0 THEN <<>>
            ELSE IF list[i] \in drop THEN kept[i - 1] ELSE Append(kept[i - 1], list[i])
    IN kept[Len(list)]
=============================================================================

------------------------ MODULE MCFastStorageFaults ------------------------
(***************************************************************************)
(* A small block tree for FastStorageFaults:                               *)
(*                                                                         *)
(*     g --- a1                 a1 and b1 have the same work               *)
(*       \-- b1 --- b2                                                     *)
(***************************************************************************)
EXTENDS FastStorageFaults, TLC

CONSTANTS g, a1, b1, b2

MCTip == {g, a1, b1, b2}
MCParent == (a1 :> g) @@ (b1 :> g) @@ (b2 :> b1)
MCWork == (g :> 1) @@ (a1 :> 2) @@ (b1 :> 2) @@ (b2 :> 3)

Branch[t \in MCTip] == IF t = g THEN <<g>> ELSE Append(Branch[MCParent[t]], t)
MCHeight == [t \in MCTip |-> Len(Branch[t]) - 1]
MCBlockAt == [t \in MCTip |-> [h \in 0..MCHeight[t] |-> Branch[t][h + 1]]]
=============================================================================

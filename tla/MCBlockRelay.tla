---------------------------- MODULE MCBlockRelay ----------------------------
(* A fork at height 1 whose branch c goes on: a and c1 have equal work.    *)
EXTENDS BlockRelay, TLC

CONSTANTS g, a, c1, c2

MCBlock == {g, a, c1, c2}
MCHeight == (g :> 0) @@ (a :> 1) @@ (c1 :> 1) @@ (c2 :> 2)
MCWork == (g :> 1) @@ (a :> 2) @@ (c1 :> 2) @@ (c2 :> 3)
MCBlockAt ==
  (g :> (0 :> g)) @@ (a :> (0 :> g @@ 1 :> a)) @@ (c1 :> (0 :> g @@ 1 :> c1))
    @@ (c2 :> (0 :> g @@ 1 :> c1 @@ 2 :> c2))
=============================================================================

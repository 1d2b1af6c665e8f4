----------------------------- MODULE MCLiveChain -----------------------------
(* g with two siblings a and b of equal work, and c on a.  The transaction *)
(* y comes from the wallet or from a peer, and b confirms it.              *)
EXTENDS LiveChain, TLC

CONSTANTS g, a, b, c, y, h, w

MCBlock == {g, a, b, c}
MCHeight == g :> 0 @@ a :> 1 @@ b :> 1 @@ c :> 2
MCBlockAt ==
  g :> (0 :> g) @@ a :> (0 :> g @@ 1 :> a) @@ b :> (0 :> g @@ 1 :> b)
    @@ c :> (0 :> g @@ 1 :> a @@ 2 :> c)
MCMined == g :> {} @@ a :> {} @@ b :> {y} @@ c :> {}
=============================================================================

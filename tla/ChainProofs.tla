------------------------------ MODULE ChainProofs ------------------------------
(*************************************************************************)
(* Proofs about what a chain says of its names, its pools, its coins and *)
(* its JIN, for every protocol parameter: the registry of names knows    *)
(* every registration of the chain, so that a block that connects        *)
(* registers none of them again; the registry of pools has commissions   *)
(* within bounds only; a pool's payout is exact; a block adds no more to *)
(* the coins than its subsidy, what it burns taken off; a replay of the  *)
(* JIN ledger makes none and loses none; and no batch of the sale is     *)
(* sold twice.                                                           *)
(*                                                                       *)
(* A payout gives every miner the quotient of what the work earned and   *)
(* the atoms that are left to the largest remainders: the remainders add *)
(* up to as many times the whole work as atoms are left, each is below   *)
(* it, so exactly that many of the greatest, all of them positive, get   *)
(* one.                                                                  *)
(*                                                                       *)
(* The coins a transaction creates take the place of those it spends,    *)
(* and its fee is what is left over. validate_block adds up the fees     *)
(* without the coinbase and connect_block applies the coinbase first:    *)
(* that comes to the same because no transaction of the block has its    *)
(* id. The burns of the fees are those the replay of the infusion finds, *)
(* marker by marker, so coins and burns together stay below what the     *)
(* blocks have paid. All of these walks are folds, so each of them is an *)
(* instance of FoldFacts with what it keeps.                             *)
(*************************************************************************)
EXTENDS Chain, FiniteSetTheorems, TLAPS

(* A sequence, whatever its elements are: transactions and blocks are    *)
(* records of many shapes, which the proofs need not know.               *)
IsSeq(s) == s \in Seq(ToSet(s))

(* A sequence is a table of its elements.                                *)
LEMMA SeqDomain ==
  ASSUME NEW s, IsSeq(s)
  PROVE  Len(s) \in Nat /\ DOMAIN s = 1..Len(s) /\ \A i \in 1..Len(s) : s[i] \in ToSet(s)
BY DEF IsSeq, ToSet

(* A sequence over some set is a sequence of its own elements.           *)
LEMMA SeqOver ==
  ASSUME NEW S, NEW s \in Seq(S)
  PROVE  IsSeq(s) /\ ToSet(s) \subseteq S
BY DEF IsSeq, ToSet

(* The elements of a sequence are what stands at its positions.          *)
LEMMA SeqElements ==
  ASSUME NEW s, IsSeq(s)
  PROVE  \A x : x \in ToSet(s) <=> \E i \in 1..Len(s) : s[i] = x
BY SeqDomain DEF ToSet

(* Appending, position by position.                                      *)
LEMMA AppendSeq ==
  ASSUME NEW s, IsSeq(s), NEW x
  PROVE  /\ IsSeq(Append(s, x)) /\ Len(Append(s, x)) = Len(s) + 1
         /\ \A i \in 1..Len(s) : Append(s, x)[i] = s[i]
         /\ Append(s, x)[Len(s) + 1] = x
<1>1. s \in Seq(ToSet(s) \cup {x})
  BY DEF IsSeq
<1>2. Append(s, x) \in Seq(ToSet(s) \cup {x})
  BY <1>1
<1>3. IsSeq(Append(s, x))
  BY <1>2, SeqOver, Zenon
<1> QED
  BY <1>1, <1>3

(* One sequence after another is a sequence.                             *)
LEMMA ConcatSeq ==
  ASSUME NEW s, IsSeq(s), NEW t, IsSeq(t)
  PROVE  IsSeq(s \o t)
<1>1. s \in Seq(ToSet(s) \cup ToSet(t)) /\ t \in Seq(ToSet(s) \cup ToSet(t))
  BY DEF IsSeq
<1>2. s \o t \in Seq(ToSet(s) \cup ToSet(t))
  BY <1>1
<1> QED
  BY <1>2, SeqOver, Zenon

-----------------------------------------------------------------------------
(* A transaction carries a registration, the name of the first, and that *)
(* it is the only one.                                                   *)
Registers(tx) == Registrations(tx) # <<>>
NameIn(tx) == NameOf(Registrations(tx)[1])
OneName(tx) == Registrations(tx) = <<Registrations(tx)[1]>>
(* The registrations of a chain: each alone in its transaction, of a     *)
(* name that is not reserved and that no other transaction registers.    *)
NamesSound(B) ==
  \A h \in 1..Len(B) : \A i \in 1..Len(B[h].txs) : Registers(B[h].txs[i]) =>
    /\ h >= Qns.active /\ OneName(B[h].txs[i])
    /\ NameIn(B[h].txs[i]) \notin DOMAIN ReservedNames
    /\ \A g \in 1..Len(B) : \A j \in 1..Len(B[g].txs) :
         Registers(B[g].txs[j]) /\ NameIn(B[g].txs[j]) = NameIn(B[h].txs[i]) => g = h /\ j = i
(* A commission within bounds, and a marker that asks for one.           *)
Rate(bps) == bps \in 0..Pool.max_commission
RateSound(m) ==
  /\ m.k = "pool_create" => Rate(m.bps)
  /\ m.k = "pool_commission" => m.bps \in Nat
(* What a confirmed transaction says to the pools: a share names a miner *)
(* whose address has its place in the order; an action is alone in its   *)
(* transaction and asks for a commission within bounds.                  *)
Acts(tx) == PoolActions(tx) # <<>>
OneAction(tx) == PoolActions(tx) = <<PoolActions(tx)[1]>>
PoolTxSound(tx) ==
  /\ IsShare(tx) => tx.data.miner \in DOMAIN AddressRank
  /\ Acts(tx) => OneAction(tx) /\ RateSound(PoolActions(tx)[1].s)
PoolTxsSound(B) == \A h \in 1..Len(B) : \A i \in 1..Len(B[h].txs) : PoolTxSound(B[h].txs[i])

(* Folds that only filter need no invariant.                             *)
Never(c, i, s) == FALSE

-----------------------------------------------------------------------------
(* The confirmed transactions in their places, gathered height by height. *)
PlacedAt(c, h) ==
  IF h < c[2] THEN <<>> ELSE [i \in DOMAIN c[1][h].txs |-> [tx |-> c[1][h].txs[i], h |-> h]]
AddPlaced(c, ps, h) == ps \o PlacedAt(c, h)
PlacedInv(c, k, ps) ==
  /\ IsSeq(ps)
  /\ \A h \in 1..k : h >= c[2] =>
       \A i \in 1..Len(c[1][h].txs) : \E j \in 1..Len(ps) : ps[j] = [tx |-> c[1][h].txs[i], h |-> h]
  /\ \A j \in 1..Len(ps) : \E h \in 1..k : \E i \in 1..Len(c[1][h].txs) :
       ps[j] = [tx |-> c[1][h].txs[i], h |-> h]
PlacedTxs == INSTANCE FoldFacts WITH Op <- AddPlaced, Inv <- PlacedInv

(* Placed, as an instance.                                               *)
LEMMA PlacedIsFold ==
  ASSUME NEW c
  PROVE  Placed(c[1], c[2]) = PlacedTxs!Fold(c, <<>>, [h \in DOMAIN c[1] |-> h])
BY Zenon DEF Placed, AddPlaced, PlacedAt, Folded,
  PlacedTxs!Fold, PlacedTxs!Table

(* Every confirmed transaction from a height on has its place, and only  *)
(* confirmed transactions have one.                                      *)
LEMMA PlacedFacts ==
  ASSUME NEW B, IsSeq(B), \A h \in 1..Len(B) : IsSeq(B[h].txs), NEW first \in Int
  PROVE  PlacedInv(<<B, first>>, Len(B), Placed(B, first))
<1> DEFINE n == Len(B)
           c == <<B, first>>
           hs == [h \in DOMAIN B |-> h]
<1>1. n \in Nat /\ DOMAIN B = 1..n /\ DOMAIN hs = 1..n /\ \A h \in 1..n : hs[h] = h
  BY SeqDomain
<1>2. Placed(B, first) = PlacedTxs!Fold(c, <<>>, hs)
  <2>1. c[1] = B /\ c[2] = first
    OBVIOUS
  <2>2. Placed(c[1], c[2]) = PlacedTxs!Fold(c, <<>>, [h \in DOMAIN c[1] |-> h])
    BY PlacedIsFold, Zenon
  <2> HIDE DEF c
  <2> QED
    BY <2>1, <2>2
<1>3. PlacedInv(c, 0, <<>>)
  <2>1. IsSeq(<<>>) /\ Len(<<>>) = 0 /\ 1..0 = {}
    BY DEF IsSeq
  <2> QED
    BY <2>1 DEF PlacedInv
<1>4. ASSUME NEW k \in 1..n, NEW ps, PlacedInv(c, k - 1, ps) PROVE PlacedInv(c, k, AddPlaced(c, ps, hs[k]))
  <2> DEFINE new == PlacedAt(c, k)
             all == ps \o new
             m == Len(B[k].txs)
  <2>1. IsSeq(B[k].txs) /\ m \in Nat /\ DOMAIN B[k].txs = 1..m
    BY SeqDomain
  <2>2. /\ IsSeq(new) /\ Len(new) = IF k < first THEN 0 ELSE m
        /\ k >= first => \A i \in 1..m : new[i] = [tx |-> B[k].txs[i], h |-> k]
    <3>1. CASE k < first
      <4>1. new = <<>>
        BY <3>1 DEF PlacedAt
      <4>2. IsSeq(<<>>) /\ Len(<<>>) = 0
        BY DEF IsSeq
      <4> QED
        BY <3>1, <4>1, <4>2
    <3>2. CASE ~(k < first)
      <4>1. new = [i \in 1..m |-> [tx |-> B[k].txs[i], h |-> k]]
        BY <2>1, <3>2 DEF PlacedAt
      <4> DEFINE S == {[tx |-> B[k].txs[i], h |-> k] : i \in 1..m}
      <4>2. new \in [1..m -> S]
        BY <4>1
      <4>3. new \in Seq(S) /\ Len(new) = m
        <5> HIDE DEF S, new, m
        <5> QED
          BY <2>1, <4>2
      <4>4. IsSeq(new)
        BY <4>3, SeqOver, Zenon
      <4> QED
        BY <3>2, <4>1, <4>3, <4>4
    <3> QED
      BY <3>1, <3>2
  <2>3. IsSeq(ps) /\ Len(ps) \in Nat
    BY <1>4, SeqDomain DEF PlacedInv
  <2> HIDE DEF new
  <2>4. /\ IsSeq(all) /\ Len(all) = Len(ps) + Len(new)
        /\ \A j \in 1..Len(ps) : all[j] = ps[j]
        /\ \A i \in 1..Len(new) : all[Len(ps) + i] = new[i]
    BY <2>2, <2>3, ConcatSeq, SMTT(60)
  <2>5. AddPlaced(c, ps, hs[k]) = all
    BY <1>1 DEF AddPlaced, new
  <2> HIDE DEF all
  <2>6. ASSUME NEW h \in 1..k, h >= first, NEW i \in 1..Len(B[h].txs)
        PROVE  \E j \in 1..Len(all) : all[j] = [tx |-> B[h].txs[i], h |-> h]
    <3>1. CASE h = k
      <4>1. k >= first /\ i \in 1..Len(new) /\ new[i] = [tx |-> B[h].txs[i], h |-> h]
        BY <2>1, <2>2, <2>6, <3>1
      <4>2. Len(ps) + i \in 1..Len(all)
        BY <2>1, <2>2, <2>3, <2>4, <4>1, SMTT(60)
      <4> QED
        BY <2>4, <4>1, <4>2
    <3>2. CASE h # k
      <4>1. h \in 1..(k - 1)
        BY <1>1, <3>2
      <4>2. PICK j \in 1..Len(ps) : ps[j] = [tx |-> B[h].txs[i], h |-> h]
        BY <1>4, <2>6, <4>1 DEF PlacedInv
      <4>3. j \in 1..Len(all)
        BY <2>1, <2>2, <2>3, <2>4
      <4> QED
        BY <2>4, <4>2, <4>3
    <3> QED
      BY <3>1, <3>2
  <2>7. ASSUME NEW j \in 1..Len(all)
        PROVE  \E h \in 1..k : \E i \in 1..Len(B[h].txs) : all[j] = [tx |-> B[h].txs[i], h |-> h]
    <3>1. CASE j \in 1..Len(ps)
      <4>1. PICK h \in 1..(k - 1) : \E i \in 1..Len(B[h].txs) : ps[j] = [tx |-> B[h].txs[i], h |-> h]
        BY <1>4, <3>1 DEF PlacedInv
      <4>2. h \in 1..k
        BY <1>1
      <4> QED
        BY <2>4, <3>1, <4>1, <4>2
    <3>2. CASE j \notin 1..Len(ps)
      <4>1. j - Len(ps) \in 1..Len(new) /\ Len(ps) + (j - Len(ps)) = j
        BY <2>1, <2>2, <2>3, <2>4, <3>2
      <4>2. all[j] = new[j - Len(ps)]
        BY <2>4, <4>1
      <4>3. k >= first /\ j - Len(ps) \in 1..m
        BY <1>1, <2>1, <2>2, <4>1
      <4>4. k \in 1..k
        BY <1>1
      <4> QED
        BY <2>2, <4>2, <4>3, <4>4
    <3> QED
      BY <3>1, <3>2
  <2>8. PlacedInv(c, k, all)
    BY <2>4, <2>6, <2>7 DEF PlacedInv
  <2> HIDE DEF c, hs
  <2> QED
    BY <2>5, <2>8
<1> HIDE DEF c, hs
<1>5. PlacedInv(c, n, PlacedTxs!Fold(c, <<>>, hs))
  BY <1>1, <1>3, <1>4, PlacedTxs!FoldInvariant
<1> QED
  BY <1>2, <1>5 DEF c

-----------------------------------------------------------------------------
(* Sums over finite sets.                                                *)

(* What is true of the empty set and of every set that has one element   *)
(* more than a set it is true of, is true of a finite set.               *)
LEMMA SetInduction ==
  ASSUME NEW S, IsFiniteSet(S), NEW P, {} \in P,
         \A s \in SUBSET S : \A x \in S \ s : s \in P => s \cup {x} \in P
  PROVE  S \in P
<1> DEFINE n == Cardinality(S)
           K == {k \in 0..n : \A s \in SUBSET S : Cardinality(s) = k => s \in P}
<1>1. n \in Nat /\ \A s \in SUBSET S : IsFiniteSet(s) /\ Cardinality(s) \in 0..n
  <2>1. n \in Nat
    BY FS_CardinalityType
  <2>2. ASSUME NEW s \in SUBSET S PROVE IsFiniteSet(s) /\ Cardinality(s) \in 0..n
    <3>1. IsFiniteSet(s) /\ Cardinality(s) <= n
      BY FS_Subset
    <3>2. Cardinality(s) \in Nat
      BY <3>1, FS_CardinalityType
    <3> QED
      BY <2>1, <3>1, <3>2
  <2> QED
    BY <2>1, <2>2
<1> HIDE DEF n
<1>2. 0 \in K
  <2>1. ASSUME NEW s \in SUBSET S, Cardinality(s) = 0 PROVE s \in P
    BY <1>1, <2>1, FS_EmptySet
  <2> QED
    BY <1>1, <2>1
<1>3. ASSUME NEW k \in 0..n, k < n, k \in K PROVE k + 1 \in K
  <2>1. k + 1 \in 0..n
    BY <1>1, <1>3
  <2>2. ASSUME NEW s \in SUBSET S, Cardinality(s) = k + 1 PROVE s \in P
    <3>1. s # {}
      <4>1. Cardinality({}) = 0
        BY FS_EmptySet
      <4> QED
        BY <2>2, <4>1
    <3>2. PICK x \in s : TRUE
      BY <3>1
    <3>3. Cardinality(s \ {x}) = k
      <4>1. Cardinality(s \ {x}) = Cardinality(s) - 1
        BY <1>1, <3>2, FS_RemoveElement
      <4> QED
        BY <2>2, <4>1
    <3>4. s \ {x} \in SUBSET S /\ x \in S \ (s \ {x}) /\ (s \ {x}) \cup {x} = s
      BY <3>2
    <3>5. s \ {x} \in P
      BY <1>3, <3>3, <3>4
    <3> QED
      BY <3>4, <3>5
  <2> QED
    BY <2>1, <2>2
<1>4. 0..n \subseteq K
  <2> HIDE DEF K
  <2> QED
    BY <1>1, <1>2, <1>3, PlacedTxs!Induction
<1>5. n \in K
  BY <1>1, <1>4
<1> QED
  BY <1>5 DEF n

(* What FoldFunction chooses to add up a function's values with: the     *)
(* sums over all sets of arguments, each by way of the set without one.  *)
Some(s) == CHOOSE x \in s : TRUE
IsSums(g, f, S) ==
  g = [s \in SUBSET S |-> IF s = {} THEN 0 ELSE f[Some(s)] + g[s \ {Some(s)}]]
Sums(f, S) == CHOOSE g : IsSums(g, f, S)

(* A sum is the entry for the whole domain.                              *)
LEMMA SumIsEntry ==
  ASSUME NEW f
  PROVE  SumOn(f) = Sums(f, DOMAIN f)[DOMAIN f]
BY Zenon DEF SumOn, Sums, IsSums, Some, FoldFunction, FoldFunctionOnSet, MapThenFoldSet

(* There is such a table.                                                *)
LEMMA SumsExist ==
  ASSUME NEW S, IsFiniteSet(S), NEW f
  PROVE  IsSums(Sums(f, S), f, S)
<1> DEFINE n == Cardinality(S)
           Solves(g, s) == g[s] = IF s = {} THEN 0 ELSE f[Some(s)] + g[s \ {Some(s)}]
           K == {k \in 0..n : \E g : \A s \in SUBSET S : Cardinality(s) <= k => Solves(g, s)}
<1>1. n \in Nat /\ \A s \in SUBSET S : IsFiniteSet(s) /\ Cardinality(s) \in 0..n
  <2>1. n \in Nat
    BY FS_CardinalityType
  <2>2. ASSUME NEW s \in SUBSET S PROVE IsFiniteSet(s) /\ Cardinality(s) \in 0..n
    <3>1. IsFiniteSet(s) /\ Cardinality(s) <= n
      BY FS_Subset
    <3>2. Cardinality(s) \in Nat
      BY <3>1, FS_CardinalityType
    <3> QED
      BY <2>1, <3>1, <3>2
  <2> QED
    BY <2>1, <2>2
<1>2. \A s \in SUBSET S : s # {} =>
        /\ Some(s) \in s /\ s \ {Some(s)} \in SUBSET S
        /\ Cardinality(s \ {Some(s)}) = Cardinality(s) - 1
  <2> SUFFICES ASSUME NEW s \in SUBSET S, s # {}
               PROVE  /\ Some(s) \in s /\ s \ {Some(s)} \in SUBSET S
                      /\ Cardinality(s \ {Some(s)}) = Cardinality(s) - 1
    OBVIOUS
  <2>1. Some(s) \in s
    BY Zenon DEF Some
  <2> QED
    BY <1>1, <2>1, FS_RemoveElement
<1> HIDE DEF n
<1>3. 0 \in K
  <2> DEFINE g == [s \in SUBSET S |-> 0]
  <2>1. ASSUME NEW s \in SUBSET S, Cardinality(s) <= 0 PROVE Solves(g, s)
    <3>1. s = {}
      BY <1>1, <2>1, FS_EmptySet
    <3> QED
      BY <3>1
  <2> HIDE DEF g, Solves
  <2> QED
    BY <1>1, <2>1
<1>4. ASSUME NEW k \in 0..n, k < n, k \in K PROVE k + 1 \in K
  <2>1. PICK g : \A s \in SUBSET S : Cardinality(s) <= k => Solves(g, s)
    BY <1>4
  <2> DEFINE G == [s \in SUBSET S |->
                     IF Cardinality(s) <= k THEN g[s] ELSE f[Some(s)] + g[s \ {Some(s)}]]
  <2>2. ASSUME NEW s \in SUBSET S, Cardinality(s) <= k + 1 PROVE Solves(G, s)
    <3>1. CASE s = {}
      <4>1. Cardinality(s) = 0
        BY <3>1, FS_EmptySet
      <4>2. g[s] = 0
        <5>1. Cardinality(s) <= k
          BY <4>1
        <5>2. Solves(g, s)
          BY <2>1, <5>1
        <5> QED
          BY <3>1, <5>2
      <4> QED
        BY <1>1, <3>1, <4>1, <4>2
    <3>2. CASE s # {}
      <4>1. /\ s \ {Some(s)} \in SUBSET S /\ Cardinality(s \ {Some(s)}) <= k
            /\ G[s \ {Some(s)}] = g[s \ {Some(s)}]
        BY <1>1, <1>2, <2>2, <3>2
      <4>2. G[s] = f[Some(s)] + g[s \ {Some(s)}]
        BY <2>1, <3>2
      <4> QED
        BY <3>2, <4>1, <4>2
    <3> QED
      BY <3>1, <3>2
  <2> HIDE DEF G, Solves
  <2>3. k + 1 \in 0..n
    BY <1>1, <1>4
  <2> QED
    BY <2>2, <2>3
<1>5. 0..n \subseteq K
  <2> HIDE DEF K
  <2> QED
    BY <1>1, <1>3, <1>4, PlacedTxs!Induction
<1>6. PICK g : \A s \in SUBSET S : Cardinality(s) <= n => Solves(g, s)
  <2>1. n \in K
    <3> HIDE DEF K
    <3> QED
      BY <1>1, <1>5
  <2> QED
    BY <2>1
<1> DEFINE G == [s \in SUBSET S |-> g[s]]
<1>7. IsSums(G, f, S)
  <2>1. ASSUME NEW s \in SUBSET S PROVE G[s] = IF s = {} THEN 0 ELSE f[Some(s)] + G[s \ {Some(s)}]
    <3>1. Solves(g, s)
      <4>1. Cardinality(s) <= n
        BY <1>1
      <4> HIDE DEF Solves
      <4> QED
        BY <1>6, <4>1
    <3>2. s \ {Some(s)} \in SUBSET S
      OBVIOUS
    <3> QED
      BY <3>1, <3>2
  <2>2. G = [s \in SUBSET S |-> G[s]]
    OBVIOUS
  <2> HIDE DEF G
  <2> QED
    BY <2>1, <2>2 DEF IsSums
<1> HIDE DEF G
<1> QED
  BY <1>7, Zenon DEF Sums

(* Whichever element is taken first, the sum is the same.                *)
LEMMA SumsTake ==
  ASSUME NEW S, IsFiniteSet(S), NEW f, \A x \in S : f[x] \in Int
  PROVE  /\ Sums(f, S)[{}] = 0
         /\ \A s \in SUBSET S : Sums(f, S)[s] \in Int
         /\ \A s \in SUBSET S : \A x \in s : Sums(f, S)[s] = f[x] + Sums(f, S)[s \ {x}]
<1> DEFINE n == Cardinality(S)
           g == Sums(f, S)
           Free(s) == g[s] \in Int /\ \A x \in s : g[s] = f[x] + g[s \ {x}]
           K == {k \in 0..n : \A s \in SUBSET S : Cardinality(s) <= k => Free(s)}
<1>1. n \in Nat /\ \A s \in SUBSET S : IsFiniteSet(s) /\ Cardinality(s) \in 0..n
  <2>1. n \in Nat
    BY FS_CardinalityType
  <2>2. ASSUME NEW s \in SUBSET S PROVE IsFiniteSet(s) /\ Cardinality(s) \in 0..n
    <3>1. IsFiniteSet(s) /\ Cardinality(s) <= n
      BY FS_Subset
    <3>2. Cardinality(s) \in Nat
      BY <3>1, FS_CardinalityType
    <3> QED
      BY <2>1, <3>1, <3>2
  <2> QED
    BY <2>1, <2>2
<1>2. \A s \in SUBSET S : \A x \in s :
        s \ {x} \in SUBSET S /\ Cardinality(s \ {x}) = Cardinality(s) - 1
  BY <1>1, FS_RemoveElement
<1>3. \A s \in SUBSET S : g[s] = IF s = {} THEN 0 ELSE f[Some(s)] + g[s \ {Some(s)}]
  <2>1. IsSums(g, f, S)
    BY SumsExist
  <2> HIDE DEF g
  <2> QED
    BY <2>1 DEF IsSums
<1>4. g[{}] = 0
  BY <1>3
<1> HIDE DEF n, g
<1>5. 0 \in K
  <2>1. ASSUME NEW s \in SUBSET S, Cardinality(s) <= 0 PROVE Free(s)
    <3>1. s = {}
      BY <1>1, <2>1, FS_EmptySet
    <3> QED
      BY <1>4, <3>1
  <2> HIDE DEF Free
  <2> QED
    BY <1>1, <2>1
<1>6. ASSUME NEW k \in 0..n, k < n, k \in K PROVE k + 1 \in K
  <2>1. \A s \in SUBSET S : Cardinality(s) <= k => Free(s)
    BY <1>6
  <2>2. ASSUME NEW s \in SUBSET S, Cardinality(s) <= k + 1 PROVE Free(s)
    <3>1. CASE s = {}
      BY <1>4, <3>1
    <3>2. CASE s # {}
      <4> DEFINE y == Some(s)
      <4>1. y \in s
        BY <3>2, Zenon DEF Some
      <4>2. g[s] = f[y] + g[s \ {y}]
        BY <1>3, <3>2
      <4>3. \A x \in s : Cardinality(s \ {x}) <= k /\ s \ {x} \in SUBSET S
        BY <1>1, <1>2, <2>2
      <4>4. \A x \in s : Free(s \ {x})
        <5> HIDE DEF Free
        <5> QED
          BY <2>1, <4>3
      <4> HIDE DEF y
      <4>5. g[s] \in Int
        <5>1. g[s \ {y}] \in Int
          BY <4>1, <4>4
        <5>2. f[y] \in Int
          BY <4>1
        <5> QED
          BY <4>2, <5>1, <5>2
      <4>6. ASSUME NEW x \in s PROVE g[s] = f[x] + g[s \ {x}]
        <5>1. CASE x = y
          BY <4>2, <5>1
        <5>2. CASE x # y
          <6>1. x \in s \ {y} /\ y \in s \ {x} /\ (s \ {y}) \ {x} = (s \ {x}) \ {y}
            BY <4>1, <5>2
          <6>2. g[s \ {y}] = f[x] + g[(s \ {y}) \ {x}]
            BY <4>1, <4>4, <6>1
          <6>3. g[s \ {x}] = f[y] + g[(s \ {y}) \ {x}]
            BY <4>4, <6>1
          <6>4. g[(s \ {y}) \ {x}] \in Int
            <7>1. Cardinality((s \ {y}) \ {x}) <= k /\ (s \ {y}) \ {x} \in SUBSET S
              <8>1. s \ {y} \in SUBSET S /\ Cardinality(s \ {y}) <= k /\ Cardinality(s \ {y}) \in Int
                BY <1>1, <4>1, <4>3
              <8>2. Cardinality((s \ {y}) \ {x}) = Cardinality(s \ {y}) - 1
                BY <1>2, <6>1, <8>1
              <8> QED
                BY <8>1, <8>2
            <7> QED
              BY <2>1, <7>1
          <6>5. f[x] \in Int /\ f[y] \in Int
            BY <4>1
          <6> QED
            BY <4>2, <6>2, <6>3, <6>4, <6>5
        <5> QED
          BY <5>1, <5>2
      <4> QED
        BY <4>5, <4>6
    <3> QED
      BY <3>1, <3>2
  <2>3. k + 1 \in 0..n
    BY <1>1, <1>6
  <2> HIDE DEF Free
  <2> QED
    BY <2>2, <2>3
<1>7. 0..n \subseteq K
  <2> HIDE DEF K
  <2> QED
    BY <1>1, <1>5, <1>6, PlacedTxs!Induction
<1>8. ASSUME NEW s \in SUBSET S PROVE Free(s)
  <2>1. n \in K
    <3> HIDE DEF K
    <3> QED
      BY <1>1, <1>7
  <2>2. Cardinality(s) <= n
    BY <1>1
  <2> HIDE DEF Free
  <2> QED
    BY <2>1, <2>2
<1> QED
  BY <1>4, <1>8 DEF g

(* The same for a function.                                              *)
LEMMA SumsOfFunction ==
  ASSUME NEW S, IsFiniteSet(S), NEW f \in [S -> Int]
  PROVE  /\ Sums(f, S)[{}] = 0
         /\ \A s \in SUBSET S : Sums(f, S)[s] \in Int
         /\ \A s \in SUBSET S : \A x \in s : Sums(f, S)[s] = f[x] + Sums(f, S)[s \ {x}]
<1>1. \A x \in S : f[x] \in Int
  OBVIOUS
<1> QED
  BY <1>1, SumsTake

(* The sum of sums is the sum of both.                                   *)
LEMMA SumAdds ==
  ASSUME NEW S, IsFiniteSet(S), NEW f \in [S -> Int], NEW g \in [S -> Int], NEW h \in [S -> Int],
         \A x \in S : h[x] = f[x] + g[x]
  PROVE  /\ SumOn(f) \in Int /\ SumOn(g) \in Int
         /\ SumOn(h) = SumOn(f) + SumOn(g)
<1> DEFINE F == Sums(f, S)
           G == Sums(g, S)
           H == Sums(h, S)
           P == {s \in SUBSET S : H[s] = F[s] + G[s]}
<1>1. F[S] = SumOn(f) /\ G[S] = SumOn(g) /\ H[S] = SumOn(h)
  BY SumIsEntry
<1>2. /\ F[{}] = 0 /\ \A s \in SUBSET S : F[s] \in Int
      /\ \A s \in SUBSET S : \A x \in s : F[s] = f[x] + F[s \ {x}]
  BY SumsOfFunction, SMT
<1>3. /\ G[{}] = 0 /\ \A s \in SUBSET S : G[s] \in Int
      /\ \A s \in SUBSET S : \A x \in s : G[s] = g[x] + G[s \ {x}]
  BY SumsOfFunction, ZenonT(60)
<1>4. /\ H[{}] = 0 /\ \A s \in SUBSET S : H[s] \in Int
      /\ \A s \in SUBSET S : \A x \in s : H[s] = h[x] + H[s \ {x}]
  BY SumsOfFunction, SMT
<1> HIDE DEF F, G, H
<1>5. {} \in P
  BY <1>2, <1>3, <1>4
<1>6. ASSUME NEW s \in SUBSET S, NEW x \in S \ s, s \in P PROVE s \cup {x} \in P
  <2> DEFINE t == s \cup {x}
  <2>1. t \in SUBSET S /\ x \in t /\ t \ {x} = s
    OBVIOUS
  <2> HIDE DEF t
  <2>2. F[t] = f[x] + F[s] /\ G[t] = g[x] + G[s] /\ H[t] = h[x] + H[s]
    BY <1>2, <1>3, <1>4, <2>1
  <2>3. F[s] \in Int /\ G[s] \in Int /\ f[x] \in Int /\ g[x] \in Int
    BY <1>2, <1>3
  <2>4. H[t] = F[t] + G[t]
    BY <1>6, <2>2, <2>3
  <2> QED
    BY <2>1, <2>4 DEF t
<1>7. S \in P
  <2> HIDE DEF P
  <2> QED
    BY <1>5, <1>6, SetInduction
<1> QED
  BY <1>1, <1>2, <1>3, <1>7

(* A multiple of every term gives that multiple of the sum.              *)
LEMMA SumScales ==
  ASSUME NEW S, IsFiniteSet(S), NEW c \in Int, NEW f \in [S -> Int]
  PROVE  SumOn(f) \in Int /\ SumOn([x \in S |-> c * f[x]]) = c * SumOn(f)
<1> DEFINE h == [x \in S |-> c * f[x]]
           F == Sums(f, S)
           H == Sums(h, S)
           P == {s \in SUBSET S : H[s] = c * F[s]}
<1>1. F[S] = SumOn(f) /\ H[S] = SumOn(h)
  BY SumIsEntry
<1>2. /\ F[{}] = 0 /\ \A s \in SUBSET S : F[s] \in Int
      /\ \A s \in SUBSET S : \A x \in s : F[s] = f[x] + F[s \ {x}]
  BY SumsOfFunction, Zenon
<1>3. h \in [S -> Int] /\ \A x \in S : h[x] = c * f[x]
  OBVIOUS
<1> HIDE DEF h
<1>4. /\ H[{}] = 0 /\ \A s \in SUBSET S : H[s] \in Int
      /\ \A s \in SUBSET S : \A x \in s : H[s] = h[x] + H[s \ {x}]
  BY <1>3, SumsOfFunction, Zenon
<1> HIDE DEF F, H
<1>5. {} \in P
  BY <1>2, <1>4
<1>6. ASSUME NEW s \in SUBSET S, NEW x \in S \ s, s \in P PROVE s \cup {x} \in P
  <2> DEFINE t == s \cup {x}
  <2>1. t \in SUBSET S /\ x \in t /\ t \ {x} = s
    OBVIOUS
  <2> HIDE DEF t
  <2>2. F[t] = f[x] + F[s] /\ H[t] = c * f[x] + H[s]
    BY <1>2, <1>3, <1>4, <2>1, ZenonT(60)
  <2>3. F[s] \in Int /\ f[x] \in Int
    BY <1>2
  <2>4. c * (f[x] + F[s]) = c * f[x] + c * F[s] /\ c * f[x] \in Int /\ c * F[s] \in Int
    BY <2>3
  <2>5. H[t] = c * F[t]
    BY <1>6, <2>2, <2>3, <2>4
  <2> QED
    BY <2>1, <2>5 DEF t
<1>7. S \in P
  <2> HIDE DEF P
  <2> QED
    BY <1>5, <1>6, SetInduction
<1> QED
  BY <1>1, <1>2, <1>7 DEF h

(* A sum is as large as its terms.                                       *)
LEMMA SumMonotone ==
  ASSUME NEW S, IsFiniteSet(S), NEW f \in [S -> Int], NEW g \in [S -> Int], \A x \in S : f[x] <= g[x]
  PROVE  SumOn(f) \in Int /\ SumOn(g) \in Int /\ SumOn(f) <= SumOn(g)
<1> DEFINE F == Sums(f, S)
           G == Sums(g, S)
           P == {s \in SUBSET S : F[s] <= G[s]}
<1>1. F[S] = SumOn(f) /\ G[S] = SumOn(g)
  BY SumIsEntry
<1>2. /\ F[{}] = 0 /\ G[{}] = 0
      /\ \A s \in SUBSET S : F[s] \in Int /\ G[s] \in Int
      /\ \A s \in SUBSET S : \A x \in s : F[s] = f[x] + F[s \ {x}] /\ G[s] = g[x] + G[s \ {x}]
  BY SumsTake
<1> HIDE DEF F, G
<1>3. {} \in P
  BY <1>2
<1>4. ASSUME NEW s \in SUBSET S, NEW x \in S \ s, s \in P PROVE s \cup {x} \in P
  <2> DEFINE t == s \cup {x}
  <2>1. t \in SUBSET S /\ x \in t /\ t \ {x} = s
    OBVIOUS
  <2> HIDE DEF t
  <2>2. F[t] = f[x] + F[s] /\ G[t] = g[x] + G[s]
    BY <1>2, <2>1
  <2>3. F[t] <= G[t]
    BY <1>2, <1>4, <2>2
  <2> QED
    BY <2>1, <2>3 DEF t
<1>5. S \in P
  <2> HIDE DEF P
  <2> QED
    BY <1>3, <1>4, SetInduction
<1> QED
  BY <1>1, <1>2, <1>5

(* The sum of the marks of some elements is their number.                *)
LEMMA SumOfMarks ==
  ASSUME NEW S, IsFiniteSet(S), NEW T, T \subseteq S
  PROVE  SumOn([x \in S |-> IF x \in T THEN 1 ELSE 0]) = Cardinality(T)
<1> DEFINE f == [x \in S |-> IF x \in T THEN 1 ELSE 0]
           F == Sums(f, S)
           P == {s \in SUBSET S : F[s] = Cardinality(s \cap T)}
<1>1. F[S] = SumOn(f)
  BY SumIsEntry
<1>2. /\ F[{}] = 0
      /\ \A s \in SUBSET S : F[s] \in Int
      /\ \A s \in SUBSET S : \A x \in s : F[s] = f[x] + F[s \ {x}]
  BY SumsTake
<1> HIDE DEF F
<1>3. {} \in P
  BY <1>2, FS_EmptySet
<1>4. ASSUME NEW s \in SUBSET S, NEW x \in S \ s, s \in P PROVE s \cup {x} \in P
  <2> DEFINE t == s \cup {x}
  <2>1. t \in SUBSET S /\ x \in t /\ t \ {x} = s
    OBVIOUS
  <2> HIDE DEF t
  <2>2. F[t] = f[x] + F[s]
    BY <1>2, <2>1
  <2>3. IsFiniteSet(s \cap T) /\ Cardinality(s \cap T) \in Nat
    BY FS_Subset, FS_CardinalityType
  <2>4. CASE x \in T
    <3>1. t \cap T = (s \cap T) \cup {x} /\ x \notin s \cap T
      BY <2>4 DEF t
    <3>2. Cardinality((s \cap T) \cup {x}) = Cardinality(s \cap T) + 1
      BY <2>3, <3>1, FS_AddElement
    <3>3. f[x] = 1
      BY <2>4
    <3>4. F[s] = Cardinality(s \cap T)
      BY <1>4
    <3>5. Cardinality(t \cap T) = Cardinality(s \cap T) + 1
      BY <3>1, <3>2
    <3>6. F[t] = Cardinality(t \cap T)
      BY <2>2, <2>3, <3>3, <3>4, <3>5
    <3> QED
      BY <2>1, <3>6 DEF t
  <2>5. CASE x \notin T
    <3>1. t \cap T = s \cap T /\ f[x] = 0
      BY <2>5 DEF t
    <3>2. F[t] = Cardinality(t \cap T)
      BY <1>4, <2>2, <2>3, <3>1
    <3> QED
      BY <2>1, <3>2 DEF t
  <2> QED
    BY <2>4, <2>5
<1>5. S \in P
  <2> HIDE DEF P
  <2> QED
    BY <1>3, <1>4, SetInduction
<1>6. S \cap T = T
  OBVIOUS
<1> QED
  BY <1>1, <1>5, <1>6

-----------------------------------------------------------------------------
(* How an amount is divided.                                             *)

(* Some of the settings of the pools.                                    *)
LEMMA PoolNumbers ==
  Pool.active \in Nat /\ Pool.window \in Nat /\ Pool.max_commission \in 0..10000
BY PoolsAssumption, SMTT(60) DEF PoolSettings

(* What a commission within bounds is; it may be lowered.                *)
LEMMA RateBounds ==
  ASSUME NEW y, Rate(y)
  PROVE  y \in Nat /\ y <= 10000 /\ \A x \in 0..y : Rate(x)
<1> DEFINE top == Pool.max_commission
<1>1. top \in 0..10000
  BY PoolNumbers
<1>2. y \in 0..top
  BY DEF Rate
<1> HIDE DEF top
<1>3. y \in Nat /\ y <= 10000 /\ \A x \in 0..y : x \in 0..top
  BY <1>1, <1>2
<1> QED
  BY <1>3 DEF Rate, top

(* No more elements fit into a set one by one than it has.               *)
LEMMA FitInto ==
  ASSUME NEW S, IsFiniteSet(S), NEW T, IsFiniteSet(T), NEW f \in [S -> T],
         \A x, y \in S : f[x] = f[y] => x = y
  PROVE  Cardinality(S) <= Cardinality(T)
<1>1. Cardinality(S) \in Nat /\ Cardinality(T) \in Nat
  BY FS_CardinalityType
<1>2. ~(Cardinality(T) < Cardinality(S))
  BY FS_PigeonHole
<1> QED
  BY <1>1, <1>2

(* In a strict total order on a finite set, where ahead[a] are those     *)
(* before a, exactly k elements have fewer than k before them.           *)
LEMMA FirstOnes ==
  ASSUME NEW D, IsFiniteSet(D), NEW ahead \in [D -> SUBSET D],
         \A a \in D : a \notin ahead[a],
         \A a \in D : \A b \in ahead[a] : ahead[b] \subseteq ahead[a],
         \A a, b \in D : a # b => b \in ahead[a] \/ a \in ahead[b],
         NEW k \in 0..Cardinality(D)
  PROVE  Cardinality({a \in D : Cardinality(ahead[a]) < k}) = k
<1> DEFINE n == Cardinality(D)
           r == [a \in D |-> Cardinality(ahead[a])]
           W == {a \in D : r[a] < k}
           L == D \ W
<1>1. n \in Nat /\ k \in Nat /\ k <= n
  BY FS_CardinalityType
<1>2. \A a \in D : IsFiniteSet(ahead[a]) /\ r[a] \in Nat
  BY FS_Subset, FS_CardinalityType
<1>3. \A a \in D : r[a] <= n - 1
  <2> SUFFICES ASSUME NEW a \in D PROVE r[a] <= n - 1
    OBVIOUS
  <2>1. IsFiniteSet(D \ {a}) /\ Cardinality(D \ {a}) = n - 1
    BY FS_RemoveElement
  <2>2. ahead[a] \in SUBSET (D \ {a})
    OBVIOUS
  <2> QED
    BY <2>1, <2>2, FS_Subset
<1>4. \A a, b \in D : b \in ahead[a] => r[b] < r[a]
  <2> SUFFICES ASSUME NEW a \in D, NEW b \in D, b \in ahead[a] PROVE r[b] < r[a]
    OBVIOUS
  <2>1. ahead[b] \cup {b} \in SUBSET ahead[a] /\ b \notin ahead[b]
    OBVIOUS
  <2>2. Cardinality(ahead[b] \cup {b}) = r[b] + 1
    BY <1>2, <2>1, FS_AddElement
  <2>3. Cardinality(ahead[b] \cup {b}) <= r[a]
    BY <1>2, <2>1, FS_Subset
  <2> QED
    BY <1>2, <2>2, <2>3
<1>5. \A a, b \in D : r[a] = r[b] => a = b
  BY <1>2, <1>4
<1>6. IsFiniteSet(W) /\ IsFiniteSet(L) /\ Cardinality(W) \in Nat /\ Cardinality(L) \in Nat
  <2>1. W \in SUBSET D /\ L \in SUBSET D
    OBVIOUS
  <2> HIDE DEF W, L
  <2> QED
    BY <2>1, FS_Subset, FS_CardinalityType
<1>7. Cardinality(L) = n - Cardinality(W)
  <2>1. D \cap W = W
    OBVIOUS
  <2> HIDE DEF W
  <2> QED
    BY <2>1, FS_Difference
<1> HIDE DEF r, n
<1>8. Cardinality(W) <= k
  <2> DEFINE f == [a \in W |-> r[a]]
  <2>1. f \in [W -> 0..(k - 1)]
    BY <1>1, <1>2
  <2>2. \A x, y \in W : f[x] = f[y] => x = y
    BY <1>5
  <2>3. IsFiniteSet(0..(k - 1)) /\ Cardinality(0..(k - 1)) = k
    BY <1>1, FS_Interval
  <2> HIDE DEF f, W
  <2> QED
    BY <1>6, <2>1, <2>2, <2>3, FitInto
<1>9. Cardinality(L) <= n - k
  <2> DEFINE f == [a \in L |-> r[a]]
           T == k..(n - 1)
  <2>1. f \in [L -> T]
    BY <1>1, <1>2, <1>3
  <2>2. \A x, y \in L : f[x] = f[y] => x = y
    BY <1>5
  <2>3. IsFiniteSet(T) /\ Cardinality(T) = n - k
    BY <1>1, FS_Interval
  <2>4. IsFiniteSet(L)
    BY <1>6
  <2> HIDE DEF f, L, T
  <2> QED
    BY <2>1, <2>2, <2>3, <2>4, FitInto
<1>10. Cardinality(W) = k
  <2> HIDE DEF W, L
  <2> QED
    BY <1>1, <1>6, <1>7, <1>8, <1>9
<1> QED
  BY <1>10 DEF r

(* The portions of an amount, by the largest remainders: they add up to  *)
(* the amount, and each is less than one away from its exact share.      *)
LEMMA PortionsFacts ==
  ASSUME NEW D, IsFiniteSet(D), D # {}, D \subseteq DOMAIN AddressRank,
         NEW score \in [D -> Nat \ {0}], NEW amount \in Nat
  PROVE  LET all == SumOn(score)
             P == Portions(amount, score, all)
         IN /\ all \in Nat \ {0} /\ P \in [D -> Nat] /\ SumOn(P) = amount
            /\ \A a \in D : /\ P[a] * all - amount * score[a] < all
                            /\ -(P[a] * all - amount * score[a]) < all
<1> DEFINE all == SumOn(score)
           rem == [a \in D |-> (amount * score[a]) % all]
           floors == [a \in D |-> (amount * score[a]) \div all]
           ones == [a \in D |-> IF a \in D THEN 1 ELSE 0]
           n == Cardinality(D)
<1>0. n \in Nat \ {0}
  BY FS_CardinalityType, FS_EmptySet
<1>1. all \in Nat \ {0}
  <2>1. SumOn(ones) = n
    BY SumOfMarks
  <2>2. ones \in [D -> Int] /\ score \in [D -> Int] /\ \A x \in D : ones[x] <= score[x]
    OBVIOUS
  <2> HIDE DEF ones
  <2>3. SumOn(score) \in Int /\ SumOn(ones) <= SumOn(score)
    BY <2>2, SumMonotone
  <2> QED
    BY <1>0, <2>1, <2>3
<1>2. \A a \in D : /\ score[a] \in Nat \ {0} /\ amount * score[a] \in Nat
                   /\ rem[a] \in 0..(all - 1) /\ floors[a] \in Nat
                   /\ amount * score[a] = all * floors[a] + rem[a]
  <2> SUFFICES ASSUME NEW a \in D
               PROVE  /\ score[a] \in Nat \ {0} /\ amount * score[a] \in Nat
                      /\ rem[a] \in 0..(all - 1) /\ floors[a] \in Nat
                      /\ amount * score[a] = all * floors[a] + rem[a]
    OBVIOUS
  <2> DEFINE v == amount * score[a]
  <2>1. score[a] \in Nat \ {0} /\ v \in Nat
    OBVIOUS
  <2>2. rem[a] = v % all /\ floors[a] = v \div all
    OBVIOUS
  <2> HIDE DEF all, v
  <2>3. v % all \in 0..(all - 1) /\ v \div all \in Nat /\ v = all * (v \div all) + (v % all)
    BY <1>1, <2>1
  <2> QED
    BY <2>1, <2>2, <2>3 DEF v
<1> DEFINE left == amount - SumOn(floors)
           ahead == [a \in D |-> {b \in D : \/ rem[b] > rem[a]
                                            \/ rem[b] = rem[a] /\ AddressRank[b] < AddressRank[a]}]
           W == {a \in D : Cardinality(ahead[a]) < left}
           marks == [a \in D |-> IF a \in W THEN 1 ELSE 0]
           P == [a \in D |-> floors[a] + marks[a]]
<1>3. Portions(amount, score, all) = P
  <2> DEFINE r(a) == (amount * score[a]) % all
             before(a) == {b \in D : \/ r(b) > r(a)
                                     \/ r(b) = r(a) /\ AddressRank[b] < AddressRank[a]}
             Q == [a \in D |-> floors[a] + IF Cardinality(before(a)) < left THEN 1 ELSE 0]
  <2>1. DOMAIN score = D
    OBVIOUS
  <2> HIDE DEF all
  <2>2. Portions(amount, score, all) = Q
    BY <2>1, Zenon DEF Portions
  <2>3. ASSUME NEW a \in D PROVE before(a) = ahead[a]
    <3>1. \A b \in D : rem[b] = r(b)
      OBVIOUS
    <3> HIDE DEF rem, r
    <3> QED
      BY <3>1
  <2> HIDE DEF floors, ahead, before, left
  <2>4. ASSUME NEW a \in D PROVE Q[a] = P[a]
    BY <2>3
  <2> QED
    BY <2>2, <2>4
<1> HIDE DEF all, rem, floors
<1>4. rem \in [D -> Int] /\ floors \in [D -> Int] /\ score \in [D -> Int]
  BY <1>2 DEF rem, floors
<1>5. SumOn(rem) = all * left /\ left \in Int /\ SumOn(rem) \in Int
  <2> DEFINE v == [a \in D |-> amount * score[a]]
             u == [a \in D |-> all * floors[a]]
  <2>1. v \in [D -> Int] /\ u \in [D -> Int] /\ \A x \in D : v[x] = u[x] + rem[x]
    BY <1>1, <1>2
  <2>2. SumOn(score) \in Int /\ SumOn(v) = amount * SumOn(score)
    <3>1. amount \in Int
      OBVIOUS
    <3> QED
      BY <1>4, <3>1, SumScales
  <2>3. SumOn(floors) \in Int /\ SumOn(u) = all * SumOn(floors)
    BY <1>1, <1>4, SumScales
  <2> HIDE DEF v, u, W
  <2>4. SumOn(rem) \in Int /\ SumOn(v) = SumOn(u) + SumOn(rem)
    BY <1>4, <2>1, SumAdds
  <2>5. SumOn(score) = all
    BY DEF all
  <2>6. all * left = all * amount - all * SumOn(floors)
    BY <1>1, <2>3
  <2> HIDE DEF left
  <2> QED
    BY <1>1, <2>2, <2>3, <2>4, <2>5, <2>6 DEF left
<1> HIDE DEF left
<1>6. ASSUME NEW T \in SUBSET D, \A x \in D : x \notin T => rem[x] = 0
      PROVE  left <= Cardinality(T)
  <2> DEFINE mark == [x \in D |-> IF x \in T THEN 1 ELSE 0]
             top == [x \in D |-> all * mark[x]]
  <2>1. mark \in [D -> Int] /\ top \in [D -> Int] /\ \A x \in D : rem[x] <= top[x]
    BY <1>1, <1>2, <1>6
  <2>2. SumOn(mark) = Cardinality(T)
    BY SumOfMarks
  <2> HIDE DEF mark
  <2>3. SumOn(top) = all * Cardinality(T)
    BY <1>1, <2>1, <2>2, SumScales
  <2> HIDE DEF top
  <2>4. SumOn(rem) <= SumOn(top)
    BY <1>4, <2>1, SumMonotone
  <2>5. Cardinality(T) \in Int
    BY FS_Subset, FS_CardinalityType
  <2>6. all * left <= all * Cardinality(T)
    BY <1>5, <2>3, <2>4
  <2> QED
    BY <1>1, <1>5, <2>5, <2>6
<1>7. left \in 0..n
  <2> DEFINE none == [x \in D |-> IF x \in {} THEN 1 ELSE 0]
  <2>1. none \in [D -> Int] /\ \A x \in D : none[x] <= rem[x]
    BY <1>2
  <2>2. SumOn(none) = 0
    BY SumOfMarks, FS_EmptySet
  <2> HIDE DEF none
  <2>3. 0 <= SumOn(rem)
    BY <1>4, <2>1, <2>2, SumMonotone
  <2>4. left <= n
    BY <1>6
  <2>5. 0 <= all * left
    BY <1>5, <2>3
  <2>6. 0 <= left
    BY <1>1, <1>5, <2>5
  <2> QED
    BY <1>0, <1>5, <2>4, <2>6
<1>8. Cardinality(W) = left
  <2>1. \A a \in D : AddressRank[a] \in Int
    BY PoolsAssumption
  <2>2. \A a, b \in D : AddressRank[a] = AddressRank[b] => a = b
    BY PoolsAssumption DEF IsInjective
  <2>3. ahead \in [D -> SUBSET D]
    OBVIOUS
  <2>4. \A a, b \in D : b \in ahead[a] <=> \/ rem[b] > rem[a]
                                           \/ rem[b] = rem[a] /\ AddressRank[b] < AddressRank[a]
    OBVIOUS
  <2>5. \A a \in D : rem[a] \in Int
    BY <1>2
  <2> HIDE DEF ahead
  <2>6. \A a \in D : a \notin ahead[a]
    BY <2>1, <2>4, <2>5
  <2>7. \A a \in D : \A b \in ahead[a] : ahead[b] \subseteq ahead[a]
    BY <2>1, <2>3, <2>4, <2>5
  <2>8. \A a, b \in D : a # b => b \in ahead[a] \/ a \in ahead[b]
    BY <2>1, <2>2, <2>4, <2>5
  <2> QED
    BY <1>7, <2>3, <2>6, <2>7, <2>8, FirstOnes
<1>9. ASSUME NEW a \in W PROVE rem[a] > 0
  <2> SUFFICES ASSUME ~(rem[a] > 0) PROVE FALSE
    OBVIOUS
  <2> DEFINE T == {b \in D : rem[b] > 0}
  <2>1. rem[a] = 0
    BY <1>2
  <2>2. T \in SUBSET ahead[a] /\ T \in SUBSET D /\ ahead[a] \in SUBSET D
    BY <2>1
  <2>3. \A x \in D : x \notin T => rem[x] = 0
    BY <1>2
  <2>4. Cardinality(ahead[a]) < left
    BY <1>9
  <2> HIDE DEF T, ahead, W
  <2>5. left <= Cardinality(T)
    BY <1>6, <2>2, <2>3
  <2>6. IsFiniteSet(ahead[a]) /\ IsFiniteSet(T)
    BY <2>2, FS_Subset
  <2>7. Cardinality(T) <= Cardinality(ahead[a])
    BY <2>2, <2>6, FS_Subset
  <2>8. Cardinality(T) \in Int /\ Cardinality(ahead[a]) \in Int
    BY <2>6, FS_CardinalityType
  <2> QED
    BY <1>5, <2>4, <2>5, <2>7, <2>8
<1> HIDE DEF ahead
<1>10. marks \in [D -> Int] /\ SumOn(marks) = left
  <2>1. W \subseteq D
    OBVIOUS
  <2> HIDE DEF W
  <2> QED
    BY <1>8, <2>1, SumOfMarks
<1>11. P \in [D -> Nat] /\ SumOn(P) = amount
  <2>1. P \in [D -> Nat] /\ P \in [D -> Int] /\ \A x \in D : P[x] = floors[x] + marks[x]
    BY <1>2
  <2> HIDE DEF P, marks
  <2>2. SumOn(P) = SumOn(floors) + SumOn(marks) /\ SumOn(floors) \in Int
    BY <1>4, <1>10, <2>1, SumAdds
  <2> QED
    BY <1>10, <2>1, <2>2 DEF left
<1>12. ASSUME NEW a \in D
       PROVE  /\ P[a] * all - amount * score[a] < all
              /\ -(P[a] * all - amount * score[a]) < all
  <2>1. P[a] = floors[a] + marks[a] /\ marks[a] \in {0, 1} /\ (marks[a] = 1 => rem[a] > 0)
    BY <1>9
  <2> HIDE DEF P, marks
  <2>2. P[a] * all = floors[a] * all + marks[a] * all
    BY <1>1, <1>2, <2>1
  <2>3. P[a] * all - amount * score[a] = marks[a] * all - rem[a]
    BY <1>1, <1>2, <2>1, <2>2
  <2>4. CASE marks[a] = 0
    BY <1>1, <1>2, <2>3, <2>4
  <2>5. CASE marks[a] = 1
    BY <1>1, <1>2, <2>1, <2>3, <2>5
  <2> QED
    BY <2>1, <2>4, <2>5
<1> HIDE DEF P
<1> QED
  BY <1>1, <1>3, <1>11, <1>12 DEF all

(* The split of a reward: to the atom, within the rate, and by work.     *)
THEOREM SplitFacts ==
  ASSUME NEW total \in Nat, NEW bps, Rate(bps), NEW score,
         IsFiniteSet(DOMAIN score), DOMAIN score \subseteq DOMAIN AddressRank,
         score \in [DOMAIN score -> Nat \ {0}],
         NEW s \in Split(total, bps, score)
  PROVE  /\ s.commission \in Nat /\ s.entries \in [DOMAIN score -> Nat]
         /\ s.commission + SumOn(s.entries) = total
         /\ s.commission * 10000 <= total * bps
         /\ \A a \in DOMAIN score :
              LET off == s.entries[a] * SumOn(score) - (total - s.commission) * score[a]
              IN off < SumOn(score) /\ -off < SumOn(score)
<1> DEFINE D == DOMAIN score
           all == SumOn(score)
           commission == (total * bps) \div 10000
           amount == total - commission
           entries == Portions(amount, score, all)
<1>1. D # {} /\ s = [commission |-> commission, entries |-> entries]
  <2>1. Split(total, bps, score) =
          IF D = {} THEN {} ELSE {[commission |-> commission, entries |-> entries]}
    BY DEF Split
  <2> HIDE DEF D, commission, entries
  <2> QED
    BY <2>1
<1>2. s.commission = commission /\ s.entries = entries
  BY <1>1
<1>3. commission \in Nat /\ commission * 10000 <= total * bps /\ commission <= total
  <2> DEFINE v == total * bps
  <2>1. bps \in Nat /\ bps <= 10000
    BY RateBounds
  <2>2. v \in Nat /\ v <= total * 10000
    BY <2>1
  <2> HIDE DEF v
  <2>3. v \div 10000 \in Nat /\ (v \div 10000) * 10000 <= v
    BY <2>2
  <2>4. v \div 10000 <= total
    BY <2>2, <2>3
  <2> QED
    BY <2>3, <2>4 DEF v
<1> HIDE DEF commission
<1>4. amount \in Nat
  BY <1>3
<1>5. /\ all \in Nat \ {0} /\ entries \in [D -> Nat] /\ SumOn(entries) = amount
      /\ \A a \in D : /\ entries[a] * all - amount * score[a] < all
                      /\ -(entries[a] * all - amount * score[a]) < all
  <2> HIDE DEF amount
  <2> QED
    BY <1>1, <1>4, PortionsFacts
<1>6. commission + SumOn(entries) = total
  <2> HIDE DEF entries
  <2> QED
    BY <1>3, <1>5
<1> HIDE DEF entries, all
<1> QED
  BY <1>2, <1>3, <1>5, <1>6 DEF all

-----------------------------------------------------------------------------
(* The registrations of a transaction enter the registry; c is the       *)
(* transaction in its place, the registry before it, the registrations.  *)
RegisterEach(c, r, o) == Register(r, NameOf(o), [to |-> o.s.to, h |-> c[1].h, id |-> c[1].tx.id])
RegisterInv(c, k, r) ==
  DOMAIN c[2] \subseteq DOMAIN r /\ \A i \in 1..k : NameOf(c[3][i]) \in DOMAIN r
Registering == INSTANCE FoldFacts WITH Op <- RegisterEach, Inv <- RegisterInv

(* RegisterAll, as an instance.                                          *)
LEMMA RegisterIsFold ==
  ASSUME NEW c, NEW reg
  PROVE  RegisterAll(reg, c[1]) = Registering!Fold(c, reg, Registrations(c[1].tx))
BY Zenon DEF RegisterAll, RegisterEach, Folded,
  Registering!Fold, Registering!Table

(* The registry forgets no name and takes the one of a transaction.      *)
LEMMA RegisterAllFacts ==
  ASSUME NEW reg, NEW p, Registers(p.tx) => OneName(p.tx)
  PROVE  /\ DOMAIN reg \subseteq DOMAIN RegisterAll(reg, p)
         /\ Registers(p.tx) => NameIn(p.tx) \in DOMAIN RegisterAll(reg, p)
<1> DEFINE regs == Registrations(p.tx)
           c == <<p, reg, regs>>
<1>1. PICK n \in Nat : DOMAIN regs = 1..n /\ (Registers(p.tx) => n = 1)
  <2>1. CASE regs = <<>>
    <3>1. DOMAIN <<>> = 1..0
      OBVIOUS
    <3> QED
      BY <2>1, <3>1 DEF Registers
  <2>2. CASE regs # <<>>
    <3>1. regs = <<regs[1]>>
      BY <2>2 DEF Registers, OneName
    <3>2. DOMAIN <<regs[1]>> = 1..1
      OBVIOUS
    <3> QED
      BY <3>1, <3>2
  <2> QED
    BY <2>1, <2>2
<1>2. RegisterAll(reg, p) = Registering!Fold(c, reg, regs)
  <2>1. c[1] = p
    OBVIOUS
  <2>2. RegisterAll(reg, c[1]) = Registering!Fold(c, reg, Registrations(c[1].tx))
    BY RegisterIsFold, Zenon
  <2> HIDE DEF c
  <2> QED
    BY <2>1, <2>2
<1>3. RegisterInv(c, 0, reg)
  BY DEF RegisterInv
<1>4. ASSUME NEW i \in 1..n, NEW r, RegisterInv(c, i - 1, r) PROVE RegisterInv(c, i, RegisterEach(c, r, regs[i]))
  <2> DEFINE q == RegisterEach(c, r, regs[i])
  <2>1. DOMAIN q = DOMAIN r \cup {NameOf(regs[i])}
    BY DEF RegisterEach, Register
  <2> HIDE DEF q
  <2>2. DOMAIN reg \subseteq DOMAIN r /\ \A j \in 1..(i - 1) : NameOf(regs[j]) \in DOMAIN r
    BY <1>4 DEF RegisterInv
  <2>3. \A j \in 1..i : j = i \/ j \in 1..(i - 1)
    BY <1>1
  <2>4. \A j \in 1..i : NameOf(regs[j]) \in DOMAIN q
    BY <2>1, <2>2, <2>3
  <2>5. DOMAIN reg \subseteq DOMAIN q
    BY <2>1, <2>2
  <2> HIDE DEF regs
  <2> QED
    BY <2>4, <2>5 DEF RegisterInv, q
<1> HIDE DEF c, regs
<1>5. RegisterInv(c, n, Registering!Fold(c, reg, regs))
  BY <1>1, <1>3, <1>4, Registering!FoldInvariant
<1> QED
  BY <1>1, <1>2, <1>5 DEF RegisterInv, NameIn, c, regs

(* The registry is rebuilt from the confirmed transactions in turn.      *)
RegistryEach(c, reg, p) == RegisterAll(reg, p)
RegistryInv(c, k, reg) ==
  /\ DOMAIN ReservedNames \subseteq DOMAIN reg
  /\ \A j \in 1..k : Registers(c[j].tx) => NameIn(c[j].tx) \in DOMAIN reg
Registry == INSTANCE FoldFacts WITH Op <- RegistryEach, Inv <- RegistryInv

(* The registry of a chain knows the reserved names and every name a     *)
(* transaction of the chain registers.                                   *)
LEMMA RegistryKnows ==
  ASSUME NEW B, IsSeq(B), \A h \in 1..Len(B) : IsSeq(B[h].txs), NamesSound(B)
  PROVE  /\ DOMAIN ReservedNames \subseteq DOMAIN RegistryFrom(B)
         /\ \A h \in 1..Len(B) : \A i \in 1..Len(B[h].txs) :
              Registers(B[h].txs[i]) => NameIn(B[h].txs[i]) \in DOMAIN RegistryFrom(B)
<1> DEFINE ps == Placed(B, Qns.active)
           n == Len(ps)
           r == Registry!Fold(ps, ReservedNames, ps)
<1>0. Qns.active \in Int
  BY QnsAssumption DEF QnsSettings
<1>1. PlacedInv(<<B, Qns.active>>, Len(B), ps)
  BY <1>0, PlacedFacts
<1>2. RegistryFrom(B) = r
  BY Zenon DEF RegistryFrom, RegistryEach, Folded,
    Registry!Fold, Registry!Table
<1> HIDE DEF ps
<1>3. n \in Nat /\ DOMAIN ps = 1..n
  BY <1>1, SeqDomain DEF PlacedInv
<1>4. ASSUME NEW j \in 1..n, Registers(ps[j].tx) PROVE OneName(ps[j].tx)
  <2>1. PICK h \in 1..Len(B) : \E i \in 1..Len(B[h].txs) : ps[j] = [tx |-> B[h].txs[i], h |-> h]
    BY <1>1 DEF PlacedInv
  <2>2. PICK i \in 1..Len(B[h].txs) : ps[j] = [tx |-> B[h].txs[i], h |-> h]
    BY <2>1
  <2>3. ps[j].tx = B[h].txs[i]
    BY <2>2
  <2> QED
    BY <1>4, <2>3 DEF NamesSound
<1>5. RegistryInv(ps, 0, ReservedNames)
  BY DEF RegistryInv
<1>6. ASSUME NEW i \in 1..n, NEW s, RegistryInv(ps, i - 1, s) PROVE RegistryInv(ps, i, RegistryEach(ps, s, ps[i]))
  <2>1. /\ DOMAIN s \subseteq DOMAIN RegisterAll(s, ps[i])
        /\ Registers(ps[i].tx) => NameIn(ps[i].tx) \in DOMAIN RegisterAll(s, ps[i])
    BY <1>4, RegisterAllFacts
  <2>2. \A j \in 1..i : j = i \/ j \in 1..(i - 1)
    BY <1>3
  <2> QED
    BY <1>6, <2>1, <2>2 DEF RegistryInv, RegistryEach
<1>7. RegistryInv(ps, n, r)
  BY <1>3, <1>5, <1>6, Registry!FoldInvariant
<1> HIDE DEF r, n
<1>8. ASSUME NEW h \in 1..Len(B), NEW i \in 1..Len(B[h].txs), Registers(B[h].txs[i])
      PROVE  NameIn(B[h].txs[i]) \in DOMAIN r
  <2>1. h >= Qns.active
    BY <1>8 DEF NamesSound
  <2>2. PICK j \in 1..n : ps[j] = [tx |-> B[h].txs[i], h |-> h]
    BY <1>1, <2>1 DEF PlacedInv, n
  <2>3. ps[j].tx = B[h].txs[i]
    BY <2>2
  <2> QED
    BY <1>7, <1>8, <2>3 DEF RegistryInv
<1> QED
  BY <1>2, <1>7, <1>8, Zenon DEF RegistryInv

(* The check of a block's names, transaction by transaction; c is the    *)
(* height, the registry before the block and its transactions.           *)
NamesSoFar(h, reg, txs, k, seen) ==
  \A i \in 1..k : Registers(txs[i]) =>
    /\ h >= Qns.active /\ OneName(txs[i])
    /\ NameIn(txs[i]) \notin DOMAIN reg /\ NameIn(txs[i]) \in seen
    /\ \A j \in 1..k : Registers(txs[j]) /\ NameIn(txs[j]) = NameIn(txs[i]) => j = i
NamesKeep(c, S, tx) == UNION {QnsValidate(tx, c[1], c[2], seen) : seen \in S}
NamesInv(c, k, S) == \A seen \in S : NamesSoFar(c[1], c[2], c[3], k, seen)
BlockNames == INSTANCE FoldFacts WITH Op <- NamesKeep, Inv <- NamesInv

(* The check of a block that registers names, as an instance.            *)
LEMMA NamesAreFold ==
  ASSUME NEW c, NEW block, NamesBlockOK(block, c[2], c[1]), \E tx \in ToSet(block.txs) : Registers(tx)
  PROVE  BlockNames!Fold(c, {{}}, block.txs) # {}
BY Zenon DEF NamesBlockOK, Registers, NamesKeep, Folded,
  BlockNames!Fold, BlockNames!Table

(* What the check of one transaction says of it.                         *)
LEMMA QnsValidateFacts ==
  ASSUME NEW tx, NEW h, NEW reg, NEW seen, NEW next \in QnsValidate(tx, h, reg, seen)
  PROVE  /\ ~Registers(tx) => next = seen
         /\ Registers(tx) => /\ h >= Qns.active /\ OneName(tx)
                             /\ NameIn(tx) \notin DOMAIN reg /\ NameIn(tx) \notin seen
                             /\ next = seen \cup {NameIn(tx)}
<1>1. CASE Registrations(tx) = <<>>
  BY <1>1 DEF QnsValidate, Registers
<1>2. CASE Registrations(tx) # <<>>
  <2> DEFINE o == Registrations(tx)[1]
  <2>1. PICK name \in {n \in {NameOf(o)} :
               /\ h >= Qns.active
               /\ ~IsCoinbase(tx)
               /\ Registrations(tx) = <<o>>
               /\ o.v = Qns.marker
               /\ n \notin DOMAIN reg \cup seen
               /\ PaidTo(tx, Qns.protocol) >= QnsProtocolShare(h, QnsPrice(o.s.raw))} : next = seen \cup {name}
    BY <1>2, Zenon DEF QnsValidate
  <2>2. name = NameIn(tx)
    BY <2>1 DEF NameIn
  <2> QED
    BY <1>2, <2>1, <2>2 DEF Registers, OneName
<1> QED
  BY <1>1, <1>2

(* The names of a block that connects are new, and each is registered    *)
(* once in it.                                                           *)
LEMMA BlockNamesNew ==
  ASSUME NEW block, IsSeq(block.txs), NEW reg, NEW h, NamesBlockOK(block, reg, h)
  PROVE  \E seen : NamesSoFar(h, reg, block.txs, Len(block.txs), seen)
<1> DEFINE txs == block.txs
           n == Len(txs)
           c == <<h, reg, txs>>
<1>1. n \in Nat /\ DOMAIN txs = 1..n /\ \A i \in 1..n : txs[i] \in ToSet(txs)
  BY SeqDomain
<1>2. CASE \A tx \in ToSet(txs) : ~Registers(tx)
  BY <1>1, <1>2 DEF NamesSoFar
<1>3. CASE ~\A tx \in ToSet(txs) : ~Registers(tx)
  <2>1. c[1] = h /\ c[2] = reg
    OBVIOUS
  <2>2. BlockNames!Fold(c, {{}}, block.txs) # {}
    <3>1. \E tx \in ToSet(block.txs) : Registers(tx)
      BY <1>3
    <3> HIDE DEF c
    <3>2. NamesBlockOK(block, c[2], c[1])
      BY <2>1
    <3> QED
      BY <3>1, <3>2, NamesAreFold, Zenon
  <2>3. NamesInv(c, 0, {{}})
    BY DEF NamesInv, NamesSoFar
  <2>4. ASSUME NEW i \in 1..n, NEW S, NamesInv(c, i - 1, S) PROVE NamesInv(c, i, NamesKeep(c, S, txs[i]))
    <3> SUFFICES ASSUME NEW next \in NamesKeep(c, S, txs[i]) PROVE NamesSoFar(h, reg, txs, i, next)
      BY DEF NamesInv
    <3>1. PICK seen \in S : next \in QnsValidate(txs[i], h, reg, seen)
      BY DEF NamesKeep
    <3>2. NamesSoFar(h, reg, txs, i - 1, seen)
      BY <2>4 DEF NamesInv
    <3>3. \A j \in 1..i : j = i \/ j \in 1..(i - 1)
      BY <1>1
    <3>4. /\ ~Registers(txs[i]) => next = seen
          /\ Registers(txs[i]) => /\ h >= Qns.active /\ OneName(txs[i])
                                  /\ NameIn(txs[i]) \notin DOMAIN reg /\ NameIn(txs[i]) \notin seen
                                  /\ next = seen \cup {NameIn(txs[i])}
      BY <3>1, QnsValidateFacts
    <3> HIDE DEF txs, c, n
    <3> QED
      BY <3>2, <3>3, <3>4 DEF NamesSoFar
  <2> HIDE DEF c
  <2>5. NamesInv(c, n, BlockNames!Fold(c, {{}}, txs))
    BY <1>1, <2>3, <2>4, BlockNames!FoldInvariant
  <2>6. PICK seen \in BlockNames!Fold(c, {{}}, txs) : TRUE
    BY <2>2
  <2> QED
    BY <2>5, <2>6 DEF NamesInv, c
<1> QED
  BY <1>2, <1>3

(* A chain's names stay sound when a block connects.                     *)
LEMMA ConnectNames ==
  ASSUME NEW B, IsSeq(B), \A h \in 1..Len(B) : IsSeq(B[h].txs), NamesSound(B),
         NEW block, IsSeq(block.txs), NamesBlockOK(block, RegistryFrom(B), Len(B) + 1)
  PROVE  NamesSound(Append(B, block))
<1> DEFINE Q == Append(B, block)
           l == Len(B)
           reg == RegistryFrom(B)
<1>1. l \in Nat /\ Len(Q) = l + 1 /\ Q[l + 1] = block /\ \A h \in 1..l : Q[h] = B[h]
  BY SeqDomain, AppendSeq
<1>2. PICK seen : NamesSoFar(l + 1, reg, block.txs, Len(block.txs), seen)
  BY BlockNamesNew
<1>3. /\ DOMAIN ReservedNames \subseteq DOMAIN reg
      /\ \A h \in 1..l : \A i \in 1..Len(B[h].txs) :
           Registers(B[h].txs[i]) => NameIn(B[h].txs[i]) \in DOMAIN reg
  BY RegistryKnows
<1>4. \A h \in 1..(l + 1) : h = l + 1 \/ h \in 1..l
  BY <1>1
<1> HIDE DEF Q, l, reg
<1> SUFFICES ASSUME NEW h \in 1..(l + 1), NEW i \in 1..Len(Q[h].txs), Registers(Q[h].txs[i])
             PROVE  /\ h >= Qns.active /\ OneName(Q[h].txs[i])
                    /\ NameIn(Q[h].txs[i]) \notin DOMAIN ReservedNames
                    /\ \A g \in 1..(l + 1) : \A j \in 1..Len(Q[g].txs) :
                         Registers(Q[g].txs[j]) /\ NameIn(Q[g].txs[j]) = NameIn(Q[h].txs[i]) => g = h /\ j = i
  BY <1>1 DEF NamesSound, Q
<1>5. CASE h = l + 1
  <2>1. /\ l + 1 >= Qns.active /\ OneName(block.txs[i]) /\ NameIn(block.txs[i]) \notin DOMAIN reg
        /\ \A j \in 1..Len(block.txs) :
             Registers(block.txs[j]) /\ NameIn(block.txs[j]) = NameIn(block.txs[i]) => j = i
    BY <1>1, <1>2, <1>5 DEF NamesSoFar
  <2> QED
    BY <1>1, <1>3, <1>4, <1>5, <2>1, SMTT(60), ZenonT(60)
<1>6. CASE h \in 1..l
  <2>1. Q[h] = B[h] /\ NameIn(B[h].txs[i]) \in DOMAIN reg
    BY <1>1, <1>3, <1>6
  <2>2. \A j \in 1..Len(block.txs) : Registers(block.txs[j]) => NameIn(block.txs[j]) \notin DOMAIN reg
    BY <1>2 DEF NamesSoFar
  <2>3. /\ h >= Qns.active /\ OneName(B[h].txs[i])
        /\ NameIn(B[h].txs[i]) \notin DOMAIN ReservedNames
        /\ \A g \in 1..l : \A j \in 1..Len(B[g].txs) :
             Registers(B[g].txs[j]) /\ NameIn(B[g].txs[j]) = NameIn(B[h].txs[i]) => g = h /\ j = i
    BY <1>6, <2>1 DEF NamesSound, l
  <2> QED
    BY <1>1, <1>4, <2>1, <2>2, <2>3
<1> QED
  BY <1>4, <1>5, <1>6

-----------------------------------------------------------------------------
(* A pool's record, and a commission within bounds.                      *)
IsPool(p) == p = [name |-> p.name, mgr |-> p.mgr, bps |-> p.bps, slots |-> p.slots,
                  created |-> p.created, paid |-> p.paid]
PoolSound(p) == IsPool(p) /\ Rate(p.bps)
RatesSound(reg) == \A pool \in DOMAIN reg : PoolSound(reg[pool])

(* An entry replaced or added keeps the registry's rates sound.          *)
LEMMA SetRates ==
  ASSUME NEW reg, RatesSound(reg), NEW x, NEW p, PoolSound(p)
  PROVE  RatesSound(Set(reg, x, p)) /\ RatesSound([reg EXCEPT ![x] = p])
<1> USE Zenon DEF RatesSound, Set
<1>1. ASSUME NEW pool \in DOMAIN Set(reg, x, p) PROVE PoolSound(Set(reg, x, p)[pool])
  OBVIOUS
<1>2. ASSUME NEW pool \in DOMAIN [reg EXCEPT ![x] = p] PROVE PoolSound([reg EXCEPT ![x] = p][pool])
  OBVIOUS
<1> QED
  BY <1>1, <1>2

(* The changes a pool's own record sees.                                 *)
LEMMA ChangedPool ==
  ASSUME NEW p, PoolSound(p), NEW name, NEW bps, Rate(bps), NEW extra
  PROVE  /\ PoolSound(Enlarged(p, extra))
         /\ PoolSound([p EXCEPT !.bps = bps])
         /\ PoolSound([p EXCEPT !.name = name])
<1>1. Rate(p.bps)
  BY Zenon DEF PoolSound
<1>2. PICK n, m, b, s, c, q : p = [name |-> n, mgr |-> m, bps |-> b, slots |-> s, created |-> c, paid |-> q]
  BY Zenon DEF PoolSound, IsPool
<1> DEFINE slots == SmallerOf(p.slots + extra, Pool.max_slots)
           paid == p.paid + TopUpPrice(extra)
<1>3. Enlarged(p, extra) = [[p EXCEPT !.slots = slots] EXCEPT !.paid = paid]
  BY DEF Enlarged
<1> HIDE DEF slots, paid
<1>4. Enlarged(p, extra) = [name |-> n, mgr |-> m, bps |-> b, slots |-> slots, created |-> c, paid |-> paid]
  BY <1>2, <1>3
<1>5. [p EXCEPT !.bps = bps] = [name |-> n, mgr |-> m, bps |-> bps, slots |-> s, created |-> c, paid |-> q]
  BY <1>2
<1>6. [p EXCEPT !.name = name] = [name |-> name, mgr |-> m, bps |-> b, slots |-> s, created |-> c, paid |-> q]
  BY <1>2
<1> QED
  BY <1>1, <1>2, <1>4, <1>5, <1>6 DEF PoolSound, IsPool

(* A marker that is applied keeps every commission within bounds.        *)
LEMMA ApplyRates ==
  ASSUME NEW reg, RatesSound(reg), NEW m, RateSound(m), NEW id, NEW h
  PROVE  RatesSound(ApplyPoolMarker(reg, m, id, h))
<1> DEFINE p == reg[m.pool]
           next == ApplyPoolMarker(reg, m, id, h)
<1>0. ASSUME m.pool \in DOMAIN reg PROVE PoolSound(p)
  BY <1>0, Zenon DEF RatesSound
<1>1. CASE m.k = "pool_create"
  <2>1. next = Set(reg, id, NewPool(m, h))
    BY <1>1 DEF ApplyPoolMarker
  <2>2. NewPool(m, h).bps = m.bps /\ IsPool(NewPool(m, h))
    BY DEF NewPool, IsPool
  <2>3. PoolSound(NewPool(m, h))
    BY <1>1, <2>2 DEF PoolSound, RateSound
  <2> HIDE DEF next
  <2>4. RatesSound(Set(reg, id, NewPool(m, h)))
    BY <2>3, SetRates
  <2>5. RatesSound(next)
    BY <2>1, <2>4
  <2> QED
    BY <2>5 DEF next
<1>2. CASE m.k = "pool_topup" /\ m.pool \in DOMAIN reg
  <2>1. next = [reg EXCEPT ![m.pool] = Enlarged(p, m.extra)]
    BY <1>2 DEF ApplyPoolMarker
  <2>2. Rate(p.bps)
    BY <1>0, <1>2, Zenon DEF PoolSound
  <2>3. PoolSound(Enlarged(p, m.extra))
    BY <1>0, <1>2, <2>2, ChangedPool
  <2>4. RatesSound([reg EXCEPT ![m.pool] = Enlarged(p, m.extra)])
    BY <2>3, SetRates
  <2> QED
    BY <2>1, <2>4
<1>3. CASE m.k = "pool_commission" /\ m.pool \in DOMAIN reg /\ m.bps <= p.bps
  <2>1. next = [reg EXCEPT ![m.pool] = [p EXCEPT !.bps = m.bps]]
    BY <1>3 DEF ApplyPoolMarker
  <2>2. Rate(m.bps)
    <3>1. m.bps \in Nat
      BY <1>3 DEF RateSound
    <3>2. Rate(p.bps) /\ m.bps <= p.bps
      BY <1>0, <1>3 DEF PoolSound
    <3>3. p.bps \in Nat /\ \A x \in 0..p.bps : Rate(x)
      BY <3>2, RateBounds
    <3> HIDE DEF p
    <3>4. m.bps \in 0..p.bps
      BY <3>1, <3>2, <3>3
    <3> QED
      BY <3>3, <3>4
  <2>3. PoolSound([p EXCEPT !.bps = m.bps])
    BY <1>0, <1>3, <2>2, ChangedPool
  <2>4. RatesSound([reg EXCEPT ![m.pool] = [p EXCEPT !.bps = m.bps]])
    BY <2>3, SetRates
  <2> QED
    BY <2>1, <2>4
<1>4. CASE m.k = "pool_rename" /\ m.pool \in DOMAIN reg /\ m.mgr = p.mgr
  <2>1. next = [reg EXCEPT ![m.pool] = [p EXCEPT !.name = m.name]]
    BY <1>4 DEF ApplyPoolMarker
  <2>2. Rate(p.bps)
    BY <1>0, <1>4, Zenon DEF PoolSound
  <2>3. PoolSound([p EXCEPT !.name = m.name])
    BY <1>0, <1>4, <2>2, ChangedPool
  <2>4. RatesSound([reg EXCEPT ![m.pool] = [p EXCEPT !.name = m.name]])
    BY <2>3, SetRates
  <2> QED
    BY <2>1, <2>4
<1>5. CASE /\ m.k # "pool_create"
           /\ ~(m.k = "pool_topup" /\ m.pool \in DOMAIN reg)
           /\ ~(m.k = "pool_commission" /\ m.pool \in DOMAIN reg /\ m.bps <= p.bps)
           /\ ~(m.k = "pool_rename" /\ m.pool \in DOMAIN reg /\ m.mgr = p.mgr)
  BY <1>5 DEF ApplyPoolMarker
<1> QED
  BY <1>1, <1>2, <1>3, <1>4, <1>5

(* A share has no outputs, so no action either.                          *)
LEMMA SharesDoNotAct ==
  ASSUME NEW tx, IsShare(tx)
  PROVE  ~Acts(tx)
BY DEF Acts, PoolActions, IsShare

(* What the check of one transaction says of it.                         *)
LEMMA PoolValidateFacts ==
  ASSUME NEW tx, NEW blocks, NEW U, NEW h, NEW fee, NEW C, PoolValidate(tx, blocks, U, h, fee, C) # {}
  PROVE  PoolTxSound(tx)
<1>1. CASE IsShare(tx)
  <2>1. ShareOK(tx, blocks, h, C)
    BY <1>1, Zenon DEF PoolValidate
  <2>2. tx.data.miner \in DOMAIN AddressRank
    BY <2>1 DEF ShareOK
  <2> QED
    BY <1>1, <2>2, SharesDoNotAct DEF PoolTxSound
<1>2. CASE ~IsShare(tx) /\ ~Acts(tx)
  BY <1>2 DEF PoolTxSound
<1>3. CASE ~IsShare(tx) /\ Acts(tx)
  <2> DEFINE as == PoolActions(tx)
             m == as[1].s
  <2>1. PoolActionOK(tx, fee, h, C.reg, U)
    BY <1>3, Zenon DEF PoolValidate, Acts
  <2>2. OneAction(tx) /\ PoolActionAllowed(tx, m, C.reg, U)
    BY <2>1, Zenon DEF PoolActionOK, OneAction
  <2> HIDE DEF m
  <2>3. m.k = "pool_create" => m.bps \in 0..Pool.max_commission
    BY <2>2 DEF PoolActionAllowed
  <2>4. m.k = "pool_commission" => m.bps \in 0..C.reg[m.pool].bps
    BY <2>2 DEF PoolActionAllowed
  <2>5. RateSound(m)
    <3>1. m.bps \in 0..C.reg[m.pool].bps => m.bps \in Nat
      OBVIOUS
    <3> QED
      BY <2>3, <2>4, <3>1, Zenon DEF RateSound, Rate
  <2> QED
    BY <1>3, <2>2, <2>5 DEF PoolTxSound, m
<1> QED
  BY <1>1, <1>2, <1>3

(* The check of a block's shares and actions, transaction by transaction;*)
(* c is the chain before the block, its height and its transactions.     *)
PoolsKeep(c, S, tx) ==
  UNION {UNION {AfterPooled(s, tx, c[1], fee, c[2]) : fee \in ContextualFee(tx, s.U, c[2])} : s \in S}
PoolsInv(c, k, S) == S # {} => \A i \in 1..k : PoolTxSound(c[3][i])
BlockPools == INSTANCE FoldFacts WITH Op <- PoolsKeep, Inv <- PoolsInv

(* That check of a block that touches pools, as an instance.             *)
LEMMA PoolsAreFold ==
  ASSUME NEW c, NEW block, NEW U, PoolsBlockOK(block, c[1], U, c[2]), PoolTouched(block)
  PROVE  BlockPools!Fold(c, {[C |-> PoolContext(c[1], c[2]), U |-> U, fees |-> 0]}, block.txs) # {}
BY Zenon DEF PoolsBlockOK, PoolsKeep, Folded,
  BlockPools!Fold, BlockPools!Table

(* The transactions of a block that connects are sound for the pools.    *)
LEMMA BlockPoolsSound ==
  ASSUME NEW block, IsSeq(block.txs), NEW B, NEW U, NEW h, PoolsBlockOK(block, B, U, h)
  PROVE  \A i \in 1..Len(block.txs) : PoolTxSound(block.txs[i])
<1> DEFINE txs == block.txs
           n == Len(txs)
           c == <<B, h, txs>>
           S0 == {[C |-> PoolContext(B, h), U |-> U, fees |-> 0]}
<1>1. n \in Nat /\ DOMAIN txs = 1..n /\ \A i \in 1..n : txs[i] \in ToSet(txs)
  BY SeqDomain
<1>2. CASE ~PoolTouched(block)
  <2>1. \A i \in 1..n : ~IsShare(txs[i]) /\ ~Acts(txs[i])
    BY <1>1, <1>2 DEF PoolTouched, Acts
  <2> QED
    BY <2>1 DEF PoolTxSound
<1>3. CASE PoolTouched(block)
  <2>1. c[1] = B /\ c[2] = h /\ c[3] = txs
    OBVIOUS
  <2> HIDE DEF c
  <2>2. BlockPools!Fold(c, S0, block.txs) # {}
    <3>1. PoolsBlockOK(block, c[1], U, c[2])
      BY <2>1
    <3>2. BlockPools!Fold(c, {[C |-> PoolContext(c[1], c[2]), U |-> U, fees |-> 0]}, block.txs) # {}
      BY <1>3, <3>1, PoolsAreFold, Zenon
    <3> QED
      BY <2>1, <3>2
  <2>3. PoolsInv(c, 0, S0)
    BY DEF PoolsInv
  <2>4. ASSUME NEW i \in 1..n, NEW S, PoolsInv(c, i - 1, S) PROVE PoolsInv(c, i, PoolsKeep(c, S, txs[i]))
    <3> SUFFICES ASSUME PoolsKeep(c, S, txs[i]) # {} PROVE \A j \in 1..i : PoolTxSound(txs[j])
      BY <2>1 DEF PoolsInv
    <3>1. PICK s \in S : UNION {AfterPooled(s, txs[i], B, fee, h) : fee \in ContextualFee(txs[i], s.U, h)} # {}
      BY <2>1 DEF PoolsKeep
    <3>2. PICK fee \in ContextualFee(txs[i], s.U, h) : AfterPooled(s, txs[i], B, fee, h) # {}
      BY <3>1
    <3>3. PoolValidate(txs[i], B, s.U, h, fee, s.C) # {}
      BY <3>2 DEF AfterPooled
    <3>4. PoolTxSound(txs[i])
      BY <3>3, PoolValidateFacts
    <3>5. \A j \in 1..(i - 1) : PoolTxSound(txs[j])
      BY <2>1, <2>4, <3>1 DEF PoolsInv
    <3>6. \A j \in 1..i : j = i \/ j \in 1..(i - 1)
      BY <1>1
    <3> QED
      BY <3>4, <3>5, <3>6
  <2> HIDE DEF S0
  <2>5. PoolsInv(c, n, BlockPools!Fold(c, S0, txs))
    BY <1>1, <2>3, <2>4, BlockPools!FoldInvariant
  <2> QED
    BY <2>1, <2>2, <2>5 DEF PoolsInv
<1> QED
  BY <1>2, <1>3

(* A chain stays sound for the pools when a block connects.              *)
LEMMA ConnectPools ==
  ASSUME NEW B, IsSeq(B), PoolTxsSound(B), NEW U,
         NEW block, IsSeq(block.txs), PoolsBlockOK(block, B, U, Len(B) + 1)
  PROVE  PoolTxsSound(Append(B, block))
<1> DEFINE Q == Append(B, block)
           l == Len(B)
<1>1. l \in Nat /\ Len(Q) = l + 1 /\ Q[l + 1] = block /\ \A h \in 1..l : Q[h] = B[h]
  BY SeqDomain, AppendSeq
<1>2. \A i \in 1..Len(block.txs) : PoolTxSound(block.txs[i])
  BY BlockPoolsSound
<1>3. \A h \in 1..(l + 1) : h = l + 1 \/ h \in 1..l
  BY <1>1
<1> HIDE DEF Q
<1>4. ASSUME NEW h \in 1..Len(Q), NEW i \in 1..Len(Q[h].txs) PROVE PoolTxSound(Q[h].txs[i])
  BY <1>1, <1>2, <1>3 DEF PoolTxsSound
<1> QED
  BY <1>4 DEF PoolTxsSound, Q

(* The actions of a transaction in its place, one after the other.       *)
ActedOn(reg, p) == Folded(LAMBDA r, o : ApplyPoolMarker(r, o.s, p.tx.id, p.h), reg, PoolActions(p.tx))
ApplyEach(c, r, o) == ApplyPoolMarker(r, o.s, c.tx.id, c.h)
ActEach(c, reg, p) == ActedOn(reg, p)
RatesInv(c, k, reg) == RatesSound(reg)
Applying == INSTANCE FoldFacts WITH Op <- ApplyEach, Inv <- RatesInv
PoolRegistry == INSTANCE FoldFacts WITH Op <- ActEach, Inv <- RatesInv

(* They keep every commission within bounds.                             *)
LEMMA ActedOnRates ==
  ASSUME NEW p, PoolTxSound(p.tx), NEW reg, RatesSound(reg)
  PROVE  RatesSound(ActedOn(reg, p))
<1> DEFINE as == PoolActions(p.tx)
<1>1. ActedOn(reg, p) = Applying!Fold(p, reg, as)
  BY Zenon DEF ActedOn, ApplyEach, Folded,
    Applying!Fold, Applying!Table
<1>2. PICK n \in Nat : DOMAIN as = 1..n /\ \A i \in 1..n : RateSound(as[i].s)
  <2>1. CASE ~Acts(p.tx)
    <3>1. as = <<>> /\ DOMAIN <<>> = 1..0 /\ 0 \in Nat /\ 1..0 = {}
      BY <2>1 DEF Acts
    <3> HIDE DEF as
    <3> QED
      BY <3>1
  <2>2. CASE Acts(p.tx)
    <3>1. as = <<as[1]>> /\ RateSound(as[1].s)
      BY <2>2 DEF OneAction, PoolTxSound
    <3> HIDE DEF as
    <3>2. DOMAIN <<as[1]>> = 1..1 /\ \A i \in 1..1 : i = 1
      OBVIOUS
    <3> QED
      BY <3>1, <3>2
  <2> QED
    BY <2>1, <2>2
<1> HIDE DEF as
<1>3. RatesInv(p, 0, reg)
  BY DEF RatesInv
<1>4. ASSUME NEW i \in 1..n, NEW r, RatesInv(p, i - 1, r) PROVE RatesInv(p, i, ApplyEach(p, r, as[i]))
  <2>1. RatesSound(r) /\ RateSound(as[i].s)
    BY <1>2, <1>4 DEF RatesInv
  <2> QED
    BY <2>1, ApplyRates DEF RatesInv, ApplyEach
<1>5. RatesInv(p, n, Applying!Fold(p, reg, as))
  BY <1>2, <1>3, <1>4, Applying!FoldInvariant
<1> QED
  BY <1>1, <1>5 DEF RatesInv

(* Every pool of a chain takes a commission within bounds.               *)
LEMMA RegistryRates ==
  ASSUME NEW B, IsSeq(B), \A h \in 1..Len(B) : IsSeq(B[h].txs), PoolTxsSound(B)
  PROVE  RatesSound(PoolRegistryFrom(B))
<1> DEFINE ps == Placed(B, Pool.active)
           n == Len(ps)
<1>0. Pool.active \in Int
  BY PoolNumbers
<1>1. PlacedInv(<<B, Pool.active>>, Len(B), ps)
  BY <1>0, PlacedFacts
<1>2. PoolRegistryFrom(B) = PoolRegistry!Fold(0, <<>>, ps)
  BY Zenon DEF PoolRegistryFrom, ActEach, ActedOn, Folded,
    PoolRegistry!Fold, PoolRegistry!Table
<1> HIDE DEF ps
<1>3. n \in Nat /\ DOMAIN ps = 1..n
  BY <1>1, SeqDomain DEF PlacedInv
<1>4. ASSUME NEW j \in 1..n PROVE PoolTxSound(ps[j].tx)
  <2>1. PICK h \in 1..Len(B) : \E i \in 1..Len(B[h].txs) : ps[j] = [tx |-> B[h].txs[i], h |-> h]
    BY <1>1 DEF PlacedInv
  <2>2. PICK i \in 1..Len(B[h].txs) : ps[j] = [tx |-> B[h].txs[i], h |-> h]
    BY <2>1
  <2>3. ps[j].tx = B[h].txs[i]
    BY <2>2
  <2> QED
    BY <2>3 DEF PoolTxsSound
<1>5. RatesInv(0, 0, <<>>)
  <2>1. DOMAIN <<>> = {}
    OBVIOUS
  <2> QED
    BY <2>1 DEF RatesInv, RatesSound
<1>6. ASSUME NEW i \in 1..n, NEW reg, RatesInv(0, i - 1, reg) PROVE RatesInv(0, i, ActEach(0, reg, ps[i]))
  BY <1>4, <1>6, ActedOnRates DEF RatesInv, ActEach
<1>7. RatesInv(0, n, PoolRegistry!Fold(0, <<>>, ps))
  BY <1>3, <1>5, <1>6, PoolRegistry!FoldInvariant
<1> QED
  BY <1>2, <1>7 DEF RatesInv

(* The shares a block pays, picked from their places; c is the height    *)
(* and the pool.                                                         *)
Counted(c, p) == p.h < c[1] /\ IsShare(p.tx) /\ p.tx.data.pool = c[2]
KeepCounted(c, s, p) == IF Counted(c, p) THEN Append(s, p) ELSE s
CountedFold == INSTANCE FoldFacts WITH Op <- KeepCounted, Inv <- Never

(* The scores, from that fold.                                           *)
LEMMA CountedIsFold ==
  ASSUME NEW c, NEW B
  PROVE  Scores(B, c[1], c[2]) = ScoresOf(CountedFold!Fold(c, <<>>, Placed(B, c[1] - Pool.window)))
BY Zenon DEF Scores, Where, KeepCounted, Counted, Folded,
  CountedFold!Fold, CountedFold!Table

(* The scores of the miners of a chain's shares: finitely many, each     *)
(* with a place in the order and at least one share.                     *)
LEMMA ScoresFacts ==
  ASSUME NEW B, IsSeq(B), \A h \in 1..Len(B) : IsSeq(B[h].txs), PoolTxsSound(B),
         NEW h \in Int, NEW pool
  PROVE  LET score == Scores(B, h, pool)
         IN /\ IsFiniteSet(DOMAIN score) /\ DOMAIN score \subseteq DOMAIN AddressRank
            /\ score \in [DOMAIN score -> Nat \ {0}]
<1> DEFINE first == h - Pool.window
           ps == Placed(B, first)
           n == Len(ps)
           c == <<h, pool>>
           shares == CountedFold!Fold(c, <<>>, ps)
           T == {p \in ToSet(ps) : Counted(c, p)}
           m == Len(shares)
           D == {shares[i].tx.data.miner : i \in 1..m}
<1>0. first \in Int
  BY PoolNumbers
<1> HIDE DEF first
<1>1. PlacedInv(<<B, first>>, Len(B), ps)
  BY <1>0, PlacedFacts
<1>2. Scores(B, h, pool) = ScoresOf(shares)
  <2>1. c[1] = h /\ c[2] = pool
    OBVIOUS
  <2>2. Scores(B, c[1], c[2]) = ScoresOf(CountedFold!Fold(c, <<>>, Placed(B, c[1] - Pool.window)))
    BY CountedIsFold, Zenon
  <2> HIDE DEF c
  <2> QED
    BY <2>1, <2>2 DEF first
<1> HIDE DEF ps
<1>3. IsSeq(ps) /\ n \in Nat /\ DOMAIN ps = 1..n /\ \A i \in 1..n : ps[i] \in ToSet(ps)
  BY <1>1, SeqDomain DEF PlacedInv
<1>4. shares \in Seq(T)
  <2>1. \A i \in 1..n : \A s : KeepCounted(c, s, ps[i]) = IF ps[i] \in T THEN Append(s, ps[i]) ELSE s
    BY <1>3 DEF KeepCounted
  <2>2. CountedFold!Picked(ps, n, T, shares)
    <3> HIDE DEF T, c, n
    <3> QED
      BY <1>3, <2>1, CountedFold!FilterFacts DEF n
  <2> QED
    BY <2>2 DEF CountedFold!Picked
<1>5. \A p \in T : p.tx.data.miner \in DOMAIN AddressRank
  <2> SUFFICES ASSUME NEW p \in T PROVE p.tx.data.miner \in DOMAIN AddressRank
    OBVIOUS
  <2>1. PICK j \in 1..n : p = ps[j]
    BY <1>3, SeqElements
  <2>2. PICK g \in 1..Len(B) : \E i \in 1..Len(B[g].txs) : p = [tx |-> B[g].txs[i], h |-> g]
    BY <1>1, <2>1 DEF PlacedInv
  <2>3. PICK i \in 1..Len(B[g].txs) : p = [tx |-> B[g].txs[i], h |-> g]
    BY <2>2
  <2>4. p.tx = B[g].txs[i] /\ IsShare(p.tx)
    BY <2>3 DEF Counted
  <2> QED
    BY <2>4 DEF PoolTxsSound, PoolTxSound
<1> HIDE DEF shares, T
<1>6. m \in Nat /\ DOMAIN shares = 1..m /\ \A i \in 1..m : shares[i] \in T
  BY <1>4
<1>7. ScoresOf(shares) = [a \in D |-> Cardinality({i \in 1..m : shares[i].tx.data.miner = a})]
  <2>1. {p.tx.data.miner : p \in ToSet(shares)} = D
    BY <1>6 DEF ToSet
  <2> QED
    BY <1>6, <2>1 DEF ScoresOf
<1>8. IsFiniteSet(1..m)
  BY <1>6, FS_Interval
<1>9. IsFiniteSet(D)
  <2> DEFINE f == [i \in 1..m |-> shares[i].tx.data.miner]
  <2>1. f \in [1..m -> D] /\ \A a \in D : \E i \in 1..m : f[i] = a
    OBVIOUS
  <2> HIDE DEF f, D
  <2>2. f \in Surjection(1..m, D)
    BY <2>1 DEF Surjection
  <2> QED
    BY <1>8, <2>2, FS_Surjection
<1>10. D \subseteq DOMAIN AddressRank
  BY <1>5, <1>6
<1>11. ASSUME NEW a \in D PROVE Cardinality({i \in 1..m : shares[i].tx.data.miner = a}) \in Nat \ {0}
  <2> DEFINE I == {i \in 1..m : shares[i].tx.data.miner = a}
  <2>1. I \in SUBSET (1..m) /\ I # {}
    OBVIOUS
  <2> HIDE DEF I
  <2>2. IsFiniteSet(I)
    BY <1>8, <2>1, FS_Subset
  <2>3. Cardinality(I) \in Nat \ {0}
    BY <2>1, <2>2, FS_CardinalityType, FS_EmptySet
  <2> QED
    BY <2>3 DEF I
<1> HIDE DEF D
<1> QED
  BY <1>2, <1>7, <1>9, <1>10, <1>11

(* The subsidy of a block is a number.                                   *)
Halve(c, v, i) == v \div 2
HalveInv(c, k, v) == v \in Nat
Halving == INSTANCE FoldFacts WITH Op <- Halve, Inv <- HalveInv
LEMMA SubsidyNat ==
  ASSUME NEW h \in Nat
  PROVE  Subsidy(h) \in Nat
<1> DEFINE n == (h - 1) \div Consensus.halving
           seq == [i \in 1..n |-> i]
<1>1. CASE h = 0
  BY <1>1 DEF Subsidy
<1>2. CASE h # 0
  <2>1. n \in Nat /\ DOMAIN seq = 1..n /\ Consensus.subsidy \in Nat
    BY <1>2, ConsensusAssumption DEF ConsensusSettings
  <2>2. Folded(LAMBDA v, i : v \div 2, Consensus.subsidy, seq) = Halving!Fold(0, Consensus.subsidy, seq)
    BY Zenon DEF Halve, Folded,
      Halving!Fold, Halving!Table
  <2>3. Subsidy(h) = IF n >= 64 THEN 0 ELSE Halving!Fold(0, Consensus.subsidy, seq)
    BY <1>2, <2>2, Zenon DEF Subsidy
  <2> HIDE DEF n
  <2>4. HalveInv(0, 0, Consensus.subsidy)
    BY <2>1 DEF HalveInv
  <2>5. ASSUME NEW i \in 1..n, NEW v, HalveInv(0, i - 1, v) PROVE HalveInv(0, i, Halve(0, v, seq[i]))
    BY <2>5 DEF HalveInv, Halve
  <2> HIDE DEF seq
  <2>6. HalveInv(0, n, Halving!Fold(0, Consensus.subsidy, seq))
    BY <2>1, <2>4, <2>5, Halving!FoldInvariant
  <2> QED
    BY <2>3, <2>6 DEF HalveInv
<1> QED
  BY <1>1, <1>2

-----------------------------------------------------------------------------
(* What coins are worth.                                                 *)

(* Two functions with the same values on a set have the same sum on it.  *)
LEMMA SumsAgree ==
  ASSUME NEW S, IsFiniteSet(S), NEW f, \A x \in S : f[x] \in Int,
         NEW T, IsFiniteSet(T), NEW g, \A x \in T : g[x] \in Int,
         NEW R, R \subseteq S, R \subseteq T, \A x \in R : f[x] = g[x]
  PROVE  Sums(f, S)[R] = Sums(g, T)[R]
<1> DEFINE F == Sums(f, S)
           G == Sums(g, T)
           P == {s \in SUBSET R : F[s] = G[s]}
<1>1. /\ F[{}] = 0
      /\ \A s \in SUBSET S : F[s] \in Int
      /\ \A s \in SUBSET S : \A x \in s : F[s] = f[x] + F[s \ {x}]
  BY SumsTake
<1>2. /\ G[{}] = 0
      /\ \A s \in SUBSET T : G[s] \in Int
      /\ \A s \in SUBSET T : \A x \in s : G[s] = g[x] + G[s \ {x}]
  BY SumsTake
<1> HIDE DEF F, G
<1>3. {} \in P
  BY <1>1, <1>2
<1>4. ASSUME NEW s \in SUBSET R, NEW x \in R \ s, s \in P PROVE s \cup {x} \in P
  <2> DEFINE t == s \cup {x}
  <2>1. t \in SUBSET R /\ x \in t /\ t \ {x} = s
    OBVIOUS
  <2> HIDE DEF t
  <2>2. F[t] = f[x] + F[s] /\ G[t] = g[x] + G[s]
    BY <1>1, <1>2, <2>1
  <2>3. F[t] = G[t]
    BY <1>4, <2>2
  <2> QED
    BY <2>1, <2>3 DEF t
<1>5. IsFiniteSet(R)
  BY FS_Subset
<1>6. R \in P
  <2> HIDE DEF P
  <2> QED
    BY <1>3, <1>4, <1>5, SetInduction
<1> QED
  BY <1>6 DEF F, G

(* The sum over two sets that have nothing in common.                    *)
LEMMA SumsUnion ==
  ASSUME NEW S, IsFiniteSet(S), NEW f, \A x \in S : f[x] \in Int,
         NEW Q, Q \subseteq S, NEW R, R \subseteq S, Q \cap R = {}
  PROVE  Sums(f, S)[Q \cup R] = Sums(f, S)[Q] + Sums(f, S)[R]
<1> DEFINE F == Sums(f, S)
           P == {s \in SUBSET Q : F[s \cup R] = F[s] + F[R]}
<1>1. /\ F[{}] = 0 /\ \A s \in SUBSET S : F[s] \in Int
      /\ \A s \in SUBSET S : \A x \in s : F[s] = f[x] + F[s \ {x}]
  BY SumsTake
<1> HIDE DEF F
<1>2. {} \in P
  <2>1. {} \cup R = R /\ F[R] \in Int
    BY <1>1
  <2> QED
    BY <1>1, <2>1
<1>3. ASSUME NEW s \in SUBSET Q, NEW x \in Q \ s, s \in P PROVE s \cup {x} \in P
  <2> DEFINE t == s \cup {x}
             u == t \cup R
  <2>1. /\ t \in SUBSET Q /\ t \in SUBSET S /\ x \in t /\ t \ {x} = s
        /\ u \in SUBSET S /\ x \in u /\ u \ {x} = s \cup R
    OBVIOUS
  <2>2. s \in SUBSET S /\ x \in S
    OBVIOUS
  <2> HIDE DEF t, u
  <2>3. F[t] = f[x] + F[s] /\ F[u] = f[x] + F[s \cup R]
    BY <1>1, <2>1
  <2>4. F[s \cup R] = F[s] + F[R]
    BY <1>3
  <2>5. F[s] \in Int /\ F[R] \in Int /\ f[x] \in Int
    BY <1>1, <2>2
  <2>6. F[u] = F[t] + F[R]
    BY <2>3, <2>4, <2>5
  <2> QED
    BY <2>1, <2>6 DEF t, u
<1>4. IsFiniteSet(Q)
  BY FS_Subset
<1>5. Q \in P
  <2> HIDE DEF P
  <2> QED
    BY <1>2, <1>3, <1>4, SetInduction
<1> QED
  BY <1>5 DEF F

(* The values of coins, what some of them are worth, and all of them.    *)
Values(U) == [p \in DOMAIN U |-> U[p].v]
Part(U, R) == Sums(Values(U), DOMAIN U)[R]
Coins(U) == SumOn(Values(U))
Countable(U) == IsFiniteSet(DOMAIN U) /\ \A p \in DOMAIN U : U[p].v \in Nat

(* The worth of a part of the coins: additive, and known coin by coin.   *)
LEMMA PartFacts ==
  ASSUME NEW U, Countable(U)
  PROVE  /\ Coins(U) = Part(U, DOMAIN U) /\ Coins(U) \in Int
         /\ Part(U, {}) = 0
         /\ \A R \in SUBSET DOMAIN U : Part(U, R) \in Int
         /\ \A R \in SUBSET DOMAIN U : \A p \in R : Part(U, R) = U[p].v + Part(U, R \ {p})
         /\ \A Q, R \in SUBSET DOMAIN U : Q \cap R = {} => Part(U, Q \cup R) = Part(U, Q) + Part(U, R)
<1> DEFINE S == DOMAIN U
           f == Values(U)
<1>1. IsFiniteSet(S) /\ DOMAIN f = S /\ \A p \in S : f[p] = U[p].v /\ f[p] \in Int
  BY DEF Values, Countable
<1>2. SumOn(f) = Sums(f, S)[S]
  BY <1>1, SumIsEntry
<1> HIDE DEF f
<1>3. /\ Sums(f, S)[{}] = 0
      /\ \A s \in SUBSET S : Sums(f, S)[s] \in Int
      /\ \A s \in SUBSET S : \A x \in s : Sums(f, S)[s] = f[x] + Sums(f, S)[s \ {x}]
  BY <1>1, SumsTake
<1>4. \A Q, R \in SUBSET S : Q \cap R = {} => Sums(f, S)[Q \cup R] = Sums(f, S)[Q] + Sums(f, S)[R]
  BY <1>1, SumsUnion
<1>5. \A R : Part(U, R) = Sums(f, S)[R]
  BY DEF Part, f
<1>6. Coins(U) = Sums(f, S)[S]
  BY <1>2 DEF Coins, f
<1>7. \A R \in SUBSET S : \A p \in R : f[p] = U[p].v
  BY <1>1
<1> HIDE DEF S
<1> QED
  BY <1>3, <1>4, <1>5, <1>6, <1>7, ZenonT(60) DEF S

(* The same coins are worth the same.                                    *)
LEMMA PartAgrees ==
  ASSUME NEW U, Countable(U), NEW V, Countable(V),
         NEW R, R \subseteq DOMAIN U, R \subseteq DOMAIN V, \A p \in R : U[p].v = V[p].v
  PROVE  Part(U, R) = Part(V, R)
<1> DEFINE f == Values(U)
           g == Values(V)
<1>1. /\ IsFiniteSet(DOMAIN U) /\ \A p \in DOMAIN U : f[p] = U[p].v /\ f[p] \in Int
      /\ IsFiniteSet(DOMAIN V) /\ \A p \in DOMAIN V : g[p] = V[p].v /\ g[p] \in Int
  BY DEF Values, Countable
<1>2. \A p \in R : f[p] = g[p]
  BY <1>1
<1> HIDE DEF f, g
<1>3. Sums(f, DOMAIN U)[R] = Sums(g, DOMAIN V)[R]
  BY <1>1, <1>2, SumsAgree
<1> QED
  BY <1>3 DEF Part, f, g

(* What the inputs of a transaction are worth.                           *)
AddCoin(c, n, p) == n + c[1][p].v
SpentInv(c, k, n) == n = c[2] + Part(c[1], {c[3][i] : i \in 1..k})
Spending == INSTANCE FoldFacts WITH Op <- AddCoin, Inv <- SpentInv

CoinsIn(U, base, ins) == Folded(LAMBDA n, p : n + U[p].v, base, ins)

(* That sum, as an instance.                                             *)
LEMMA SpendingIsFold ==
  ASSUME NEW c, NEW base, NEW ins
  PROVE  CoinsIn(c[1], base, ins) = Spending!Fold(c, base, ins)
BY Zenon DEF CoinsIn, AddCoin, Folded, Spending!Fold, Spending!Table

(* The inputs, each spent once, are worth what those coins are worth.    *)
LEMMA SpentValue ==
  ASSUME NEW U, Countable(U), NEW ins, IsList(ins), IsInjective(ins), ToSet(ins) \subseteq DOMAIN U,
         NEW base \in Int
  PROVE  CoinsIn(U, base, ins) = base + Part(U, ToSet(ins))
<1> DEFINE c == <<U, base, ins>>
           n == Len(ins)
           First(k) == {ins[i] : i \in 1..k}
<1>1. n \in Nat /\ DOMAIN ins = 1..n /\ \A i \in 1..n : ins[i] \in DOMAIN U
  BY DEF IsList, ToSet
<1>2. First(n) = ToSet(ins)
  BY <1>1 DEF ToSet
<1>3. c[1] = U /\ c[2] = base /\ c[3] = ins
  OBVIOUS
<1>4. \A k, s : SpentInv(c, k, s) <=> s = base + Part(U, First(k))
  BY <1>3 DEF SpentInv
<1> HIDE DEF c
<1>5. SpentInv(c, 0, base)
  <2>1. First(0) = {}
    OBVIOUS
  <2>2. Part(U, First(0)) = 0
    BY <2>1, PartFacts
  <2> QED
    BY <1>4, <2>2
<1>6. ASSUME NEW k \in 1..n, NEW s, SpentInv(c, k - 1, s) PROVE SpentInv(c, k, AddCoin(c, s, ins[k]))
  <2>1. First(k) \in SUBSET DOMAIN U /\ First(k - 1) \in SUBSET DOMAIN U /\ ins[k] \in First(k)
    BY <1>1
  <2>2. First(k) \ {ins[k]} = First(k - 1)
    <3>1. \A i \in 1..k : i = k \/ i \in 1..(k - 1)
      BY <1>1
    <3>2. \A i \in 1..(k - 1) : i \in 1..k /\ ins[i] # ins[k]
      BY <1>1 DEF IsInjective
    <3> QED
      BY <3>1, <3>2
  <2> HIDE DEF First
  <2>7. \A R \in SUBSET DOMAIN U : Part(U, R) \in Int /\ \A p \in R : Part(U, R) = U[p].v + Part(U, R \ {p})
    BY PartFacts
  <2>3. Part(U, First(k)) = U[ins[k]].v + Part(U, First(k - 1)) /\ Part(U, First(k - 1)) \in Int
    BY <2>1, <2>2, <2>7
  <2>4. U[ins[k]].v \in Int
    BY <1>1 DEF Countable
  <2>5. s = base + Part(U, First(k - 1)) /\ AddCoin(c, s, ins[k]) = s + U[ins[k]].v
    BY <1>3, <1>4, <1>6 DEF AddCoin
  <2>6. AddCoin(c, s, ins[k]) = base + Part(U, First(k))
    BY <2>3, <2>4, <2>5
  <2> QED
    BY <1>4, <2>6
<1> HIDE DEF First
<1>7. SpentInv(c, n, Spending!Fold(c, base, ins))
  BY <1>1, <1>5, <1>6, Spending!FoldInvariant
<1>8. CoinsIn(U, base, ins) = Spending!Fold(c, base, ins)
  BY <1>3, SpendingIsFold
<1> QED
  BY <1>2, <1>4, <1>7, <1>8

(* What the outputs of a transaction are worth.                          *)
AddValue(c, n, o) == n + o.v
CreatedInv(c, k, n) == n = Part(c[1], {<<c[2], i>> : i \in 1..k})
Creating == INSTANCE FoldFacts WITH Op <- AddValue, Inv <- CreatedInv

(* ValueOf, as an instance.                                              *)
LEMMA ValueIsFold ==
  ASSUME NEW c, NEW outs
  PROVE  ValueOf(outs) = Creating!Fold(c, 0, outs)
BY Zenon DEF ValueOf, AddValue, Folded, Creating!Fold, Creating!Table

(* The coins a transaction created are worth what its outputs say.       *)
LEMMA CreatedValue ==
  ASSUME NEW V, Countable(V), NEW tx, IsList(tx.outs), Created(tx) \subseteq DOMAIN V,
         \A i \in DOMAIN tx.outs : V[<<tx.id, i>>].v = tx.outs[i].v
  PROVE  ValueOf(tx.outs) = Part(V, Created(tx))
<1> DEFINE outs == tx.outs
           c == <<V, tx.id>>
           n == Len(outs)
           First(k) == {<<tx.id, i>> : i \in 1..k}
<1>1. n \in Nat /\ DOMAIN outs = 1..n
  BY DEF IsList
<1>2. First(n) = Created(tx)
  BY <1>1 DEF Created
<1>3. c[1] = V /\ c[2] = tx.id
  OBVIOUS
<1>4. \A k, s : CreatedInv(c, k, s) <=> s = Part(V, First(k))
  BY <1>3 DEF CreatedInv
<1> HIDE DEF c
<1>5. CreatedInv(c, 0, 0)
  <2>1. First(0) = {}
    OBVIOUS
  <2>2. Part(V, First(0)) = 0
    BY <2>1, PartFacts
  <2> QED
    BY <1>4, <2>2
<1>6. ASSUME NEW k \in 1..n, NEW s, CreatedInv(c, k - 1, s) PROVE CreatedInv(c, k, AddValue(c, s, outs[k]))
  <2> DEFINE p == <<tx.id, k>>
  <2>1. First(k) \in SUBSET First(n) /\ First(k - 1) \in SUBSET First(n) /\ p \in First(k)
    BY <1>1
  <2>2. First(k) \ {p} = First(k - 1)
    <3>1. \A i \in 1..k : i = k \/ i \in 1..(k - 1)
      BY <1>1
    <3>2. \A i \in 1..(k - 1) : i \in 1..k /\ <<tx.id, i>> # p
      BY <1>1
    <3> QED
      BY <3>1, <3>2
  <2>3. p \in DOMAIN V /\ V[p].v = outs[k].v
    BY <1>1, <1>2, <2>1
  <2> HIDE DEF First, p
  <2>4. Part(V, First(k)) = V[p].v + Part(V, First(k - 1)) /\ Part(V, First(k - 1)) \in Int
    <3>1. First(k) \in SUBSET DOMAIN V /\ First(k - 1) \in SUBSET DOMAIN V
      BY <1>2, <2>1
    <3> QED
      BY <2>1, <2>2, <3>1, PartFacts
  <2>5. V[p].v \in Int
    BY <2>3 DEF Countable
  <2>6. AddValue(c, s, outs[k]) = Part(V, First(k))
    BY <1>4, <1>6, <2>3, <2>4, <2>5 DEF AddValue
  <2> QED
    BY <1>4, <2>6
<1> HIDE DEF First, outs
<1>7. CreatedInv(c, n, Creating!Fold(c, 0, outs))
  BY <1>1, <1>5, <1>6, Creating!FoldInvariant
<1> QED
  BY <1>2, <1>4, <1>7, ValueIsFold DEF outs

-----------------------------------------------------------------------------
(* What a transaction does to the coins.                                 *)

(* What the stateless checks say of a transaction that is no share.      *)
LEMMA StatelessFacts ==
  ASSUME NEW tx, StatelessOK(tx), ~IsShare(tx)
  PROVE  /\ IsList(tx.outs) /\ \A i \in DOMAIN tx.outs : tx.outs[i].v \in Nat
         /\ ~IsCoinbase(tx) => IsList(tx.ins) /\ IsInjective(tx.ins)
<1>1. CASE IsCoinbase(tx) /\ tx.outs = <<>>
  <2>1. Len(<<>>) = 0 /\ DOMAIN <<>> = {} /\ 1..0 = {}
    OBVIOUS
  <2> QED
    BY <1>1, <2>1 DEF IsList
<1>2. CASE /\ IsList(tx.ins) /\ IsList(tx.outs) /\ IsInjective(tx.ins)
           /\ \A o \in ToSet(tx.outs) : o.v \in 1..Consensus.max_money
  <2>1. \A i \in DOMAIN tx.outs : tx.outs[i].v \in 1..Consensus.max_money
    BY <1>2 DEF ToSet
  <2>2. Consensus.max_money \in Nat
    BY ConsensusAssumption DEF ConsensusSettings
  <2> QED
    BY <1>2, <2>1, <2>2
<1> QED
  BY <1>1, <1>2, Zenon DEF StatelessOK

(* It creates finitely many coins.                                       *)
LEMMA CreatedFinite ==
  ASSUME NEW tx, IsList(tx.outs)
  PROVE  IsFiniteSet(Created(tx))
<1> DEFINE n == Len(tx.outs)
           First(k) == {<<tx.id, i>> : i \in 1..k}
           P == {k \in 0..n : IsFiniteSet(First(k))}
<1>1. n \in Nat /\ DOMAIN tx.outs = 1..n
  BY DEF IsList
<1>2. First(n) = Created(tx)
  BY <1>1 DEF Created
<1>3. First(0) = {}
  OBVIOUS
<1>4. ASSUME NEW k \in 0..n PROVE First(k + 1) = First(k) \cup {<<tx.id, k + 1>>}
  <2>1. \A i \in 1..(k + 1) : i = k + 1 \/ i \in 1..k
    BY <1>1
  <2>2. k + 1 \in 1..(k + 1) /\ \A i \in 1..k : i \in 1..(k + 1)
    BY <1>1
  <2> QED
    BY <2>1, <2>2
<1> HIDE DEF First
<1>5. 0 \in P
  BY <1>1, <1>3, FS_EmptySet
<1>6. ASSUME NEW k \in 0..n, k < n, k \in P PROVE k + 1 \in P
  <2>1. k + 1 \in 0..n
    BY <1>1, <1>6
  <2>2. IsFiniteSet(First(k) \cup {<<tx.id, k + 1>>})
    BY <1>6, FS_AddElement
  <2> QED
    BY <1>4, <2>1, <2>2
<1>7. 0..n \subseteq P
  <2> HIDE DEF P
  <2> QED
    BY <1>1, <1>5, <1>6, Spending!Induction
<1>8. n \in P
  BY <1>1, <1>7
<1> QED
  BY <1>2, <1>8

(* What it spends, and the coin that its i-th output becomes.            *)
CoinOf(tx, i, h) == [v |-> tx.outs[i].v, s |-> tx.outs[i].s, h |-> h, cb |-> IsCoinbase(tx)]
Spends(tx) == IF IsCoinbase(tx) THEN {} ELSE ToSet(tx.ins)

(* The fields of such a coin.                                            *)
LEMMA CoinFields ==
  ASSUME NEW tx, NEW i, NEW h
  PROVE  /\ CoinOf(tx, i, h).v = tx.outs[i].v /\ CoinOf(tx, i, h).s = tx.outs[i].s
         /\ CoinOf(tx, i, h).cb = IsCoinbase(tx)
BY DEF CoinOf

(* The coins V after a transaction: those it did not spend as they were, *)
(* and those it creates.                                                 *)
Exchanged(tx, U, h, V) ==
  /\ Spends(tx) \subseteq DOMAIN U
  /\ Created(tx) \cap (DOMAIN U \ Spends(tx)) = {}
  /\ DOMAIN V = (DOMAIN U \ Spends(tx)) \cup Created(tx)
  /\ \A p \in DOMAIN U \ Spends(tx) : V[p] = U[p]
  /\ \A i \in DOMAIN tx.outs : V[<<tx.id, i>>] = CoinOf(tx, i, h)

(* connect_tx_utxos exchanges the one for the other.                     *)
LEMMA ConnectTxFacts ==
  ASSUME NEW tx, ~IsShare(tx), NEW U, NEW h, NEW V \in ConnectTx(tx, U, h)
  PROVE  Exchanged(tx, U, h, V)
<1> DEFINE kept == DOMAIN U \ Spends(tx)
<1>1. /\ Spends(tx) \subseteq DOMAIN U /\ Created(tx) \cap kept = {}
      /\ V = [p \in kept \cup Created(tx) |->
               IF p \in kept THEN U[p]
               ELSE CoinOf(tx, p[2], h)]
  BY Zenon DEF ConnectTx, Spends, CoinOf
<1> HIDE DEF kept
<1>2. DOMAIN V = kept \cup Created(tx) /\ \A p \in kept : V[p] = U[p]
  BY <1>1
<1>3. ASSUME NEW i \in DOMAIN tx.outs PROVE V[<<tx.id, i>>] = CoinOf(tx, i, h)
  <2> DEFINE p == <<tx.id, i>>
  <2>1. p \in Created(tx) /\ p[2] = i
    BY DEF Created
  <2>2. p \notin kept
    BY <1>1, <2>1
  <2> HIDE DEF p
  <2>3. V[p] = CoinOf(tx, i, h)
    BY <1>1, <2>1, <2>2
  <2> QED
    BY <2>3 DEF p
<1> QED
  BY <1>1, <1>2, <1>3 DEF kept, Exchanged

(* Value in and out: what it creates takes the place of what it spends.  *)
LEMMA ExchangedValue ==
  ASSUME NEW tx, ~IsShare(tx), StatelessOK(tx), NEW U, Countable(U), NEW h, NEW V, Exchanged(tx, U, h, V)
  PROVE  /\ Countable(V) /\ Spends(tx) \subseteq DOMAIN U
         /\ Coins(U) \in Int /\ Coins(V) \in Int
         /\ Part(U, Spends(tx)) \in Int /\ ValueOf(tx.outs) \in Int
         /\ Coins(V) = Coins(U) - Part(U, Spends(tx)) + ValueOf(tx.outs)
<1> DEFINE spent == Spends(tx)
           kept == DOMAIN U \ spent
           made == Created(tx)
<1>1. /\ spent \subseteq DOMAIN U
      /\ made \cap kept = {}
      /\ DOMAIN V = kept \cup made
      /\ \A p \in kept : V[p] = U[p]
      /\ \A i \in DOMAIN tx.outs : V[<<tx.id, i>>] = CoinOf(tx, i, h)
  BY DEF Exchanged
<1>2. IsList(tx.outs) /\ \A i \in DOMAIN tx.outs : tx.outs[i].v \in Nat
  BY StatelessFacts
<1>3. ASSUME NEW i \in DOMAIN tx.outs PROVE V[<<tx.id, i>>].v = tx.outs[i].v
  BY <1>1, CoinFields
<1>4. IsFiniteSet(made)
  BY <1>2, CreatedFinite
<1>5. Countable(V)
  <2>1. IsFiniteSet(kept)
    BY FS_Subset DEF Countable
  <2>2. IsFiniteSet(kept \cup made)
    BY <1>4, <2>1, FS_Union
  <2>3. ASSUME NEW p \in made PROVE V[p].v \in Nat
    <3>1. PICK i \in DOMAIN tx.outs : p = <<tx.id, i>>
      BY DEF Created
    <3> QED
      BY <1>2, <1>3, <3>1
  <2>4. ASSUME NEW p \in kept PROVE V[p].v \in Nat
    BY <1>1 DEF Countable
  <2> HIDE DEF kept, made
  <2> QED
    BY <1>1, <2>2, <2>3, <2>4 DEF Countable
<1>6. ValueOf(tx.outs) = Part(V, made)
  BY <1>1, <1>2, <1>3, <1>5, CreatedValue
<1>7. /\ kept \in SUBSET DOMAIN U /\ spent \in SUBSET DOMAIN U /\ kept \cap spent = {}
      /\ kept \cup spent = DOMAIN U
      /\ kept \in SUBSET DOMAIN V /\ made \in SUBSET DOMAIN V /\ kept \cap made = {}
  BY <1>1
<1>8. Part(U, kept) = Part(V, kept)
  <2> HIDE DEF kept
  <2>1. \A p \in kept : U[p].v = V[p].v
    BY <1>1
  <2> QED
    BY <1>5, <1>7, <2>1, PartAgrees
<1> HIDE DEF spent, kept, made
<1>9. /\ Coins(U) = Part(U, kept) + Part(U, spent)
      /\ Coins(U) \in Int /\ Part(U, kept) \in Int /\ Part(U, spent) \in Int
  <2>1. Coins(U) = Part(U, kept \cup spent)
    BY <1>7, PartFacts
  <2> QED
    BY <1>7, <2>1, PartFacts
<1>10. /\ Coins(V) = Part(V, kept) + Part(V, made)
       /\ Coins(V) \in Int /\ Part(V, kept) \in Int /\ Part(V, made) \in Int
  <2>1. Coins(V) = Part(V, kept \cup made)
    BY <1>1, <1>5, PartFacts
  <2> QED
    BY <1>5, <1>7, <2>1, PartFacts
<1>11. Coins(V) = Coins(U) - Part(U, spent) + ValueOf(tx.outs)
  BY <1>6, <1>8, <1>9, <1>10
<1> QED
  BY <1>1, <1>5, <1>6, <1>9, <1>10, <1>11 DEF spent

(* A valid claim creates no more than the vault that it spends.          *)
LEMMA ClaimValue ==
  ASSUME NEW tx, IsList(tx.outs), \A i \in DOMAIN tx.outs : tx.outs[i].v \in Nat,
         NEW value \in Nat, NEW vault, Claimed(tx, value, vault)
  PROVE  ValueOf(tx.outs) <= value
<1> DEFINE outs == tx.outs
<1>1. ValueOf(outs) = Creating!Fold(0, 0, outs)
  BY ValueIsFold
<1>2. outs[1] = Out(vault.per, PayTo(tx.data.to)) /\ value >= vault.per
  BY DEF Claimed
<1>3. outs[1].v = vault.per
  BY <1>2 DEF Out
<1>4. CASE Len(outs) = 1
  <2>1. 1 \in DOMAIN outs
    BY <1>4 DEF IsList
  <2>2. outs[1].v \in Nat
    BY <2>1
  <2> HIDE DEF outs
  <2>3. ValueOf(outs) = 0 + outs[1].v
    BY <1>1, <1>4, Creating!FoldShort DEF AddValue
  <2> QED
    BY <1>2, <1>3, <2>2, <2>3 DEF outs
<1>5. CASE Len(outs) = 2
  <2>1. 1 \in DOMAIN outs /\ 2 \in DOMAIN outs
    BY <1>5 DEF IsList
  <2>2. outs[1].v \in Nat /\ outs[2].v \in Nat
    BY <2>1
  <2>3. outs[2] = Out(value - vault.per, [vault EXCEPT !.left = @ - 1])
    BY <1>5 DEF Claimed
  <2>4. outs[2].v = value - vault.per
    BY <2>3 DEF Out
  <2> HIDE DEF outs
  <2>5. ValueOf(outs) = (0 + outs[1].v) + outs[2].v
    BY <1>1, <1>5, Creating!FoldShort DEF AddValue
  <2> QED
    BY <1>3, <2>2, <2>4, <2>5 DEF outs
<1> QED
  BY <1>4, <1>5 DEF Claimed

(* A transaction that is not a coinbase leaves its fee over.             *)
LEMMA TxPays ==
  ASSUME NEW tx, ~IsCoinbase(tx), NEW U, Countable(U), NEW h, NEW fee \in ContextualFee(tx, U, h),
         NEW V \in ConnectTx(tx, U, h)
  PROVE  /\ Countable(V) /\ fee \in Nat /\ Coins(U) \in Int /\ Coins(V) \in Int
         /\ Coins(V) + fee <= Coins(U)
<1>1. StatelessOK(tx)
  BY Zenon DEF ContextualFee
<1>2. CASE IsShare(tx)
  <2>1. V = U /\ fee = 0
    BY <1>1, <1>2, Zenon DEF ConnectTx, ContextualFee
  <2>2. Coins(U) \in Int
    BY PartFacts
  <2> QED
    BY <2>1, <2>2
<1>3. CASE ~IsShare(tx)
  <2> DEFINE spent == ToSet(tx.ins)
             value == ValueOf(tx.outs)
  <2>1. Spends(tx) = spent
    BY DEF Spends
  <2>2. /\ Countable(V) /\ spent \subseteq DOMAIN U
        /\ Coins(U) \in Int /\ Coins(V) \in Int
        /\ Part(U, spent) \in Int /\ value \in Int
        /\ Coins(V) = Coins(U) - Part(U, spent) + value
    <3>1. /\ Countable(V) /\ Spends(tx) \subseteq DOMAIN U
          /\ Coins(U) \in Int /\ Coins(V) \in Int
          /\ Part(U, Spends(tx)) \in Int /\ ValueOf(tx.outs) \in Int
          /\ Coins(V) = Coins(U) - Part(U, Spends(tx)) + ValueOf(tx.outs)
      BY <1>1, <1>3, ConnectTxFacts, ExchangedValue
    <3> QED
      BY <2>1, <3>1
  <2>3. /\ IsList(tx.outs) /\ \A i \in DOMAIN tx.outs : tx.outs[i].v \in Nat
        /\ IsList(tx.ins) /\ IsInjective(tx.ins)
    BY <1>1, <1>3, StatelessFacts
  <2>4. fee \in Nat /\ fee + value <= Part(U, spent)
    <3>1. CASE IsClaim(tx)
      <4> DEFINE p == tx.ins[1]
      <4>1. fee \in BlastClaimFee(tx, U, h)
        BY <1>1, <1>3, <3>1, Zenon DEF ContextualFee
      <4>2. fee = 0 /\ p \in DOMAIN U /\ Claimed(tx, U[p].v, U[p].s)
        BY <4>1, Zenon DEF BlastClaimFee
      <4>3. spent = {p}
        <5>1. DOMAIN tx.ins = 1..1
          BY <2>3, <3>1 DEF IsClaim, IsList
        <5> QED
          BY <5>1 DEF ToSet
      <4>4. U[p].v \in Nat
        BY <4>2 DEF Countable
      <4> HIDE DEF p
      <4>5. value <= U[p].v
        BY <2>3, <4>2, <4>4, ClaimValue
      <4>6. Part(U, {p}) = U[p].v
        <5>1. {p} \in SUBSET DOMAIN U /\ p \in {p} /\ {p} \ {p} = {}
          BY <4>2
        <5>2. Part(U, {p}) = U[p].v + Part(U, {}) /\ Part(U, {}) = 0
          BY <5>1, PartFacts
        <5> QED
          BY <4>4, <5>2
      <4> QED
        BY <2>2, <4>2, <4>3, <4>4, <4>5, <4>6
    <3>2. CASE ~IsClaim(tx)
      <4>1. fee \in {f \in {CoinsIn(U, -value, tx.ins)} : f >= 0}
        BY <1>1, <1>3, <3>2, Zenon DEF ContextualFee, CoinsIn
      <4>2. -value \in Int
        BY <2>2
      <4> HIDE DEF spent, value
      <4>3. CoinsIn(U, -value, tx.ins) = -value + Part(U, ToSet(tx.ins))
        BY <2>2, <2>3, <4>2, SpentValue DEF spent
      <4> QED
        BY <2>2, <4>1, <4>3 DEF spent
    <3> QED
      BY <3>1, <3>2
  <2> HIDE DEF spent, value
  <2> QED
    BY <2>2, <2>4
<1> QED
  BY <1>2, <1>3

(* A vault that a transaction made holds what its claims are worth.      *)
VaultWorth(coin) == IsVault(coin.s) /\ coin.s.asset = "QUB" /\ ~coin.cb => coin.v = coin.s.per * coin.s.left
VaultsSound(U) == \A p \in DOMAIN U : VaultWorth(U[p])

(* They do so after a transaction that may make vaults, or a coinbase.   *)
LEMMA VaultsKept ==
  ASSUME NEW tx, NEW U, VaultsSound(U), NEW h, NEW V, Exchanged(tx, U, h, V),
         IsCoinbase(tx) \/ BlastCreatesOK(tx, h)
  PROVE  VaultsSound(V)
<1>1. ASSUME NEW i \in DOMAIN tx.outs PROVE VaultWorth(V[<<tx.id, i>>])
  <2>1. V[<<tx.id, i>>] = CoinOf(tx, i, h)
    BY DEF Exchanged
  <2>2. IsVault(tx.outs[i].s) /\ tx.outs[i].s.asset = "QUB" /\ ~IsCoinbase(tx) =>
          tx.outs[i].v = tx.outs[i].s.per * tx.outs[i].s.left
    BY DEF BlastCreatesOK
  <2> QED
    BY <2>1, <2>2, CoinFields DEF VaultWorth
<1>2. ASSUME NEW p \in DOMAIN V PROVE VaultWorth(V[p])
  <2>1. CASE p \in Created(tx)
    <3>1. PICK i \in DOMAIN tx.outs : p = <<tx.id, i>>
      BY <2>1 DEF Created
    <3> QED
      BY <1>1, <3>1
  <2>2. CASE p \notin Created(tx)
    <3>1. p \in DOMAIN U /\ V[p] = U[p]
      BY <2>2 DEF Exchanged
    <3> QED
      BY <3>1 DEF VaultsSound
  <2> QED
    BY <2>1, <2>2
<1> QED
  BY <1>2 DEF VaultsSound

-----------------------------------------------------------------------------
(* What the melts of a chain have burnt.                                 *)

(* The infusion state after one marker, after a transaction and after    *)
(* the confirmed transactions, as qub_jin_infusion_state_from_blocks     *)
(* replays them.                                                         *)
ReplayMarker(c, r, o) == ApplyInfusionState(Require(r, o.v = Jin.marker), o.s)
TxInfusion == INSTANCE FoldFacts WITH Op <- ReplayMarker, Inv <- Never
InfuseTx(c, r, p) == TxInfusion!Fold(0, r, InfusionMarkers(p.tx))
Infusion == INSTANCE FoldFacts WITH Op <- InfuseTx, Inv <- Never
(* An infusion state, and those a replay starts from.                    *)
IsInfusionState(r) ==
  /\ {"ok", "i"} \subseteq DOMAIN r /\ "melted" \in DOMAIN r.i
  /\ r.ok => r.i.melted \in Int
FirstInfusions ==
  {[ok |-> TRUE, i |-> NoInfusion],
   [ok |-> TRUE, i |-> [Infused(NoInfusion, Jin.bootstrap) EXCEPT !.active = TRUE]]}

(* One marker that is in order burns its atoms, or none.                 *)
LEMMA MarkerMelts ==
  ASSUME NEW r, IsInfusionState(r), NEW o, NEW burn \in Int,
         burn = IF o.s.k = "jin_infuse" THEN 0 ELSE o.s.atoms,
         NEW q, q = ApplyInfusionState(Require(r, o.v = Jin.marker), o.s)
  PROVE  IsInfusionState(q) /\ (q.ok => r.ok /\ q.i.melted = r.i.melted + burn)
<1> DEFINE e == Require(r, o.v = Jin.marker)
           k == o.s
<1>1. IsInfusionState(e) /\ (e.ok => r.ok /\ e.i = r.i)
  BY DEF Require, IsInfusionState
<1>2. q = ApplyInfusionState(e, k)
  OBVIOUS
<1> HIDE DEF e
<1>3. CASE q = [e EXCEPT !.ok = FALSE]
  BY <1>1, <1>3 DEF IsInfusionState
<1>4. CASE k.k = "jin_infuse" /\ e.ok /\ q = [e EXCEPT !.i = Infused(@, k.amount)]
  <2>1. DOMAIN Infused(e.i, k.amount) = DOMAIN e.i /\ Infused(e.i, k.amount).melted = e.i.melted
    BY <1>1 DEF Infused, IsInfusionState
  <2>2. DOMAIN q = DOMAIN e /\ q.ok = e.ok /\ q.i = Infused(e.i, k.amount)
    BY <1>1, <1>4 DEF IsInfusionState
  <2> QED
    BY <1>1, <1>4, <2>1, <2>2 DEF IsInfusionState
<1>5. CASE k.k # "jin_infuse" /\ e.ok /\ q = [e EXCEPT !.i = AfterMelt(@, k.atoms)]
  <2>1. DOMAIN AfterMelt(e.i, k.atoms) = DOMAIN e.i /\ AfterMelt(e.i, k.atoms).melted = e.i.melted + k.atoms
    BY <1>1 DEF AfterMelt, IsInfusionState
  <2>2. DOMAIN q = DOMAIN e /\ q.ok = e.ok /\ q.i = AfterMelt(e.i, k.atoms)
    BY <1>1, <1>5 DEF IsInfusionState
  <2> QED
    BY <1>1, <1>5, <2>1, <2>2 DEF IsInfusionState
<1>6. \/ q = [e EXCEPT !.ok = FALSE]
      \/ k.k = "jin_infuse" /\ e.ok /\ q = [e EXCEPT !.i = Infused(@, k.amount)]
      \/ k.k # "jin_infuse" /\ e.ok /\ q = [e EXCEPT !.i = AfterMelt(@, k.atoms)]
  BY <1>2, Zenon DEF ApplyInfusionState, InfuseState, MeltState
<1> QED
  BY <1>3, <1>4, <1>5, <1>6

(* A transaction whose burn the fee rules know burns just that.          *)
LEMMA TxMelts ==
  ASSUME NEW r, IsInfusionState(r), NEW tx, NEW h, NEW burn \in Int, burn \in MeltBurn(tx, h),
         NEW p, p.tx = tx, NEW q, q = InfuseTx(0, r, p)
  PROVE  IsInfusionState(q) /\ (q.ok => r.ok /\ q.i.melted = r.i.melted + burn)
<1> DEFINE ks == InfusionMarkers(tx)
<1>1. q = TxInfusion!Fold(0, r, ks)
  BY DEF InfuseTx
<1>2. CASE ks = <<>>
  <2>1. burn = 0
    BY <1>2, Zenon DEF MeltBurn
  <2>2. q = r
    BY <1>1, <1>2, TxInfusion!FoldShort
  <2> QED
    BY <2>1, <2>2 DEF IsInfusionState
<1>3. CASE ks # <<>>
  <2>1. Len(ks) = 1 /\ burn = IF ks[1].s.k = "jin_infuse" THEN 0 ELSE ks[1].s.atoms
    BY <1>3 DEF MeltBurn
  <2> HIDE DEF ks
  <2>2. q = ApplyInfusionState(Require(r, ks[1].v = Jin.marker), ks[1].s)
    BY <1>1, <2>1, TxInfusion!FoldShort DEF ReplayMarker
  <2> QED
    BY <2>1, <2>2, MarkerMelts
<1> QED
  BY <1>2, <1>3

(* What the miners of a chain may know of the burns is what is replayed. *)
LEMMA InfusionIsFold ==
  ASSUME NEW B, NEW i \in InfusionFrom(B)
  PROVE  \E start \in FirstInfusions :
           LET r == Infusion!Fold(0, start, Placed(B, Jin.infusion_active)) IN r.ok /\ i = r.i
<1> DEFINE first == [Infused(NoInfusion, Jin.bootstrap) EXCEPT !.active = TRUE]
           start == [ok |-> TRUE, i |-> IF InfusionActive(Len(B)) THEN first ELSE NoInfusion]
           r == Infusion!Fold(0, start, Placed(B, Jin.infusion_active))
<1>1. start \in FirstInfusions
  BY DEF FirstInfusions
<1>2. i \in {f.i : f \in {final \in {r} : final.ok}}
  BY Zenon DEF InfusionFrom, Folded, InfuseTx, ReplayMarker,
    Infusion!Fold, Infusion!Table, TxInfusion!Fold, TxInfusion!Table
<1>3. r.ok /\ i = r.i
  BY <1>2
<1> QED
  BY <1>1, <1>3

-----------------------------------------------------------------------------
(* What a block does to the coins.                                       *)

(* The coins and fees s after some of a block's transactions, and the    *)
(* infusion state q after them, against those before the block.          *)
PaidFor(s, U0, q0, q) ==
  /\ Countable(s.U) /\ VaultsSound(s.U) /\ s.fees \in Nat /\ IsInfusionState(q)
  /\ Coins(s.U) + s.fees <= Coins(U0)
  /\ q.ok => q0.ok /\ Coins(s.U) + s.fees + q.i.melted <= Coins(U0) + q0.i.melted

(* One more transaction of the block.                                    *)
LEMMA PaidStep ==
  ASSUME NEW tx, ~IsCoinbase(tx), NEW h, NEW U0, Countable(U0), NEW q0, IsInfusionState(q0),
         NEW s, NEW q, PaidFor(s, U0, q0, q),
         NEW fee \in MinerFee(tx, s.U, h), NEW t, t.U \in ConnectTx(tx, s.U, h), t.fees = s.fees + fee,
         NEW p, p.tx = tx
  PROVE  PaidFor(t, U0, q0, InfuseTx(0, q, p))
<1> DEFINE U == s.U
           V == t.U
           r == InfuseTx(0, q, p)
<1>1. PICK f \in ContextualFee(tx, U, h) : \E burn \in MeltBurn(tx, h) \cap 0..f : fee = f - burn
  BY DEF MinerFee
<1>2. PICK burn \in MeltBurn(tx, h) \cap 0..f : fee = f - burn
  BY <1>1
<1>3. Countable(U) /\ VaultsSound(U) /\ s.fees \in Nat /\ IsInfusionState(q)
  BY DEF PaidFor
<1>4. Countable(V) /\ f \in Nat /\ Coins(U) \in Int /\ Coins(V) \in Int /\ Coins(V) + f <= Coins(U)
  <2> HIDE DEF U, V
  <2>1. V \in ConnectTx(tx, U, h)
    BY DEF U, V
  <2> QED
    BY <1>1, <1>3, <2>1, TxPays
<1>5. burn \in Nat /\ burn <= f /\ fee = f - burn /\ burn \in MeltBurn(tx, h)
  BY <1>2, <1>4
<1>6. VaultsSound(V)
  <2>1. CASE IsShare(tx)
    BY <1>3, <2>1 DEF ConnectTx
  <2>2. CASE ~IsShare(tx)
    <3>1. BlastCreatesOK(tx, h)
      BY <1>1, <2>2, Zenon DEF ContextualFee
    <3>2. Exchanged(tx, U, h, V)
      BY <2>2, ConnectTxFacts
    <3> HIDE DEF U, V
    <3> QED
      BY <1>3, <3>1, <3>2, VaultsKept
  <2> QED
    BY <2>1, <2>2
<1>7. IsInfusionState(r) /\ (r.ok => q.ok /\ r.i.melted = q.i.melted + burn)
  BY <1>3, <1>5, TxMelts
<1>8. Coins(U0) \in Int
  BY PartFacts
<1>9. q.ok => q.i.melted \in Int /\ q0.i.melted \in Int
  BY <1>3 DEF IsInfusionState, PaidFor
<1>10. /\ Coins(U) + s.fees <= Coins(U0)
       /\ q.ok => q0.ok /\ Coins(U) + s.fees + q.i.melted <= Coins(U0) + q0.i.melted
  BY DEF PaidFor
<1>11. t.fees = s.fees + (f - burn)
  BY <1>5
<1> HIDE DEF U, V, r
<1>12. t.fees \in Nat /\ Coins(V) + t.fees <= Coins(U0)
  BY <1>3, <1>4, <1>5, <1>8, <1>10, <1>11
<1>13. r.ok => q0.ok /\ Coins(V) + t.fees + r.i.melted <= Coins(U0) + q0.i.melted
  <2> SUFFICES ASSUME r.ok PROVE q0.ok /\ Coins(V) + t.fees + r.i.melted <= Coins(U0) + q0.i.melted
    OBVIOUS
  <2>1. /\ q.ok /\ q0.ok /\ r.i.melted = q.i.melted + burn
        /\ q.i.melted \in Int /\ q0.i.melted \in Int
        /\ Coins(U) + s.fees + q.i.melted <= Coins(U0) + q0.i.melted
    BY <1>7, <1>9, <1>10
  <2> QED
    BY <1>3, <1>4, <1>5, <1>8, <1>11, <2>1
<1> QED
  BY <1>4, <1>6, <1>7, <1>12, <1>13 DEF PaidFor, V, r

(* The walk of validate_block over the transactions, with the infusion   *)
(* state in step: c holds the height, the coins and the state before the *)
(* block, and the states after each transaction.                         *)
FeesKeep(c, S, tx) == FeesAfter(S, tx, c[1])
PaidInv(c, k, S) == \A s \in S : PaidFor(s, c[2], c[3], c[4][k])
FeeWalk == INSTANCE FoldFacts WITH Op <- FeesKeep, Inv <- PaidInv

(* BlockFees, as an instance.                                            *)
LEMMA FeeWalkIsFold ==
  ASSUME NEW x, NEW block, NEW U
  PROVE  BlockFees(block, U, x[1]) = FeeWalk!Fold(x, {[U |-> U, fees |-> 0]}, block.txs)
BY Zenon DEF BlockFees, FeesKeep, Folded, FeeWalk!Fold, FeeWalk!Table

(* The infusion states before and after each of some transactions.       *)
LEMMA InfusionSteps ==
  ASSUME NEW n \in Nat, NEW placed, DOMAIN placed = 1..n, NEW q0
  PROVE  \E qs : /\ \A k \in 0..n : qs[k] = IF k = 0 THEN q0 ELSE InfuseTx(0, qs[k - 1], placed[k])
                 /\ Infusion!Fold(0, q0, placed) = qs[n]
<1> DEFINE qs == Infusion!Table(0, n, q0, placed)
<1>1. \A k \in 0..n : Infusion!Table(0, n, q0, placed)[k] =
        IF k = 0 THEN q0 ELSE InfuseTx(0, Infusion!Table(0, n, q0, placed)[k - 1], placed[k])
  <2>1. \A base : \A k \in 0..n : Infusion!Table(0, n, base, placed)[k] =
          IF k = 0 THEN base ELSE InfuseTx(0, Infusion!Table(0, n, base, placed)[k - 1], placed[k])
    BY Infusion!StepsOfAny
  <2> QED
    BY <2>1, Zenon
<1>2. Len(placed) = n
  BY Infusion!LengthByDomain
<1>3. Infusion!Fold(0, q0, placed) = qs[n]
  BY <1>2, Zenon DEF Infusion!Fold
<1> QED
  BY <1>1, <1>3, Zenon

(* Whatever the fees of a block come to, they and the burns are paid     *)
(* from the coins there were.                                            *)
LEMMA BlockPays ==
  ASSUME NEW block, NEW n \in Nat, DOMAIN block.txs = 1..n, \A i \in 1..n : ~IsCoinbase(block.txs[i]),
         NEW h, NEW U0, Countable(U0), VaultsSound(U0), NEW q0, IsInfusionState(q0),
         NEW placed, DOMAIN placed = 1..n, \A i \in 1..n : placed[i].tx = block.txs[i],
         NEW s \in BlockFees(block, U0, h)
  PROVE  PaidFor(s, U0, q0, Infusion!Fold(0, q0, placed))
<1>2. PICK qs : /\ \A k \in 0..n : qs[k] = IF k = 0 THEN q0 ELSE InfuseTx(0, qs[k - 1], placed[k])
                /\ Infusion!Fold(0, q0, placed) = qs[n]
  BY InfusionSteps
<1> DEFINE txs == block.txs
           x == <<h, U0, q0, qs>>
           S0 == {[U |-> U0, fees |-> 0]}
<1>1. BlockFees(block, U0, h) = FeeWalk!Fold(x, S0, txs)
  <2>1. BlockFees(block, U0, x[1]) = FeeWalk!Fold(x, S0, txs)
    BY FeeWalkIsFold, Zenon
  <2> QED
    BY <2>1
<1>3. Infusion!Fold(0, q0, placed) = qs[n]
  BY <1>2
<1>4. x[1] = h /\ x[2] = U0 /\ x[3] = q0 /\ x[4] = qs
  OBVIOUS
<1> HIDE DEF x
<1>5. PaidInv(x, 0, S0)
  <2>1. qs[0] = q0
    BY <1>2
  <2>2. Coins(U0) \in Int
    BY PartFacts
  <2>3. q0.ok => q0.i.melted \in Int
    BY DEF IsInfusionState
  <2>4. ASSUME NEW s0, s0.U = U0, s0.fees = 0 PROVE PaidFor(s0, U0, q0, q0)
    BY <2>2, <2>3, <2>4 DEF PaidFor
  <2> QED
    BY <1>4, <2>1, <2>4 DEF PaidInv
<1>6. ASSUME NEW k \in 1..n, NEW S, PaidInv(x, k - 1, S) PROVE PaidInv(x, k, FeesKeep(x, S, txs[k]))
  <2>1. SUFFICES ASSUME NEW t \in FeesAfter(S, txs[k], h) PROVE PaidFor(t, U0, q0, qs[k])
    BY <1>4 DEF PaidInv, FeesKeep
  <2>2. PICK r \in S : t \in {[U |-> U, fees |-> r.fees + fee] :
            fee \in {f \in MinerFee(txs[k], r.U, h) : PaysItsFees(txs[k], f, h)}, U \in ConnectTx(txs[k], r.U, h)}
    BY <2>1 DEF FeesAfter
  <2>3. PICK fee \in MinerFee(txs[k], r.U, h), V \in ConnectTx(txs[k], r.U, h) :
          t = [U |-> V, fees |-> r.fees + fee]
    BY <2>2
  <2>4. PaidFor(r, U0, q0, qs[k - 1])
    BY <1>4, <1>6 DEF PaidInv
  <2>5. t.U = V /\ t.fees = r.fees + fee
    BY <2>3
  <2>6. k \in 0..n /\ k # 0 /\ placed[k].tx = txs[k] /\ ~IsCoinbase(txs[k])
    OBVIOUS
  <2>7. qs[k] = InfuseTx(0, qs[k - 1], placed[k])
    BY <1>2, <2>6
  <2> HIDE DEF txs
  <2> QED
    BY <2>3, <2>4, <2>5, <2>6, <2>7, PaidStep
<1> HIDE DEF S0
<1>7. PaidInv(x, n, FeeWalk!Fold(x, S0, txs))
  BY <1>5, <1>6, FeeWalk!FoldInvariant
<1> QED
  BY <1>1, <1>3, <1>4, <1>7 DEF PaidInv

(* The coinbase in front of a block's transactions.                      *)
LEMMA ConsSeq ==
  ASSUME NEW x, NEW s, IsSeq(s)
  PROVE  /\ IsSeq(<<x>> \o s) /\ Len(<<x>> \o s) = Len(s) + 1 /\ (<<x>> \o s)[1] = x
         /\ \A i \in 1..Len(s) : (<<x>> \o s)[i + 1] = s[i]
<1>1. s \in Seq(ToSet(s) \cup {x}) /\ <<x>> \in Seq(ToSet(s) \cup {x}) /\ Len(<<x>>) = 1
  BY DEF IsSeq
<1>2. <<x>> \o s \in Seq(ToSet(s) \cup {x})
  BY <1>1
<1>3. IsSeq(<<x>> \o s)
  BY <1>2, SeqOver, Zenon
<1> QED
  BY <1>1, <1>3

(* The coins a coinbase adds are out of the way of the transactions of   *)
(* its block: connecting one after it or before it comes to the same.    *)
LEMMA CoinbaseAside ==
  ASSUME NEW cb, IsCoinbase(cb), NEW tx, ~IsCoinbase(tx), tx.id # cb.id,
         NEW h, NEW U, NEW V, Exchanged(cb, U, h, V),
         NEW U2 \in ConnectTx(tx, U, h), NEW V2 \in ConnectTx(tx, V, h)
  PROVE  Exchanged(cb, U2, h, V2)
<1>1. CASE IsShare(tx)
  BY <1>1 DEF ConnectTx
<1>2. CASE ~IsShare(tx)
  <2> DEFINE spent == Spends(tx)
             made == Created(tx)
             coins == Created(cb)
  <2>1. /\ coins \cap DOMAIN U = {} /\ DOMAIN V = DOMAIN U \cup coins
        /\ \A p \in DOMAIN U : V[p] = U[p]
        /\ \A i \in DOMAIN cb.outs : V[<<cb.id, i>>] = CoinOf(cb, i, h)
    <3>1. Spends(cb) = {}
      BY DEF Spends
    <3> QED
      BY <3>1 DEF Exchanged
  <2>2. Exchanged(tx, U, h, U2) /\ Exchanged(tx, V, h, V2)
    BY <1>2, ConnectTxFacts
  <2>3. /\ spent \subseteq DOMAIN U /\ made \cap (DOMAIN U \ spent) = {}
        /\ DOMAIN U2 = (DOMAIN U \ spent) \cup made
        /\ \A p \in DOMAIN U \ spent : U2[p] = U[p]
        /\ \A i \in DOMAIN tx.outs : U2[<<tx.id, i>>] = CoinOf(tx, i, h)
    BY <2>2 DEF Exchanged
  <2>4. /\ DOMAIN V2 = (DOMAIN V \ spent) \cup made
        /\ \A p \in DOMAIN V \ spent : V2[p] = V[p]
        /\ \A i \in DOMAIN tx.outs : V2[<<tx.id, i>>] = CoinOf(tx, i, h)
    BY <2>2 DEF Exchanged
  <2>5. made \cap coins = {}
    BY DEF Created
  <2>6. ASSUME NEW p \in DOMAIN U2 PROVE V2[p] = U2[p]
    <3>1. CASE p \in made
      <4>1. PICK i \in DOMAIN tx.outs : p = <<tx.id, i>>
        BY <3>1 DEF Created
      <4> QED
        BY <2>3, <2>4, <4>1
    <3>2. CASE p \notin made
      <4> HIDE DEF spent, made, coins
      <4>1. p \in DOMAIN U \ spent /\ p \in DOMAIN V \ spent
        BY <2>1, <2>3, <2>6, <3>2
      <4> QED
        BY <2>1, <2>3, <2>4, <4>1
    <3> QED
      BY <3>1, <3>2
  <2>7. ASSUME NEW i \in DOMAIN cb.outs PROVE V2[<<cb.id, i>>] = CoinOf(cb, i, h)
    <3> DEFINE p == <<cb.id, i>>
    <3>1. p \in coins
      BY DEF Created
    <3> HIDE DEF spent, made, coins, p
    <3>2. p \in DOMAIN V \ spent
      BY <2>1, <2>3, <3>1
    <3>3. V2[p] = V[p]
      BY <2>4, <3>2
    <3> QED
      BY <2>1, <3>3 DEF p
  <2> HIDE DEF spent, made
  <2>8. coins \cap DOMAIN U2 = {} /\ DOMAIN V2 = DOMAIN U2 \cup coins
    <3> HIDE DEF coins
    <3> QED
      BY <2>1, <2>3, <2>4, <2>5
  <2>9. Spends(cb) = {}
    BY DEF Spends
  <2> QED
    BY <2>6, <2>7, <2>8, <2>9 DEF Exchanged
<1> QED
  BY <1>1, <1>2

(* connect_block applies the coinbase and the transactions in turn; c    *)
(* holds the height, the coinbase and the results of the walk before.    *)
UtxosAfter(S, tx, h) == UNION {ConnectTx(tx, U, h) : U \in S}
ConnectKeep(c, S, tx) == UtxosAfter(S, tx, c[1])
BesideInv(c, k, S) == \A V \in S : \A s \in c[3][k] : Exchanged(c[2], s.U, c[1], V)
Connecting == INSTANCE FoldFacts WITH Op <- ConnectKeep, Inv <- BesideInv

ConnectedBy(h, S, txs) == Folded(LAMBDA T, tx : UNION {ConnectTx(tx, U, h) : U \in T}, S, txs)

(* That fold, as an instance.                                            *)
LEMMA ConnectingIsFold ==
  ASSUME NEW x, NEW S, NEW txs
  PROVE  ConnectedBy(x[1], S, txs) = Connecting!Fold(x, S, txs)
BY Zenon DEF ConnectedBy, ConnectKeep, UtxosAfter, Folded, Connecting!Fold, Connecting!Table

(* The two walks side by side: one over the transactions, its results in *)
(* fs, and one over all, where the coinbase comes first.                 *)
TwoWalks(n, txs, cb, h, U0, fs, all) ==
  /\ n \in Nat /\ DOMAIN txs = 1..n /\ IsCoinbase(cb)
  /\ \A i \in 1..n : ~IsCoinbase(txs[i]) /\ txs[i].id # cb.id
  /\ \A f \in fs[0] : f.U = U0
  /\ \A k \in 1..n : fs[k] = FeesAfter(fs[k - 1], txs[k], h)
  /\ DOMAIN all = 1..(1 + n) /\ all[1] = cb /\ \A i \in 1..n : all[1 + i] = txs[i]

(* Step by step the second is ahead by the coinbase.                     *)
LEMMA BesideWalk ==
  ASSUME NEW n, NEW txs, NEW cb, NEW h, NEW U0, NEW fs, NEW all, TwoWalks(n, txs, cb, h, U0, fs, all),
         NEW V \in Connecting!Fold(<<h, cb, fs>>, {U0}, all), NEW s \in fs[n]
  PROVE  Exchanged(cb, s.U, h, V)
<1> DEFINE y == <<h, cb, fs>>
           base == UtxosAfter({U0}, cb, h)
<1>0. /\ n \in Nat /\ DOMAIN txs = 1..n /\ IsCoinbase(cb)
      /\ \A i \in 1..n : ~IsCoinbase(txs[i]) /\ txs[i].id # cb.id
      /\ \A f \in fs[0] : f.U = U0
      /\ \A k \in 1..n : fs[k] = FeesAfter(fs[k - 1], txs[k], h)
      /\ DOMAIN all = 1..(1 + n) /\ all[1] = cb /\ \A i \in 1..n : all[1 + i] = txs[i]
  BY DEF TwoWalks
<1>1. y[1] = h /\ y[2] = cb /\ y[3] = fs
  OBVIOUS
<1>2. V \in Connecting!Fold(y, {U0}, all)
  OBVIOUS
<1> HIDE DEF y
<1>3. Connecting!Fold(y, {U0}, all) = Connecting!Fold(y, base, txs)
  <2>1. Connecting!Fold(y, {U0}, all) = Connecting!Fold(y, ConnectKeep(y, {U0}, all[1]), txs)
    BY <1>0, Connecting!FoldAfterFirst, SMTT(60)
  <2> QED
    BY <1>0, <1>1, <2>1 DEF ConnectKeep
<1>4. BesideInv(y, 0, base)
  <2>1. SUFFICES ASSUME NEW W \in base, NEW f \in fs[0] PROVE Exchanged(cb, f.U, h, W)
    BY <1>1 DEF BesideInv
  <2>2. f.U = U0
    BY <1>0
  <2>3. ~IsShare(cb)
    BY <1>0 DEF IsCoinbase, IsShare
  <2>4. W \in ConnectTx(cb, U0, h)
    BY DEF UtxosAfter
  <2> QED
    BY <2>2, <2>3, <2>4, ConnectTxFacts
<1>5. ASSUME NEW k \in 1..n, NEW S, BesideInv(y, k - 1, S) PROVE BesideInv(y, k, ConnectKeep(y, S, txs[k]))
  <2>1. SUFFICES ASSUME NEW W \in UtxosAfter(S, txs[k], h), NEW f \in fs[k] PROVE Exchanged(cb, f.U, h, W)
    BY <1>1 DEF BesideInv, ConnectKeep
  <2>2. PICK W0 \in S : W \in ConnectTx(txs[k], W0, h)
    BY DEF UtxosAfter
  <2>3. f \in FeesAfter(fs[k - 1], txs[k], h)
    BY <1>0
  <2>4. PICK f0 \in fs[k - 1] : f.U \in ConnectTx(txs[k], f0.U, h)
    <3>1. PICK f0 \in fs[k - 1] : f \in {[U |-> U, fees |-> f0.fees + fee] :
            fee \in {g \in MinerFee(txs[k], f0.U, h) : PaysItsFees(txs[k], g, h)}, U \in ConnectTx(txs[k], f0.U, h)}
      BY <2>3 DEF FeesAfter
    <3> QED
      BY <3>1
  <2>5. Exchanged(cb, f0.U, h, W0)
    BY <1>1, <1>5 DEF BesideInv
  <2>6. ~IsCoinbase(txs[k]) /\ txs[k].id # cb.id
    BY <1>0
  <2> QED
    BY <1>0, <2>2, <2>4, <2>5, <2>6, CoinbaseAside
<1> HIDE DEF base
<1>6. BesideInv(y, n, Connecting!Fold(y, base, txs))
  BY <1>0, <1>4, <1>5, Connecting!FoldInvariant
<1> QED
  BY <1>1, <1>2, <1>3, <1>6 DEF BesideInv

(* The coins after a block are those of its transactions and what its    *)
(* coinbase adds.                                                        *)
LEMMA BlockBesideCoinbase ==
  ASSUME NEW block, IsSeq(block.txs), IsCoinbase(block.cb),
         \A i \in 1..Len(block.txs) : ~IsCoinbase(block.txs[i]) /\ block.txs[i].id # block.cb.id,
         NEW h, NEW U0, NEW s \in BlockFees(block, U0, h),
         NEW all, all = <<block.cb>> \o block.txs, NEW x, x[1] = h
  PROVE  \E fs : /\ s \in fs[Len(block.txs)]
                 /\ \A V \in Connecting!Fold(<<h, block.cb, fs>>, {U0}, all) : Exchanged(block.cb, s.U, h, V)
<1> DEFINE n == Len(block.txs)
           S0 == {[U |-> U0, fees |-> 0]}
           fs == FeeWalk!Table(x, n, S0, block.txs)
<1>1. n \in Nat /\ DOMAIN block.txs = 1..n
  BY SeqDomain
<1>2. IsSeq(all) /\ Len(all) = n + 1 /\ all[1] = block.cb /\ \A i \in 1..n : all[i + 1] = block.txs[i]
  <2> DEFINE a == <<block.cb>> \o block.txs
  <2>1. IsSeq(a) /\ Len(a) = n + 1 /\ a[1] = block.cb /\ \A i \in 1..n : a[i + 1] = block.txs[i]
    BY ConsSeq
  <2> QED
    BY <2>1, Zenon
<1>3. DOMAIN all = 1..(n + 1)
  BY <1>2, SeqDomain
<1>4. DOMAIN all = 1..(1 + n) /\ \A i \in 1..n : all[1 + i] = block.txs[i]
  BY <1>1, <1>2, <1>3
<1>5. s \in fs[n]
  <2>1. BlockFees(block, U0, x[1]) = FeeWalk!Fold(x, S0, block.txs)
    BY FeeWalkIsFold, Zenon
  <2> QED
    BY <2>1, Zenon DEF FeeWalk!Fold
<1>6. \A k \in 0..n : fs[k] = IF k = 0 THEN S0 ELSE FeesKeep(x, fs[k - 1], block.txs[k])
  <2>1. \A b : \A k \in 0..n : FeeWalk!Table(x, n, b, block.txs)[k] =
          IF k = 0 THEN b ELSE FeesKeep(x, FeeWalk!Table(x, n, b, block.txs)[k - 1], block.txs[k])
    BY <1>1, FeeWalk!StepsOfAny
  <2> QED
    BY <2>1, Zenon
<1>7. \A S, tx : FeesKeep(x, S, tx) = FeesAfter(S, tx, h)
  BY DEF FeesKeep
<1> HIDE DEF fs
<1>8. fs[0] = S0 /\ \A k \in 1..n : fs[k] = FeesAfter(fs[k - 1], block.txs[k], h)
  <2> HIDE DEF S0, n
  <2> QED
    BY <1>1, <1>6, <1>7
<1>9. \A f \in fs[0] : f.U = U0
  BY <1>8
<1>10. ASSUME NEW V \in Connecting!Fold(<<h, block.cb, fs>>, {U0}, all) PROVE Exchanged(block.cb, s.U, h, V)
  <2> HIDE DEF n, S0
  <2>1. \A i \in 1..n : ~IsCoinbase(block.txs[i]) /\ block.txs[i].id # block.cb.id
    BY DEF n
  <2>2. TwoWalks(n, block.txs, block.cb, h, U0, fs, all)
    BY <1>1, <1>2, <1>4, <1>8, <1>9, <2>1 DEF TwoWalks
  <2> QED
    BY <1>5, <2>2, BesideWalk
<1> QED
  BY <1>5, <1>10

(* A block leaves no more in the coins than there was, less what it      *)
(* burns, and its subsidy; the vaults stay sound.                        *)
Booked(U, V, h, q0, q) ==
  /\ Countable(V) /\ VaultsSound(V) /\ IsInfusionState(q)
  /\ Coins(V) <= Coins(U) + Subsidy(h)
  /\ q.ok => q0.ok /\ Coins(V) + q.i.melted <= Coins(U) + q0.i.melted + Subsidy(h)

(* Connecting a block does that.                                         *)
LEMMA BlockAccounts ==
  ASSUME NEW block, IsSeq(block.txs), NEW c, NEW h \in Nat, BlockOK(block, c, h),
         Countable(c.utxos), VaultsSound(c.utxos), NEW q0, IsInfusionState(q0),
         NEW placed, DOMAIN placed = 1..Len(block.txs), \A i \in 1..Len(block.txs) : placed[i].tx = block.txs[i],
         NEW V \in ConnectedBy(h, {c.utxos}, <<block.cb>> \o block.txs),
         NEW q, q = Infusion!Fold(0, q0, placed)
  PROVE  Booked(c.utxos, V, h, q0, q)
<1> DEFINE n == Len(block.txs)
           cb == block.cb
           U0 == c.utxos
           all == <<cb>> \o block.txs
<1>1. n \in Nat /\ DOMAIN block.txs = 1..n /\ \A i \in 1..n : block.txs[i] \in ToSet(block.txs)
  BY SeqDomain
<1>2. /\ IsCoinbase(cb) /\ StatelessOK(cb) /\ \A tx \in ToSet(block.txs) : ~IsCoinbase(tx)
      /\ IsInjective([i \in 1..(Len(block.txs) + 1) |-> all[i].id])
      /\ \E s \in BlockFees(block, U0, h) : ValueOf(cb.outs) <= Subsidy(h) + s.fees
  BY Zenon DEF BlockOK
<1>3. PICK s \in BlockFees(block, U0, h) : ValueOf(cb.outs) <= Subsidy(h) + s.fees
  BY <1>2
<1>4. ASSUME NEW i \in 1..n PROVE ~IsCoinbase(block.txs[i]) /\ block.txs[i].id # cb.id
  <2>1. Len(all) = n + 1 /\ all[1] = cb /\ \A k \in 1..n : all[k + 1] = block.txs[k]
    BY ConsSeq
  <2> DEFINE ids == [k \in 1..(n + 1) |-> all[k].id]
  <2>2. IsInjective(ids)
    BY <1>2
  <2> HIDE DEF all
  <2>3. 1 \in DOMAIN ids /\ i + 1 \in DOMAIN ids /\ ids[1] = cb.id /\ ids[i + 1] = block.txs[i].id /\ i + 1 # 1
    BY <1>1, <2>1
  <2> HIDE DEF ids
  <2>4. ids[1] # ids[i + 1]
    BY <2>2, <2>3 DEF IsInjective
  <2> QED
    BY <1>1, <1>2, <2>3, <2>4
<1>5. Exchanged(cb, s.U, h, V)
  <2> DEFINE x == <<h>>
  <2>1. x[1] = h
    OBVIOUS
  <2> HIDE DEF x
  <2>2. PICK fs : \A W \in Connecting!Fold(<<h, cb, fs>>, {U0}, all) : Exchanged(cb, s.U, h, W)
    BY <1>2, <1>3, <1>4, <2>1, BlockBesideCoinbase
  <2> DEFINE y == <<h, cb, fs>>
  <2>3. y[1] = h
    OBVIOUS
  <2>4. ConnectedBy(y[1], {U0}, all) = Connecting!Fold(y, {U0}, all)
    BY ConnectingIsFold, Zenon
  <2>5. V \in ConnectedBy(h, {U0}, all)
    OBVIOUS
  <2> HIDE DEF all
  <2>6. V \in Connecting!Fold(y, {U0}, all)
    <3> HIDE DEF y
    <3> QED
      BY <2>3, <2>4, <2>5
  <2> QED
    BY <2>2, <2>6
<1>6. PaidFor(s, U0, q0, q)
  BY <1>1, <1>3, <1>4, BlockPays
<1>7. /\ Countable(s.U) /\ VaultsSound(s.U) /\ s.fees \in Nat /\ IsInfusionState(q)
      /\ Coins(s.U) + s.fees <= Coins(U0)
      /\ q.ok => q0.ok /\ Coins(s.U) + s.fees + q.i.melted <= Coins(U0) + q0.i.melted
  BY <1>6 DEF PaidFor
<1>8. ~IsShare(cb) /\ Spends(cb) = {}
  BY <1>2 DEF IsCoinbase, IsShare, Spends
<1>9. /\ Countable(V) /\ Coins(s.U) \in Int /\ Coins(V) \in Int /\ ValueOf(cb.outs) \in Int
      /\ Coins(V) = Coins(s.U) - Part(s.U, {}) + ValueOf(cb.outs)
  <2> DEFINE W == s.U
  <2>1. Countable(W) /\ Exchanged(cb, W, h, V)
    BY <1>5, <1>7
  <2> HIDE DEF W, all
  <2>2. /\ Countable(V) /\ Spends(cb) \subseteq DOMAIN W
        /\ Coins(W) \in Int /\ Coins(V) \in Int
        /\ Part(W, Spends(cb)) \in Int /\ ValueOf(cb.outs) \in Int
        /\ Coins(V) = Coins(W) - Part(W, Spends(cb)) + ValueOf(cb.outs)
    BY <1>2, <1>8, <2>1, ExchangedValue
  <2> QED
    BY <1>8, <2>2 DEF W
<1>10. Part(s.U, {}) = 0 /\ Coins(U0) \in Int
  BY <1>7, PartFacts
<1>11. VaultsSound(V)
  <2> HIDE DEF cb, all
  <2> QED
    BY <1>2, <1>5, <1>7, VaultsKept
<1>12. Subsidy(h) \in Nat
  BY SubsidyNat
<1>13. q.ok => q.i.melted \in Int /\ q0.i.melted \in Int
  BY <1>7 DEF IsInfusionState
<1> HIDE DEF cb, U0, all
<1>14. Coins(V) <= Coins(U0) + Subsidy(h)
  BY <1>3, <1>7, <1>9, <1>10, <1>12
<1>15. q.ok => q0.ok /\ Coins(V) + q.i.melted <= Coins(U0) + q0.i.melted + Subsidy(h)
  <2> SUFFICES ASSUME q.ok PROVE q0.ok /\ Coins(V) + q.i.melted <= Coins(U0) + q0.i.melted + Subsidy(h)
    OBVIOUS
  <2>1. /\ q0.ok /\ q.i.melted \in Int /\ q0.i.melted \in Int
        /\ Coins(s.U) + s.fees + q.i.melted <= Coins(U0) + q0.i.melted
    BY <1>7, <1>13
  <2> QED
    <3>1. /\ Coins(V) = Coins(s.U) + ValueOf(cb.outs) /\ ValueOf(cb.outs) \in Int
          /\ Coins(s.U) \in Int /\ s.fees \in Nat
      BY <1>7, <1>9, <1>10
    <3>2. Coins(V) + q.i.melted <= Coins(U0) + q0.i.melted + Subsidy(h)
      <4> DEFINE v == Coins(V)
                 a == Coins(s.U)
                 b == Coins(U0)
                 x == ValueOf(cb.outs)
                 d == Subsidy(h)
                 f == s.fees
                 l == q.i.melted
                 m == q0.i.melted
      <4>1. /\ v = a + x /\ x \in Int /\ a \in Int /\ f \in Nat /\ l \in Int /\ m \in Int /\ b \in Int /\ d \in Nat
            /\ a + f + l <= b + m /\ x <= d + f
        BY <1>3, <1>10, <1>12, <2>1, <3>1
      <4> HIDE DEF v, a, b, x, d, f, l, m
      <4>2. v + l <= b + m + d
        BY <4>1, SMTT(60)
      <4> QED
        BY <4>2 DEF v, a, b, x, d, f, l, m
    <3> QED
      BY <2>1, <3>2
<1> QED
  BY <1>7, <1>9, <1>11, <1>14, <1>15 DEF U0, Booked

-----------------------------------------------------------------------------
(* The books of a chain.                                                 *)

(* The subsidies of its blocks.                                          *)
Paid(n) == SumOn([h \in 1..n |-> Subsidy(h)])

(* Their sum grows by one subsidy with every block.                      *)
LEMMA PaidFacts ==
  ASSUME NEW n \in Nat
  PROVE  Paid(n) \in Int /\ Paid(n + 1) = Paid(n) + Subsidy(n + 1)
<1> DEFINE S == 1..n
           T == 1..(n + 1)
           f == [h \in S |-> Subsidy(h)]
           g == [h \in T |-> Subsidy(h)]
<1>1. IsFiniteSet(S) /\ IsFiniteSet(T)
  BY FS_Interval
<1>2. /\ DOMAIN f = S /\ \A h \in S : f[h] = Subsidy(h)
      /\ DOMAIN g = T /\ \A h \in T : g[h] = Subsidy(h)
  OBVIOUS
<1>3. S \subseteq T /\ n + 1 \in T /\ T \ {n + 1} = S /\ S \subseteq Nat /\ T \subseteq Nat /\ T \in SUBSET T
  OBVIOUS
<1>4. SumOn(f) = Sums(f, S)[S] /\ SumOn(g) = Sums(g, T)[T]
  <2>1. SumOn(f) = Sums(f, DOMAIN f)[DOMAIN f] /\ SumOn(g) = Sums(g, DOMAIN g)[DOMAIN g]
    BY SumIsEntry
  <2> QED
    BY <1>2, <2>1
<1>5. Paid(n) = SumOn(f) /\ Paid(n + 1) = SumOn(g)
  BY DEF Paid
<1> HIDE DEF f, g, S, T
<1>6. (\A h \in S : f[h] \in Int) /\ (\A h \in T : g[h] \in Int)
  BY <1>2, <1>3, SubsidyNat
<1>7. /\ Sums(f, S)[{}] = 0
      /\ \A s \in SUBSET S : Sums(f, S)[s] \in Int
      /\ \A s \in SUBSET S : \A x \in s : Sums(f, S)[s] = f[x] + Sums(f, S)[s \ {x}]
  BY <1>1, <1>6, SumsTake
<1>8. /\ Sums(g, T)[{}] = 0
      /\ \A s \in SUBSET T : Sums(g, T)[s] \in Int
      /\ \A s \in SUBSET T : \A x \in s : Sums(g, T)[s] = g[x] + Sums(g, T)[s \ {x}]
  BY <1>1, <1>6, SumsTake
<1>9. Sums(g, T)[T] = g[n + 1] + Sums(g, T)[S]
  BY <1>3, <1>8
<1>10. Sums(f, S)[S] = Sums(g, T)[S]
  <2>1. S \subseteq S /\ \A h \in S : f[h] = g[h]
    BY <1>2, <1>3
  <2> QED
    <3>1. \A R : R \subseteq S /\ R \subseteq T /\ (\A h \in R : f[h] = g[h]) => Sums(f, S)[R] = Sums(g, T)[R]
      BY <1>1, <1>6, SumsAgree
    <3> QED
      BY <1>3, <2>1, <3>1
<1>11. Sums(f, S)[S] \in Int /\ Subsidy(n + 1) \in Nat /\ g[n + 1] = Subsidy(n + 1)
  BY <1>2, <1>3, <1>7, SubsidyNat
<1> QED
  BY <1>4, <1>5, <1>9, <1>10, <1>11

(* One more block puts its transactions at the end.                      *)
LEMMA PlacedNext ==
  ASSUME NEW B, IsSeq(B), NEW block, NEW first
  PROVE  Placed(Append(B, block), first)
           = Placed(B, first) \o PlacedAt(<<Append(B, block), first>>, Len(B) + 1)
<1> DEFINE n == Len(B)
           Q == Append(B, block)
           c == <<B, first>>
           d == <<Q, first>>
           hs == [h \in DOMAIN B |-> h]
           gs == [h \in DOMAIN Q |-> h]
<1>1. n \in Nat /\ DOMAIN B = 1..n /\ DOMAIN hs = 1..n /\ \A h \in 1..n : hs[h] = h
  BY SeqDomain
<1>2. IsSeq(Q) /\ Len(Q) = n + 1 /\ \A h \in 1..n : Q[h] = B[h]
  BY AppendSeq
<1>3. DOMAIN Q = 1..(n + 1) /\ DOMAIN gs = 1..(n + 1) /\ \A h \in 1..(n + 1) : gs[h] = h
  BY <1>2, SeqDomain
<1>4. c[1] = B /\ c[2] = first /\ d[1] = Q /\ d[2] = first
  OBVIOUS
<1>5. Placed(B, first) = PlacedTxs!Fold(c, <<>>, hs) /\ Placed(Q, first) = PlacedTxs!Fold(d, <<>>, gs)
  <2>1. Placed(c[1], c[2]) = PlacedTxs!Fold(c, <<>>, [h \in DOMAIN c[1] |-> h])
    BY PlacedIsFold, Zenon
  <2>2. Placed(d[1], d[2]) = PlacedTxs!Fold(d, <<>>, [h \in DOMAIN d[1] |-> h])
    BY PlacedIsFold, Zenon
  <2> HIDE DEF c, d, Q
  <2> QED
    BY <1>4, <2>1, <2>2
<1> HIDE DEF c, d, Q, hs, gs
<1>6. PlacedTxs!Fold(d, <<>>, hs) = PlacedTxs!Fold(c, <<>>, hs)
  <2>1. ASSUME NEW i \in 1..n, NEW ps PROVE AddPlaced(d, ps, hs[i]) = AddPlaced(c, ps, hs[i])
    BY <1>1, <1>2, <1>4 DEF AddPlaced, PlacedAt
  <2> QED
    BY <1>1, <2>1, PlacedTxs!FoldSame
<1>7. PlacedTxs!Fold(d, <<>>, gs) = AddPlaced(d, PlacedTxs!Fold(d, <<>>, hs), gs[n + 1])
  <2>1. \A i \in 1..n : gs[i] = hs[i]
    BY <1>1, <1>3
  <2> QED
    BY <1>1, <1>3, <2>1, PlacedTxs!FoldStep
<1>8. gs[n + 1] = n + 1
  BY <1>1, <1>3
<1>9. PlacedTxs!Fold(d, <<>>, gs) = PlacedTxs!Fold(c, <<>>, hs) \o PlacedAt(d, n + 1)
  BY <1>6, <1>7, <1>8, Zenon DEF AddPlaced
<1>10. Placed(Q, first) = Placed(B, first) \o PlacedAt(d, n + 1)
  BY <1>5, <1>9
<1> QED
  BY <1>10 DEF Q, d, n

(* The infusion state of a chain that was started from q0.               *)
InfusionAfter(q0, B) == Infusion!Fold(0, q0, Placed(B, Jin.infusion_active))

(* Where the elements of two sequences are, one after the other.         *)
LEMMA ConcatPlaces ==
  ASSUME NEW s, IsSeq(s), NEW t, IsSeq(t)
  PROVE  /\ DOMAIN (s \o t) = 1..(Len(s) + Len(t))
         /\ \A i \in 1..Len(s) : (s \o t)[i] = s[i]
         /\ \A i \in 1..Len(t) : (s \o t)[Len(s) + i] = t[i]
<1> DEFINE S == ToSet(s) \cup ToSet(t)
<1>1. s \in Seq(S) /\ t \in Seq(S)
  BY DEF IsSeq
<1> HIDE DEF S
<1> QED
  BY <1>1

(* One more block puts its transactions after the others, or none of     *)
(* them below the height they count from.                                *)
FollowedBy(old, new, all, txs) ==
  /\ DOMAIN new = 1..Len(txs)
  /\ \A i \in 1..Len(txs) : new[i].tx = txs[i]
  /\ DOMAIN all = 1..(Len(old) + Len(txs))
  /\ \A i \in 1..Len(old) : all[i] = old[i]
  /\ \A i \in 1..Len(txs) : all[Len(old) + i] = new[i]
LEMMA PlacedAfter ==
  ASSUME NEW B, IsSeq(B), \A h \in 1..Len(B) : IsSeq(B[h].txs), NEW block, IsSeq(block.txs),
         NEW first \in Int, NEW old, old = Placed(B, first), NEW all, all = Placed(Append(B, block), first)
  PROVE  /\ Len(old) \in Nat /\ DOMAIN old = 1..Len(old)
         /\ \/ Len(B) + 1 < first /\ all = old
            \/ ~(Len(B) + 1 < first) /\ \E new : FollowedBy(old, new, all, block.txs)
<1> DEFINE Q == Append(B, block)
           new == PlacedAt(<<Q, first>>, Len(B) + 1)
<1>1. IsSeq(old)
  <2>1. PlacedInv(<<B, first>>, Len(B), old)
    BY PlacedFacts
  <2> QED
    BY <2>1 DEF PlacedInv
<1>2. all = old \o new
  BY PlacedNext, Zenon
<1>3. Q[Len(B) + 1] = block
  BY AppendSeq
<1>4. new = IF Len(B) + 1 < first THEN <<>>
            ELSE [i \in DOMAIN block.txs |-> [tx |-> block.txs[i], h |-> Len(B) + 1]]
  <2> HIDE DEF Q
  <2> QED
    BY <1>3 DEF PlacedAt
<1>5. DOMAIN block.txs = 1..Len(block.txs) /\ Len(block.txs) \in Nat
  BY SeqDomain
<1>6. Len(old) \in Nat /\ DOMAIN old = 1..Len(old)
  BY <1>1, SeqDomain
<1> HIDE DEF Q, new
<1>7. CASE Len(B) + 1 < first
  <2>1. new = <<>>
    BY <1>4, <1>7
  <2>2. old \o new = old
    BY <1>1, <2>1 DEF IsSeq
  <2> QED
    BY <1>2, <1>6, <1>7, <2>2
<1>8. CASE ~(Len(B) + 1 < first)
  <2> DEFINE m == Len(block.txs)
  <2>1. DOMAIN new = 1..m /\ (\A i \in 1..m : new[i].tx = block.txs[i]) /\ IsSeq(new) /\ Len(new) = m
    <3>1. new = [i \in 1..m |-> [tx |-> block.txs[i], h |-> Len(B) + 1]] /\ m \in Nat
      BY <1>4, <1>5, <1>8
    <3> HIDE DEF m
    <3>2. DOMAIN new = 1..m /\ Len(new) = m /\ \A i \in 1..m : new[i].tx = block.txs[i]
      BY <3>1
    <3>3. new \in Seq({new[i] : i \in 1..m})
      BY <3>1, <3>2, SMTT(60)
    <3> QED
      BY <3>2, <3>3, SeqOver
  <2> HIDE DEF m
  <2>2. /\ DOMAIN all = 1..(Len(old) + m) /\ \A i \in 1..Len(old) : all[i] = old[i]
        /\ \A i \in 1..m : all[Len(old) + i] = new[i]
    <3>1. /\ DOMAIN (old \o new) = 1..(Len(old) + Len(new)) /\ \A i \in 1..Len(old) : (old \o new)[i] = old[i]
          /\ \A i \in 1..Len(new) : (old \o new)[Len(old) + i] = new[i]
      <4>1. IsSeq(new)
        BY <2>1
      <4> QED
        BY <1>1, <4>1, ConcatPlaces
    <3> QED
      BY <1>2, <2>1, <3>1
  <2>3. FollowedBy(old, new, all, block.txs)
    BY <2>1, <2>2 DEF FollowedBy, m
  <2> QED
    BY <1>6, <1>8, <2>3
<1> QED
  BY <1>7, <1>8

(* One more block replays its transactions on top, or none of them       *)
(* before the activation.                                                *)
LEMMA InfusionNext ==
  ASSUME NEW B, IsSeq(B), \A h \in 1..Len(B) : IsSeq(B[h].txs), NEW block, IsSeq(block.txs), NEW q0
  PROVE  \/ /\ Len(B) + 1 < Jin.infusion_active
            /\ InfusionAfter(q0, Append(B, block)) = InfusionAfter(q0, B)
         \/ /\ ~(Len(B) + 1 < Jin.infusion_active)
            /\ \E placed : /\ DOMAIN placed = 1..Len(block.txs)
                           /\ \A i \in 1..Len(block.txs) : placed[i].tx = block.txs[i]
                           /\ InfusionAfter(q0, Append(B, block)) = Infusion!Fold(0, InfusionAfter(q0, B), placed)
<1> DEFINE first == Jin.infusion_active
           old == Placed(B, first)
           all == Placed(Append(B, block), first)
           m == Len(block.txs)
<1>1. first \in Int
  BY JinAssumption
<1>2. InfusionAfter(q0, B) = Infusion!Fold(0, q0, old) /\ InfusionAfter(q0, Append(B, block)) = Infusion!Fold(0, q0, all)
  BY DEF InfusionAfter
<1>3. m \in Nat
  BY SeqDomain
<1> HIDE DEF old, all, first
<1>4. /\ Len(old) \in Nat /\ DOMAIN old = 1..Len(old)
      /\ \/ Len(B) + 1 < first /\ all = old
         \/ ~(Len(B) + 1 < first) /\ \E new : FollowedBy(old, new, all, block.txs)
  BY <1>1, PlacedAfter DEF old, all
<1>5. CASE Len(B) + 1 < first /\ all = old
  BY <1>2, <1>5 DEF first
<1>6. CASE ~(Len(B) + 1 < first)
  <2>0. PICK new : FollowedBy(old, new, all, block.txs)
    BY <1>4, <1>6
  <2>1. /\ DOMAIN new = 1..m /\ \A i \in 1..m : new[i].tx = block.txs[i]
        /\ DOMAIN all = 1..(Len(old) + m) /\ \A i \in 1..Len(old) : all[i] = old[i]
        /\ \A i \in 1..m : all[Len(old) + i] = new[i]
    BY <2>0 DEF FollowedBy, m
  <2>2. Infusion!Fold(0, q0, all) = Infusion!Fold(0, Infusion!Fold(0, q0, old), new)
    <3> HIDE DEF m
    <3> QED
      BY <1>3, <1>4, <2>1, Infusion!FoldConcat
  <2> QED
    BY <1>2, <1>6, <2>1, <2>2 DEF first
<1> QED
  BY <1>4, <1>5, <1>6

(* What the coins and the burns of a chain come to is at most what its   *)
(* blocks have paid.                                                     *)
BooksSound(B, U) ==
  /\ Countable(U) /\ VaultsSound(U) /\ Coins(U) <= Paid(Len(B))
  /\ \A q0 \in FirstInfusions :
       /\ IsInfusionState(InfusionAfter(q0, B))
       /\ InfusionAfter(q0, B).ok => Coins(U) + InfusionAfter(q0, B).i.melted <= Paid(Len(B))

(* One more block.                                                       *)
LEMMA BooksNext ==
  ASSUME NEW c, IsSeq(c.blocks), \A h \in 1..Len(c.blocks) : IsSeq(c.blocks[h].txs),
         BooksSound(c.blocks, c.utxos), NEW block, IsSeq(block.txs), BlockOK(block, c, Len(c.blocks) + 1),
         NEW V \in ConnectedBy(Len(c.blocks) + 1, {c.utxos}, <<block.cb>> \o block.txs)
  PROVE  BooksSound(Append(c.blocks, block), V)
<1> DEFINE B == c.blocks
           U == c.utxos
           Q == Append(B, block)
           h == Len(B) + 1
           n == Len(block.txs)
<1>1. Len(B) \in Nat /\ h \in Nat /\ Len(Q) = h
  BY SeqDomain, AppendSeq
<1>2. Countable(U) /\ VaultsSound(U) /\ Coins(U) <= Paid(Len(B))
  BY DEF BooksSound
<1>3. Paid(Len(B)) \in Int /\ Paid(h) = Paid(Len(B)) + Subsidy(h) /\ Subsidy(h) \in Nat
  BY <1>1, PaidFacts, SubsidyNat
<1>4. ASSUME NEW q0, IsInfusionState(q0), NEW placed, DOMAIN placed = 1..n,
             \A i \in 1..n : placed[i].tx = block.txs[i], NEW q, q = Infusion!Fold(0, q0, placed)
      PROVE  /\ Countable(V) /\ VaultsSound(V) /\ IsInfusionState(q)
             /\ Coins(V) <= Coins(U) + Subsidy(h)
             /\ q.ok => q0.ok /\ Coins(V) + q.i.melted <= Coins(U) + q0.i.melted + Subsidy(h)
  <2> HIDE DEF Q
  <2>1. Booked(U, V, h, q0, q)
    BY <1>1, <1>2, <1>4, BlockAccounts
  <2> QED
    BY <2>1 DEF Booked
<1>5. Countable(V) /\ VaultsSound(V) /\ Coins(V) <= Coins(U) + Subsidy(h)
  <2> DEFINE q0 == [ok |-> FALSE, i |-> NoInfusion]
             placed == [i \in 1..n |-> [tx |-> block.txs[i]]]
  <2>1. IsInfusionState(q0)
    BY DEF IsInfusionState, NoInfusion
  <2>2. DOMAIN placed = 1..n /\ \A i \in 1..n : placed[i].tx = block.txs[i]
    OBVIOUS
  <2> HIDE DEF q0, placed, Q, B, U, h, n
  <2> QED
    BY <1>4, <2>1, <2>2
<1>6. Coins(U) \in Int /\ Coins(V) \in Int
  BY <1>2, <1>5, PartFacts
<1>7. Coins(V) <= Paid(h)
  <2> HIDE DEF U, h, B
  <2> QED
    BY <1>2, <1>3, <1>5, <1>6
<1>8. ASSUME NEW q0 \in FirstInfusions
      PROVE  /\ IsInfusionState(InfusionAfter(q0, Q))
             /\ InfusionAfter(q0, Q).ok => Coins(V) + InfusionAfter(q0, Q).i.melted <= Paid(h)
  <2> DEFINE r == InfusionAfter(q0, B)
             q == InfusionAfter(q0, Q)
  <2>1. IsInfusionState(r) /\ (r.ok => Coins(U) + r.i.melted <= Paid(Len(B)))
    BY DEF BooksSound
  <2>2. r.ok => r.i.melted \in Int
    BY <2>1 DEF IsInfusionState
  <2>3. \/ q = r
        \/ \E placed : /\ DOMAIN placed = 1..n /\ \A i \in 1..n : placed[i].tx = block.txs[i]
                       /\ q = Infusion!Fold(0, r, placed)
    BY InfusionNext
  <2> HIDE DEF r, q, Q, B, U, n, h
  <2>4. CASE q = r
    BY <1>3, <1>5, <1>6, <2>1, <2>2, <2>4 DEF r, q
  <2>5. ASSUME NEW placed, DOMAIN placed = 1..n, \A i \in 1..n : placed[i].tx = block.txs[i],
               q = Infusion!Fold(0, r, placed)
        PROVE  IsInfusionState(q) /\ (q.ok => Coins(V) + q.i.melted <= Paid(h))
    <3>1. /\ IsInfusionState(q)
          /\ q.ok => r.ok /\ Coins(V) + q.i.melted <= Coins(U) + r.i.melted + Subsidy(h)
      BY <1>4, <2>1, <2>5
    <3>2. q.ok => q.i.melted \in Int
      BY <3>1 DEF IsInfusionState
    <3> QED
      BY <1>3, <1>6, <2>1, <2>2, <3>1, <3>2, SMTT(60)
  <2> QED
    BY <2>3, <2>4, <2>5 DEF r, q
<1> HIDE DEF Q, h
<1> QED
  BY <1>1, <1>5, <1>7, <1>8 DEF BooksSound, Q

(* No block infuses nothing.                                             *)
LEMMA InfusionOfNone ==
  ASSUME NEW q0
  PROVE  InfusionAfter(q0, <<>>) = q0
<1> DEFINE c == <<<<>>, Jin.infusion_active>>
           hs == [h \in DOMAIN c[1] |-> h]
<1>1. c[1] = <<>> /\ c[2] = Jin.infusion_active
  OBVIOUS
<1>2. Placed(c[1], c[2]) = PlacedTxs!Fold(c, <<>>, hs)
  BY PlacedIsFold, Zenon
<1>3. Len(hs) = 0
  BY <1>1
<1> HIDE DEF c, hs
<1>4. PlacedTxs!Fold(c, <<>>, hs) = <<>>
  BY <1>3, PlacedTxs!FoldShort
<1>5. Placed(<<>>, Jin.infusion_active) = <<>>
  BY <1>1, <1>2, <1>4
<1>6. Infusion!Fold(0, q0, <<>>) = q0
  BY Infusion!FoldShort
<1> QED
  BY <1>5, <1>6 DEF InfusionAfter

(* The books of the chain without blocks.                                *)
LEMMA EmptyBooks == BooksSound(<<>>, <<>>)
<1>1. Len(<<>>) = 0 /\ DOMAIN <<>> = {} /\ 0 \in Nat
  OBVIOUS
<1>2. Countable(<<>>) /\ VaultsSound(<<>>)
  BY FS_EmptySet DEF Countable, VaultsSound
<1>3. Coins(<<>>) = 0
  <2>1. Part(<<>>, {}) = 0 /\ Coins(<<>>) = Part(<<>>, DOMAIN <<>>)
    BY <1>2, PartFacts
  <2> QED
    BY <1>1, <2>1
<1>4. Paid(0) = 0
  <2> DEFINE f == [h \in 1..0 |-> Subsidy(h)]
  <2>1. DOMAIN f = {}
    OBVIOUS
  <2>2. Paid(0) = SumOn(f)
    BY DEF Paid
  <2> HIDE DEF f
  <2>3. SumOn(f) = Sums(f, {})[{}]
    BY <2>1, SumIsEntry
  <2>4. Sums(f, {})[{}] = 0
    <3>1. IsFiniteSet({}) /\ \A x \in {} : f[x] \in Int
      BY FS_EmptySet
    <3>2. /\ Sums(f, {})[{}] = 0
          /\ \A s \in SUBSET {} : Sums(f, {})[s] \in Int
          /\ \A s \in SUBSET {} : \A x \in s : Sums(f, {})[s] = f[x] + Sums(f, {})[s \ {x}]
      BY <3>1, SumsTake
    <3> QED
      BY <3>2
  <2> QED
    BY <2>2, <2>3, <2>4
<1>5. ASSUME NEW q0 \in FirstInfusions PROVE IsInfusionState(q0) /\ q0.ok /\ q0.i.melted = 0
  <2> DEFINE j == Infused(NoInfusion, Jin.bootstrap)
  <2>1. "melted" \in DOMAIN NoInfusion /\ NoInfusion.melted = 0
    BY DEF NoInfusion
  <2>2. "melted" \in DOMAIN j /\ j.melted = 0
    BY <2>1 DEF Infused
  <2> HIDE DEF j
  <2>3. ASSUME NEW i, i = NoInfusion \/ i = [j EXCEPT !.active = TRUE]
        PROVE  "melted" \in DOMAIN i /\ i.melted = 0
    BY <2>1, <2>2, <2>3
  <2>4. PICK i : q0 = [ok |-> TRUE, i |-> i] /\ (i = NoInfusion \/ i = [j EXCEPT !.active = TRUE])
    BY DEF FirstInfusions, j
  <2>5. {"ok", "i"} \subseteq DOMAIN q0 /\ q0.ok /\ q0.i = i
    BY <2>4
  <2> QED
    BY <2>3, <2>4, <2>5 DEF IsInfusionState
<1>6. \A q0 : InfusionAfter(q0, <<>>) = q0
  BY InfusionOfNone
<1> QED
  BY <1>1, <1>2, <1>3, <1>4, <1>5, <1>6 DEF BooksSound

(* What miners and wallets read off such a chain.                        *)
LEMMA BooksAccount ==
  ASSUME NEW B, NEW U, BooksSound(B, U)
  PROVE  /\ Coins(U) <= Paid(Len(B))
         /\ \A i \in InfusionFrom(B) : Coins(U) + i.melted <= Paid(Len(B))
         /\ \A p \in DOMAIN U : IsVault(U[p].s) /\ U[p].s.asset = "QUB" /\ ~U[p].cb =>
              U[p].v = U[p].s.per * U[p].s.left
<1>1. ASSUME NEW i \in InfusionFrom(B) PROVE Coins(U) + i.melted <= Paid(Len(B))
  <2>1. PICK q0 \in FirstInfusions : InfusionAfter(q0, B).ok /\ i = InfusionAfter(q0, B).i
    BY InfusionIsFold DEF InfusionAfter
  <2> QED
    BY <2>1 DEF BooksSound
<1> QED
  BY <1>1 DEF BooksSound, VaultsSound, VaultWorth
-----------------------------------------------------------------------------
(* Balances of JIN.                                                      *)

(* A ledger: finitely many balances.                                     *)
IsLedger(m) == IsFiniteSet(DOMAIN m) /\ \A a \in DOMAIN m : m[a] \in Nat

LEMMA BalanceNat ==
  ASSUME NEW m, IsLedger(m), NEW a
  PROVE  Balance(m, a) \in Nat
BY DEF IsLedger, Balance

(* Terms that are zero add nothing.                                      *)
LEMMA SumsOfZeros ==
  ASSUME NEW S, IsFiniteSet(S), NEW f, \A x \in S : f[x] \in Int,
         NEW R, R \subseteq S, \A x \in R : f[x] = 0
  PROVE  Sums(f, S)[R] = 0
<1> DEFINE one == [x \in R |-> 1]
           g == [x \in R |-> 0 * one[x]]
<1>1. IsFiniteSet(R)
  BY FS_Subset
<1>2. one \in [R -> Int] /\ 0 \in Int /\ DOMAIN g = R /\ \A x \in R : g[x] = 0
  OBVIOUS
<1>3. SumOn(one) \in Int /\ SumOn(g) = 0 * SumOn(one)
  <2> HIDE DEF one
  <2> QED
    BY <1>1, <1>2, SumScales
<1>4. SumOn(g) = Sums(g, R)[R]
  <2>1. SumOn(g) = Sums(g, DOMAIN g)[DOMAIN g]
    BY SumIsEntry
  <2> QED
    BY <1>2, <2>1
<1> HIDE DEF one, g
<1>5. Sums(g, R)[R] = Sums(f, S)[R]
  <2>1. (\A x \in R : g[x] \in Int) /\ \A x \in R : g[x] = f[x]
    BY <1>2
  <2> QED
    BY <1>1, <2>1, SumsAgree
<1>6. 0 * SumOn(one) = 0
  BY <1>3
<1> QED
  BY <1>3, <1>4, <1>5, <1>6

(* A ledger may be summed up over more addresses than it has.            *)
LEMMA SumOverMore ==
  ASSUME NEW m, IsLedger(m), NEW D, IsFiniteSet(D), DOMAIN m \subseteq D
  PROVE  /\ SumOn(m) \in Int
         /\ SumOn(m) = SumOn([a \in D |-> Balance(m, a)])
<1> DEFINE f == [a \in D |-> Balance(m, a)]
           S == DOMAIN m
<1>1. /\ DOMAIN f = D /\ \A a \in D : f[a] \in Int
      /\ IsFiniteSet(S) /\ \A a \in S : m[a] \in Int /\ m[a] = f[a]
      /\ \A a \in D \ S : f[a] = 0
  BY BalanceNat DEF IsLedger, Balance
<1>2. SumOn(m) = Sums(m, S)[S]
  BY SumIsEntry
<1>3. SumOn(f) = Sums(f, D)[D]
  <2>1. SumOn(f) = Sums(f, DOMAIN f)[DOMAIN f]
    BY SumIsEntry
  <2> QED
    BY <1>1, <2>1
<1> HIDE DEF f, S
<1>4. S \subseteq D /\ D \ S \subseteq D /\ S \cap (D \ S) = {} /\ S \cup (D \ S) = D /\ S \in SUBSET S
  BY DEF S
<1>5. Sums(f, D)[D] = Sums(f, D)[S] + Sums(f, D)[D \ S]
  <2>1. Sums(f, D)[S \cup (D \ S)] = Sums(f, D)[S] + Sums(f, D)[D \ S]
    BY <1>1, <1>4, SumsUnion
  <2> QED
    BY <1>4, <2>1
<1>6. Sums(f, D)[D \ S] = 0
  BY <1>1, <1>4, SumsOfZeros
<1>7. Sums(m, S)[S] = Sums(f, D)[S]
  BY <1>1, <1>4, SumsAgree
<1>8. Sums(m, S)[S] \in Int
  <2>1. \A s \in SUBSET S : Sums(m, S)[s] \in Int
    BY <1>1, SumsTake
  <2> QED
    BY <1>4, <2>1
<1> QED
  BY <1>2, <1>3, <1>5, <1>6, <1>7, <1>8 DEF f

(* One balance is set.                                                   *)
LEMMA SumAfterSet ==
  ASSUME NEW m, IsLedger(m), NEW a, NEW n \in Nat, NEW q, q = Set(m, a, n)
  PROVE  /\ IsLedger(q) /\ SumOn(m) \in Int /\ SumOn(q) = SumOn(m) - Balance(m, a) + n
         /\ Balance(q, a) = n /\ \A b : b # a => Balance(q, b) = Balance(m, b)
<1> DEFINE D == DOMAIN m \cup {a}
           f == [b \in D |-> Balance(m, b)]
<1>1. /\ DOMAIN q = D /\ q[a] = n /\ \A b \in D : b # a => q[b] = Balance(m, b)
      /\ Balance(q, a) = n /\ \A b : b # a => Balance(q, b) = Balance(m, b)
  BY DEF Set, Balance
<1>2. IsFiniteSet(D) /\ DOMAIN m \subseteq D /\ a \in D
  BY FS_AddElement DEF IsLedger
<1>3. DOMAIN f = D /\ \A b \in D : f[b] = Balance(m, b) /\ f[b] \in Int
  BY BalanceNat
<1>4. SumOn(m) \in Int /\ SumOn(m) = SumOn(f)
  <2> HIDE DEF D
  <2> QED
    BY <1>2, SumOverMore
<1>5. SumOn(f) = Sums(f, D)[D] /\ SumOn(q) = Sums(q, D)[D]
  <2>1. SumOn(f) = Sums(f, DOMAIN f)[DOMAIN f] /\ SumOn(q) = Sums(q, DOMAIN q)[DOMAIN q]
    BY SumIsEntry
  <2> QED
    BY <1>1, <1>3, <2>1
<1> HIDE DEF D, f
<1>6. \A b \in D : q[b] \in Nat
  BY <1>1, BalanceNat
<1>7. \A b \in D : q[b] \in Int
  BY <1>6
<1>8. D \in SUBSET D /\ D \ {a} \in SUBSET D /\ D \ {a} \subseteq D
  OBVIOUS
<1>9. Sums(f, D)[D] = f[a] + Sums(f, D)[D \ {a}] /\ Sums(f, D)[D \ {a}] \in Int
  <2>1. /\ \A s \in SUBSET D : Sums(f, D)[s] \in Int
        /\ \A s \in SUBSET D : \A x \in s : Sums(f, D)[s] = f[x] + Sums(f, D)[s \ {x}]
    BY <1>2, <1>3, SumsTake
  <2> QED
    BY <1>2, <1>8, <2>1
<1>10. Sums(q, D)[D] = q[a] + Sums(q, D)[D \ {a}]
  <2>1. /\ \A s \in SUBSET D : Sums(q, D)[s] \in Int
        /\ \A s \in SUBSET D : \A x \in s : Sums(q, D)[s] = q[x] + Sums(q, D)[s \ {x}]
    <3> DEFINE Taken(g) == /\ \A s \in SUBSET D : Sums(g, D)[s] \in Int
                           /\ \A s \in SUBSET D : \A x \in s : Sums(g, D)[s] = g[x] + Sums(g, D)[s \ {x}]
    <3>1. \A g : (\A x \in D : g[x] \in Int) => Taken(g)
      BY <1>2, SumsTake
    <3> HIDE DEF Taken
    <3>2. Taken(q)
      BY <1>7, <3>1
    <3> QED
      BY <3>2 DEF Taken
  <2> QED
    BY <1>2, <1>8, <2>1
<1>11. Sums(f, D)[D \ {a}] = Sums(q, D)[D \ {a}]
  <2>1. \A b \in D \ {a} : f[b] = q[b]
    BY <1>1, <1>3
  <2> QED
    BY <1>2, <1>3, <1>7, <1>8, <2>1, SumsAgree
<1>12. IsLedger(q)
  BY <1>1, <1>2, <1>6 DEF IsLedger
<1>13. f[a] = Balance(m, a) /\ Balance(m, a) \in Nat
  BY <1>2, <1>3, BalanceNat
<1> QED
  BY <1>1, <1>4, <1>5, <1>9, <1>10, <1>11, <1>12, <1>13

(* A result has its fields; q is r with n more at a.                     *)
IsResult(r) == {"ok", "m", "i", "due"} \subseteq DOMAIN r
Adds(r, q, a, n) ==
  /\ r.ok /\ IsLedger(q.m) /\ SumOn(r.m) \in Int /\ SumOn(q.m) = SumOn(r.m) + n
  /\ Balance(q.m, a) = Balance(r.m, a) + n
  /\ \A b : b # a => Balance(q.m, b) = Balance(r.m, b)
  /\ q.i = r.i /\ q.due = r.due

(* Crediting and debiting an address.                                    *)
LEMMA CreditFacts ==
  ASSUME NEW r, IsResult(r), NEW a, NEW n \in Nat, NEW q, q = Credit(r, a, n)
  PROVE  IsResult(q) /\ (q.ok => r.ok) /\ (q.ok /\ IsLedger(r.m) => Adds(r, q, a, n))
<1> DEFINE m == Set(r.m, a, Balance(r.m, a) + n)
<1>1. CASE ~r.ok
  BY <1>1 DEF Credit
<1>2. CASE r.ok
  <2>1. q = [r EXCEPT !.m = m]
    BY <1>2 DEF Credit
  <2> HIDE DEF m
  <2>2. IsResult(q) /\ q.ok = r.ok /\ q.m = m /\ q.i = r.i /\ q.due = r.due
    BY <2>1 DEF IsResult
  <2>3. ASSUME IsLedger(r.m) PROVE Adds(r, q, a, n)
    <3>1. Balance(r.m, a) \in Nat
      BY <2>3, BalanceNat
    <3>2. /\ IsLedger(m) /\ SumOn(r.m) \in Int
          /\ SumOn(m) = SumOn(r.m) - Balance(r.m, a) + (Balance(r.m, a) + n)
          /\ Balance(m, a) = Balance(r.m, a) + n /\ \A b : b # a => Balance(m, b) = Balance(r.m, b)
      <4>1. Balance(r.m, a) + n \in Nat
        BY <3>1
      <4> QED
        BY <2>3, <4>1, SumAfterSet DEF m
    <3>3. SumOn(m) = SumOn(r.m) + n
      BY <3>1, <3>2
    <3> QED
      BY <1>2, <2>2, <3>2, <3>3 DEF Adds
  <2> QED
    BY <1>2, <2>2, <2>3
<1> QED
  BY <1>1, <1>2

LEMMA DebitFacts ==
  ASSUME NEW r, IsResult(r), NEW a, NEW n \in Nat, NEW q, q = Debit(r, a, n)
  PROVE  IsResult(q) /\ (q.ok => r.ok) /\ (q.ok /\ IsLedger(r.m) => Adds(r, q, a, -n))
<1> DEFINE m == Set(r.m, a, Balance(r.m, a) - n)
<1>1. CASE ~r.ok
  BY <1>1 DEF Debit
<1>2. CASE r.ok /\ Balance(r.m, a) < n
  <2>1. q = [r EXCEPT !.ok = FALSE]
    BY <1>2 DEF Debit
  <2> QED
    BY <2>1 DEF IsResult
<1>3. CASE r.ok /\ ~(Balance(r.m, a) < n)
  <2>1. q = [r EXCEPT !.m = m]
    BY <1>3 DEF Debit
  <2> HIDE DEF m
  <2>2. IsResult(q) /\ q.ok = r.ok /\ q.m = m /\ q.i = r.i /\ q.due = r.due
    BY <2>1 DEF IsResult
  <2>3. ASSUME IsLedger(r.m) PROVE Adds(r, q, a, -n)
    <3>1. Balance(r.m, a) \in Nat
      BY <2>3, BalanceNat
    <3>2. /\ IsLedger(m) /\ SumOn(r.m) \in Int
          /\ SumOn(m) = SumOn(r.m) - Balance(r.m, a) + (Balance(r.m, a) - n)
          /\ Balance(m, a) = Balance(r.m, a) - n /\ \A b : b # a => Balance(m, b) = Balance(r.m, b)
      <4>1. Balance(r.m, a) - n \in Nat
        BY <1>3, <3>1
      <4> QED
        BY <2>3, <4>1, SumAfterSet DEF m
    <3>3. SumOn(m) = SumOn(r.m) + (-n) /\ Balance(m, a) = Balance(r.m, a) + (-n)
      BY <3>1, <3>2
    <3> QED
      BY <1>3, <2>2, <3>2, <3>3 DEF Adds
  <2> QED
    BY <1>3, <2>2, <2>3
<1> QED
  BY <1>1, <1>2, <1>3

-----------------------------------------------------------------------------
(* What a marker does to the ledger.                                     *)

(* An infusion state in which an equal amount backs every atom.          *)
Backing(i) ==
  /\ {"active", "melted", "max", "lifetime", "infused", "per"} \subseteq DOMAIN i
  /\ i.max \in Nat /\ i.infused \in Nat /\ i.per \in Nat
  /\ i.infused = i.per * i.max
(* A ledger that has total units in it or due to a pool's miners, with   *)
(* enough in the vault.                                                  *)
Held(r, total, miner) ==
  r.ok => /\ IsLedger(r.m) /\ r.due \in Nat /\ SumOn(r.m) + r.due = total
          /\ Backing(r.i) /\ Balance(r.m, Jin.vault) >= r.i.infused
          /\ miner # NoMiner => r.due = 0

(* Some of the settings.                                                 *)
LEMMA JinNumbers ==
  /\ Jin.max_atoms \in Nat \ {0} /\ Jin.bootstrap \in Nat /\ Jin.bootstrap % Jin.max_atoms = 0
  /\ Jin.bootstrap <= Jin.supply /\ Jin.supply \in Nat
  /\ Jin.active \in Nat \ {0} /\ Jin.infusion_active \in Nat \ {0} /\ Jin.active <= Jin.infusion_active
  /\ Jin.protocol # Jin.vault /\ Jin.vault \notin Addresses
BY JinAssumption DEF JinSettings

(* A condition that is required.                                         *)
LEMMA RequireFacts ==
  ASSUME NEW r, IsResult(r), NEW condition \in BOOLEAN, NEW q, q = Require(r, condition)
  PROVE  IsResult(q) /\ (q.ok => condition /\ q = r)
BY DEF Require, IsResult

(* Units infused keep the backing equal, and so do atoms melted.         *)
LEMMA InfusedBacking ==
  ASSUME NEW i, Backing(i), NEW units \in Nat, i.max > 0, units % i.max = 0, NEW j, j = Infused(i, units)
  PROVE  Backing(j) /\ j.infused = i.infused + units
<1> DEFINE d == units \div i.max
<1>1. i.max \in Nat \ {0} /\ i.infused \in Nat /\ i.per \in Nat /\ i.infused = i.per * i.max
  BY DEF Backing
<1>2. d \in Nat /\ units = d * i.max
  <2> DEFINE x == i.max
  <2>1. x \in Nat \ {0} /\ units % x = 0
    BY <1>1
  <2> HIDE DEF x
  <2>2. units \div x \in Nat /\ units = x * (units \div x) + (units % x)
    BY <2>1
  <2> QED
    BY <2>1, <2>2 DEF x
<1>3. /\ DOMAIN j = DOMAIN i /\ j.max = i.max
      /\ j.infused = i.infused + units /\ j.per = i.per + d
  BY DEF Infused, Backing
<1> HIDE DEF d
<1>4. (i.per + d) * i.max = i.per * i.max + d * i.max
  BY <1>1, <1>2
<1> QED
  BY <1>1, <1>2, <1>3, <1>4 DEF Backing

LEMMA MeltedBacking ==
  ASSUME NEW i, Backing(i), NEW atoms \in 1..i.max, i.infused >= atoms * i.per,
         NEW j, j = AfterMelt(i, atoms)
  PROVE  Backing(j) /\ atoms * i.per \in Nat /\ j.infused = i.infused - atoms * i.per
<1>1. i.max \in Nat /\ i.infused \in Nat /\ i.per \in Nat /\ i.infused = i.per * i.max
  BY DEF Backing
<1>2. atoms \in Nat /\ i.max - atoms \in Nat
  BY <1>1
<1>3. /\ DOMAIN j = DOMAIN i /\ j.max = i.max - atoms
      /\ j.infused = i.infused - atoms * i.per /\ j.per = i.per
  BY DEF AfterMelt, Backing
<1>4. i.per * (i.max - atoms) = i.per * i.max - atoms * i.per /\ atoms * i.per \in Nat
  BY <1>1, <1>2
<1> QED
  BY <1>1, <1>2, <1>3, <1>4 DEF Backing

(* Units move from one address to another.                               *)
Moves(r, q, from, to, n) ==
  /\ IsLedger(q.m) /\ SumOn(q.m) = SumOn(r.m) /\ q.i = r.i /\ q.due = r.due
  /\ Balance(q.m, from) = Balance(r.m, from) - n /\ Balance(q.m, to) = Balance(r.m, to) + n
  /\ \A b : b # from /\ b # to => Balance(q.m, b) = Balance(r.m, b)
LEMMA MoveFacts ==
  ASSUME NEW r, IsResult(r), NEW from, NEW to, from # to, NEW n \in Nat, NEW q, q = Move(r, from, to, n)
  PROVE  IsResult(q) /\ (q.ok => r.ok) /\ (q.ok /\ IsLedger(r.m) => Moves(r, q, from, to, n))
<1> DEFINE d == Debit(r, from, n)
<1>1. IsResult(d) /\ (d.ok => r.ok) /\ (d.ok /\ IsLedger(r.m) => Adds(r, d, from, -n))
  BY DebitFacts
<1>2. q = Credit(d, to, n)
  BY DEF Move
<1> HIDE DEF d
<1>3. IsResult(q) /\ (q.ok => d.ok) /\ (q.ok /\ IsLedger(d.m) => Adds(d, q, to, n))
  BY <1>1, <1>2, CreditFacts
<1>4. ASSUME q.ok, IsLedger(r.m) PROVE Moves(r, q, from, to, n)
  <2>1. /\ IsLedger(d.m) /\ SumOn(r.m) \in Int /\ SumOn(d.m) = SumOn(r.m) + (-n)
        /\ Balance(d.m, from) = Balance(r.m, from) + (-n)
        /\ \A b : b # from => Balance(d.m, b) = Balance(r.m, b)
        /\ d.i = r.i /\ d.due = r.due
    BY <1>1, <1>3, <1>4 DEF Adds
  <2>2. /\ IsLedger(q.m) /\ SumOn(q.m) = SumOn(d.m) + n
        /\ Balance(q.m, to) = Balance(d.m, to) + n
        /\ \A b : b # to => Balance(q.m, b) = Balance(d.m, b)
        /\ q.i = d.i /\ q.due = d.due
    BY <1>3, <1>4, <2>1 DEF Adds
  <2>3. Balance(r.m, from) \in Nat
    BY <1>4, BalanceNat
  <2>4. SumOn(q.m) = SumOn(r.m) /\ Balance(q.m, from) = Balance(r.m, from) - n
    BY <2>1, <2>2, <2>3
  <2> QED
    BY <2>1, <2>2, <2>4 DEF Moves
<1> QED
  BY <1>1, <1>3, <1>4

(* The markers that a confirmed transaction may carry.                   *)
IsSettled(o) == IsPurchase(o) \/ IsJinTransfer(o) \/ IsJinConversion(o)

(* A purchase moves units of the protocol's.                             *)
LEMMA PurchaseHeld ==
  ASSUME NEW r, IsResult(r), NEW total \in Int, NEW miner, Held(r, total, miner),
         NEW o, IsPurchase(o), NEW q, q = ApplyPurchase(r, o.s)
  PROVE  IsResult(q) /\ Held(q, total, miner) /\ (q.ok => r.ok /\ q.i = r.i)
<1> DEFINE p == Jin.protocol
           a == o.s.buyer
           n == o.s.amount
<1>0. n \in Nat /\ a \in Addresses /\ p # Jin.vault /\ a # Jin.vault /\ p \in Addresses
  BY JinNumbers, JinAssumption DEF IsPurchase
<1>1. q = Move(r, p, a, n)
  BY DEF ApplyPurchase
<1> HIDE DEF p, a, n
<1>2. CASE p # a
  <2>1. IsResult(q) /\ (q.ok => r.ok) /\ (q.ok /\ IsLedger(r.m) => Moves(r, q, p, a, n))
    BY <1>0, <1>1, <1>2, MoveFacts
  <2>2. p # Jin.vault
    BY <1>0
  <2> QED
    BY <1>0, <2>1, <2>2 DEF Held, Moves
<1>3. CASE p = a
  <2> DEFINE d == Debit(r, p, n)
  <2>1. IsResult(d) /\ (d.ok => r.ok) /\ (d.ok /\ IsLedger(r.m) => Adds(r, d, p, -n))
    BY <1>0, DebitFacts
  <2>2. q = Credit(d, p, n)
    BY <1>1, <1>3 DEF Move
  <2> HIDE DEF d
  <2>3. IsResult(q) /\ (q.ok => d.ok) /\ (q.ok /\ IsLedger(d.m) => Adds(d, q, p, n))
    BY <1>0, <2>1, <2>2, CreditFacts
  <2> QED
    BY <1>0, <2>1, <2>3 DEF Held, Adds
<1> QED
  BY <1>2, <1>3

(* The fee of a transfer is paid at once, or is due to a pool's miners.  *)
LEMMA PayMinerFacts ==
  ASSUME NEW r, IsResult(r), NEW fee \in Nat, NEW miner, NEW q, q = PayMiner(r, fee, miner)
  PROVE  /\ IsResult(q) /\ (q.ok => r.ok)
         /\ q.ok /\ IsLedger(r.m) /\ r.due \in Nat =>
              /\ IsLedger(q.m) /\ SumOn(r.m) \in Int /\ q.due \in Nat /\ SumOn(q.m) + q.due = SumOn(r.m) + r.due + fee
              /\ \A b : Balance(q.m, b) >= Balance(r.m, b)
              /\ q.i = r.i /\ (miner # NoMiner => q.due = r.due)
<1>0. ASSUME IsLedger(r.m), NEW b PROVE Balance(r.m, b) \in Nat
  BY <1>0, BalanceNat
<1>1. ASSUME IsLedger(r.m) PROVE SumOn(r.m) \in Int
  <2>1. IsFiniteSet(DOMAIN r.m)
    BY <1>1 DEF IsLedger
  <2> QED
    BY <1>1, <2>1, SumOverMore
<1>2. CASE miner = NoMiner
  <2>1. q = [r EXCEPT !.due = @ + fee]
    BY <1>2 DEF PayMiner
  <2>2. IsResult(q) /\ q.ok = r.ok /\ q.m = r.m /\ q.i = r.i /\ q.due = r.due + fee
    BY <2>1 DEF IsResult
  <2> QED
    BY <1>0, <1>1, <1>2, <2>2
<1>3. CASE miner # NoMiner /\ fee > 0
  <2>1. q = Credit(r, miner, fee)
    BY <1>3 DEF PayMiner
  <2>2. IsResult(q) /\ (q.ok => r.ok) /\ (q.ok /\ IsLedger(r.m) => Adds(r, q, miner, fee))
    BY <2>1, CreditFacts
  <2> QED
    BY <1>0, <1>3, <2>2 DEF Adds
<1>4. CASE miner # NoMiner /\ ~(fee > 0)
  <2>1. q = r /\ fee = 0
    BY <1>4 DEF PayMiner
  <2> QED
    BY <1>0, <1>1, <1>4, <2>1
<1> QED
  BY <1>2, <1>3, <1>4

(* A transfer or a conversion.                                           *)
LEMMA TransferHeld ==
  ASSUME NEW r, IsResult(r), NEW total \in Int, NEW miner, Held(r, total, miner),
         NEW o, IsJinTransfer(o) \/ IsJinConversion(o), NEW q, q = ApplyTransfer(r, o.s, miner)
  PROVE  IsResult(q) /\ Held(q, total, miner) /\ (q.ok => r.ok /\ q.i = r.i)
<1> DEFINE n == o.s.amount
           fee == JinFee(o.s)
           from == o.s.from
           to == IF o.s.k = "jin_transfer" THEN o.s.to ELSE Jin.protocol
           d == Debit(r, from, n + fee)
           e == Credit(d, to, n)
<1>0. n \in Nat /\ fee \in Nat /\ n + fee \in Nat /\ from # Jin.vault
  BY JinNumbers DEF IsJinTransfer, IsJinConversion, JinFee
<1>1. q = PayMiner(e, fee, miner)
  BY DEF ApplyTransfer
<1> HIDE DEF n, fee, from, to
<1>2. IsResult(d) /\ (d.ok => r.ok) /\ (d.ok /\ IsLedger(r.m) => Adds(r, d, from, -(n + fee)))
  BY <1>0, DebitFacts
<1> HIDE DEF d
<1>3. IsResult(e) /\ (e.ok => d.ok) /\ (e.ok /\ IsLedger(d.m) => Adds(d, e, to, n))
  BY <1>0, <1>2, CreditFacts
<1> HIDE DEF e
<1>4. /\ IsResult(q) /\ (q.ok => e.ok)
      /\ q.ok /\ IsLedger(e.m) /\ e.due \in Nat =>
           /\ IsLedger(q.m) /\ SumOn(e.m) \in Int /\ q.due \in Nat /\ SumOn(q.m) + q.due = SumOn(e.m) + e.due + fee
           /\ \A b : Balance(q.m, b) >= Balance(e.m, b)
           /\ q.i = e.i /\ (miner # NoMiner => q.due = e.due)
  BY <1>0, <1>1, <1>3, PayMinerFacts
<1>5. ASSUME q.ok
      PROVE  /\ r.ok /\ q.i = r.i
             /\ IsLedger(q.m) /\ q.due \in Nat /\ SumOn(q.m) + q.due = total
             /\ Backing(q.i) /\ Balance(q.m, Jin.vault) >= q.i.infused
             /\ miner # NoMiner => q.due = 0
  <2>1. /\ r.ok /\ IsLedger(r.m) /\ r.due \in Nat /\ SumOn(r.m) + r.due = total
        /\ Backing(r.i) /\ Balance(r.m, Jin.vault) >= r.i.infused
        /\ miner # NoMiner => r.due = 0
    BY <1>2, <1>3, <1>4, <1>5 DEF Held
  <2>2. /\ IsLedger(d.m) /\ SumOn(r.m) \in Int /\ SumOn(d.m) = SumOn(r.m) + (-(n + fee))
        /\ Balance(d.m, Jin.vault) = Balance(r.m, Jin.vault)
        /\ d.i = r.i /\ d.due = r.due
    BY <1>0, <1>2, <1>3, <1>4, <1>5, <2>1 DEF Adds
  <2>3. /\ IsLedger(e.m) /\ SumOn(e.m) = SumOn(d.m) + n
        /\ (Jin.vault # to => Balance(e.m, Jin.vault) = Balance(d.m, Jin.vault))
        /\ (Jin.vault = to => Balance(e.m, Jin.vault) = Balance(d.m, Jin.vault) + n)
        /\ e.i = d.i /\ e.due = d.due
    BY <1>3, <1>4, <1>5, <2>2 DEF Adds
  <2>4. Balance(d.m, Jin.vault) \in Nat /\ Balance(e.m, Jin.vault) \in Nat /\ Balance(q.m, Jin.vault) \in Nat
    BY <1>4, <1>5, <2>1, <2>2, <2>3, BalanceNat
  <2>5. /\ IsLedger(q.m) /\ q.due \in Nat /\ SumOn(q.m) + q.due = SumOn(e.m) + e.due + fee
        /\ Balance(q.m, Jin.vault) >= Balance(e.m, Jin.vault)
        /\ q.i = e.i /\ (miner # NoMiner => q.due = e.due)
    BY <1>4, <1>5, <2>1, <2>2, <2>3
  <2>6. SumOn(q.m) + q.due = total
    BY <1>0, <2>1, <2>2, <2>3, <2>5
  <2>7. r.i.infused \in Nat
    BY <2>1 DEF Backing
  <2>8. Balance(q.m, Jin.vault) >= r.i.infused
    BY <1>0, <2>1, <2>2, <2>3, <2>4, <2>5, <2>7
  <2> QED
    BY <2>1, <2>2, <2>3, <2>5, <2>6, <2>8
<1> QED
  BY <1>4, <1>5 DEF Held

(* The infusion state after a marker is known by the one before it.      *)
LEMMA InfusionStateFacts ==
  ASSUME NEW r, IsResult(r), Backing(r.i), NEW o, IsInfusionMarker(o), NEW q, q = ApplyInfusionState(r, o.s)
  PROVE  /\ IsResult(q) /\ q.m = r.m /\ q.due = r.due
         /\ q.ok =>
              /\ r.ok /\ Backing(q.i)
              /\ o.s.k = "jin_infuse" => q.i.infused = r.i.infused + o.s.amount
              /\ o.s.k # "jin_infuse" =>
                   o.s.atoms * r.i.per \in Nat /\ q.i.per = r.i.per /\ q.i.infused = r.i.infused - o.s.atoms * r.i.per
<1> DEFINE k == o.s
<1>1. CASE q = [r EXCEPT !.ok = FALSE]
  BY <1>1 DEF IsResult
<1>2. CASE /\ k.k = "jin_infuse" /\ r.ok /\ k.amount > 0 /\ r.i.max > 0 /\ k.amount % r.i.max = 0
           /\ q = [r EXCEPT !.i = Infused(@, k.amount)]
  <2> DEFINE j == Infused(r.i, k.amount)
  <2>1. k.amount \in Nat
    BY <1>2 DEF IsInfusionMarker
  <2>2. Backing(j) /\ j.infused = r.i.infused + k.amount
    BY <1>2, <2>1, InfusedBacking
  <2>3. q = [r EXCEPT !.i = j]
    BY <1>2
  <2> HIDE DEF j
  <2>4. IsResult(q) /\ q.m = r.m /\ q.due = r.due /\ q.ok = r.ok /\ q.i = j
    BY <2>3 DEF IsResult
  <2> QED
    BY <1>2, <2>2, <2>4
<1>3. CASE /\ k.k # "jin_infuse" /\ r.ok /\ k.atoms \in 1..r.i.max /\ r.i.infused >= k.atoms * r.i.per
           /\ q = [r EXCEPT !.i = AfterMelt(@, k.atoms)]
  <2> DEFINE j == AfterMelt(r.i, k.atoms)
  <2>1. Backing(j) /\ k.atoms * r.i.per \in Nat /\ j.infused = r.i.infused - k.atoms * r.i.per
    BY <1>3, MeltedBacking
  <2>2. j.per = r.i.per
    BY DEF AfterMelt, Backing
  <2>3. q = [r EXCEPT !.i = j]
    BY <1>3
  <2> HIDE DEF j
  <2>4. IsResult(q) /\ q.m = r.m /\ q.due = r.due /\ q.ok = r.ok /\ q.i = j
    BY <2>3 DEF IsResult
  <2> QED
    BY <1>3, <2>1, <2>2, <2>4
<1>4. \/ q = [r EXCEPT !.ok = FALSE]
      \/ /\ k.k = "jin_infuse" /\ r.ok /\ k.amount > 0 /\ r.i.max > 0 /\ k.amount % r.i.max = 0
         /\ q = [r EXCEPT !.i = Infused(@, k.amount)]
      \/ /\ k.k # "jin_infuse" /\ r.ok /\ k.atoms \in 1..r.i.max /\ r.i.infused >= k.atoms * r.i.per
         /\ q = [r EXCEPT !.i = AfterMelt(@, k.atoms)]
  BY Zenon DEF ApplyInfusionState, InfuseState, MeltState
<1> QED
  BY <1>1, <1>2, <1>3, <1>4

(* So two results with the same state have the same state after it.      *)
LEMMA SameInfusion ==
  ASSUME NEW r, IsResult(r), NEW x, {"ok", "i"} \subseteq DOMAIN x, x.ok, x.i = r.i,
         NEW k, ApplyInfusionState(r, k).ok
  PROVE  /\ {"ok", "i"} \subseteq DOMAIN ApplyInfusionState(x, k)
         /\ ApplyInfusionState(x, k).ok /\ ApplyInfusionState(x, k).i = ApplyInfusionState(r, k).i
<1> DEFINE q == ApplyInfusionState(r, k)
           y == ApplyInfusionState(x, k)
<1>1. q # [r EXCEPT !.ok = FALSE]
  BY DEF IsResult
<1>2. CASE k.k = "jin_infuse"
  <2>1. /\ r.ok /\ k.amount > 0 /\ r.i.max > 0 /\ k.amount % r.i.max = 0
        /\ q = [r EXCEPT !.i = Infused(r.i, k.amount)]
    BY <1>1, <1>2, Zenon DEF ApplyInfusionState, InfuseState
  <2>2. y = [x EXCEPT !.i = Infused(r.i, k.amount)]
    BY <1>2, <2>1 DEF ApplyInfusionState, InfuseState
  <2> HIDE DEF q, y
  <2> QED
    BY <2>1, <2>2 DEF IsResult, q, y
<1>3. CASE k.k # "jin_infuse"
  <2>1. /\ r.ok /\ k.atoms \in 1..r.i.max /\ r.i.per > 0 /\ k.atoms * r.i.per >= k.min
        /\ r.i.infused >= k.atoms * r.i.per
        /\ q = [r EXCEPT !.i = AfterMelt(r.i, k.atoms)]
    BY <1>1, <1>3, Zenon DEF ApplyInfusionState, MeltState
  <2>2. y = [x EXCEPT !.i = AfterMelt(r.i, k.atoms)]
    BY <1>3, <2>1, Zenon DEF ApplyInfusionState, MeltState
  <2> HIDE DEF q, y
  <2> QED
    BY <2>1, <2>2 DEF IsResult, q, y
<1> QED
  BY <1>2, <1>3

(* An infusion or a melt moves between an address and the vault what it  *)
(* adds to the backing or takes from it.                                 *)
LEMMA InfusionHeld ==
  ASSUME NEW r, IsResult(r), NEW total \in Int, NEW miner, Held(r, total, miner),
         NEW o, IsInfusionMarker(o), NEW q, q = ApplyInfusion(r, o.s)
  PROVE  /\ IsResult(q) /\ Held(q, total, miner)
         /\ q.ok => r.ok /\ ApplyInfusionState(r, o.s).ok /\ q.i = ApplyInfusionState(r, o.s).i
<1> DEFINE k == o.s
           e == ApplyInfusionState(r, k)
           n == IF k.k = "jin_infuse" THEN k.amount ELSE k.atoms * r.i.per
           from == IF k.k = "jin_infuse" THEN k.from ELSE Jin.vault
           to == IF k.k = "jin_infuse" THEN Jin.vault ELSE k.from
           d == Move(e, from, to, n)
<1>0. from # to
  BY JinNumbers DEF IsInfusionMarker
<1>1. q = Covered(d)
  BY DEF ApplyInfusion
<1>2. IsResult(e)
  <2>1. e \in {[r EXCEPT !.ok = FALSE], [r EXCEPT !.i = Infused(@, k.amount)], [r EXCEPT !.i = AfterMelt(@, k.atoms)]}
    BY Zenon DEF ApplyInfusionState, InfuseState, MeltState
  <2> HIDE DEF e
  <2> QED
    BY <2>1 DEF IsResult
<1>3. IsResult(d) /\ (d.ok => e.ok)
  <2> HIDE DEF e
  <2> DEFINE f == Debit(e, from, n)
  <2>1. d = Credit(f, to, n)
    BY DEF Move
  <2>2. f \in {e, [e EXCEPT !.ok = FALSE], [e EXCEPT !.m = Set(@, from, Balance(@, from) - n)]}
    BY Zenon DEF Debit
  <2> HIDE DEF f, from, to, n
  <2>3. IsResult(f) /\ (f.ok => e.ok)
    BY <1>2, <2>2 DEF IsResult
  <2>4. d \in {f, [f EXCEPT !.m = Set(@, to, Balance(@, to) + n)]}
    BY <2>1, Zenon DEF Credit
  <2> HIDE DEF d
  <2> QED
    BY <2>3, <2>4 DEF IsResult
<1>4. IsResult(q) /\ (q.ok => q = d)
  <2> HIDE DEF d
  <2>1. q = Require(d, d.i.infused <= d.i.lifetime)
    BY <1>1 DEF Covered
  <2> QED
    BY <1>3, <2>1 DEF Require, IsResult
<1>5. ASSUME q.ok
      PROVE  /\ r.ok /\ e.ok /\ q.i = e.i
             /\ IsLedger(q.m) /\ q.due \in Nat /\ SumOn(q.m) + q.due = total
             /\ Backing(q.i) /\ Balance(q.m, Jin.vault) >= q.i.infused
             /\ miner # NoMiner => q.due = 0
  <2>1. q = d /\ e.ok
    BY <1>3, <1>4, <1>5
  <2>2. r.ok
    <3>1. e \in {[r EXCEPT !.ok = FALSE], [r EXCEPT !.i = Infused(@, k.amount)], [r EXCEPT !.i = AfterMelt(@, k.atoms)]}
      BY Zenon DEF ApplyInfusionState, InfuseState, MeltState
    <3> HIDE DEF e
    <3> QED
      BY <2>1, <3>1 DEF IsResult
  <2>3. /\ IsLedger(r.m) /\ r.due \in Nat /\ SumOn(r.m) + r.due = total
        /\ Backing(r.i) /\ Balance(r.m, Jin.vault) >= r.i.infused
        /\ miner # NoMiner => r.due = 0
    BY <2>2 DEF Held
  <2>4. /\ e.m = r.m /\ e.due = r.due /\ Backing(e.i)
        /\ k.k = "jin_infuse" => e.i.infused = r.i.infused + k.amount
        /\ k.k # "jin_infuse" =>
             k.atoms * r.i.per \in Nat /\ e.i.per = r.i.per /\ e.i.infused = r.i.infused - k.atoms * r.i.per
    <3> HIDE DEF e
    <3>1. e = ApplyInfusionState(r, o.s)
      BY DEF e
    <3> QED
      BY <2>1, <2>3, <3>1, InfusionStateFacts
  <2>5. n \in Nat
    BY <2>4 DEF IsInfusionMarker
  <2>6. e.i.infused = IF from = Jin.vault THEN r.i.infused - n ELSE r.i.infused + n
    BY <1>0, <2>4
  <2>7. from = Jin.vault \/ to = Jin.vault
    OBVIOUS
  <2> HIDE DEF e, from, to, n
  <2>8. d = Move(e, from, to, n)
    OBVIOUS
  <2> HIDE DEF d
  <2>9. /\ IsLedger(d.m) /\ SumOn(d.m) = SumOn(e.m) /\ d.i = e.i /\ d.due = e.due
        /\ Balance(d.m, from) = Balance(e.m, from) - n /\ Balance(d.m, to) = Balance(e.m, to) + n
    <3>1. d.ok /\ IsLedger(e.m)
      BY <1>5, <2>1, <2>3, <2>4
    <3>2. d.ok /\ IsLedger(e.m) => Moves(e, d, from, to, n)
      BY <1>0, <1>2, <2>5, <2>8, MoveFacts
    <3> QED
      BY <3>1, <3>2 DEF Moves
  <2>10. Balance(r.m, Jin.vault) \in Nat /\ r.i.infused \in Nat
    BY <2>3, BalanceNat DEF Backing
  <2>11. Balance(d.m, Jin.vault) >= e.i.infused
    BY <1>0, <2>3, <2>4, <2>5, <2>6, <2>7, <2>9, <2>10
  <2> QED
    BY <2>1, <2>2, <2>3, <2>4, <2>9, <2>11
<1> QED
  BY <1>4, <1>5 DEF Held

-----------------------------------------------------------------------------
(* What a transaction and a block do to the ledger.                      *)

(* The markers of a transaction, picked from its outputs.                *)
KeepPurchase(c, s, o) == IF IsPurchase(o) THEN Append(s, o) ELSE s
KeepTransfer(c, s, o) == IF IsJinTransfer(o) THEN Append(s, o) ELSE s
KeepConversion(c, s, o) == IF IsJinConversion(o) THEN Append(s, o) ELSE s
KeepInfusion(c, s, o) == IF IsInfusionMarker(o) THEN Append(s, o) ELSE s
PurchaseFold == INSTANCE FoldFacts WITH Op <- KeepPurchase, Inv <- Never
TransferFold == INSTANCE FoldFacts WITH Op <- KeepTransfer, Inv <- Never
ConversionFold == INSTANCE FoldFacts WITH Op <- KeepConversion, Inv <- Never
InfusionFold == INSTANCE FoldFacts WITH Op <- KeepInfusion, Inv <- Never

(* The outputs of a transaction are a list.                              *)
OutsListed(tx) == IsList(tx.outs)
LEMMA StatelessOuts ==
  ASSUME NEW tx, StatelessOK(tx)
  PROVE  OutsListed(tx)
<1>1. IsList(<<>>)
  BY DEF IsList
<1>2. tx.outs = <<>> \/ IsList(tx.outs)
  BY Zenon DEF StatelessOK, IsShare
<1> QED
  BY <1>1, <1>2 DEF OutsListed

LEMMA ListedOuts ==
  ASSUME NEW tx, OutsListed(tx)
  PROVE  /\ Len(tx.outs) \in Nat /\ DOMAIN tx.outs = 1..Len(tx.outs)
         /\ \A i \in 1..Len(tx.outs) : tx.outs[i] \in ToSet(tx.outs)
BY DEF OutsListed, IsList, ToSet

(* A sequence over some of the outputs.                                  *)
LEMMA SeqOfSome ==
  ASSUME NEW T, NEW r, r \in Seq(T)
  PROVE  IsSeq(r) /\ Len(r) \in Nat /\ DOMAIN r = 1..Len(r) /\ \A i \in 1..Len(r) : r[i] \in T
<1>1. Len(r) \in Nat /\ DOMAIN r = 1..Len(r) /\ \A i \in 1..Len(r) : r[i] \in T
  OBVIOUS
<1> QED
  BY <1>1, SeqOver

LEMMA PurchaseList ==
  ASSUME NEW tx, OutsListed(tx)
  PROVE  IsSeq(Purchases(tx)) /\ \A i \in 1..Len(Purchases(tx)) : IsPurchase(Purchases(tx)[i])
<1> DEFINE n == Len(tx.outs)
           T == {o \in ToSet(tx.outs) : IsPurchase(o)}
           r == PurchaseFold!Fold(0, <<>>, tx.outs)
<1>1. n \in Nat /\ DOMAIN tx.outs = 1..n /\ \A i \in 1..n : tx.outs[i] \in ToSet(tx.outs)
  BY ListedOuts
<1>2. Purchases(tx) = r
  BY Zenon DEF Purchases, Where, KeepPurchase, Folded, PurchaseFold!Fold, PurchaseFold!Table
<1>3. \A i \in 1..n : \A s : KeepPurchase(0, s, tx.outs[i]) = IF tx.outs[i] \in T THEN Append(s, tx.outs[i]) ELSE s
  BY <1>1 DEF KeepPurchase
<1>4. r \in Seq(T)
  <2>1. PurchaseFold!Picked(tx.outs, n, T, r)
    <3> HIDE DEF T, n
    <3> QED
      BY <1>1, <1>3, PurchaseFold!FilterFacts
  <2> QED
    BY <2>1 DEF PurchaseFold!Picked
<1> HIDE DEF r
<1>5. IsSeq(r) /\ \A i \in 1..Len(r) : r[i] \in T
  BY <1>4, SeqOfSome
<1> QED
  BY <1>2, <1>5

LEMMA TransferList ==
  ASSUME NEW tx, OutsListed(tx)
  PROVE  IsSeq(Transfers(tx)) /\ \A i \in 1..Len(Transfers(tx)) : IsJinTransfer(Transfers(tx)[i])
<1> DEFINE n == Len(tx.outs)
           T == {o \in ToSet(tx.outs) : IsJinTransfer(o)}
           r == TransferFold!Fold(0, <<>>, tx.outs)
<1>1. n \in Nat /\ DOMAIN tx.outs = 1..n /\ \A i \in 1..n : tx.outs[i] \in ToSet(tx.outs)
  BY ListedOuts
<1>2. Transfers(tx) = r
  BY Zenon DEF Transfers, Where, KeepTransfer, Folded, TransferFold!Fold, TransferFold!Table
<1>3. \A i \in 1..n : \A s : KeepTransfer(0, s, tx.outs[i]) = IF tx.outs[i] \in T THEN Append(s, tx.outs[i]) ELSE s
  BY <1>1 DEF KeepTransfer
<1>4. r \in Seq(T)
  <2>1. TransferFold!Picked(tx.outs, n, T, r)
    <3> HIDE DEF T, n
    <3> QED
      BY <1>1, <1>3, TransferFold!FilterFacts
  <2> QED
    BY <2>1 DEF TransferFold!Picked
<1> HIDE DEF r
<1>5. IsSeq(r) /\ \A i \in 1..Len(r) : r[i] \in T
  BY <1>4, SeqOfSome
<1> QED
  BY <1>2, <1>5

LEMMA ConversionList ==
  ASSUME NEW tx, OutsListed(tx)
  PROVE  IsSeq(Conversions(tx)) /\ \A i \in 1..Len(Conversions(tx)) : IsJinConversion(Conversions(tx)[i])
<1> DEFINE n == Len(tx.outs)
           T == {o \in ToSet(tx.outs) : IsJinConversion(o)}
           r == ConversionFold!Fold(0, <<>>, tx.outs)
<1>1. n \in Nat /\ DOMAIN tx.outs = 1..n /\ \A i \in 1..n : tx.outs[i] \in ToSet(tx.outs)
  BY ListedOuts
<1>2. Conversions(tx) = r
  BY Zenon DEF Conversions, Where, KeepConversion, Folded, ConversionFold!Fold, ConversionFold!Table
<1>3. \A i \in 1..n : \A s : KeepConversion(0, s, tx.outs[i]) = IF tx.outs[i] \in T THEN Append(s, tx.outs[i]) ELSE s
  BY <1>1 DEF KeepConversion
<1>4. r \in Seq(T)
  <2>1. ConversionFold!Picked(tx.outs, n, T, r)
    <3> HIDE DEF T, n
    <3> QED
      BY <1>1, <1>3, ConversionFold!FilterFacts
  <2> QED
    BY <2>1 DEF ConversionFold!Picked
<1> HIDE DEF r
<1>5. IsSeq(r) /\ \A i \in 1..Len(r) : r[i] \in T
  BY <1>4, SeqOfSome
<1> QED
  BY <1>2, <1>5

LEMMA InfusionList ==
  ASSUME NEW tx, OutsListed(tx)
  PROVE  IsSeq(InfusionMarkers(tx)) /\ \A i \in 1..Len(InfusionMarkers(tx)) : IsInfusionMarker(InfusionMarkers(tx)[i])
<1> DEFINE n == Len(tx.outs)
           T == {o \in ToSet(tx.outs) : IsInfusionMarker(o)}
           r == InfusionFold!Fold(0, <<>>, tx.outs)
<1>1. n \in Nat /\ DOMAIN tx.outs = 1..n /\ \A i \in 1..n : tx.outs[i] \in ToSet(tx.outs)
  BY ListedOuts
<1>2. InfusionMarkers(tx) = r
  BY Zenon DEF InfusionMarkers, Where, KeepInfusion, Folded, InfusionFold!Fold, InfusionFold!Table
<1>3. \A i \in 1..n : \A s : KeepInfusion(0, s, tx.outs[i]) = IF tx.outs[i] \in T THEN Append(s, tx.outs[i]) ELSE s
  BY <1>1 DEF KeepInfusion
<1>4. r \in Seq(T)
  <2>1. InfusionFold!Picked(tx.outs, n, T, r)
    <3> HIDE DEF T, n
    <3> QED
      BY <1>1, <1>3, InfusionFold!FilterFacts
  <2> QED
    BY <2>1 DEF InfusionFold!Picked
<1> HIDE DEF r
<1>5. IsSeq(r) /\ \A i \in 1..Len(r) : r[i] \in T
  BY <1>4, SeqOfSome
<1> QED
  BY <1>2, <1>5

(* The purchases, transfers and conversions of a transaction.            *)
Settled(tx) == Purchases(tx) \o Transfers(tx) \o Conversions(tx)
LEMMA ConcatElements ==
  ASSUME NEW s, IsSeq(s), NEW t, IsSeq(t), NEW i \in 1..Len(s \o t)
  PROVE  (\E j \in 1..Len(s) : (s \o t)[i] = s[j]) \/ \E j \in 1..Len(t) : (s \o t)[i] = t[j]
<1> DEFINE l == Len(s)
           m == Len(t)
           all == s \o t
<1>1. l \in Nat /\ m \in Nat
  BY SeqDomain
<1>2. DOMAIN all = 1..(l + m) /\ (\A j \in 1..l : all[j] = s[j]) /\ \A j \in 1..m : all[l + j] = t[j]
  BY ConcatPlaces
<1>3. Len(all) = l + m
  BY <1>1, <1>2, PurchaseFold!LengthByDomain
<1> HIDE DEF all, l, m
<1>4. i \in 1..(l + m)
  BY <1>3 DEF all
<1>5. CASE i <= l
  <2>1. i \in 1..l
    BY <1>1, <1>4, <1>5
  <2> QED
    BY <1>2, <2>1 DEF all, l
<1>6. CASE ~(i <= l)
  <2>1. i - l \in 1..m /\ l + (i - l) = i
    BY <1>1, <1>4, <1>6
  <2>2. all[l + (i - l)] = t[i - l]
    BY <1>2, <2>1
  <2> QED
    BY <2>1, <2>2 DEF all, m
<1> QED
  BY <1>5, <1>6
LEMMA SettledList ==
  ASSUME NEW tx, OutsListed(tx)
  PROVE  IsSeq(Settled(tx)) /\ \A i \in 1..Len(Settled(tx)) : IsSettled(Settled(tx)[i])
<1> DEFINE P == Purchases(tx)
           T == Transfers(tx)
           C == Conversions(tx)
           PT == P \o T
<1>1. /\ IsSeq(P) /\ (\A i \in 1..Len(P) : IsSettled(P[i]))
      /\ IsSeq(T) /\ (\A i \in 1..Len(T) : IsSettled(T[i]))
      /\ IsSeq(C) /\ (\A i \in 1..Len(C) : IsSettled(C[i]))
  BY PurchaseList, TransferList, ConversionList DEF IsSettled
<1>2. Settled(tx) = PT \o C
  BY DEF Settled
<1> HIDE DEF P, T, C
<1>3. IsSeq(PT) /\ \A i \in 1..Len(PT) : IsSettled(PT[i])
  BY <1>1, ConcatSeq, ConcatElements
<1> HIDE DEF PT
<1>4. IsSeq(PT \o C) /\ \A i \in 1..Len(PT \o C) : IsSettled((PT \o C)[i])
  BY <1>1, <1>3, ConcatSeq, ConcatElements
<1> QED
  BY <1>2, <1>4

(* The infusion state that is replayed on its own, in step with a result. *)
InStep(r, x) == r.ok => {"ok", "i"} \subseteq DOMAIN x /\ x.ok /\ x.i = r.i
(* A result q that the replay of a block reaches from r at height h.     *)
Reached(r, q, total, miner, h, x) ==
  /\ IsResult(q) /\ Held(q, total, miner) /\ (q.ok => r.ok)
  /\ q.ok /\ ~InfusionActive(h) => q.i = r.i
  /\ InStep(q, x)

(* The markers of a transaction in turn: c holds the height, the miner,  *)
(* the units there are, the result before them and the infusion states.  *)
MarkerEach(c, r, o) == ApplyMarker(Require(r, MarkerOnTime(o, c[1])), o.s, c[2])
MarkerInv(c, k, r) == Reached(c[4], r, c[3], c[2], c[1], c[5][k])
MarkerWalk == INSTANCE FoldFacts WITH Op <- MarkerEach, Inv <- MarkerInv
LEMMA MarkersAreFold ==
  ASSUME NEW c, NEW r, NEW tx
  PROVE  ReplayJinTx(r, tx, c[1], c[2]) = MarkerWalk!Fold(c, r, JinMarkers(tx))
BY Zenon DEF ReplayJinTx, MarkerEach, Folded, MarkerWalk!Fold, MarkerWalk!Table

(* A marker that is not on time ends the replay.                         *)
LEMMA OnTime ==
  ASSUME NEW r, IsResult(r), NEW o, NEW h, NEW e, e = Require(r, MarkerOnTime(o, h))
  PROVE  IsResult(e) /\ (e.ok => e = r /\ MarkerOnTime(o, h))
<1>1. CASE r.ok /\ ~MarkerOnTime(o, h)
  <2>1. e = [r EXCEPT !.ok = FALSE]
    BY <1>1, Zenon DEF Require
  <2> QED
    BY <2>1 DEF IsResult
<1>2. CASE ~(r.ok /\ ~MarkerOnTime(o, h))
  <2>1. e = r
    BY <1>2, Zenon DEF Require
  <2> QED
    BY <1>2, <2>1
<1> QED
  BY <1>1, <1>2

(* A purchase, a transfer or a conversion leaves the infusion as it is.  *)
LEMMA SettledStep ==
  ASSUME NEW r0, NEW r, NEW total \in Int, NEW miner, NEW h, NEW x, Reached(r0, r, total, miner, h, x),
         NEW o, IsSettled(o), NEW q, q = ApplyMarker(Require(r, MarkerOnTime(o, h)), o.s, miner)
  PROVE  Reached(r0, q, total, miner, h, x)
<1> DEFINE e == Require(r, MarkerOnTime(o, h))
<1>1. IsResult(r) /\ Held(r, total, miner)
  BY DEF Reached
<1>2. IsResult(e) /\ (e.ok => e = r)
  BY <1>1, OnTime
<1>3. q = ApplyMarker(e, o.s, miner)
  OBVIOUS
<1> HIDE DEF e
<1>4. Held(e, total, miner)
  BY <1>1, <1>2 DEF Held
<1>5. IsResult(q) /\ Held(q, total, miner) /\ (q.ok => e.ok /\ q.i = e.i)
  <2>1. CASE IsPurchase(o)
    <3>1. q = ApplyPurchase(e, o.s)
      BY <1>3, <2>1 DEF ApplyMarker, IsPurchase
    <3> QED
      BY <1>2, <1>4, <2>1, <3>1, PurchaseHeld
  <2>2. CASE IsJinTransfer(o) \/ IsJinConversion(o)
    <3>1. q = ApplyTransfer(e, o.s, miner)
      BY <1>3, <2>2 DEF ApplyMarker, IsJinTransfer, IsJinConversion
    <3> QED
      BY <1>2, <1>4, <2>2, <3>1, TransferHeld
  <2> QED
    BY <2>1, <2>2 DEF IsSettled
<1> QED
  BY <1>2, <1>5 DEF Reached, InStep

(* An infusion or a melt takes both infusion states along.               *)
LEMMA InfusionStep ==
  ASSUME NEW r0, NEW r, NEW total \in Int, NEW miner, NEW h, NEW x, Reached(r0, r, total, miner, h, x),
         NEW o, IsInfusionMarker(o), NEW q, q = ApplyMarker(Require(r, MarkerOnTime(o, h)), o.s, miner)
  PROVE  Reached(r0, q, total, miner, h, ReplayMarker(0, x, o))
<1> DEFINE e == Require(r, MarkerOnTime(o, h))
           y == ReplayMarker(0, x, o)
<1>1. IsResult(r) /\ Held(r, total, miner) /\ (r.ok => r0.ok) /\ InStep(r, x)
  BY DEF Reached
<1>2. IsResult(e) /\ (e.ok => e = r /\ MarkerOnTime(o, h))
  BY <1>1, OnTime
<1>3. q = ApplyMarker(e, o.s, miner)
  OBVIOUS
<1> HIDE DEF e
<1>4. Held(e, total, miner)
  BY <1>1, <1>2 DEF Held
<1>5. q = ApplyInfusion(e, o.s)
  BY <1>3 DEF ApplyMarker, IsInfusionMarker
<1>6. /\ IsResult(q) /\ Held(q, total, miner)
      /\ q.ok => e.ok /\ ApplyInfusionState(e, o.s).ok /\ q.i = ApplyInfusionState(e, o.s).i
  BY <1>2, <1>4, <1>5, InfusionHeld
<1>7. e.ok => InfusionActive(h) /\ o.v = Jin.marker
  BY <1>2 DEF MarkerOnTime, IsInfusionMarker
<1>8. ASSUME q.ok PROVE {"ok", "i"} \subseteq DOMAIN y /\ y.ok /\ y.i = q.i
  <2>1. /\ e = r /\ r.ok /\ ApplyInfusionState(r, o.s).ok /\ q.i = ApplyInfusionState(r, o.s).i
        /\ o.v = Jin.marker
    BY <1>2, <1>6, <1>7, <1>8
  <2>2. {"ok", "i"} \subseteq DOMAIN x /\ x.ok /\ x.i = r.i
    BY <1>1, <2>1 DEF InStep
  <2>3. y = ApplyInfusionState(x, o.s)
    BY <2>1 DEF ReplayMarker, Require
  <2> HIDE DEF y
  <2>4. DEFINE k == o.s
  <2> HIDE DEF k
  <2>5. /\ {"ok", "i"} \subseteq DOMAIN ApplyInfusionState(x, k)
        /\ ApplyInfusionState(x, k).ok /\ ApplyInfusionState(x, k).i = ApplyInfusionState(r, k).i
    <3>1. ApplyInfusionState(r, k).ok
      BY <2>1 DEF k
    <3> QED
      BY <1>1, <2>2, <3>1, SameInfusion
  <2> QED
    BY <2>1, <2>3, <2>5 DEF k
<1> HIDE DEF y
<1> QED
  BY <1>1, <1>2, <1>6, <1>7, <1>8 DEF Reached, InStep, y

(* A transaction.                                                        *)
LEMMA TxReached ==
  ASSUME NEW r0, NEW r, NEW total \in Int, NEW miner, NEW h, NEW x, Reached(r0, r, total, miner, h, x),
         NEW tx, OutsListed(tx), NEW q, q = ReplayJinTx(r, tx, h, miner)
  PROVE  Reached(r0, q, total, miner, h, TxInfusion!Fold(0, x, InfusionMarkers(tx)))
<1> DEFINE s == Settled(tx)
           t == InfusionMarkers(tx)
           n == Len(s)
           m == Len(t)
           ys == TxInfusion!Table(0, m, x, t)
           xs == [k \in 0..(n + m) |-> IF k <= n THEN x ELSE ys[k - n]]
           c == <<h, miner, total, r0, xs>>
           all == s \o t
<1>1. /\ IsSeq(s) /\ \A i \in 1..n : IsSettled(s[i])
      /\ IsSeq(t) /\ \A i \in 1..m : IsInfusionMarker(t[i])
  BY SettledList, InfusionList
<1>2. q = MarkerWalk!Fold(c, r, all)
  <2>1. ReplayJinTx(r, tx, c[1], c[2]) = MarkerWalk!Fold(c, r, JinMarkers(tx))
    BY MarkersAreFold, Zenon
  <2>2. JinMarkers(tx) = all
    BY Zenon DEF JinMarkers, Settled
  <2>3. c[1] = h /\ c[2] = miner
    OBVIOUS
  <2> HIDE DEF c, all
  <2> QED
    BY <2>1, <2>2, <2>3
<1>3. c[1] = h /\ c[2] = miner /\ c[3] = total /\ c[4] = r0 /\ c[5] = xs
  OBVIOUS
<1>4. n \in Nat /\ m \in Nat
  BY <1>1, SeqDomain
<1>5. /\ DOMAIN all = 1..(n + m) /\ (\A i \in 1..n : all[i] = s[i]) /\ \A i \in 1..m : all[n + i] = t[i]
  BY <1>1, ConcatPlaces
<1>6. \A k \in 0..m : ys[k] = IF k = 0 THEN x ELSE ReplayMarker(0, ys[k - 1], t[k])
  <2>1. \A base : \A k \in 0..m : TxInfusion!Table(0, m, base, t)[k] =
          IF k = 0 THEN base ELSE ReplayMarker(0, TxInfusion!Table(0, m, base, t)[k - 1], t[k])
    BY <1>4, TxInfusion!StepsOfAny
  <2> QED
    BY <2>1, Zenon
<1>7. TxInfusion!Fold(0, x, t) = ys[m]
  BY Zenon DEF TxInfusion!Fold
<1>8. \A k \in 0..n : k \in 0..(n + m) /\ xs[k] = x
  BY <1>4
<1>9. \A k \in 1..m : xs[n + k] = ys[k] /\ ReplayMarker(0, xs[n + k - 1], t[k]) = ys[k]
  <2> SUFFICES ASSUME NEW k \in 1..m PROVE xs[n + k] = ys[k] /\ ReplayMarker(0, xs[n + k - 1], t[k]) = ys[k]
    OBVIOUS
  <2>1. k \in 0..m /\ k # 0 /\ 0 \in 0..m /\ n + k \in 0..(n + m) /\ n + k - 1 \in 0..(n + m)
    BY <1>4
  <2> HIDE DEF ys
  <2>2. xs[n + k] = ys[k]
    BY <1>4, <2>1
  <2>3. xs[n + k - 1] = ys[k - 1]
    <3>1. CASE k = 1
      BY <1>4, <1>6, <2>1, <3>1
    <3>2. CASE k # 1
      <4>1. ~(n + k - 1 <= n) /\ (n + k - 1) - n = k - 1
        BY <1>4, <3>2
      <4> QED
        BY <2>1, <4>1
    <3> QED
      BY <3>1, <3>2
  <2> QED
    BY <1>6, <2>1, <2>2, <2>3
<1> HIDE DEF s, t, n, m, ys, xs, c, all
<1>10. MarkerInv(c, 0, r)
  <2>1. xs[0] = x
    BY <1>4, <1>8
  <2> QED
    BY <1>3, <2>1 DEF MarkerInv
<1>11. ASSUME NEW i \in 1..(n + m), NEW p, MarkerInv(c, i - 1, p)
       PROVE  MarkerInv(c, i, MarkerEach(c, p, all[i]))
  <2> DEFINE o == all[i]
             v == MarkerEach(c, p, o)
  <2>1. Reached(r0, p, total, miner, h, xs[i - 1])
    BY <1>3, <1>11 DEF MarkerInv
  <2>2. v = ApplyMarker(Require(p, MarkerOnTime(o, h)), o.s, miner)
    BY <1>3 DEF MarkerEach
  <2> HIDE DEF o, v
  <2>3. CASE i <= n
    <3>1. i \in 1..n /\ i - 1 \in 0..n /\ i \in 0..n
      BY <1>4, <2>3
    <3>2. IsSettled(o) /\ xs[i - 1] = x /\ xs[i] = x
      BY <1>1, <1>5, <1>8, <3>1 DEF o, n
    <3>3. Reached(r0, v, total, miner, h, x)
      BY <2>1, <2>2, <3>2, SettledStep
    <3> QED
      BY <1>3, <3>2, <3>3 DEF MarkerInv, v, o
  <2>4. CASE ~(i <= n)
    <3>1. i - n \in 1..m /\ n + (i - n) = i /\ n + (i - n) - 1 = i - 1
      BY <1>4, <2>4
    <3>2. o = t[i - n] /\ IsInfusionMarker(o)
      BY <1>1, <1>5, <3>1 DEF o, m
    <3>3. xs[i] = ReplayMarker(0, xs[i - 1], o)
      BY <1>9, <3>1, <3>2
    <3>4. Reached(r0, v, total, miner, h, ReplayMarker(0, xs[i - 1], o))
      BY <2>1, <2>2, <3>2, InfusionStep
    <3> QED
      BY <1>3, <3>3, <3>4 DEF MarkerInv, v, o
  <2> QED
    BY <2>3, <2>4
<1>12. MarkerInv(c, n + m, q)
  <2>1. n + m \in Nat
    BY <1>4
  <2> QED
    BY <1>2, <1>5, <1>10, <1>11, <2>1, MarkerWalk!FoldInvariant
<1>13. xs[n + m] = ys[m]
  <2>1. CASE m = 0
    BY <1>4, <1>6, <1>8, <2>1
  <2>2. CASE m # 0
    <3>1. m \in 1..m
      BY <1>4, <2>2
    <3> QED
      BY <1>9, <3>1
  <2> QED
    BY <2>1, <2>2
<1> QED
  BY <1>3, <1>7, <1>12, <1>13 DEF MarkerInv, t

(* The transactions of a block in turn.                                  *)
JinTxEach(c, r, tx) == ReplayJinTx(r, tx, c[1], c[2])
JinTxInv(c, k, r) == Reached(c[4], r, c[3], c[2], c[1], c[5][k])
JinTxs == INSTANCE FoldFacts WITH Op <- JinTxEach, Inv <- JinTxInv
JinTxsFold(h, miner, r, txs) == Folded(LAMBDA s, tx : ReplayJinTx(s, tx, h, miner), r, txs)
LEMMA JinTxsAreFold ==
  ASSUME NEW c, NEW r, NEW txs
  PROVE  JinTxsFold(c[1], c[2], r, txs) = JinTxs!Fold(c, r, txs)
BY Zenon DEF JinTxsFold, JinTxEach, Folded, JinTxs!Fold, JinTxs!Table

LEMMA TxsReached ==
  ASSUME NEW r, IsResult(r), NEW total \in Int, NEW miner, Held(r, total, miner), NEW h, NEW x, InStep(r, x),
         NEW txs, IsSeq(txs), \A i \in 1..Len(txs) : OutsListed(txs[i]),
         NEW placed, DOMAIN placed = 1..Len(txs), \A i \in 1..Len(txs) : placed[i].tx = txs[i],
         NEW q, q = JinTxsFold(h, miner, r, txs)
  PROVE  Reached(r, q, total, miner, h, Infusion!Fold(0, x, placed))
<1> DEFINE n == Len(txs)
<1>1. n \in Nat /\ DOMAIN txs = 1..n
  BY SeqDomain
<1>2. PICK xs : /\ \A k \in 0..n : xs[k] = IF k = 0 THEN x ELSE InfuseTx(0, xs[k - 1], placed[k])
                /\ Infusion!Fold(0, x, placed) = xs[n]
  BY <1>1, InfusionSteps
<1> DEFINE c == <<h, miner, total, r, xs>>
<1>3. c[1] = h /\ c[2] = miner /\ c[3] = total /\ c[4] = r /\ c[5] = xs
  OBVIOUS
<1>4. q = JinTxs!Fold(c, r, txs)
  <2>1. JinTxsFold(c[1], c[2], r, txs) = JinTxs!Fold(c, r, txs)
    BY JinTxsAreFold, Zenon
  <2> HIDE DEF c
  <2> QED
    BY <1>3, <2>1
<1> HIDE DEF c, n
<1>5. JinTxInv(c, 0, r)
  <2>1. xs[0] = x
    BY <1>1, <1>2
  <2> QED
    BY <1>3, <2>1 DEF JinTxInv, Reached
<1>6. ASSUME NEW i \in 1..n, NEW p, JinTxInv(c, i - 1, p) PROVE JinTxInv(c, i, JinTxEach(c, p, txs[i]))
  <2> DEFINE tx == txs[i]
             v == JinTxEach(c, p, tx)
  <2>1. Reached(r, p, total, miner, h, xs[i - 1])
    BY <1>3, <1>6 DEF JinTxInv
  <2>2. v = ReplayJinTx(p, tx, h, miner)
    BY <1>3 DEF JinTxEach
  <2>3. OutsListed(tx) /\ placed[i].tx = tx
    BY DEF n
  <2>4. xs[i] = TxInfusion!Fold(0, xs[i - 1], InfusionMarkers(tx))
    <3>1. i \in 0..n /\ i # 0
      BY <1>1
    <3>2. xs[i] = InfuseTx(0, xs[i - 1], placed[i])
      BY <1>2, <3>1
    <3> HIDE DEF tx
    <3> QED
      BY <2>3, <3>2 DEF InfuseTx
  <2> HIDE DEF tx, v
  <2>5. Reached(r, v, total, miner, h, TxInfusion!Fold(0, xs[i - 1], InfusionMarkers(tx)))
    BY <2>1, <2>2, <2>3, TxReached
  <2> QED
    BY <1>3, <2>4, <2>5 DEF JinTxInv, v, tx
<1>7. JinTxInv(c, n, q)
  BY <1>1, <1>4, <1>5, <1>6, JinTxs!FoldInvariant
<1> QED
  BY <1>2, <1>3, <1>7 DEF JinTxInv

-----------------------------------------------------------------------------
(* The fees of a pool's block, shared out at its end.                    *)

(* A ledger of one address, and the empty one.                           *)
LEMMA EmptyLedger == IsLedger(<<>>) /\ SumOn(<<>>) = 0 /\ \A a : Balance(<<>>, a) = 0
<1>1. DOMAIN <<>> = {}
  OBVIOUS
<1>2. IsLedger(<<>>) /\ \A a : Balance(<<>>, a) = 0
  BY <1>1, FS_EmptySet DEF IsLedger, Balance
<1>3. SumOn(<<>>) = Sums(<<>>, {})[{}]
  BY <1>1, SumIsEntry
<1>4. \A f : Sums(f, {})[{}] = 0
  <2> SUFFICES ASSUME NEW f PROVE Sums(f, {})[{}] = 0
    OBVIOUS
  <2>1. IsFiniteSet({}) /\ \A x \in {} : f[x] \in Int
    BY FS_EmptySet
  <2>2. /\ Sums(f, {})[{}] = 0
        /\ \A s \in SUBSET {} : Sums(f, {})[s] \in Int
        /\ \A s \in SUBSET {} : \A x \in s : Sums(f, {})[s] = f[x] + Sums(f, {})[s \ {x}]
    BY <2>1, SumsTake
  <2> QED
    BY <2>2
<1> QED
  BY <1>2, <1>3, <1>4
LEMMA SingleLedger ==
  ASSUME NEW a, NEW n \in Nat, NEW m, m = [x \in {a} |-> n]
  PROVE  IsLedger(m) /\ SumOn(m) = n /\ Balance(m, a) = n /\ \A b : b # a => Balance(m, b) = 0
<1> DEFINE e == <<>>
<1>1. m = Set(e, a, n)
  BY DEF Set
<1>2. IsLedger(e) /\ SumOn(e) = 0 /\ \A b : Balance(e, b) = 0
  BY EmptyLedger
<1> HIDE DEF e
<1>3. /\ IsLedger(m) /\ SumOn(e) \in Int /\ SumOn(m) = SumOn(e) - Balance(e, a) + n
      /\ Balance(m, a) = n /\ \A b : b # a => Balance(m, b) = Balance(e, b)
  BY <1>1, <1>2, SumAfterSet
<1> QED
  BY <1>2, <1>3

(* Two ledgers, address by address.                                      *)
Added(m, f, q) ==
  /\ IsLedger(q) /\ SumOn(m) \in Int /\ SumOn(f) \in Int /\ SumOn(q) = SumOn(m) + SumOn(f)
  /\ \A a : Balance(q, a) = Balance(m, a) + Balance(f, a)
LEMMA LedgersAdd ==
  ASSUME NEW m, IsLedger(m), NEW f, IsLedger(f),
         NEW q, q = [a \in DOMAIN m \cup DOMAIN f |-> Balance(m, a) + Balance(f, a)]
  PROVE  Added(m, f, q)
<1> DEFINE D == DOMAIN m \cup DOMAIN f
           x == [a \in D |-> Balance(m, a)]
           y == [a \in D |-> Balance(f, a)]
<1>1. IsFiniteSet(D) /\ DOMAIN m \subseteq D /\ DOMAIN f \subseteq D
  <2>1. IsFiniteSet(DOMAIN m) /\ IsFiniteSet(DOMAIN f)
    BY DEF IsLedger
  <2> QED
    BY <2>1, FS_Union
<1>2. \A a : Balance(m, a) \in Nat /\ Balance(f, a) \in Nat
  BY BalanceNat
<1>3. DOMAIN q = D /\ \A a \in D : q[a] = Balance(m, a) + Balance(f, a)
  OBVIOUS
<1>4. IsLedger(q)
  BY <1>1, <1>2, <1>3 DEF IsLedger
<1>5. \A a : Balance(q, a) = Balance(m, a) + Balance(f, a)
  <2>1. \A a : a \notin D => Balance(m, a) = 0 /\ Balance(f, a) = 0
    BY DEF Balance
  <2> HIDE DEF D
  <2>2. \A a : a \notin D => Balance(q, a) = 0
    BY <1>3 DEF Balance
  <2>3. \A a \in D : Balance(q, a) = q[a]
    BY <1>3 DEF Balance
  <2> QED
    BY <1>3, <2>1, <2>2, <2>3
<1>6. x \in [D -> Int] /\ y \in [D -> Int] /\ q \in [D -> Int] /\ \A a \in D : q[a] = x[a] + y[a]
  <2> HIDE DEF D
  <2>1. q = [a \in D |-> Balance(m, a) + Balance(f, a)]
    BY DEF D
  <2> QED
    BY <1>2, <2>1
<1>7. SumOn(m) \in Int /\ SumOn(m) = SumOn(x) /\ SumOn(f) \in Int /\ SumOn(f) = SumOn(y)
  <2> HIDE DEF D
  <2> QED
    BY <1>1, SumOverMore
<1> HIDE DEF D, x, y
<1>8. SumOn(q) = SumOn(x) + SumOn(y)
  <2> DEFINE z == q
  <2>1. z \in [D -> Int] /\ \A a \in D : z[a] = x[a] + y[a]
    BY <1>6
  <2> HIDE DEF z
  <2>2. SumOn(z) = SumOn(x) + SumOn(y)
    BY <1>1, <1>6, <2>1, SumAdds
  <2> QED
    BY <2>2 DEF z
<1> QED
  BY <1>4, <1>5, <1>7, <1>8 DEF Added

(* The shares of a pool's miners and its manager add up to what is due.  *)
PaysOut(f, units) == IsLedger(f) /\ SumOn(f) = units
LEMMA ReceiversPay ==
  ASSUME NEW B, IsSeq(B), \A h \in 1..Len(B) : IsSeq(B[h].txs), PoolTxsSound(B),
         NEW block, PoolOf(block) # NoPool, NEW units \in Nat, NEW f \in JinFeeReceivers(B, block, units)
  PROVE  PaysOut(f, units)
<1>1. CASE units = 0
  <2>1. f = <<>>
    BY <1>1 DEF JinFeeReceivers
  <2> QED
    BY <1>1, <2>1, EmptyLedger DEF PaysOut
<1>2. CASE units # 0
  <2> DEFINE pool == PoolOf(block)
             reg == PoolRegistryFrom(B)
             score == Scores(B, Len(B) + 1, pool)
             Positive(p) == {a \in DOMAIN p.entries : p.entries[a] > 0}
             Paid1(p) == IF p.commission > 0 THEN {p.mgr} ELSE {}
             Amount(p, a) == (IF a = p.mgr THEN p.commission ELSE 0) +
                             (IF a \in DOMAIN p.entries THEN p.entries[a] ELSE 0)
  <2>1. PICK p \in PayoutPlan(B, pool, units) : f = [a \in Paid1(p) \cup Positive(p) |-> Amount(p, a)]
    BY <1>2, Zenon DEF JinFeeReceivers
  <2>0. PICK g \in EntryOf(reg, pool) :
               p \in {[mgr |-> g.mgr, commission |-> s.commission, entries |-> s.entries] : s \in Split(units, g.bps, score)}
    BY <2>1, Zenon DEF PayoutPlan
  <2>2. PICK s \in Split(units, g.bps, score) :
               p = [mgr |-> g.mgr, commission |-> s.commission, entries |-> s.entries]
    BY <2>0
  <2>3. Rate(g.bps)
    <3>1. RatesSound(reg)
      BY RegistryRates
    <3> HIDE DEF reg
    <3>2. pool \in DOMAIN reg /\ g = reg[pool]
      BY DEF EntryOf
    <3> QED
      BY <3>1, <3>2, Zenon DEF RatesSound, PoolSound
  <2>4. /\ IsFiniteSet(DOMAIN score) /\ DOMAIN score \subseteq DOMAIN AddressRank
        /\ score \in [DOMAIN score -> Nat \ {0}]
    <3>1. Len(B) + 1 \in Int
      BY SeqDomain
    <3> QED
      BY <3>1, ScoresFacts
  <2> HIDE DEF score, reg
  <2>5. s.commission \in Nat /\ s.entries \in [DOMAIN score -> Nat] /\ s.commission + SumOn(s.entries) = units
    BY <2>3, <2>4, SplitFacts
  <2> DEFINE e == s.entries
             mgr == g.mgr
             n == s.commission
             one == [x \in {mgr} |-> n]
             D == DOMAIN one \cup DOMAIN e
             all == [a \in D |-> Balance(one, a) + Balance(e, a)]
  <2>6. p.mgr = mgr /\ p.commission = n /\ p.entries = e
    BY <2>2
  <2>7. IsLedger(e) /\ n \in Nat /\ n + SumOn(e) = units /\ DOMAIN e = DOMAIN score
    BY <2>4, <2>5 DEF IsLedger
  <2> HIDE DEF e, mgr, n
  <2>8. IsLedger(one) /\ SumOn(one) = n /\ Balance(one, mgr) = n /\ \A b : b # mgr => Balance(one, b) = 0
    BY <2>7, SingleLedger
  <2>9. Added(one, e, all)
    <3> HIDE DEF one
    <3> QED
      BY <2>7, <2>8, LedgersAdd
  <2>10. SumOn(all) = units
    BY <2>7, <2>8, <2>9 DEF Added
  <2>11. IsFiniteSet(D)
    <3>1. IsFiniteSet(DOMAIN e) /\ IsFiniteSet(DOMAIN one)
      BY <2>7, <2>8 DEF IsLedger
    <3> HIDE DEF one
    <3> QED
      BY <3>1, FS_Union
  <2>12. /\ DOMAIN f \subseteq D
         /\ \A a \in DOMAIN f : f[a] = Amount(p, a)
         /\ \A a \in D \ DOMAIN f : Amount(p, a) = 0
    <3>1. DOMAIN f = Paid1(p) \cup Positive(p) /\ \A a \in DOMAIN f : f[a] = Amount(p, a)
      BY <2>1, Zenon
    <3>2. DOMAIN one = {mgr}
      OBVIOUS
    <3>3. \A a \in DOMAIN e : e[a] \in Nat
      BY <2>7 DEF IsLedger
    <3> HIDE DEF one
    <3> QED
      BY <2>6, <2>7, <3>1, <3>2, <3>3
  <2>13. \A a \in D : Amount(p, a) \in Nat /\ Amount(p, a) = Balance(one, a) + Balance(e, a)
    <3>1. \A a : Balance(e, a) = IF a \in DOMAIN e THEN e[a] ELSE 0
      BY DEF Balance
    <3>2. \A a : Balance(e, a) \in Nat
      BY <2>7, BalanceNat
    <3> HIDE DEF one
    <3> QED
      BY <2>6, <2>7, <2>8, <3>1, <3>2
  <2> HIDE DEF one
  <2>14. D = DOMAIN one \cup DOMAIN e /\ all = [a \in D |-> Balance(one, a) + Balance(e, a)]
    OBVIOUS
  <2> HIDE DEF Amount, D, all
  <2>15. IsLedger(f)
    <3>1. IsFiniteSet(DOMAIN f)
      BY <2>11, <2>12, FS_Subset
    <3> QED
      BY <2>12, <2>13, <3>1 DEF IsLedger
  <2>16. [a \in D |-> Balance(f, a)] = all
    <3>1. \A a \in D : Balance(f, a) = Amount(p, a)
      BY <2>12 DEF Balance
    <3> QED
      BY <2>13, <2>14, <3>1
  <2>17. SumOn(f) = SumOn([a \in D |-> Balance(f, a)])
    BY <2>11, <2>12, <2>15, SumOverMore
  <2> QED
    BY <2>10, <2>15, <2>16, <2>17 DEF PaysOut
<1> QED
  BY <1>1, <1>2

(* What a ledger has after a block, when its fees are paid.              *)
LEMMA FeesPaid ==
  ASSUME NEW B, IsSeq(B), \A h \in 1..Len(B) : IsSeq(B[h].txs), PoolTxsSound(B),
         NEW block, NEW r, IsResult(r), NEW total \in Int, Held(r, total, MinerOf(block)),
         NEW q, q = PayFees(r, B, block)
  PROVE  /\ IsResult(q) /\ (q.ok => r.ok /\ q.i = r.i)
         /\ q.ok => /\ IsLedger(q.m) /\ SumOn(q.m) \in Int /\ SumOn(q.m) <= total
                    /\ PoolOf(block) # NoPool \/ MinerOf(block) # NoMiner => SumOn(q.m) = total
                    /\ Balance(q.m, Jin.vault) >= q.i.infused
<1>0. ASSUME r.ok
      PROVE  /\ IsLedger(r.m) /\ r.due \in Nat /\ SumOn(r.m) \in Int /\ SumOn(r.m) + r.due = total
             /\ r.i.infused \in Nat /\ Balance(r.m, Jin.vault) >= r.i.infused
             /\ MinerOf(block) # NoMiner => r.due = 0
  <2>1. IsLedger(r.m) /\ IsFiniteSet(DOMAIN r.m)
    BY <1>0 DEF Held, IsLedger
  <2>2. SumOn(r.m) \in Int
    BY <2>1, SumOverMore
  <2> QED
    BY <1>0, <2>2 DEF Held, Backing
<1>1. CASE ~r.ok
  <2>1. q = r
    BY <1>1, Zenon DEF PayFees
  <2> QED
    BY <1>1, <2>1
<1>2. CASE r.ok /\ PoolOf(block) = NoPool
  <2>1. q = r
    BY <1>2, Zenon DEF PayFees
  <2> QED
    BY <1>0, <1>2, <2>1
<1>3. CASE r.ok /\ PoolOf(block) # NoPool
  <2> DEFINE R == JinFeeReceivers(B, block, r.due)
             f == CHOOSE g \in R : TRUE
             m == [a \in DOMAIN r.m \cup DOMAIN f |-> Balance(r.m, a) + Balance(f, a)]
  <2>1. q = PayShares(r, R)
    BY <1>3, Zenon DEF PayFees
  <2> HIDE DEF R
  <2>2. q = IF R = {} THEN [r EXCEPT !.ok = FALSE] ELSE [r EXCEPT !.m = m]
    BY <2>1 DEF PayShares
  <2>3. CASE R = {}
    BY <2>2, <2>3 DEF IsResult
  <2>4. CASE R # {}
    <3>1. f \in R
      BY <2>4
    <3>2. PaysOut(f, r.due)
      BY <1>0, <1>3, <3>1, ReceiversPay DEF R
    <3> HIDE DEF f
    <3>3. Added(r.m, f, m)
      BY <1>0, <1>3, <3>2, LedgersAdd DEF PaysOut
    <3>4. q = [r EXCEPT !.m = m]
      BY <2>2, <2>4
    <3> HIDE DEF m
    <3>5. IsResult(q) /\ q.ok = r.ok /\ q.m = m /\ q.i = r.i
      BY <3>4 DEF IsResult
    <3>6. IsLedger(m) /\ SumOn(m) = total /\ Balance(m, Jin.vault) >= Balance(r.m, Jin.vault)
      <4>1. Balance(f, Jin.vault) \in Nat /\ Balance(r.m, Jin.vault) \in Nat
        BY <1>0, <1>3, <3>2, BalanceNat DEF PaysOut
      <4> QED
        BY <1>0, <1>3, <3>2, <3>3, <4>1 DEF Added, PaysOut
    <3>7. Balance(m, Jin.vault) \in Nat /\ Balance(r.m, Jin.vault) \in Nat
      BY <1>0, <1>3, <3>6, BalanceNat
    <3> QED
      BY <1>0, <1>3, <3>5, <3>6, <3>7
  <2> QED
    BY <2>3, <2>4
<1> QED
  BY <1>1, <1>2, <1>3

-----------------------------------------------------------------------------
(* The replay of the ledger, block by block.                             *)

(* The blocks before a height, in a chain and in one that goes on.       *)
LEMMA PriorBlocks ==
  ASSUME NEW B, IsSeq(B), NEW block
  PROVE  /\ SubSeq(Append(B, block), 1, Len(B)) = B
         /\ \A k \in 0..(Len(B) - 1) : SubSeq(Append(B, block), 1, k) = SubSeq(B, 1, k)
<1> DEFINE Q == Append(B, block)
           n == Len(B)
           S == ToSet(B) \cup {block}
<1>1. B \in Seq(S) /\ n \in Nat /\ block \in S
  BY DEF IsSeq
<1> HIDE DEF S
<1>2. Q \in Seq(S) /\ Len(Q) = n + 1 /\ \A i \in 1..n : Q[i] = B[i]
  BY <1>1
<1> HIDE DEF Q, n
<1>3. SubSeq(Q, 1, n) = B
  BY <1>1, <1>2 DEF n
<1>4. ASSUME NEW k \in 0..(n - 1) PROVE SubSeq(Q, 1, k) = SubSeq(B, 1, k)
  BY <1>1, <1>2 DEF n
<1> QED
  BY <1>3, <1>4 DEF Q, n

(* One height of the replay, of the blocks c.                            *)
ReplayStep(c, r, h) ==
  IF h < Jin.active THEN BootstrapAt(r, h) ELSE ReplayJinBlock(r, SubSeq(c, 1, h - 1), c[h], h)
JinWalk == INSTANCE FoldFacts WITH Op <- ReplayStep, Inv <- Never
Ledger(B) == JinWalk!Fold(B, Endowed, [h \in DOMAIN B |-> h])
LEMMA LedgerIsFold ==
  ASSUME NEW B, ~(Len(B) < Jin.active)
  PROVE  JinReplay(B) = Ledger(B)
BY Zenon DEF JinReplay, Ledger, ReplayStep, Folded, JinWalk!Fold, JinWalk!Table

(* What is replayed is what JinStart and the mempool read.               *)
LEMMA LedgerStart == Ledger(<<>>) = Endowed
<1> DEFINE hs == [h \in DOMAIN <<>> |-> h]
<1>1. Len(hs) = 0
  OBVIOUS
<1> HIDE DEF hs
<1>2. JinWalk!Fold(<<>>, Endowed, hs) = Endowed
  BY <1>1, JinWalk!FoldShort
<1> QED
  BY <1>2 DEF Ledger, hs

LEMMA LedgerNext ==
  ASSUME NEW B, IsSeq(B), NEW block, NEW h, h = Len(B) + 1
  PROVE  Ledger(Append(B, block)) =
           IF h < Jin.active THEN BootstrapAt(Ledger(B), h) ELSE ReplayJinBlock(Ledger(B), B, block, h)
<1> DEFINE n == Len(B)
           Q == Append(B, block)
           hs == [g \in DOMAIN B |-> g]
           gs == [g \in DOMAIN Q |-> g]
<1>1. n \in Nat /\ DOMAIN B = 1..n /\ DOMAIN hs = 1..n /\ \A g \in 1..n : hs[g] = g
  BY SeqDomain
<1>2. IsSeq(Q) /\ Len(Q) = n + 1 /\ (\A g \in 1..n : Q[g] = B[g]) /\ Q[n + 1] = block
  BY AppendSeq
<1>3. DOMAIN Q = 1..(n + 1) /\ DOMAIN gs = 1..(n + 1) /\ \A g \in 1..(n + 1) : gs[g] = g
  BY <1>2, SeqDomain
<1>4. SubSeq(Q, 1, n) = B /\ \A k \in 0..(n - 1) : SubSeq(Q, 1, k) = SubSeq(B, 1, k)
  BY PriorBlocks
<1>5. Ledger(B) = JinWalk!Fold(B, Endowed, hs) /\ Ledger(Q) = JinWalk!Fold(Q, Endowed, gs)
  BY DEF Ledger
<1> HIDE DEF Q, hs, gs, n
<1>6. JinWalk!Fold(Q, Endowed, hs) = JinWalk!Fold(B, Endowed, hs)
  <2>1. ASSUME NEW i \in 1..n, NEW r PROVE ReplayStep(Q, r, hs[i]) = ReplayStep(B, r, hs[i])
    <3>1. hs[i] = i /\ i - 1 \in 0..(n - 1)
      BY <1>1
    <3>2. SubSeq(Q, 1, i - 1) = SubSeq(B, 1, i - 1) /\ Q[i] = B[i]
      BY <1>2, <1>4, <3>1
    <3> QED
      BY <3>1, <3>2 DEF ReplayStep
  <2> QED
    BY <1>1, <2>1, JinWalk!FoldSame
<1>7. JinWalk!Fold(Q, Endowed, gs) = ReplayStep(Q, JinWalk!Fold(Q, Endowed, hs), gs[n + 1])
  <2>1. \A i \in 1..n : gs[i] = hs[i]
    BY <1>1, <1>3
  <2> QED
    BY <1>1, <1>3, <2>1, JinWalk!FoldStep
<1>8. gs[n + 1] = h /\ h - 1 = n /\ Q[h] = block /\ SubSeq(Q, 1, h - 1) = B
  <2>1. h = n + 1
    BY DEF n
  <2> QED
    BY <1>1, <1>2, <1>3, <1>4, <2>1
<1>9. Ledger(Q) = ReplayStep(Q, Ledger(B), h)
  BY <1>5, <1>6, <1>7, <1>8
<1> QED
  BY <1>8, <1>9 DEF ReplayStep, Q

-----------------------------------------------------------------------------
(* What a replayed ledger comes to.                                      *)

(* A ledger with no more than the supply, all of it when the fees of     *)
(* every block have had somebody to go to, and its vault.                *)
LedgerStands(r, all) ==
  /\ IsResult(r)
  /\ r.ok => /\ IsLedger(r.m) /\ SumOn(r.m) \in Int /\ SumOn(r.m) <= Jin.supply
             /\ all => SumOn(r.m) = Jin.supply
             /\ Backing(r.i) /\ Balance(r.m, Jin.vault) >= r.i.infused

(* The state with which infusion starts.                                 *)
FirstInfusion == [Infused(NoInfusion, Jin.bootstrap) EXCEPT !.active = TRUE]
Opened == [NoInfusion EXCEPT !.active = TRUE]
LEMMA InfusedFields ==
  ASSUME NEW i, {"lifetime", "infused", "per"} \subseteq DOMAIN i, NEW units, NEW j, j = Infused(i, units)
  PROVE  /\ DOMAIN j = DOMAIN i
         /\ j.lifetime = i.lifetime + units /\ j.infused = i.infused + units /\ j.per = i.per + units \div i.max
         /\ \A y \in DOMAIN i : y \notin {"lifetime", "infused", "per"} => j[y] = i[y]
         /\ j = [y \in DOMAIN i |-> j[y]]
<1> DEFINE x == i.lifetime + units
           y == i.infused + units
           z == i.per + units \div i.max
<1>1. j = [i EXCEPT !.lifetime = x, !.infused = y, !.per = z]
  BY DEF Infused
<1> HIDE DEF x, y, z
<1>2. /\ DOMAIN j = DOMAIN i
      /\ j.lifetime = x /\ j.infused = y /\ j.per = z
      /\ \A w \in DOMAIN i : w \notin {"lifetime", "infused", "per"} => j[w] = i[w]
      /\ j = [w \in DOMAIN i |-> j[w]]
  BY <1>1
<1> QED
  BY <1>2 DEF x, y, z
LEMMA FirstInfusionFacts ==
  /\ Backing(NoInfusion) /\ NoInfusion.infused = 0 /\ ~NoInfusion.active
  /\ Backing(Opened) /\ Opened.infused = 0 /\ Opened.max = Jin.max_atoms
  /\ FirstInfusion = Infused(Opened, Jin.bootstrap)
  /\ Jin.bootstrap = 0 => FirstInfusion = Opened
  /\ Backing(FirstInfusion) /\ FirstInfusion.infused = Jin.bootstrap
<1> DEFINE b == Jin.bootstrap
           a == Jin.max_atoms
<1>1. a \in Nat \ {0} /\ b \in Nat /\ b % a = 0
  BY JinNumbers
<1> DEFINE D == {"active", "melted", "max", "lifetime", "infused", "per"}
           u == Infused(NoInfusion, b)
           v == Infused(Opened, b)
           w == [u EXCEPT !.active = TRUE]
<1>2. /\ DOMAIN NoInfusion = D /\ ~NoInfusion.active /\ NoInfusion.melted = 0 /\ NoInfusion.max = a
      /\ NoInfusion.lifetime = 0 /\ NoInfusion.infused = 0 /\ NoInfusion.per = 0
  BY DEF NoInfusion
<1>3. /\ DOMAIN Opened = D /\ Opened.active = TRUE /\ Opened.melted = 0 /\ Opened.max = a
      /\ Opened.lifetime = 0 /\ Opened.infused = 0 /\ Opened.per = 0 /\ Opened = [y \in D |-> Opened[y]]
  BY <1>2 DEF Opened
<1> HIDE DEF a, b
<1>4. b \div a \in Nat /\ 0 \div a = 0
  BY <1>1
<1>5. /\ DOMAIN u = D /\ u.melted = 0 /\ u.max = a /\ u.lifetime = b /\ u.infused = b /\ u.per = b \div a
      /\ u = [y \in D |-> u[y]]
  <2>1. {"lifetime", "infused", "per"} \subseteq DOMAIN NoInfusion
    BY <1>2
  <2>2. /\ DOMAIN u = DOMAIN NoInfusion
        /\ u.lifetime = NoInfusion.lifetime + b /\ u.infused = NoInfusion.infused + b /\ u.per = NoInfusion.per + b \div NoInfusion.max
        /\ \A y \in DOMAIN NoInfusion : y \notin {"lifetime", "infused", "per"} => u[y] = NoInfusion[y]
        /\ u = [y \in DOMAIN NoInfusion |-> u[y]]
    <3> HIDE DEF D
    <3> QED
      BY <2>1, InfusedFields, Zenon
  <2> HIDE DEF u
  <2> QED
    BY <1>1, <1>2, <1>4, <2>2
<1>6. /\ DOMAIN v = D /\ v.active = TRUE /\ v.melted = 0 /\ v.max = a /\ v.lifetime = b /\ v.infused = b
      /\ v.per = b \div a /\ v = [y \in D |-> v[y]]
  <2>1. {"lifetime", "infused", "per"} \subseteq DOMAIN Opened
    BY <1>3
  <2>2. /\ DOMAIN v = DOMAIN Opened
        /\ v.lifetime = Opened.lifetime + b /\ v.infused = Opened.infused + b /\ v.per = Opened.per + b \div Opened.max
        /\ \A y \in DOMAIN Opened : y \notin {"lifetime", "infused", "per"} => v[y] = Opened[y]
        /\ v = [y \in DOMAIN Opened |-> v[y]]
    <3> HIDE DEF D
    <3> QED
      BY <2>1, InfusedFields, Zenon
  <2> HIDE DEF v
  <2> QED
    BY <1>1, <1>3, <1>4, <2>2
<1> HIDE DEF u
<1>12. /\ DOMAIN w = D /\ w.active = TRUE /\ w.melted = 0 /\ w.max = a /\ w.lifetime = b /\ w.infused = b
       /\ w.per = b \div a /\ w = [y \in D |-> w[y]]
  BY <1>5
<1> HIDE DEF v, w
<1>7. FirstInfusion = v
  <2>1. \A y \in D : w[y] = v[y]
    BY <1>6, <1>12
  <2>2. w = v
    BY <1>6, <1>12, <2>1
  <2> QED
    BY <2>2 DEF FirstInfusion, w, u, b
<1>8. b = 0 => FirstInfusion = Opened
  <2> SUFFICES ASSUME b = 0 PROVE v = Opened
    BY <1>7
  <2>1. \A y \in D : Opened[y] = v[y]
    BY <1>3, <1>4, <1>6
  <2> QED
    BY <1>3, <1>6, <2>1
<1>9. Backing(NoInfusion) /\ NoInfusion.infused = 0 /\ ~NoInfusion.active
  BY <1>1, <1>2 DEF Backing
<1>10. Backing(Opened) /\ Opened.infused = 0 /\ Opened.max = a
  BY <1>1, <1>3 DEF Backing
<1>11. Backing(FirstInfusion) /\ FirstInfusion.infused = b
  <2>1. Opened.max > 0 /\ b % Opened.max = 0
    BY <1>1, <1>10
  <2>2. \A units \in Nat : \A j : units % Opened.max = 0 /\ j = Infused(Opened, units) =>
          Backing(j) /\ j.infused = Opened.infused + units
    BY <1>10, <2>1, InfusedBacking
  <2> QED
    BY <1>1, <1>7, <1>10, <2>1, <2>2 DEF v
<1> QED
  BY <1>7, <1>8, <1>9, <1>10, <1>11 DEF a, b, v

(* The bootstrap takes the first backing from the protocol's account.    *)
LEMMA Bootstrapped ==
  ASSUME NEW r, NEW all, LedgerStands(r, all), r.ok => r.i = NoInfusion, NEW q, q = Bootstrap(r)
  PROVE  LedgerStands(q, all) /\ (q.ok => r.ok /\ q.i = FirstInfusion)
<1>1. CASE ~r.ok
  <2>1. q = r
    BY <1>1, Zenon DEF Bootstrap
  <2> QED
    BY <1>1, <2>1
<1>2. CASE r.ok
  <2> DEFINE o == [r EXCEPT !.i.active = TRUE]
             d == Move(o, Jin.protocol, Jin.vault, Jin.bootstrap)
  <2>1. r.i = NoInfusion /\ IsResult(r) /\ ~r.i.active
    BY <1>2, FirstInfusionFacts DEF LedgerStands
  <2>2. IsResult(o) /\ o.ok = r.ok /\ o.m = r.m /\ o.i = Opened /\ o.due = r.due
    BY <2>1 DEF IsResult, Opened
  <2>3. q = IF Jin.bootstrap = 0 THEN o ELSE Backed(d)
    BY <1>2, <2>1, Zenon DEF Bootstrap
  <2> HIDE DEF o
  <2>4. CASE Jin.bootstrap = 0
    <3>1. q = o /\ o.i = FirstInfusion
      BY <2>2, <2>3, <2>4, FirstInfusionFacts
    <3>2. Backing(q.i) /\ q.i.infused = 0
      BY <2>2, <3>1, FirstInfusionFacts
    <3>3. Balance(q.m, Jin.vault) \in Nat
      BY <1>2, <2>2, <3>1, BalanceNat DEF LedgerStands
    <3> QED
      BY <1>2, <2>2, <3>1, <3>2, <3>3 DEF LedgerStands
  <2>5. CASE Jin.bootstrap # 0
    <3>1. q = Backed(d)
      BY <2>3, <2>5
    <3>2. IsResult(d) /\ (d.ok => o.ok) /\ (d.ok /\ IsLedger(o.m) => Moves(o, d, Jin.protocol, Jin.vault, Jin.bootstrap))
      <4>1. Jin.protocol # Jin.vault /\ Jin.bootstrap \in Nat
        BY JinNumbers
      <4> QED
        BY <2>2, <4>1, MoveFacts
    <3> HIDE DEF d
    <3>3. CASE ~d.ok
      <4>1. q = d
        BY <3>1, <3>3, Zenon DEF Backed
      <4> QED
        BY <3>2, <3>3, <4>1 DEF LedgerStands
    <3>4. CASE d.ok
      <4>1. q = [d EXCEPT !.i = Infused(@, Jin.bootstrap)]
        BY <3>1, <3>4, Zenon DEF Backed
      <4>2. /\ IsLedger(d.m) /\ SumOn(d.m) = SumOn(r.m) /\ d.i = Opened
            /\ Balance(d.m, Jin.vault) = Balance(r.m, Jin.vault) + Jin.bootstrap
        BY <1>2, <2>2, <3>2, <3>4 DEF LedgerStands, Moves
      <4>3. IsResult(q) /\ q.ok /\ q.m = d.m /\ q.i = FirstInfusion
        <5>1. IsResult(q) /\ q.ok = d.ok /\ q.m = d.m /\ q.i = Infused(d.i, Jin.bootstrap)
          BY <3>2, <4>1 DEF IsResult
        <5> QED
          BY <3>4, <4>2, <5>1, FirstInfusionFacts
      <4>4. Balance(r.m, Jin.vault) \in Nat /\ Jin.bootstrap \in Nat
        BY <1>2, BalanceNat, JinNumbers DEF LedgerStands
      <4>5. Backing(q.i) /\ q.i.infused = Jin.bootstrap
        BY <4>3, FirstInfusionFacts
      <4> QED
        BY <1>2, <4>2, <4>3, <4>4, <4>5 DEF LedgerStands
    <3> QED
      BY <3>3, <3>4
  <2> QED
    BY <2>4, <2>5
<1> QED
  BY <1>1, <1>2

(* A block whose JIN fees have somebody to go to.                        *)
Arrives(block) == PoolOf(block) # NoPool \/ MinerOf(block) # NoMiner
AllArrive(B) == \A h \in 1..Len(B) : Arrives(B[h])

(* The rest of a block, after the bootstrap.                             *)
Placement(placed, block) ==
  DOMAIN placed = 1..Len(block.txs) /\ \A i \in 1..Len(block.txs) : placed[i].tx = block.txs[i]
BlockReplayed(w, e, B, block, h) ==
  w = PayFees(JinTxsFold(h, MinerOf(block), [e EXCEPT !.due = 0], block.txs), B, block)
ListedBlock(block) == IsSeq(block.txs) /\ \A i \in 1..Len(block.txs) : OutsListed(block.txs[i])
ListedChain(B) == IsSeq(B) /\ (\A g \in 1..Len(B) : IsSeq(B[g].txs)) /\ PoolTxsSound(B)
LEMMA BlockStanding ==
  ASSUME NEW B, ListedChain(B), NEW block, ListedBlock(block),
         NEW e, NEW all, LedgerStands(e, all), NEW h, NEW x, InStep(e, x),
         NEW placed, Placement(placed, block),
         NEW w, BlockReplayed(w, e, B, block, h),
         NEW both, both => all /\ Arrives(block)
  PROVE  /\ LedgerStands(w, both)
         /\ w.ok => e.ok /\ (~InfusionActive(h) => w.i = e.i)
         /\ InStep(w, Infusion!Fold(0, x, placed))
<1> DEFINE total == IF e.ok THEN SumOn(e.m) ELSE 0
           miner == MinerOf(block)
           f == [e EXCEPT !.due = 0]
           q == JinTxsFold(h, miner, f, block.txs)
           y == Infusion!Fold(0, x, placed)
<1>0. /\ IsSeq(B) /\ (\A g \in 1..Len(B) : IsSeq(B[g].txs)) /\ PoolTxsSound(B)
      /\ IsSeq(block.txs) /\ (\A i \in 1..Len(block.txs) : OutsListed(block.txs[i]))
      /\ DOMAIN placed = 1..Len(block.txs) /\ (\A i \in 1..Len(block.txs) : placed[i].tx = block.txs[i])
      /\ w = PayFees(q, B, block)
  BY DEF ListedChain, ListedBlock, Placement, BlockReplayed
<1>1. IsResult(f) /\ f.ok = e.ok /\ f.m = e.m /\ f.i = e.i /\ f.due = 0
  BY DEF LedgerStands, IsResult
<1>2. total \in Int
  BY DEF LedgerStands
<1>3. e.ok => total <= Jin.supply /\ (all => total = Jin.supply)
  BY DEF LedgerStands
<1>4. Held(f, total, miner) /\ InStep(f, x)
  <2> HIDE DEF miner
  <2>1. e.ok => total = SumOn(e.m) /\ total + 0 = total
    BY <1>2
  <2> HIDE DEF total
  <2> QED
    BY <1>1, <2>1 DEF Held, LedgerStands, InStep
<1> HIDE DEF total, miner, f
<1>5. Reached(f, q, total, miner, h, y)
  BY <1>0, <1>1, <1>2, <1>4, TxsReached
<1>6. w = PayFees(q, B, block)
  BY <1>0
<1> HIDE DEF q, y
<1>7. /\ IsResult(q) /\ Held(q, total, miner) /\ (q.ok => f.ok) /\ (q.ok /\ ~InfusionActive(h) => q.i = f.i)
      /\ InStep(q, y)
  BY <1>5 DEF Reached
<1>8. /\ IsResult(w) /\ (w.ok => q.ok /\ w.i = q.i)
      /\ w.ok => /\ IsLedger(w.m) /\ SumOn(w.m) \in Int /\ SumOn(w.m) <= total
                 /\ Arrives(block) => SumOn(w.m) = total
                 /\ Balance(w.m, Jin.vault) >= w.i.infused
  <2>1. Held(q, total, MinerOf(block))
    BY <1>7 DEF miner
  <2> QED
    BY <1>0, <1>2, <1>6, <1>7, <2>1, FeesPaid DEF Arrives
<1>9. w.ok => Backing(w.i)
  BY <1>7, <1>8 DEF Held
<1>10. Jin.supply \in Nat
  BY JinNumbers
<1>11. w.ok => e.ok
  BY <1>1, <1>7, <1>8
<1>12. LedgerStands(w, both)
  BY <1>2, <1>3, <1>8, <1>9, <1>10, <1>11 DEF LedgerStands
<1> QED
  BY <1>1, <1>7, <1>8, <1>11, <1>12 DEF InStep, y

(* The state that the replay of infusion starts from, for a chain.       *)
StartOf(B) == [ok |-> TRUE, i |-> IF InfusionActive(Len(B)) THEN FirstInfusion ELSE NoInfusion]
(* The ledger of a chain, with its infusion state in step.               *)
JinSound(B) ==
  /\ LedgerStands(Ledger(B), AllArrive(B))
  /\ InStep(Ledger(B), InfusionAfter(StartOf(B), B))
  /\ ~InfusionActive(Len(B)) =>
       (\A q : InfusionAfter(q, B) = q) /\ (Ledger(B).ok => Ledger(B).i = NoInfusion)

LEMMA EmptyJin == JinSound(<<>>)
<1>1. Len(<<>>) = 0 /\ ~InfusionActive(0)
  BY JinNumbers DEF InfusionActive
<1>2. \A q : InfusionAfter(q, <<>>) = q
  BY InfusionOfNone
<1>3. Ledger(<<>>) = Endowed
  BY LedgerStart
<1> DEFINE m == [a \in {Jin.protocol} |-> Jin.supply]
<1>4. Endowed = [ok |-> TRUE, m |-> m, i |-> NoInfusion, due |-> 0]
  BY DEF Endowed
<1>5. IsLedger(m) /\ SumOn(m) = Jin.supply /\ Balance(m, Jin.vault) \in Nat /\ Jin.supply \in Nat
  <2>1. Jin.supply \in Nat
    BY JinNumbers
  <2>2. IsLedger(m) /\ SumOn(m) = Jin.supply
    BY <2>1, SingleLedger
  <2> HIDE DEF m
  <2> QED
    BY <2>1, <2>2, BalanceNat
<1> HIDE DEF m
<1>6. IsResult(Endowed) /\ Endowed.ok /\ Endowed.m = m /\ Endowed.i = NoInfusion
  BY <1>4 DEF IsResult
<1>7. LedgerStands(Endowed, AllArrive(<<>>))
  BY <1>5, <1>6, FirstInfusionFacts DEF LedgerStands
<1>8. StartOf(<<>>) = [ok |-> TRUE, i |-> NoInfusion]
  BY <1>1 DEF StartOf
<1>9. InStep(Endowed, StartOf(<<>>))
  BY <1>6, <1>8 DEF InStep
<1> QED
  BY <1>1, <1>2, <1>3, <1>6, <1>7, <1>9 DEF JinSound

(* One more block.                                                       *)
LEMMA JinNext ==
  ASSUME NEW B, ListedChain(B), JinSound(B), NEW block, ListedBlock(block)
  PROVE  JinSound(Append(B, block))
<1> DEFINE Q == Append(B, block)
           h == Len(B) + 1
           r == Ledger(B)
           e == BootstrapAt(r, h)
           all == AllArrive(B)
           both == AllArrive(Q)
           new == InfusionAfter(StartOf(Q), Q)
<1>0. IsSeq(B) /\ IsSeq(block.txs) /\ \A g \in 1..Len(B) : IsSeq(B[g].txs)
  BY DEF ListedChain, ListedBlock
<1>1. Len(B) \in Nat /\ h \in Nat /\ Len(Q) = h
  BY <1>0, SeqDomain, AppendSeq
<1>2. both => all /\ Arrives(block)
  <2>1. (\A g \in 1..Len(B) : Q[g] = B[g]) /\ Q[h] = block
    BY <1>0, AppendSeq
  <2> HIDE DEF Q
  <2> QED
    BY <1>1, <2>1 DEF AllArrive
<1>3. Ledger(Q) = IF h < Jin.active THEN e ELSE ReplayJinBlock(r, B, block, h)
  BY <1>0, LedgerNext
<1>4. /\ LedgerStands(r, all) /\ InStep(r, InfusionAfter(StartOf(B), B))
      /\ ~InfusionActive(Len(B)) => (\A q : InfusionAfter(q, B) = q) /\ (r.ok => r.i = NoInfusion)
  BY DEF JinSound
<1>5. /\ Jin.active \in Nat /\ Jin.infusion_active \in Nat \ {0} /\ Jin.active <= Jin.infusion_active
      /\ \A n \in Nat : InfusionActive(n) <=> n >= Jin.infusion_active
  BY JinNumbers DEF InfusionActive
<1>6. /\ StartOf(Q).ok /\ StartOf(Q).i = (IF InfusionActive(h) THEN FirstInfusion ELSE NoInfusion)
      /\ {"ok", "i"} \subseteq DOMAIN StartOf(Q)
  <2> HIDE DEF Q, h
  <2> QED
    BY <1>1 DEF StartOf
<1>7. \A q0 : \/ h < Jin.infusion_active /\ InfusionAfter(q0, Q) = InfusionAfter(q0, B)
              \/ /\ ~(h < Jin.infusion_active)
                 /\ \E placed : /\ Placement(placed, block)
                                /\ InfusionAfter(q0, Q) = Infusion!Fold(0, InfusionAfter(q0, B), placed)
  <2> HIDE DEF Q, new, e, all, both, r
  <2>1. ASSUME NEW q0
        PROVE  \/ h < Jin.infusion_active /\ InfusionAfter(q0, Q) = InfusionAfter(q0, B)
               \/ /\ ~(h < Jin.infusion_active)
                  /\ \E placed : /\ DOMAIN placed = 1..Len(block.txs)
                                 /\ \A i \in 1..Len(block.txs) : placed[i].tx = block.txs[i]
                                 /\ InfusionAfter(q0, Q) = Infusion!Fold(0, InfusionAfter(q0, B), placed)
    BY <1>0, InfusionNext DEF Q, h
  <2> QED
    BY <2>1, Zenon DEF Placement
<1>8. /\ LedgerStands(e, all) /\ (e.ok => r.ok)
      /\ h # Jin.infusion_active => e = r
      /\ h = Jin.infusion_active /\ e.ok => e.i = FirstInfusion
  <2>1. CASE h # Jin.infusion_active
    <3>1. e = r
      BY <2>1, Zenon DEF BootstrapAt
    <3> QED
      BY <1>4, <2>1, <3>1
  <2>2. CASE h = Jin.infusion_active
    <3>1. e = Bootstrap(r)
      BY <2>2, Zenon DEF BootstrapAt
    <3>2. ~InfusionActive(Len(B))
      BY <1>1, <1>5, <2>2
    <3> HIDE DEF r, e
    <3>3. LedgerStands(e, all) /\ (e.ok => r.ok /\ e.i = FirstInfusion)
      BY <1>4, <3>1, <3>2, Bootstrapped
    <3> QED
      BY <2>2, <3>3
  <2> QED
    BY <2>1, <2>2
<1> HIDE DEF Q, h, r, e, all, both, new
<1>9. CASE h < Jin.infusion_active
  <2>1. ~InfusionActive(h) /\ ~InfusionActive(Len(B)) /\ h # Jin.infusion_active
    BY <1>1, <1>5, <1>9 DEF h
  <2>2. \A q : InfusionAfter(q, Q) = q
    BY <1>4, <1>7, <1>9, <2>1
  <2>3. e = r /\ (r.ok => r.i = NoInfusion) /\ new = StartOf(Q)
    BY <1>4, <1>8, <2>1, <2>2 DEF new
  <2>4. StartOf(Q).i = NoInfusion
    BY <1>6, <2>1
  <2>5. CASE h < Jin.active
    <3>1. Ledger(Q) = r
      BY <1>3, <2>3, <2>5
    <3>2. LedgerStands(r, both)
      BY <1>2, <1>4 DEF LedgerStands
    <3>3. InStep(r, new)
      BY <1>6, <2>3, <2>4 DEF InStep
    <3> QED
      BY <1>1, <2>1, <2>2, <2>3, <3>1, <3>2, <3>3 DEF JinSound, Q, new, both
  <2>6. CASE ~(h < Jin.active)
    <3> DEFINE w == ReplayJinBlock(r, B, block, h)
               x == [ok |-> TRUE, i |-> r.i]
               placed == [i \in 1..Len(block.txs) |-> [tx |-> block.txs[i]]]
    <3>1. Ledger(Q) = w
      BY <1>3, <2>6
    <3>2. BlockReplayed(w, e, B, block, h)
      BY Zenon DEF BlockReplayed, ReplayJinBlock, JinTxsFold, e
    <3>3. InStep(e, x)
      BY <2>3 DEF InStep
    <3>4. Placement(placed, block)
      BY DEF Placement
    <3> HIDE DEF w, x, placed
    <3>6. LedgerStands(w, both) /\ (w.ok => e.ok /\ (~InfusionActive(h) => w.i = e.i))
      BY <1>2, <1>8, <3>2, <3>3, <3>4, BlockStanding
    <3>7. w.ok => w.i = NoInfusion
      BY <2>1, <2>3, <3>6
    <3>8. InStep(w, new)
      BY <1>6, <2>3, <2>4, <3>6, <3>7 DEF InStep
    <3> QED
      BY <1>1, <2>1, <2>2, <3>1, <3>6, <3>7, <3>8 DEF JinSound, Q, new, both
  <2> QED
    BY <2>5, <2>6
<1>10. CASE ~(h < Jin.infusion_active)
  <2>1. InfusionActive(h) /\ ~(h < Jin.active)
    BY <1>1, <1>5, <1>10
  <2> DEFINE w == ReplayJinBlock(r, B, block, h)
             x == InfusionAfter(StartOf(Q), B)
  <2>2. Ledger(Q) = w
    BY <1>3, <2>1
  <2>3. BlockReplayed(w, e, B, block, h)
    BY Zenon DEF BlockReplayed, ReplayJinBlock, JinTxsFold, e
  <2>4. PICK placed : /\ Placement(placed, block)
                      /\ new = Infusion!Fold(0, x, placed)
    BY <1>7, <1>10 DEF new
  <2>5. InStep(e, x)
    <3>1. CASE h = Jin.infusion_active
      <4>1. ~InfusionActive(Len(B))
        BY <1>1, <1>5, <3>1 DEF h
      <4>2. x = StartOf(Q)
        BY <1>4, <4>1
      <4> HIDE DEF x
      <4> QED
        BY <1>6, <1>8, <2>1, <3>1, <4>2 DEF InStep
    <3>2. CASE h # Jin.infusion_active
      <4>1. InfusionActive(Len(B))
        BY <1>1, <1>5, <1>10, <3>2 DEF h
      <4>2. StartOf(Q) = StartOf(B)
        BY <1>1, <2>1, <4>1 DEF StartOf
      <4>3. e = r
        BY <1>8, <3>2
      <4> QED
        BY <1>4, <4>2, <4>3
    <3> QED
      BY <3>1, <3>2
  <2> HIDE DEF w, x
  <2>6. LedgerStands(w, both) /\ InStep(w, new)
    BY <1>2, <1>8, <2>3, <2>4, <2>5, BlockStanding
  <2> QED
    BY <1>1, <2>1, <2>2, <2>6 DEF JinSound, Q, new, both
<1> QED
  BY <1>9, <1>10

-----------------------------------------------------------------------------
(* What is sold of the public sale.                                      *)

(* Every batch's count is within the batch.                              *)
SoldSound(sold) == \A l \in DOMAIN sold : sold[l] \in Int /\ sold[l] <= Jin.sale_batch

(* The count of the purchases of the blocks, one transaction after the   *)
(* other.                                                                *)
CountPurchase(c, sold, o) == Set(sold, o.s.listing, Sold(sold, o.s.listing) + o.s.amount)
PurchaseCount == INSTANCE FoldFacts WITH Op <- CountPurchase, Inv <- Never
CountTx(c, sold, p) == PurchaseCount!Fold(0, sold, Purchases(p.tx))
Unsold(c, k, sold) == sold = c
SaleCount == INSTANCE FoldFacts WITH Op <- CountTx, Inv <- Unsold
LEMMA SoldIsFold ==
  ASSUME NEW B
  PROVE  SoldFrom(B) = SaleCount!Fold(0, <<>>, Placed(B, Jin.swap_active))
BY Zenon DEF SoldFrom, CountTx, CountPurchase, Folded,
  SaleCount!Fold, SaleCount!Table, PurchaseCount!Fold, PurchaseCount!Table

LEMMA SoldNext ==
  ASSUME NEW B, IsSeq(B), \A h \in 1..Len(B) : IsSeq(B[h].txs), NEW block, IsSeq(block.txs)
  PROVE  \/ SoldFrom(Append(B, block)) = SoldFrom(B)
         \/ \E placed : /\ Placement(placed, block)
                        /\ SoldFrom(Append(B, block)) = SaleCount!Fold(0, SoldFrom(B), placed)
<1> DEFINE first == Jin.swap_active
           old == Placed(B, first)
           all == Placed(Append(B, block), first)
           m == Len(block.txs)
<1>1. first \in Int
  BY JinAssumption DEF JinSettings
<1>2. SoldFrom(B) = SaleCount!Fold(0, <<>>, old) /\ SoldFrom(Append(B, block)) = SaleCount!Fold(0, <<>>, all)
  BY SoldIsFold
<1>3. m \in Nat
  BY SeqDomain
<1> HIDE DEF old, all, first
<1>4. /\ Len(old) \in Nat /\ DOMAIN old = 1..Len(old)
      /\ \/ Len(B) + 1 < first /\ all = old
         \/ ~(Len(B) + 1 < first) /\ \E new : FollowedBy(old, new, all, block.txs)
  BY <1>1, PlacedAfter DEF old, all
<1>5. CASE all = old
  BY <1>2, <1>5
<1>6. CASE \E new : FollowedBy(old, new, all, block.txs)
  <2>0. PICK new : FollowedBy(old, new, all, block.txs)
    BY <1>6
  <2>1. /\ DOMAIN new = 1..m /\ \A i \in 1..m : new[i].tx = block.txs[i]
        /\ DOMAIN all = 1..(Len(old) + m) /\ \A i \in 1..Len(old) : all[i] = old[i]
        /\ \A i \in 1..m : all[Len(old) + i] = new[i]
    BY <2>0 DEF FollowedBy
  <2>2. Placement(new, block)
    BY <2>1 DEF Placement
  <2>3. SaleCount!Fold(0, <<>>, all) = SaleCount!Fold(0, SaleCount!Fold(0, <<>>, old), new)
    <3> DEFINE none == <<>>
    <3> HIDE DEF m, none
    <3>1. SaleCount!Fold(0, none, all) = SaleCount!Fold(0, SaleCount!Fold(0, none, old), new)
      BY <1>3, <1>4, <2>1, SaleCount!FoldConcat
    <3> QED
      BY <3>1 DEF none
  <2> QED
    BY <1>2, <2>2, <2>3
<1> QED
  BY <1>4, <1>5, <1>6

(* A transaction that is no purchase sells nothing; a purchase that the  *)
(* validation takes is counted as the validation counts it, and leaves   *)
(* no batch oversold.                                                    *)
LEMMA NoSaleCount ==
  ASSUME NEW tx, ~IsSale(tx), NEW sold, NEW p, p.tx = tx, NEW c
  PROVE  CountTx(c, sold, p) = sold
<1>1. Purchases(tx) = <<>> /\ Len(<<>>) = 0
  BY DEF IsSale
<1> QED
  BY <1>1, PurchaseCount!FoldShort DEF CountTx
LEMMA SaleTxCount ==
  ASSUME NEW tx, OutsListed(tx), NEW U, NEW h, NEW sold, SoldSound(sold), NEW next \in SaleTx(tx, U, sold, h),
         NEW p, p.tx = tx
  PROVE  next = CountTx(0, sold, p) /\ SoldSound(next)
<1>1. CASE ~IsSale(tx)
  <2>1. next = sold
    BY <1>1 DEF SaleTx
  <2> QED
    BY <1>1, <2>1, NoSaleCount
<1>2. CASE IsSale(tx)
  <2> DEFINE k == Purchases(tx)[1].s
             after == Set(sold, k.listing, Sold(sold, k.listing) + k.amount)
  <2>1. SaleAllowed(tx, k, U, sold, h) /\ next = after
    BY <1>2 DEF SaleTx
  <2>2. Purchases(tx) = <<Out(Jin.swap_marker, k)>>
    BY <2>1 DEF SaleAllowed
  <2>3. Len(Purchases(tx)) = 1
    <3> HIDE DEF k
    <3> QED
      BY <2>2
  <2>4. k.listing \in Nat /\ k.amount \in Nat
    BY <2>3, PurchaseList DEF IsPurchase
  <2>5. CountTx(0, sold, p) = CountPurchase(0, sold, Purchases(tx)[1])
    BY <2>3, PurchaseCount!FoldShort DEF CountTx
  <2>6. CountTx(0, sold, p) = after
    BY <2>5 DEF CountPurchase
  <2>7. \E total \in ListingTotal(k.listing, h) : k.amount <= LargerOf(0, total - Sold(sold, k.listing))
    BY <2>1 DEF SaleAllowed
  <2> HIDE DEF k
  <2>8. Jin.sale_batch \in Nat /\ Jin.sale_total \in Int
    BY JinAssumption DEF JinSettings
  <2>9. \A total \in ListingTotal(k.listing, h) : total \in Int /\ total <= Jin.sale_batch
    <3>1. Jin.sale_batch * k.listing \in Int
      BY <2>4, <2>8
    <3>2. Jin.sale_total - Jin.sale_batch * k.listing \in Int
      BY <2>8, <3>1
    <3> QED
      BY <2>8, <3>2 DEF ListingTotal, SmallerOf
  <2>10. Sold(sold, k.listing) \in Int /\ Sold(sold, k.listing) <= Jin.sale_batch
    BY <2>8 DEF Sold, SoldSound
  <2>11. Sold(sold, k.listing) + k.amount \in Int /\ Sold(sold, k.listing) + k.amount <= Jin.sale_batch
    <3> DEFINE was == Sold(sold, k.listing)
    <3>1. was \in Int /\ was <= Jin.sale_batch
      BY <2>10
    <3> HIDE DEF was
    <3>2. PICK total \in ListingTotal(k.listing, h) : k.amount <= LargerOf(0, total - was)
      BY <2>7 DEF was
    <3>3. total \in Int /\ total <= Jin.sale_batch
      BY <2>9
    <3>4. was + k.amount \in Int /\ was + k.amount <= Jin.sale_batch
      BY <2>4, <2>8, <3>1, <3>2, <3>3 DEF LargerOf
    <3> QED
      BY <3>4 DEF was
  <2>12. SoldSound(after)
    <3> DEFINE n == Sold(sold, k.listing) + k.amount
    <3> HIDE DEF n
    <3>1. n \in Int /\ n <= Jin.sale_batch
      BY <2>11 DEF n
    <3>2. SoldSound(Set(sold, k.listing, n))
      BY <3>1 DEF SoldSound, Set
    <3> QED
      BY <3>2 DEF n
  <2> QED
    BY <2>1, <2>6, <2>12
<1> QED
  BY <1>1, <1>2

(* The walk of validate_jin_sale_block, with the count in step: c holds  *)
(* the height and the counts after each transaction.                     *)
SaleKeeps(c, S, tx) == SaleAfter(S, tx, c[1])
SaleInStep(c, k, S) == \A s \in S : s.sold = c[2][k] /\ SoldSound(s.sold)
SaleWalk == INSTANCE FoldFacts WITH Op <- SaleKeeps, Inv <- SaleInStep
LEMMA SaleWalkIsFold ==
  ASSUME NEW x, NEW block, NEW B, NEW U, SaleBlockOK(block, B, U, x[1]), \E tx \in ToSet(block.txs) : IsSale(tx)
  PROVE  SaleWalk!Fold(x, {[sold |-> SoldFrom(B), U |-> U]}, block.txs) # {}
<1>1. SaleBlockOK(block, B, U, x[1]) <=>
        ((\E tx \in ToSet(block.txs) : IsSale(tx)) =>
           SaleWalk!Fold(x, {[sold |-> SoldFrom(B), U |-> U]}, block.txs) # {})
  BY Zenon DEF SaleBlockOK, SaleKeeps, Folded, SaleWalk!Fold, SaleWalk!Table
<1> QED
  BY <1>1, Zenon
LEMMA CountSteps ==
  ASSUME NEW n \in Nat, NEW placed, DOMAIN placed = 1..n, NEW sold
  PROVE  \E qs : /\ \A k \in 0..n : qs[k] = IF k = 0 THEN sold ELSE CountTx(0, qs[k - 1], placed[k])
                 /\ SaleCount!Fold(0, sold, placed) = qs[n]
<1> DEFINE qs == SaleCount!Table(0, n, sold, placed)
<1>1. \A k \in 0..n : SaleCount!Table(0, n, sold, placed)[k] =
        IF k = 0 THEN sold ELSE CountTx(0, SaleCount!Table(0, n, sold, placed)[k - 1], placed[k])
  <2>1. \A base : \A k \in 0..n : SaleCount!Table(0, n, base, placed)[k] =
          IF k = 0 THEN base ELSE CountTx(0, SaleCount!Table(0, n, base, placed)[k - 1], placed[k])
    BY SaleCount!StepsOfAny
  <2> QED
    BY <2>1, Zenon
<1>2. Len(placed) = n
  BY SaleCount!LengthByDomain
<1>3. SaleCount!Fold(0, sold, placed) = qs[n]
  BY <1>2, Zenon DEF SaleCount!Fold
<1> QED
  BY <1>1, <1>3, Zenon

(* No block that validates sells a batch twice.                          *)
LEMMA SaleNext ==
  ASSUME NEW B, ListedChain(B), SoldSound(SoldFrom(B)), NEW block, ListedBlock(block),
         NEW U, NEW h, SaleBlockOK(block, B, U, h)
  PROVE  SoldSound(SoldFrom(Append(B, block)))
<1> DEFINE n == Len(block.txs)
           sold == SoldFrom(B)
           new == SoldFrom(Append(B, block))
<1>1. /\ IsSeq(B) /\ (\A g \in 1..Len(B) : IsSeq(B[g].txs)) /\ IsSeq(block.txs)
      /\ \A i \in 1..n : OutsListed(block.txs[i])
  BY DEF ListedChain, ListedBlock
<1>2. n \in Nat /\ DOMAIN block.txs = 1..n /\ ToSet(block.txs) = {block.txs[i] : i \in 1..n}
  BY <1>1, SeqDomain DEF ToSet
<1>3. new = sold \/ \E placed : Placement(placed, block) /\ new = SaleCount!Fold(0, sold, placed)
  BY <1>1, SoldNext
<1> HIDE DEF sold, new
<1>4. SoldSound(sold)
  BY DEF sold
<1>5. CASE new = sold
  BY <1>4, <1>5 DEF new
<1>6. CASE \E placed : Placement(placed, block) /\ new = SaleCount!Fold(0, sold, placed)
  <2>1. PICK placed : Placement(placed, block) /\ new = SaleCount!Fold(0, sold, placed)
    BY <1>6
  <2>2. DOMAIN placed = 1..n /\ \A i \in 1..n : placed[i].tx = block.txs[i]
    BY <2>1 DEF Placement
  <2> HIDE DEF n
  <2>3. PICK qs : /\ \A k \in 0..n : qs[k] = IF k = 0 THEN sold ELSE CountTx(0, qs[k - 1], placed[k])
                  /\ SaleCount!Fold(0, sold, placed) = qs[n]
    BY <1>2, <2>2, CountSteps
  <2>4. CASE \E tx \in ToSet(block.txs) : IsSale(tx)
    <3> DEFINE x == <<h, qs>>
               start == {[sold |-> sold, U |-> U]}
               S == SaleWalk!Fold(x, start, block.txs)
    <3>1. x[1] = h /\ x[2] = qs
      OBVIOUS
    <3> HIDE DEF x
    <3>2. S # {}
      BY <2>4, <3>1, SaleWalkIsFold DEF sold
    <3>3. SaleInStep(x, 0, start)
      <4>1. qs[0] = sold
        BY <1>2, <2>3
      <4> QED
        BY <1>4, <3>1, <4>1 DEF SaleInStep
    <3>4. ASSUME NEW i \in 1..n, NEW T, SaleInStep(x, i - 1, T)
          PROVE  SaleInStep(x, i, SaleKeeps(x, T, block.txs[i]))
      <4> SUFFICES ASSUME NEW s \in SaleKeeps(x, T, block.txs[i]) PROVE s.sold = qs[i] /\ SoldSound(s.sold)
        BY <3>1 DEF SaleInStep
      <4>1. PICK t \in T : s \in {[sold |-> o, U |-> V] : o \in SaleTx(block.txs[i], t.U, t.sold, h),
                                                        V \in ConnectValid(block.txs[i], t.U, h)}
        BY <3>1 DEF SaleKeeps, SaleAfter
      <4>2. s.sold \in SaleTx(block.txs[i], t.U, t.sold, h)
        BY <4>1
      <4>3. t.sold = qs[i - 1] /\ SoldSound(t.sold)
        BY <3>1, <3>4 DEF SaleInStep
      <4>4. OutsListed(block.txs[i]) /\ placed[i].tx = block.txs[i]
        BY <1>1, <2>2 DEF n
      <4>5. s.sold = CountTx(0, t.sold, placed[i]) /\ SoldSound(s.sold)
        BY <4>2, <4>3, <4>4, SaleTxCount
      <4>6. qs[i] = CountTx(0, qs[i - 1], placed[i])
        BY <1>2, <2>3
      <4> QED
        BY <4>3, <4>5, <4>6
    <3>5. SaleInStep(x, n, S)
      <4> HIDE DEF start
      <4> QED
        BY <1>2, <3>3, <3>4, SaleWalk!FoldInvariant
    <3>6. PICK s \in S : s.sold = qs[n] /\ SoldSound(s.sold)
      BY <3>1, <3>2, <3>5 DEF SaleInStep
    <3> QED
      BY <2>1, <2>3, <3>6 DEF new
  <2>5. CASE ~ \E tx \in ToSet(block.txs) : IsSale(tx)
    <3>1. \A i \in 1..n : \A s : CountTx(0, s, placed[i]) = CountTx(sold, s, placed[i])
      BY DEF CountTx
    <3>2. SaleCount!Fold(0, sold, placed) = SaleCount!Fold(sold, sold, placed)
      BY <1>2, <2>2, <3>1, SaleCount!FoldSame
    <3>3. Unsold(sold, 0, sold)
      BY DEF Unsold
    <3>4. ASSUME NEW i \in 1..n, NEW s, Unsold(sold, i - 1, s) PROVE Unsold(sold, i, CountTx(sold, s, placed[i]))
      <4>1. ~IsSale(block.txs[i])
        BY <1>2, <2>5
      <4> QED
        BY <2>2, <3>4, <4>1, NoSaleCount DEF Unsold
    <3>5. Unsold(sold, n, SaleCount!Fold(sold, sold, placed))
      BY <1>2, <2>2, <3>3, <3>4, SaleCount!FoldInvariant
    <3>6. new = sold
      BY <2>1, <3>2, <3>5 DEF Unsold
    <3> QED
      BY <1>4, <3>6 DEF new
  <2> QED
    BY <2>4, <2>5
<1> QED
  BY <1>3, <1>5, <1>6

LEMMA EmptySale == SoldSound(SoldFrom(<<>>))
<1> DEFINE c == <<<<>>, Jin.swap_active>>
           hs == [h \in DOMAIN c[1] |-> h]
<1>1. c[1] = <<>> /\ c[2] = Jin.swap_active
  OBVIOUS
<1>2. Placed(c[1], c[2]) = PlacedTxs!Fold(c, <<>>, hs)
  BY PlacedIsFold, Zenon
<1>3. Len(hs) = 0
  BY <1>1
<1> HIDE DEF c, hs
<1>4. PlacedTxs!Fold(c, <<>>, hs) = <<>>
  BY <1>3, PlacedTxs!FoldShort
<1>5. Placed(<<>>, Jin.swap_active) = <<>>
  BY <1>1, <1>2, <1>4
<1>6. SaleCount!Fold(0, <<>>, <<>>) = <<>> /\ DOMAIN <<>> = {}
  BY SaleCount!FoldShort
<1>7. SoldFrom(<<>>) = <<>>
  BY <1>5, <1>6, SoldIsFold
<1> QED
  BY <1>6, <1>7 DEF SoldSound

-----------------------------------------------------------------------------
(* What the replays of a sound chain tell.                               *)
(* The infusion state that is replayed on its own is that of a start.    *)
LEMMA InfusionOfStart ==
  ASSUME NEW B, NEW i \in InfusionFrom(B)
  PROVE  InfusionAfter(StartOf(B), B).ok /\ i = InfusionAfter(StartOf(B), B).i
<1> DEFINE r == Infusion!Fold(0, StartOf(B), Placed(B, Jin.infusion_active))
<1>1. i \in {f.i : f \in {final \in {r} : final.ok}}
  BY Zenon DEF InfusionFrom, StartOf, FirstInfusion, Folded, InfuseTx, ReplayMarker,
    Infusion!Fold, Infusion!Table, TxInfusion!Fold, TxInfusion!Table
<1>2. r.ok /\ i = r.i
  BY <1>1
<1> QED
  BY <1>2 DEF InfusionAfter

LEMMA JinTells ==
  ASSUME NEW B, IsSeq(B), JinSound(B), SoldSound(SoldFrom(B)), NEW r, r = JinReplay(B)
  PROVE  /\ Len(B) >= Jin.active /\ r.ok =>
              /\ SumOn(r.m) <= Jin.supply
              /\ (\A h \in DOMAIN B : Arrives(B[h])) => SumOn(r.m) = Jin.supply
              /\ \A i \in InfusionFrom(B) :
                   i = r.i /\ i.infused = i.per * i.max /\ Balance(r.m, Jin.vault) >= i.infused
         /\ \A units \in Range(SoldFrom(B)) : units <= Jin.sale_batch
<1>1. \A units \in Range(SoldFrom(B)) : units <= Jin.sale_batch
  BY DEF Range, SoldSound
<1>2. Len(B) \in Nat /\ DOMAIN B = 1..Len(B) /\ Jin.active \in Nat
  BY SeqDomain, JinNumbers
<1>3. ASSUME Len(B) >= Jin.active, r.ok
      PROVE  /\ SumOn(r.m) <= Jin.supply
             /\ (\A h \in DOMAIN B : Arrives(B[h])) => SumOn(r.m) = Jin.supply
             /\ \A i \in InfusionFrom(B) :
                  i = r.i /\ i.infused = i.per * i.max /\ Balance(r.m, Jin.vault) >= i.infused
  <2>1. ~(Len(B) < Jin.active)
    BY <1>2, <1>3
  <2>2. r = Ledger(B)
    BY <2>1, LedgerIsFold
  <2>3. LedgerStands(r, AllArrive(B)) /\ InStep(r, InfusionAfter(StartOf(B), B))
    BY <2>2 DEF JinSound
  <2>4. AllArrive(B) <=> \A h \in DOMAIN B : Arrives(B[h])
    BY <1>2 DEF AllArrive
  <2>5. ASSUME NEW i \in InfusionFrom(B) PROVE i = r.i
    <3>1. i = InfusionAfter(StartOf(B), B).i
      BY InfusionOfStart
    <3> QED
      BY <1>3, <2>3, <3>1 DEF InStep
  <2>6. /\ SumOn(r.m) <= Jin.supply /\ (AllArrive(B) => SumOn(r.m) = Jin.supply)
        /\ r.i.infused = r.i.per * r.i.max /\ Balance(r.m, Jin.vault) >= r.i.infused
    BY <1>3, <2>3 DEF LedgerStands, Backing
  <2> QED
    BY <2>4, <2>5, <2>6
<1> QED
  BY <1>1, <1>3
===============================================================================

------------------------------ MODULE NodeProofs ------------------------------
(*************************************************************************)
(* Proofs about Node, for every protocol parameter, every wallet and     *)
(* every history a node may start from: what waits in a mempool is       *)
(* minable (MempoolMinable), a name is registered once in a chain        *)
(* (NamesRegisteredOnce), a pool pays out to the atom (PayoutsExact),    *)
(* coins and burns are at most what the blocks have paid                 *)
(* (CoinsAccounted), and TypeOK. The inductive invariant is NodeInv:     *)
(* every node's chain has linked blocks whose names and pool actions are *)
(* in order (those of ChainProofs), coins with a value and a height that *)
(* are accounted for, and a mempool of distinct transactions within its  *)
(* cap, each of which pays its fee from the node's own coins, no two of  *)
(* them spending the same one.                                           *)
(* Admission, the pruning of shares, the passes of the rebuild, the      *)
(* template, connect_block and the replay of another chain are folds, so *)
(* each of them is an instance of FoldFacts with the part of the         *)
(* invariant it keeps. The commitment of a share and the rules of the    *)
(* other protocols play no part: what they refuse only makes these       *)
(* operations do less.                                                   *)
(*************************************************************************)
EXTENDS Node, ChainProofs

(* tx can be mined at height h with the coins U: its inputs are there    *)
(* and ripe, and what they leave over pays its fees.                     *)
Pays(tx, U, h) == \E fee \in MinerFee(tx, U, h) : PaysItsFees(tx, fee, h)

(* Two transactions that spend no coin in common.                        *)
Apart(a, b) == \A p \in ToSet(a.ins) : p \notin ToSet(b.ins)

(* The mempool m can be mined at height h with the coins U. Shares spend *)
(* nothing and are left out of what follows.                             *)
MempoolSound(m, U, h) ==
  /\ IsSeq(m) /\ Len(m) <= Policy.max_mempool
  /\ \A i, j \in 1..Len(m) : m[i].id = m[j].id => i = j
  /\ \A i \in 1..Len(m) : ~IsShare(m[i]) => Pays(m[i], U, h)
  /\ \A i, j \in 1..Len(m) : i # j /\ ~IsShare(m[i]) /\ ~IsShare(m[j]) => Apart(m[i], m[j])

KeepConfirmable(c, s, tx) ==
  LET Confirmable(d) == /\ d.parent <= Height(c)
                        /\ Height(c) + 1 - d.parent <= Pool.stale
                        /\ d.parent_id = BlockId(c, d.parent)
  IN IF IsShare(tx) => Confirmable(tx.data) THEN Append(s, tx) ELSE s
Prune == INSTANCE FoldFacts WITH Op <- KeepConfirmable, Inv <- Never

(* An empty mempool is sound.                                            *)
LEMMA EmptyMempool == ASSUME NEW U, NEW h PROVE MempoolSound(<<>>, U, h)
BY PolicyAssumption DEF MempoolSound, IsSeq

(* A chain state with another mempool.                                   *)
LEMMA WithMempool ==
  ASSUME NEW B, NEW U, NEW m, NEW q, NEW c, c = [blocks |-> B, utxos |-> U, mempool |-> m]
  PROVE  [c EXCEPT !.mempool = q] = [blocks |-> B, utxos |-> U, mempool |-> q]
OBVIOUS

(* What an admission checks keeps the mempool sound.                     *)
LEMMA LongerMempool ==
  ASSUME NEW m, NEW U, NEW h, NEW tx, MempoolSound(m, U, h),
         Len(m) < Policy.max_mempool, tx.id \notin TxIds(m),
         ~IsShare(tx) => Pays(tx, U, h) /\ \A x \in ToSet(m) : Apart(tx, x)
  PROVE  MempoolSound(Append(m, tx), U, h)
<1> DEFINE q == Append(m, tx)
           l == Len(m)
<1>1. IsSeq(m) /\ l \in Nat /\ \A i \in 1..l : m[i] \in ToSet(m)
  BY SeqDomain DEF MempoolSound
<1>2. IsSeq(q) /\ Len(q) = l + 1 /\ q[l + 1] = tx /\ \A i \in 1..l : q[i] = m[i]
  BY <1>1, AppendSeq
<1>3. \A i \in 1..l : m[i].id # tx.id
  BY <1>1 DEF TxIds
<1> HIDE DEF q
<1>4. Len(q) <= Policy.max_mempool
  BY <1>1, <1>2, PolicyAssumption
<1>5. \A i, j \in 1..Len(q) : q[i].id = q[j].id => i = j
  BY <1>1, <1>2, <1>3 DEF MempoolSound
<1>6. \A i \in 1..Len(q) : ~IsShare(q[i]) => Pays(q[i], U, h)
  BY <1>1, <1>2 DEF MempoolSound
<1>7. ASSUME NEW i \in 1..Len(q), NEW j \in 1..Len(q), i # j, ~IsShare(q[i]), ~IsShare(q[j])
      PROVE  Apart(q[i], q[j])
  <2>1. CASE i = l + 1
    <3>1. j \in 1..l /\ q[j] \in ToSet(m)
      BY <1>1, <1>2, <1>7, <2>1
    <3> QED
      BY <1>2, <1>7, <2>1, <3>1
  <2>2. CASE j = l + 1
    <3>1. i \in 1..l /\ q[i] \in ToSet(m)
      BY <1>1, <1>2, <1>7, <2>2
    <3>2. Apart(q[j], q[i])
      BY <1>2, <1>7, <2>2, <3>1
    <3> QED
      BY <3>2 DEF Apart
  <2>3. CASE i # l + 1 /\ j # l + 1
    BY <1>1, <1>2, <1>7, <2>3 DEF MempoolSound
  <2> QED
    BY <2>1, <2>2, <2>3
<1> QED
  BY <1>2, <1>4, <1>5, <1>6, <1>7 DEF MempoolSound, q

(* What is picked out of a sound mempool is sound.                       *)
LEMMA FilteredMempool ==
  ASSUME NEW m, NEW U, NEW h, MempoolSound(m, U, h), NEW T, T \subseteq ToSet(m), NEW r,
         Prune!Picked(m, Len(m), T, r)
  PROVE  MempoolSound(r, U, h)
<1>1. IsSeq(m) /\ Len(m) \in Nat
  BY SeqDomain DEF MempoolSound
<1>2. r \in Seq(T) /\ Len(r) <= Len(m) /\ Len(r) \in Nat
  BY DEF Prune!Picked
<1>3. PICK e \in [1..Len(r) -> 1..Len(m)] : /\ \A j \in 1..Len(r) : r[j] = m[e[j]]
                                           /\ \A i, j \in 1..Len(r) : i < j => e[i] < e[j]
  BY Zenon DEF Prune!Picked
<1>4. \A i, j \in 1..Len(r) : i # j => e[i] # e[j]
  <2> SUFFICES ASSUME NEW i \in 1..Len(r), NEW j \in 1..Len(r), i # j PROVE e[i] # e[j]
    OBVIOUS
  <2>1. i < j \/ j < i
    BY <1>2
  <2>2. e[i] < e[j] \/ e[j] < e[i]
    BY <1>3, <2>1
  <2> QED
    BY <1>1, <1>3, <2>2
<1>5. IsSeq(r)
  BY <1>2, SeqOver
<1>6. Len(r) <= Policy.max_mempool
  BY <1>1, <1>2, PolicyAssumption DEF MempoolSound
<1>7. \A i, j \in 1..Len(r) : r[i].id = r[j].id => i = j
  BY <1>3, <1>4 DEF MempoolSound
<1>8. \A i \in 1..Len(r) : ~IsShare(r[i]) => Pays(r[i], U, h)
  BY <1>3 DEF MempoolSound
<1>9. \A i, j \in 1..Len(r) : i # j /\ ~IsShare(r[i]) /\ ~IsShare(r[j]) => Apart(r[i], r[j])
  <2> SUFFICES ASSUME NEW i \in 1..Len(r), NEW j \in 1..Len(r), i # j, ~IsShare(r[i]), ~IsShare(r[j])
               PROVE  Apart(r[i], r[j])
    OBVIOUS
  <2>1. e[i] \in 1..Len(m) /\ e[j] \in 1..Len(m) /\ e[i] # e[j] /\ r[i] = m[e[i]] /\ r[j] = m[e[j]]
    BY <1>3, <1>4, Zenon
  <2> QED
    BY <2>1 DEF MempoolSound
<1> QED
  BY <1>5, <1>6, <1>7, <1>8, <1>9 DEF MempoolSound

(* PruneShares is a fold over the mempool.                               *)
LEMMA PruneIsFold ==
  ASSUME NEW c
  PROVE  PruneShares(c) = [c EXCEPT !.mempool = Prune!Fold(c, <<>>, c.mempool)]
BY Zenon DEF PruneShares, KeepConfirmable, Where, Folded,
  Prune!Fold, Prune!Table

-----------------------------------------------------------------------------
(* A state of the chain B with the coins U, whose mempool is sound.      *)
OnChain(B, U, c) ==
  /\ c = [blocks |-> B, utxos |-> U, mempool |-> c.mempool]
  /\ MempoolSound(c.mempool, U, Len(B) + 1)

(* The same of an admission that is under way.                           *)
AdmissionSound(B, U, a) ==
  /\ a = [c |-> a.c, C |-> a.C, ok |-> a.ok]
  /\ OnChain(B, U, a.c)

(* Pruning the shares that can no longer be confirmed keeps the rest.    *)
LEMMA PruneSound ==
  ASSUME NEW B, NEW U, NEW c, OnChain(B, U, c)
  PROVE  OnChain(B, U, PruneShares(c))
<1> DEFINE Confirmable(d) == /\ d.parent <= Height(c)
                             /\ Height(c) + 1 - d.parent <= Pool.stale
                             /\ d.parent_id = BlockId(c, d.parent)
           m == c.mempool
           T == {x \in ToSet(m) : IsShare(x) => Confirmable(x.data)}
           r == Prune!Fold(c, <<>>, m)
<1>1. MempoolSound(m, U, Len(B) + 1)
  BY DEF OnChain
<1>2. Len(m) \in Nat /\ DOMAIN m = 1..Len(m) /\ \A i \in 1..Len(m) : m[i] \in ToSet(m)
  BY <1>1, SeqDomain DEF MempoolSound
<1>3. \A i \in 1..Len(m) : \A s : KeepConfirmable(c, s, m[i]) = IF m[i] \in T THEN Append(s, m[i]) ELSE s
  BY <1>2 DEF KeepConfirmable
<1> HIDE DEF T
<1>4. Prune!Picked(m, Len(m), T, r)
  BY <1>2, <1>3, Prune!FilterFacts, Zenon
<1>5. T \subseteq ToSet(m)
  BY DEF T
<1>6. MempoolSound(r, U, Len(B) + 1)
  BY <1>1, <1>4, <1>5, FilteredMempool
<1>7. PruneShares(c) = [c EXCEPT !.mempool = r]
  BY PruneIsFold
<1> HIDE DEF r
<1>8. PruneShares(c) = [blocks |-> B, utxos |-> U, mempool |-> r]
  BY <1>7 DEF OnChain
<1> QED
  BY <1>6, <1>8 DEF OnChain

(* Making room prunes shares or nothing.                                 *)
LEMMA RoomSound ==
  ASSUME NEW B, NEW U, NEW a, AdmissionSound(B, U, a), NEW tx
  PROVE  AdmissionSound(B, U, MakeRoom(a, tx))
<1>1. OnChain(B, U, PruneShares(a.c))
  BY PruneSound DEF AdmissionSound
<1>2. MakeRoom(a, tx) \in {a, [a EXCEPT !.c = PruneShares(a.c), !.C = AdmissionContext(PruneShares(a.c))]}
  BY DEF MakeRoom
<1>3. CASE MakeRoom(a, tx) = a
  BY <1>3
<1>4. CASE MakeRoom(a, tx) = [a EXCEPT !.c = PruneShares(a.c), !.C = AdmissionContext(PruneShares(a.c))]
  <2>1. MakeRoom(a, tx) = [c |-> PruneShares(a.c), C |-> AdmissionContext(PruneShares(a.c)), ok |-> a.ok]
    BY <1>4, Zenon DEF AdmissionSound
  <2> QED
    BY <1>1, <2>1 DEF AdmissionSound
<1> QED
  BY <1>2, <1>3, <1>4

(* One admission, accepted or refused.                                   *)
LEMMA AdmitSound ==
  ASSUME NEW B, NEW U, NEW a, AdmissionSound(B, U, a), NEW tx
  PROVE  AdmissionSound(B, U, AdmitWith(a, tx))
<1> DEFINE b == MakeRoom(a, tx)
           V == Validated(tx, b.c, b.C)
<1>1. AdmissionSound(B, U, b)
  BY RoomSound
<1> HIDE DEF b
<1>2. b.c = [blocks |-> B, utxos |-> U, mempool |-> b.c.mempool] /\ MempoolSound(b.c.mempool, U, Len(B) + 1)
  BY <1>1 DEF AdmissionSound, OnChain
<1>3. b = [c |-> b.c, C |-> b.C, ok |-> b.ok]
  BY <1>1 DEF AdmissionSound
<1>4. AdmitWith(a, tx) = Enqueue(b, tx, V)
  BY Zenon DEF AdmitWith, AdmitInRoom, b
<1> HIDE DEF V
<1>5. CASE V = {}
  <2>1. Enqueue(b, tx, V) = [c |-> b.c, C |-> b.C, ok |-> FALSE]
    BY <1>3, <1>5, Zenon DEF Enqueue
  <2> QED
    BY <1>1, <1>4, <2>1 DEF AdmissionSound
<1>6. CASE V # {}
  <2>1. Allowed(tx, b.c, Height(b.c) + 1)
    BY <1>6, Zenon DEF V, Validated
  <2>2. b.c.mempool = b.c.mempool /\ b.c.utxos = U /\ Height(b.c) = Len(B)
    BY <1>2 DEF Height
  <2>3. Len(b.c.mempool) < Policy.max_mempool /\ tx.id \notin TxIds(b.c.mempool)
    BY <2>1, Zenon DEF Allowed, HasRoom
  <2>4. ASSUME ~IsShare(tx) PROVE Pays(tx, U, Len(B) + 1) /\ \A x \in ToSet(b.c.mempool) : Apart(tx, x)
    <3>1. OrdinaryAllowed(tx, b.c, JinLedgerFrom(b.c.blocks), Height(b.c) + 1)
      BY <2>1, <2>4, Zenon DEF Allowed
    <3>2. FeeEnough(tx, b.c, Height(b.c) + 1)
      BY <3>1, Zenon DEF OrdinaryAllowed
    <3>3. \A x \in ToSet(b.c.mempool) : ToSet(tx.ins) \cap ToSet(x.ins) = {}
      BY <3>1, Zenon DEF OrdinaryAllowed
    <3>4. Pays(tx, U, Len(B) + 1)
      BY <2>2, <3>2, Zenon DEF FeeEnough, Pays
    <3> QED
      BY <3>3, <3>4 DEF Apart
  <2>5. MempoolSound(Append(b.c.mempool, tx), U, Len(B) + 1)
    BY <1>2, <2>3, <2>4, LongerMempool
  <2>6. [b.c EXCEPT !.mempool = Append(@, tx)] = [blocks |-> B, utxos |-> U, mempool |-> Append(b.c.mempool, tx)]
    <3>1. b.c = [blocks |-> B, utxos |-> U, mempool |-> b.c.mempool]
      BY <1>2
    <3> QED
      BY <3>1, WithMempool, SMTT(60)
  <2>7. OnChain(B, U, [b.c EXCEPT !.mempool = Append(@, tx)])
    BY <2>5, <2>6 DEF OnChain
  <2>8. Enqueue(b, tx, V) = [c |-> [b.c EXCEPT !.mempool = Append(@, tx)], C |-> CHOOSE C \in V : TRUE, ok |-> TRUE]
    BY <1>6, Zenon DEF Enqueue
  <2> QED
    BY <1>4, <2>7, <2>8 DEF AdmissionSound
<1> QED
  BY <1>5, <1>6
-----------------------------------------------------------------------------
(* AdmitBatch is a fold of AdmitWith; B and U are its context.           *)
AdmitEach(c, a, tx) == AdmitWith(a, tx)
BatchInv(c, i, a) == AdmissionSound(c[1], c[2], a)
Batch == INSTANCE FoldFacts WITH Op <- AdmitEach, Inv <- BatchInv

(* The two folds unfold to the same recursion.                           *)
LEMMA BatchIsFold ==
  ASSUME NEW c, NEW a, NEW txs
  PROVE  Folded(AdmitWith, a, txs) = Batch!Fold(c, a, txs)
BY Zenon DEF AdmitEach, Folded,
  Batch!Fold, Batch!Table

(* A batch of admissions (WireMessage::Mempool, the relay).              *)
LEMMA BatchSound ==
  ASSUME NEW B, NEW U, NEW c, OnChain(B, U, c), NEW txs, IsSeq(txs)
  PROVE  OnChain(B, U, AdmitBatch(c, txs))
<1> DEFINE a == [c |-> c, C |-> AdmissionContext(c), ok |-> FALSE]
           x == <<B, U>>
           r == Batch!Fold(x, a, txs)
<1>1. Len(txs) \in Nat /\ DOMAIN txs = 1..Len(txs)
  BY SeqDomain
<1>2. BatchInv(x, 0, a)
  BY DEF AdmissionSound, BatchInv
<1>3. \A i \in 1..Len(txs) : \A s : BatchInv(x, i - 1, s) => BatchInv(x, i, AdmitEach(x, s, txs[i]))
  BY AdmitSound DEF BatchInv, AdmitEach
<1> HIDE DEF a, x
<1>4. BatchInv(x, Len(txs), r)
  BY <1>1, <1>2, <1>3, Batch!FoldInvariant
<1>5. AdmitBatch(c, txs) = r.c
  BY BatchIsFold, Zenon DEF AdmitBatch, a
<1> QED
  BY <1>4, <1>5 DEF BatchInv, AdmissionSound, x

(* A single one (send_transaction, WireMessage::Tx, submit_transaction). *)
LEMMA AdmitOneSound ==
  ASSUME NEW B, NEW U, NEW c, OnChain(B, U, c), NEW tx
  PROVE  OnChain(B, U, Admit(c, tx).c)
<1> DEFINE a == [c |-> c, C |-> AdmissionContext(c), ok |-> FALSE]
<1>1. AdmissionSound(B, U, a)
  BY DEF AdmissionSound
<1>2. Admit(c, tx) = AdmitWith(a, tx)
  BY DEF Admit
<1> HIDE DEF a
<1> QED
  BY <1>1, <1>2, AdmitSound DEF AdmissionSound

-----------------------------------------------------------------------------
(* What a pass of the rebuild works with: an admission, and what is      *)
(* left.                                                                 *)
PassSound(B, U, p) ==
  /\ p = [a |-> p.a, left |-> p.left, go |-> p.go]
  /\ AdmissionSound(B, U, p.a)
  /\ IsSeq(p.left)

(* The passes and the retries of each pass are folds with that           *)
(* invariant.                                                            *)
PassInv(c, i, p) == PassSound(c[1], c[2], p)
RetryEach(c, p, tx) == Retry(p, tx)
PassEach(c, p, i) == Pass(p, i)
Retries == INSTANCE FoldFacts WITH Op <- RetryEach, Inv <- PassInv
Passes == INSTANCE FoldFacts WITH Op <- PassEach, Inv <- PassInv

(* The retries of a pass, as an instance.                                *)
LEMMA RetriesIsFold ==
  ASSUME NEW c, NEW p, NEW txs
  PROVE  Folded(Retry, p, txs) = Retries!Fold(c, p, txs)
BY Zenon DEF RetryEach, Folded,
  Retries!Fold, Retries!Table

(* The passes, as an instance.                                           *)
LEMMA PassesIsFold ==
  ASSUME NEW c, NEW p, NEW is
  PROVE  Folded(Pass, p, is) = Passes!Fold(c, p, is)
BY Zenon DEF PassEach, Folded,
  Passes!Fold, Passes!Table

(* One transaction is tried again.                                       *)
LEMMA RetrySound ==
  ASSUME NEW B, NEW U, NEW p, PassSound(B, U, p), NEW tx
  PROVE  PassSound(B, U, Retry(p, tx))
<1> DEFINE a == AdmitWith(p.a, tx)
<1>1. AdmissionSound(B, U, a)
  BY AdmitSound DEF PassSound
<1>2. Retry(p, tx) = p \/ Retry(p, tx) = Retried(p, tx, a)
  BY Zenon DEF Retry
<1> HIDE DEF a
<1>3. p = [a |-> p.a, left |-> p.left, go |-> p.go]
  BY DEF PassSound
<1>4. IsSeq(p.left) /\ IsSeq(Append(p.left, tx))
  BY AppendSeq DEF PassSound
<1>5. CASE a.ok \/ IsShare(tx)
  <2>1. Retried(p, tx, a) = [p EXCEPT !.a = a, !.left = @]
    BY <1>5, Zenon DEF Retried
  <2>2. Retried(p, tx, a) = [a |-> a, left |-> p.left, go |-> p.go]
    BY <1>3, <2>1, Zenon
  <2>3. PassSound(B, U, Retried(p, tx, a))
    BY <1>1, <1>4, <2>2 DEF PassSound
  <2> QED
    BY <1>2, <2>3
<1>6. CASE ~(a.ok \/ IsShare(tx))
  <2>1. Retried(p, tx, a) = [p EXCEPT !.a = a, !.left = Append(@, tx)]
    BY <1>6, Zenon DEF Retried
  <2>2. Retried(p, tx, a) = [a |-> a, left |-> Append(p.left, tx), go |-> p.go]
    BY <1>3, <2>1, Zenon
  <2>3. PassSound(B, U, Retried(p, tx, a))
    BY <1>1, <1>4, <2>2 DEF PassSound
  <2> QED
    BY <1>2, <2>3
<1> QED
  BY <1>5, <1>6

(* One pass over what is left.                                           *)
LEMMA OnePassSound ==
  ASSUME NEW B, NEW U, NEW p, PassSound(B, U, p), NEW i
  PROVE  PassSound(B, U, Pass(p, i))
<1> DEFINE x == <<B, U>>
           p0 == [p EXCEPT !.left = <<>>]
           q == Retries!Fold(x, p0, p.left)
           n == Len(p.left)
<1>1. n \in Nat /\ DOMAIN p.left = 1..n
  BY SeqDomain DEF PassSound
<1>2. PassInv(x, 0, p0)
  <2>1. p0 = [a |-> p.a, left |-> <<>>, go |-> p.go]
    BY DEF PassSound
  <2>2. IsSeq(<<>>)
    BY DEF IsSeq
  <2> QED
    BY <2>1, <2>2 DEF PassSound, PassInv
<1>3. \A k \in 1..n : \A s : PassInv(x, k - 1, s) => PassInv(x, k, RetryEach(x, s, p.left[k]))
  BY RetrySound DEF PassInv, RetryEach
<1>4. PassSound(B, U, q)
  <2> HIDE DEF x, p0
  <2>1. PassInv(x, n, q)
    BY <1>1, <1>2, <1>3, Retries!FoldInvariant, Zenon
  <2> QED
    BY <2>1 DEF PassInv, x
<1>5. Folded(Retry, [p EXCEPT !.left = <<>>], p.left) = q
  BY RetriesIsFold
<1> HIDE DEF q
<1>6. Pass(p, i) = IF p.go THEN [q EXCEPT !.go = Len(q.left) < Len(Ordinary(p.left))] ELSE p
  BY <1>5, Zenon DEF Pass
<1>7. [q EXCEPT !.go = Len(q.left) < Len(Ordinary(p.left))] =
        [a |-> q.a, left |-> q.left, go |-> Len(q.left) < Len(Ordinary(p.left))]
  BY <1>4 DEF PassSound
<1> QED
  BY <1>4, <1>6, <1>7 DEF PassSound

-----------------------------------------------------------------------------
(* The filters of mempools and batches, as folds: shares, ordinary       *)
(* transactions, first occurrences, those a block did not take, those a  *)
(* peer may have.                                                        *)
KeepShare(c, s, tx) == IF IsShare(tx) THEN Append(s, tx) ELSE s
KeepOrdinary(c, s, tx) == IF ~IsShare(tx) THEN Append(s, tx) ELSE s
KeepNew(c, s, tx) == IF tx.id \in TxIds(s) THEN s ELSE Append(s, tx)
KeepUnconfirmed(c, s, tx) == IF tx.id \notin c THEN Append(s, tx) ELSE s
KeepStandard(c, s, tx) == IF SaleStandard(tx) THEN Append(s, tx) ELSE s
ShareFold == INSTANCE FoldFacts WITH Op <- KeepShare, Inv <- Never
OrdinaryFold == INSTANCE FoldFacts WITH Op <- KeepOrdinary, Inv <- Never
NewFold == INSTANCE FoldFacts WITH Op <- KeepNew, Inv <- Never
UnconfirmedFold == INSTANCE FoldFacts WITH Op <- KeepUnconfirmed, Inv <- Never
StandardFold == INSTANCE FoldFacts WITH Op <- KeepStandard, Inv <- Never

(* Shares picks a sequence.                                              *)
LEMMA SharesSeq ==
  ASSUME NEW txs, IsSeq(txs)
  PROVE  IsSeq(Shares(txs))
<1>1. Shares(txs) = ShareFold!Fold(0, <<>>, txs)
  BY Zenon DEF Shares, Where, KeepShare, Folded,
    ShareFold!Fold, ShareFold!Table
<1>2. Len(txs) \in Nat /\ DOMAIN txs = 1..Len(txs) /\ \A i \in 1..Len(txs) : txs[i] \in ToSet(txs)
  BY SeqDomain
<1>3. \A i \in 1..Len(txs) : \A s : KeepShare(0, s, txs[i]) \in {s, Append(s, txs[i])}
  BY DEF KeepShare
<1> QED
  BY <1>1, <1>2, <1>3, ShareFold!GrowthFacts, SeqOver, Zenon

(* Ordinary picks a sequence.                                            *)
LEMMA OrdinarySeq ==
  ASSUME NEW txs, IsSeq(txs)
  PROVE  IsSeq(Ordinary(txs))
<1>1. Ordinary(txs) = OrdinaryFold!Fold(0, <<>>, txs)
  BY Zenon DEF Ordinary, Where, KeepOrdinary, Folded,
    OrdinaryFold!Fold, OrdinaryFold!Table
<1>2. Len(txs) \in Nat /\ DOMAIN txs = 1..Len(txs) /\ \A i \in 1..Len(txs) : txs[i] \in ToSet(txs)
  BY SeqDomain
<1>3. \A i \in 1..Len(txs) : \A s : KeepOrdinary(0, s, txs[i]) \in {s, Append(s, txs[i])}
  BY DEF KeepOrdinary
<1> QED
  BY <1>1, <1>2, <1>3, OrdinaryFold!GrowthFacts, SeqOver, Zenon

(* Distinct picks a sequence.                                            *)
LEMMA DistinctSeq ==
  ASSUME NEW txs, IsSeq(txs)
  PROVE  IsSeq(Distinct(txs))
<1>1. Distinct(txs) = NewFold!Fold(0, <<>>, txs)
  BY Zenon DEF Distinct, KeepNew, Folded,
    NewFold!Fold, NewFold!Table
<1>2. Len(txs) \in Nat /\ DOMAIN txs = 1..Len(txs) /\ \A i \in 1..Len(txs) : txs[i] \in ToSet(txs)
  BY SeqDomain
<1>3. \A i \in 1..Len(txs) : \A s : KeepNew(0, s, txs[i]) \in {s, Append(s, txs[i])}
  BY DEF KeepNew
<1> QED
  BY <1>1, <1>2, <1>3, NewFold!GrowthFacts, SeqOver, Zenon

(* Without picks a sequence.                                             *)
LEMMA UnconfirmedSeq ==
  ASSUME NEW txs, IsSeq(txs), NEW ids
  PROVE  IsSeq(Without(txs, ids))
<1>1. Without(txs, ids) = UnconfirmedFold!Fold(ids, <<>>, txs)
  BY Zenon DEF Without, Where, KeepUnconfirmed, Folded,
    UnconfirmedFold!Fold, UnconfirmedFold!Table
<1>2. Len(txs) \in Nat /\ DOMAIN txs = 1..Len(txs) /\ \A i \in 1..Len(txs) : txs[i] \in ToSet(txs)
  BY SeqDomain
<1>3. \A i \in 1..Len(txs) : \A s : KeepUnconfirmed(ids, s, txs[i]) \in {s, Append(s, txs[i])}
  BY DEF KeepUnconfirmed
<1> QED
  BY <1>1, <1>2, <1>3, UnconfirmedFold!GrowthFacts, SeqOver, Zenon

(* The relay filter picks a sequence.                                    *)
LEMMA StandardSeq ==
  ASSUME NEW txs, IsSeq(txs)
  PROVE  IsSeq(Where(txs, SaleStandard))
<1>1. Where(txs, SaleStandard) = StandardFold!Fold(0, <<>>, txs)
  BY Zenon DEF Where, KeepStandard, Folded,
    StandardFold!Fold, StandardFold!Table
<1>2. Len(txs) \in Nat /\ DOMAIN txs = 1..Len(txs) /\ \A i \in 1..Len(txs) : txs[i] \in ToSet(txs)
  BY SeqDomain
<1>3. \A i \in 1..Len(txs) : \A s : KeepStandard(0, s, txs[i]) \in {s, Append(s, txs[i])}
  BY DEF KeepStandard
<1>4. StandardFold!Fold(0, <<>>, txs) \in Seq(ToSet(txs))
  BY <1>2, <1>3, StandardFold!GrowthFacts
<1>5. IsSeq(StandardFold!Fold(0, <<>>, txs))
  BY <1>4, SeqOver
<1> QED
  BY <1>1, <1>5, Zenon

(* A function on the first n numbers is a sequence.                      *)
LEMMA TableSeq ==
  ASSUME NEW n \in Nat, NEW f, f = [k \in 1..n |-> f[k]]
  PROVE  IsSeq(f)
<1>1. DOMAIN f = 1..n
  OBVIOUS
<1>2. \A k \in 1..n : f[k] \in ToSet(f)
  BY <1>1 DEF ToSet
<1>3. [k \in 1..n |-> f[k]] \in Seq(ToSet(f))
  BY <1>2
<1> QED
  BY <1>3 DEF IsSeq

(* Sorting shares by parent gives a sequence.                            *)
LEMMA ByParentSeq == ASSUME NEW txs, IsSeq(txs) PROVE IsSeq(ByParent(txs))
<1>1. Len(txs) \in Nat /\ DOMAIN txs = 1..Len(txs)
  BY SeqDomain
<1>2. ByParent(txs) = [k \in 1..Len(txs) |-> ByParent(txs)[k]]
  BY <1>1 DEF ByParent, Sorted
<1> QED
  BY <1>1, <1>2, TableSeq

(* Sorting ordinary transactions for a template gives a sequence.        *)
LEMMA TemplateOrderSeq == ASSUME NEW txs, IsSeq(txs) PROVE IsSeq(InTemplateOrder(txs))
<1>1. Len(txs) \in Nat /\ DOMAIN txs = 1..Len(txs)
  BY SeqDomain
<1>2. InTemplateOrder(txs) = [k \in 1..Len(txs) |-> InTemplateOrder(txs)[k]]
  BY <1>1 DEF InTemplateOrder, Sorted
<1> QED
  BY <1>1, <1>2, TableSeq

-----------------------------------------------------------------------------
(* The rebuild of a mempool: whatever it is given, what it admits is     *)
(* sound on the new chain.                                               *)
LEMMA RebuildFromSound ==
  ASSUME NEW B, NEW U, NEW empty, OnChain(B, U, empty), NEW all, IsSeq(all)
  PROVE  OnChain(B, U, RebuildFrom(empty, all))
<1> DEFINE x == <<B, U>>
           n == Policy.passes
           is == [i \in 1..n |-> i]
           p0 == [a |-> [c |-> empty, C |-> AdmissionContext(empty), ok |-> TRUE],
                  left |-> ByParent(Shares(all)) \o InTemplateOrder(Ordinary(all)), go |-> TRUE]
           q == Passes!Fold(x, p0, is)
<1>1. n \in Nat /\ DOMAIN is = 1..n
  BY PolicyAssumption
<1>2. IsSeq(ByParent(Shares(all)) \o InTemplateOrder(Ordinary(all)))
  BY SharesSeq, OrdinarySeq, ByParentSeq, TemplateOrderSeq, ConcatSeq
<1>3. PassInv(x, 0, p0)
  BY <1>2 DEF PassInv, PassSound, AdmissionSound
<1>4. \A k \in 1..n : \A s : PassInv(x, k - 1, s) => PassInv(x, k, PassEach(x, s, is[k]))
  BY OnePassSound DEF PassInv, PassEach
<1>5. RebuildFrom(empty, all) = Folded(Pass, p0, is).a.c
  BY Zenon DEF RebuildFrom
<1> HIDE DEF p0, is, x, n
<1>6. PassInv(x, n, q)
  BY <1>1, <1>3, <1>4, Passes!FoldInvariant
<1>7. Folded(Pass, p0, is) = q
  BY PassesIsFold
<1> HIDE DEF q
<1> QED
  BY <1>5, <1>6, <1>7 DEF PassInv, PassSound, AdmissionSound, x

(* rebuild_mempool_after_chain_change, from any state with that chain.   *)
LEMMA RebuildSound ==
  ASSUME NEW B, NEW U, NEW c0, c0 = [blocks |-> B, utxos |-> U, mempool |-> c0.mempool],
         NEW txs, IsSeq(txs)
  PROVE  OnChain(B, U, RebuildMempool(c0, txs))
<1>1. [c0 EXCEPT !.mempool = <<>>] = [blocks |-> B, utxos |-> U, mempool |-> <<>>]
  OBVIOUS
<1>2. OnChain(B, U, [c0 EXCEPT !.mempool = <<>>])
  BY <1>1, EmptyMempool DEF OnChain
<1> QED
  BY <1>2, DistinctSeq, RebuildFromSound DEF RebuildMempool

-----------------------------------------------------------------------------
(* Every coin has a value and a height that the chain has reached.       *)
CoinsSound(U, h) == \A p \in DOMAIN U : U[p].v \in 1..Consensus.max_money /\ U[p].h \in 1..h
(* Every block names the one before it, its transactions are a sequence, *)
(* no name is registered twice, the pools can live with each of them,    *)
(* and the JIN ledger and the sale replay to what they should.           *)
BlocksSound(B) ==
  /\ IsSeq(B)
  /\ \A h \in 1..Len(B) : /\ B[h].prev = IF h = 1 THEN 0 ELSE B[h - 1].id
                          /\ IsSeq(B[h].txs)
  /\ NamesSound(B)
  /\ PoolTxsSound(B)
  /\ JinSound(B)
  /\ SoldSound(SoldFrom(B))
(* The record of a chain state; stated by name so that the provers       *)
(* unfold it only where it is asked for.                                 *)
IsChain(c) == c = [blocks |-> c.blocks, utxos |-> c.utxos, mempool |-> c.mempool]
(* What connect_block builds on.                                         *)
StateSound(c) == /\ IsChain(c) /\ BlocksSound(c.blocks)
                 /\ CoinsSound(c.utxos, Len(c.blocks)) /\ BooksSound(c.blocks, c.utxos)
(* What holds of a node between any two steps.                           *)
ChainSound(c) == StateSound(c) /\ MempoolSound(c.mempool, c.utxos, Len(c.blocks) + 1)

-----------------------------------------------------------------------------
(* A transaction that passed the stateless checks creates sound coins.   *)
LEMMA ConnectTxSound ==
  ASSUME NEW h \in Nat \ {0}, NEW U, CoinsSound(U, h), NEW tx, StatelessOK(tx), NEW V \in ConnectTx(tx, U, h)
  PROVE  CoinsSound(V, h)
<1>1. CASE IsShare(tx)
  BY <1>1 DEF ConnectTx
<1>2. CASE ~IsShare(tx)
  <2>1. \A i \in DOMAIN tx.outs : tx.outs[i].v \in 1..Consensus.max_money
    <3>1. CASE tx.outs = <<>>
      BY <3>1
    <3>2. CASE \A o \in ToSet(tx.outs) : o.v \in 1..Consensus.max_money
      BY <3>2 DEF ToSet
    <3> QED
      BY <1>2, <3>1, <3>2, Zenon DEF StatelessOK
  <2> DEFINE kept == DOMAIN U \ (IF IsCoinbase(tx) THEN {} ELSE ToSet(tx.ins))
  <2>2. V = [p \in kept \cup Created(tx) |->
              IF p \in kept THEN U[p]
              ELSE [v |-> tx.outs[p[2]].v, s |-> tx.outs[p[2]].s, h |-> h, cb |-> IsCoinbase(tx)]]
    BY <1>2, Zenon DEF ConnectTx
  <2>3. kept \subseteq DOMAIN U
    OBVIOUS
  <2> HIDE DEF kept
  <2>4. ASSUME NEW p \in DOMAIN V PROVE V[p].v \in 1..Consensus.max_money /\ V[p].h \in 1..h
    <3>1. CASE p \in kept
      <4>1. V[p] = U[p] /\ p \in DOMAIN U
        BY <2>2, <2>3, <3>1
      <4> QED
        BY <4>1 DEF CoinsSound
    <3>2. CASE p \notin kept
      <4>1. p \in Created(tx)
        BY <2>2, <3>2
      <4>2. PICK i \in DOMAIN tx.outs : p = <<tx.id, i>>
        BY <4>1 DEF Created
      <4>3. V[p] = [v |-> tx.outs[i].v, s |-> tx.outs[i].s, h |-> h, cb |-> IsCoinbase(tx)]
        BY <2>2, <3>2, <4>2
      <4>4. h \in 1..h
        OBVIOUS
      <4> QED
        BY <2>1, <4>3, <4>4
    <3> QED
      BY <3>1, <3>2
  <2> QED
    BY <2>4 DEF CoinsSound
<1> QED
  BY <1>1, <1>2

(* block_fees goes over the block's transactions and stops at the first  *)
(* that is not in order.                                                 *)
SoundSoFar(txs, k, S) == S # {} => \A i \in 1..k : StatelessOK(txs[i])
FeesInv(c, k, S) == SoundSoFar(c[2], k, S)
Fees == INSTANCE FoldFacts WITH Op <- FeesKeep, Inv <- FeesInv

(* BlockFees, as an instance.                                            *)
LEMMA FeesIsFold ==
  ASSUME NEW x, NEW block, NEW U
  PROVE  BlockFees(block, U, x[1]) = Fees!Fold(x, {[U |-> U, fees |-> 0]}, block.txs)
BY Zenon DEF BlockFees, FeesKeep, Folded,
  Fees!Fold, Fees!Table

(* A block whose fees can be added up holds transactions that passed the *)
(* stateless checks.                                                     *)
LEMMA BlockTxsStateless ==
  ASSUME NEW block, NEW U, NEW h, IsSeq(block.txs), BlockFees(block, U, h) # {}
  PROVE  \A i \in 1..Len(block.txs) : StatelessOK(block.txs[i])
<1> DEFINE txs == block.txs
           x == <<h, txs>>
           S0 == {[U |-> U, fees |-> 0]}
           n == Len(txs)
<1>1. BlockFees(block, U, h) = Fees!Fold(x, S0, txs)
  <2>1. BlockFees(block, U, x[1]) = Fees!Fold(x, S0, txs)
    BY FeesIsFold, Zenon
  <2> QED
    BY <2>1
<1>2. n \in Nat /\ DOMAIN txs = 1..n
  BY SeqDomain
<1>3. FeesInv(x, 0, S0)
  BY DEF FeesInv, SoundSoFar
<1>4. ASSUME NEW i \in 1..n, NEW S, FeesInv(x, i - 1, S) PROVE FeesInv(x, i, FeesKeep(x, S, txs[i]))
  <2>1. SUFFICES ASSUME FeesAfter(S, txs[i], h) # {} PROVE \A j \in 1..i : StatelessOK(txs[j])
    BY DEF FeesInv, FeesKeep, SoundSoFar
  <2>2. S # {} /\ \E s \in S : MinerFee(txs[i], s.U, h) # {}
    <3>1. PICK s \in S : {[U |-> V, fees |-> s.fees + fee] :
                           fee \in {f \in MinerFee(txs[i], s.U, h) : PaysItsFees(txs[i], f, h)},
                           V \in ConnectTx(txs[i], s.U, h)} # {}
      BY <2>1 DEF FeesAfter
    <3>2. {f \in MinerFee(txs[i], s.U, h) : PaysItsFees(txs[i], f, h)} # {}
      BY <3>1
    <3>3. MinerFee(txs[i], s.U, h) # {}
      BY <3>2
    <3> QED
      BY <3>3
  <2>3. StatelessOK(txs[i])
    <3>1. PICK s \in S : MinerFee(txs[i], s.U, h) # {}
      BY <2>2, Zenon
    <3>2. ContextualFee(txs[i], s.U, h) # {}
      BY <3>1 DEF MinerFee
    <3> QED
      BY <3>2, Zenon DEF ContextualFee
  <2>4. \A j \in 1..(i - 1) : StatelessOK(txs[j])
    BY <1>4, <2>2 DEF FeesInv, SoundSoFar
  <2>5. \A j \in 1..i : j = i \/ j \in 1..(i - 1)
    BY <1>2
  <2> QED
    BY <2>3, <2>4, <2>5
<1> HIDE DEF x, S0
<1>5. FeesInv(x, n, Fees!Fold(x, S0, txs))
  BY <1>2, <1>3, <1>4, Fees!FoldInvariant
<1> QED
  BY <1>1, <1>5 DEF FeesInv, SoundSoFar, x

-----------------------------------------------------------------------------
(* connect_block applies the transactions in turn, another fold.         *)
UtxosKeep(c, S, tx) == UtxosAfter(S, tx, c)
UtxosInv(c, k, S) == \A U \in S : CoinsSound(U, c)
Utxos == INSTANCE FoldFacts WITH Op <- UtxosKeep, Inv <- UtxosInv

(* That fold, as an instance.                                            *)
LEMMA UtxosIsFold ==
  ASSUME NEW h, NEW S, NEW txs
  PROVE  Folded(LAMBDA T, tx : UNION {ConnectTx(tx, U, h) : U \in T}, S, txs) = Utxos!Fold(h, S, txs)
BY Zenon DEF UtxosKeep, UtxosAfter, Folded,
  Utxos!Fold, Utxos!Table

(* The coins after a list of transactions.                               *)
LEMMA ConnectedCoins ==
  ASSUME NEW h \in Nat \ {0}, NEW U, CoinsSound(U, h), NEW txs, IsSeq(txs),
         \A i \in 1..Len(txs) : StatelessOK(txs[i]),
         NEW V \in Utxos!Fold(h, {U}, txs)
  PROVE  CoinsSound(V, h)
<1> DEFINE n == Len(txs)
<1>1. n \in Nat /\ DOMAIN txs = 1..n
  BY SeqDomain
<1>2. UtxosInv(h, 0, {U})
  BY DEF UtxosInv
<1>3. \A i \in 1..n : \A S : UtxosInv(h, i - 1, S) => UtxosInv(h, i, UtxosKeep(h, S, txs[i]))
  BY ConnectTxSound DEF UtxosInv, UtxosKeep, UtxosAfter
<1>4. UtxosInv(h, n, Utxos!Fold(h, {U}, txs))
  BY <1>1, <1>2, <1>3, Utxos!FoldInvariant
<1> QED
  BY <1>4, Zenon DEF UtxosInv

(* connect_block: the new tip names the old one, and the coins are sound *)
(* at the new height.                                                    *)
LEMMA ConnectBlockSound ==
  ASSUME NEW c, StateSound(c), NEW block, IsSeq(block.txs), NEW d \in ConnectBlock(c, block)
  PROVE  StateSound(d) /\ d.mempool = c.mempool
<1>0. /\ IsChain(c) /\ BlocksSound(c.blocks)
      /\ CoinsSound(c.utxos, Len(c.blocks)) /\ BooksSound(c.blocks, c.utxos)
  BY DEF StateSound
<1> DEFINE h == Height(c) + 1
           B == c.blocks
           l == Len(B)
           txs == <<block.cb>> \o block.txs
           Q == Append(B, block)
<1>1. IsSeq(B) /\ l \in Nat /\ DOMAIN B = 1..l
  BY <1>0, SeqDomain DEF BlocksSound
<1>2. h = l + 1 /\ h \in Nat \ {0}
  BY <1>1 DEF Height
<1>3. /\ BlockOK(block, c, h)
      /\ d \in {[c EXCEPT !.blocks = Append(@, block), !.utxos = V] :
                  V \in Folded(LAMBDA S, tx : UNION {ConnectTx(tx, U, h) : U \in S}, {c.utxos}, txs)}
  BY Zenon DEF ConnectBlock
<1>4. PICK V \in Utxos!Fold(h, {c.utxos}, txs) : d = [c EXCEPT !.blocks = Append(@, block), !.utxos = V]
  BY <1>3, UtxosIsFold, ZenonT(60)
<1>5. d = [blocks |-> Q, utxos |-> V, mempool |-> c.mempool]
  BY <1>0, <1>4, Zenon DEF IsChain
<1>12. NamesBlockOK(block, RegistryFrom(B), h)
  BY Zenon DEF ConnectBlock, ProtocolsOK
<1>6. block.prev = BlockId(c, l) /\ StatelessOK(block.cb) /\ BlockFees(block, c.utxos, h) # {}
  <2>1. \E s \in BlockFees(block, c.utxos, h) : TRUE
    BY <1>3, Zenon DEF BlockOK
  <2>2. block.prev = BlockId(c, l) /\ StatelessOK(block.cb)
    BY <1>3, Zenon DEF BlockOK, TipId, Height
  <2> QED
    BY <2>1, <2>2
<1>7. IsSeq(txs) /\ \A i \in 1..Len(txs) : StatelessOK(txs[i])
  <2>1. Len(block.txs) \in Nat
    BY SeqDomain
  <2>2. /\ IsSeq(txs) /\ Len(txs) = Len(block.txs) + 1 /\ txs[1] = block.cb
        /\ \A i \in 1..Len(block.txs) : txs[i + 1] = block.txs[i]
    BY ConsSeq
  <2>4. \A i \in 1..Len(block.txs) : StatelessOK(block.txs[i])
    BY <1>6, BlockTxsStateless
  <2> HIDE DEF txs
  <2>5. ASSUME NEW i \in 1..Len(txs) PROVE StatelessOK(txs[i])
    <3>1. CASE i = 1
      BY <1>6, <2>2, <3>1
    <3>2. CASE i # 1
      <4>1. i - 1 \in 1..Len(block.txs) /\ (i - 1) + 1 = i
        BY <2>1, <2>2, <3>2
      <4>2. txs[(i - 1) + 1] = block.txs[i - 1]
        BY <2>2, <4>1
      <4> QED
        BY <2>4, <4>1, <4>2
    <3> QED
      BY <3>1, <3>2
  <2> QED
    BY <2>2, <2>5
<1>8. CoinsSound(c.utxos, h)
  <2>1. CoinsSound(c.utxos, l)
    BY <1>0
  <2>2. \A k \in 1..l : k \in 1..h
    BY <1>1, <1>2
  <2> HIDE DEF h, l
  <2> QED
    BY <2>1, <2>2 DEF CoinsSound
<1>9. CoinsSound(V, h)
  <2> HIDE DEF h, txs
  <2> QED
    BY <1>2, <1>4, <1>7, <1>8, ConnectedCoins, Zenon
<1>10. IsSeq(Q) /\ Len(Q) = l + 1 /\ Q[l + 1] = block /\ \A i \in 1..l : Q[i] = B[i]
  BY <1>1, AppendSeq
<1>13. NamesSound(Q)
  <2>1. NamesBlockOK(block, RegistryFrom(B), Len(B) + 1)
    BY <1>2, <1>12
  <2>2. NamesSound(B) /\ \A g \in 1..Len(B) : IsSeq(B[g].txs)
    BY <1>0 DEF BlocksSound
  <2> HIDE DEF B
  <2> QED
    BY <1>1, <2>1, <2>2, ConnectNames
<1>14. PoolTxsSound(Q)
  <2>1. PoolsBlockOK(block, B, c.utxos, Len(B) + 1)
    <3>1. PoolsBlockOK(block, B, c.utxos, h)
      BY Zenon DEF ConnectBlock, ProtocolsOK
    <3> QED
      BY <1>2, <3>1
  <2>2. PoolTxsSound(B)
    BY <1>0 DEF BlocksSound
  <2> HIDE DEF B
  <2> QED
    BY <1>1, <2>1, <2>2, ConnectPools
<1>16. ListedChain(B) /\ ListedBlock(block)
  <2>1. \A i \in 1..Len(block.txs) : StatelessOK(block.txs[i])
    BY <1>6, BlockTxsStateless
  <2>2. \A i \in 1..Len(block.txs) : OutsListed(block.txs[i])
    BY <2>1, StatelessOuts
  <2> HIDE DEF B
  <2> QED
    BY <1>0, <1>1, <2>2 DEF BlocksSound, ListedChain, ListedBlock, B
<1>17. JinSound(Q)
  <2>1. JinSound(B)
    BY <1>0 DEF BlocksSound
  <2> HIDE DEF B
  <2> QED
    BY <1>16, <2>1, JinNext
<1>18. SoldSound(SoldFrom(Q))
  <2>1. SoldSound(SoldFrom(B))
    BY <1>0 DEF BlocksSound
  <2>2. SaleBlockOK(block, B, c.utxos, h)
    BY Zenon DEF ConnectBlock, ProtocolsOK
  <2> HIDE DEF B, h
  <2> QED
    BY <1>16, <2>1, <2>2, SaleNext
<1>11. BlocksSound(Q)
  <2> HIDE DEF Q
  <2> SUFFICES ASSUME NEW i \in 1..Len(Q)
               PROVE  Q[i].prev = (IF i = 1 THEN 0 ELSE Q[i - 1].id) /\ IsSeq(Q[i].txs)
    BY <1>10, <1>13, <1>14, <1>17, <1>18 DEF BlocksSound
  <2>1. CASE i = l + 1
    <3>1. block.prev = IF l = 0 THEN 0 ELSE B[l].id
      BY <1>6 DEF BlockId
    <3>2. l # 0 => l \in 1..l /\ Q[l] = B[l]
      BY <1>1, <1>10
    <3> QED
      BY <1>1, <1>10, <2>1, <3>1, <3>2
  <2>2. CASE i # l + 1
    <3>1. i \in 1..l /\ (i # 1 => i - 1 \in 1..l)
      <4> HIDE DEF l
      <4> QED
        BY <1>1, <1>10, <2>2
    <3>2. Q[i] = B[i] /\ (i # 1 => Q[i - 1] = B[i - 1])
      BY <1>10, <3>1
    <3> QED
      BY <1>0, <3>1, <3>2 DEF BlocksSound
  <2> QED
    BY <2>1, <2>2
<1>15. BooksSound(Q, V)
  <2>1. IsSeq(B) /\ (\A g \in 1..Len(B) : IsSeq(B[g].txs)) /\ BlockOK(block, c, Len(B) + 1)
    BY <1>0, <1>1, <1>2, <1>3 DEF BlocksSound
  <2>2. V \in ConnectedBy(Len(B) + 1, {c.utxos}, txs)
    <3>1. Utxos!Fold(h, {c.utxos}, txs) = ConnectedBy(h, {c.utxos}, txs)
      BY UtxosIsFold, Zenon DEF ConnectedBy
    <3> HIDE DEF txs
    <3> QED
      BY <1>2, <1>4, <3>1
  <2> QED
    BY <1>0, <2>1, <2>2, BooksNext
<1> HIDE DEF Q
<1> QED
  BY <1>2, <1>5, <1>9, <1>10, <1>11, <1>15 DEF IsChain, StateSound

-----------------------------------------------------------------------------
(* A chain is replayed from its blocks (from_blocks), again a fold.      *)
ConnectEach(c, S, block) == UNION {ConnectBlock(d, block) : d \in S}
ConnectInv(c, k, S) == \A d \in S : StateSound(d) /\ d.mempool = <<>>
Blocks == INSTANCE FoldFacts WITH Op <- ConnectEach, Inv <- ConnectInv

(* Where a replay starts.                                                *)
LEMMA EmptyChainSound == StateSound(EmptyChain) /\ EmptyChain.mempool = <<>>
<1>1. IsSeq(<<>>) /\ Len(<<>>) = 0 /\ 1..0 = {} /\ DOMAIN <<>> = {}
  BY DEF IsSeq
<1>2. BlocksSound(<<>>)
  <2>1. NamesSound(<<>>)
    BY <1>1 DEF NamesSound
  <2>2. PoolTxsSound(<<>>)
    BY <1>1 DEF PoolTxsSound
  <2> QED
    BY <1>1, <2>1, <2>2, EmptyJin, EmptySale DEF BlocksSound
<1>3. CoinsSound(<<>>, 0)
  BY <1>1 DEF CoinsSound
<1>4. /\ EmptyChain.blocks = <<>> /\ EmptyChain.utxos = <<>> /\ EmptyChain.mempool = <<>>
      /\ IsChain(EmptyChain)
  BY DEF EmptyChain, IsChain
<1> QED
  BY <1>1, <1>2, <1>3, <1>4, EmptyBooks DEF StateSound

(* What a replay builds is sound.                                        *)
LEMMA FromBlocksSound ==
  ASSUME NEW B, IsSeq(B), \A h \in 1..Len(B) : IsSeq(B[h].txs), NEW d \in FromBlocks(B)
  PROVE  StateSound(d) /\ d.mempool = <<>>
<1> DEFINE n == Len(B)
<1>1. n \in Nat /\ DOMAIN B = 1..n
  BY SeqDomain
<1>2. FromBlocks(B) = Blocks!Fold(0, {EmptyChain}, B)
  BY Zenon DEF FromBlocks, ConnectEach, Folded,
    Blocks!Fold, Blocks!Table
<1>3. ConnectInv(0, 0, {EmptyChain})
  BY EmptyChainSound DEF ConnectInv
<1>4. \A i \in 1..n : \A S : ConnectInv(0, i - 1, S) => ConnectInv(0, i, ConnectEach(0, S, B[i]))
  BY ConnectBlockSound DEF ConnectInv, ConnectEach
<1>5. ConnectInv(0, n, Blocks!Fold(0, {EmptyChain}, B))
  BY <1>1, <1>3, <1>4, Blocks!FoldInvariant
<1> QED
  BY <1>2, <1>5, Zenon DEF ConnectInv

(* A sound state with a rebuilt mempool is a sound chain.                *)
LEMMA RebuiltSound ==
  ASSUME NEW d, StateSound(d), NEW txs, IsSeq(txs)
  PROVE  ChainSound(RebuildMempool(d, txs))
<1> DEFINE r == RebuildMempool(d, txs)
<1>1. OnChain(d.blocks, d.utxos, r)
  BY RebuildSound DEF StateSound, IsChain
<1> HIDE DEF r
<1>2. r = [blocks |-> d.blocks, utxos |-> d.utxos, mempool |-> r.mempool]
  BY <1>1 DEF OnChain
<1>3. r.blocks = d.blocks /\ r.utxos = d.utxos
  BY <1>2
<1>4. MempoolSound(r.mempool, d.utxos, Len(d.blocks) + 1)
  BY <1>1 DEF OnChain
<1>5. /\ BlocksSound(r.blocks) /\ CoinsSound(r.utxos, Len(r.blocks)) /\ IsChain(r)
      /\ BooksSound(r.blocks, r.utxos)
  BY <1>2, <1>3, Zenon DEF StateSound, IsChain
<1>6. ChainSound(r)
  BY <1>3, <1>4, <1>5, Zenon DEF ChainSound, StateSound
<1> QED
  BY <1>6 DEF r

(* A block is connected and the mempool rebuilt.                         *)
LEMMA ConnectedSound ==
  ASSUME NEW c, ChainSound(c), NEW block, IsSeq(block.txs), NEW d \in Connected(c, block)
  PROVE  ChainSound(d)
<1> DEFINE rest == Without(c.mempool, TxIds(block.txs))
<1>1. PICK e \in ConnectBlock(c, block) : d = RebuildMempool(e, rest)
  BY Zenon DEF Connected
<1>2. IsSeq(rest)
  <2>1. IsSeq(c.mempool)
    BY Zenon DEF ChainSound, MempoolSound
  <2> QED
    BY <2>1, UnconfirmedSeq, Zenon
<1> HIDE DEF rest
<1>3. StateSound(e)
  BY ConnectBlockSound DEF ChainSound
<1> QED
  BY <1>1, <1>2, <1>3, RebuiltSound

-----------------------------------------------------------------------------
(* A part of a sequence is one, of some of its elements.                 *)
LEMMA SubSeqSeq ==
  ASSUME NEW s, IsSeq(s), NEW m \in Nat \ {0}, NEW n \in Int, n <= Len(s)
  PROVE  IsSeq(SubSeq(s, m, n)) /\ ToSet(SubSeq(s, m, n)) \subseteq ToSet(s)
<1>1. SubSeq(s, m, n) \in Seq(ToSet(s))
  <2>1. s \in Seq(ToSet(s)) /\ \A i \in m..n : i \in 1..Len(s)
    BY SeqDomain DEF IsSeq
  <2> QED
    BY <2>1
<1> QED
  BY <1>1, SeqOver

(* The transactions of many blocks, one after the other.                 *)
AddTxs(c, txs, block) == txs \o block.txs
AddInv(c, k, txs) == IsSeq(txs)
AllTxs == INSTANCE FoldFacts WITH Op <- AddTxs, Inv <- AddInv

(* They are a sequence.                                                  *)
LEMMA TxsOfSeq ==
  ASSUME NEW B, IsSeq(B), \A h \in 1..Len(B) : IsSeq(B[h].txs)
  PROVE  IsSeq(TxsOf(B))
<1> DEFINE n == Len(B)
<1>1. n \in Nat /\ DOMAIN B = 1..n
  BY SeqDomain
<1>2. TxsOf(B) = AllTxs!Fold(0, <<>>, B)
  BY Zenon DEF TxsOf, AddTxs, Folded,
    AllTxs!Fold, AllTxs!Table
<1>3. AddInv(0, 0, <<>>)
  BY DEF AddInv, IsSeq
<1>4. \A i \in 1..n : \A s : AddInv(0, i - 1, s) => AddInv(0, i, AddTxs(0, s, B[i]))
  BY ConcatSeq DEF AddInv, AddTxs
<1>5. AddInv(0, n, AllTxs!Fold(0, <<>>, B))
  BY <1>1, <1>3, <1>4, AllTxs!FoldInvariant
<1> QED
  BY <1>2, <1>5, Zenon DEF AddInv

(* Two chains part at a height of this one.                              *)
LEMMA CommonHeightInside ==
  ASSUME NEW c, Height(c) \in Nat, NEW blocks
  PROVE  CommonHeight(c, blocks) \in 0..Height(c)
<1> DEFINE same(h) == \A g \in 1..h : g <= Len(blocks) /\ blocks[g].id = c.blocks[g].id
           H == Height(c)
           T == {h \in 0..H : h = H \/ ~same(h + 1)}
<1>1. T \subseteq Nat /\ H \in T
  OBVIOUS
<1>2. PICK h \in T : \A y \in T : h <= y
  <2> HIDE DEF T
  <2> QED
    BY <1>1, Prune!LeastElement
<1>3. same(h)
  <2>1. CASE h = 0
    BY <2>1
  <2>2. CASE h # 0
    <3>1. h - 1 \in 0..H /\ (h - 1) + 1 = h
      BY <1>2, <2>2
    <3>2. h - 1 \notin T
      BY <1>2, <3>1
    <3> HIDE DEF same
    <3> QED
      BY <3>1, <3>2
  <2> QED
    BY <2>1, <2>2
<1>4. \E g \in 0..H : same(g) /\ (g = H \/ ~same(g + 1))
  <2> HIDE DEF same
  <2> QED
    BY <1>2, <1>3
<1> QED
  BY <1>4, Zenon DEF CommonHeight

(* What a reorganisation disconnects is a sequence.                      *)
LEMMA DisconnectedSeq ==
  ASSUME NEW c, StateSound(c), NEW blocks
  PROVE  IsSeq(Disconnected(c, blocks))
<1> DEFINE B == c.blocks
           k == CommonHeight(c, blocks)
           gone == SubSeq(B, k + 1, Height(c))
<1>1. IsSeq(B) /\ Height(c) = Len(B) /\ Len(B) \in Nat /\ \A h \in 1..Len(B) : IsSeq(B[h].txs)
  BY SeqDomain DEF StateSound, BlocksSound, Height
<1>2. k \in 0..Len(B)
  BY <1>1, CommonHeightInside
<1>3. IsSeq(gone) /\ ToSet(gone) \subseteq ToSet(B)
  <2> HIDE DEF k
  <2>1. k + 1 \in Nat \ {0} /\ Len(B) \in Int
    BY <1>1, <1>2
  <2> QED
    BY <1>1, <2>1, SubSeqSeq
<1>4. \A x \in ToSet(B) : IsSeq(x.txs)
  BY <1>1, SeqElements
<1> HIDE DEF gone, k
<1>5. \A h \in 1..Len(gone) : IsSeq(gone[h].txs)
  BY <1>3, <1>4, SeqDomain
<1>6. IsSeq(TxsOf(gone))
  BY <1>3, <1>5, TxsOfSeq
<1>7. Disconnected(c, blocks) = Without(TxsOf(gone), Confirmed(blocks))
  BY DEF Disconnected, gone, k
<1> QED
  BY <1>6, <1>7, UnconfirmedSeq

(* A reorganisation: the winner's blocks are replayed and everything     *)
(* that was pending or disconnected is admitted again, or nothing        *)
(* happens.                                                              *)
LEMMA AdoptedSound ==
  ASSUME NEW c, ChainSound(c), NEW blocks, BlocksSound(blocks), NEW prefer
  PROVE  ChainSound(Adopted(c, blocks, prefer))
<1> DEFINE rebuilt == FromBlocks(blocks)
           d == CHOOSE e \in rebuilt : TRUE
           all == c.mempool \o Disconnected(c, blocks)
<1>1. IsSeq(all)
  BY DisconnectedSeq, ConcatSeq DEF ChainSound, MempoolSound
<1>2. CASE rebuilt # {}
  <2>1. d \in rebuilt
    BY <1>2
  <2>2. StateSound(d)
    BY <2>1, FromBlocksSound DEF BlocksSound
  <2>3. Switched(c, blocks, rebuilt) = RebuildMempool(d, all)
    BY <1>2, Zenon DEF Switched
  <2> HIDE DEF d, all
  <2>4. ChainSound(Switched(c, blocks, rebuilt))
    BY <1>1, <2>2, <2>3, RebuiltSound
  <2> QED
    BY <2>4, Zenon DEF Adopted
<1>3. CASE rebuilt = {}
  BY <1>3, Zenon DEF Adopted, Switched
<1> QED
  BY <1>2, <1>3

-----------------------------------------------------------------------------
(* The first n of a sequence, as the relay batch takes them.             *)
FirstOf(txs, n) == SubSeq(txs, 1, SmallerOf(Len(txs), n))

(* They are a sequence.                                                  *)
LEMMA FirstSeq ==
  ASSUME NEW txs, IsSeq(txs), NEW n \in Int
  PROVE  IsSeq(FirstOf(txs, n)) /\ Len(FirstOf(txs, n)) \in Nat
<1>1. Len(txs) \in Nat
  BY SeqDomain
<1>2. SmallerOf(Len(txs), n) \in Int /\ SmallerOf(Len(txs), n) <= Len(txs)
  BY <1>1 DEF SmallerOf
<1>3. IsSeq(FirstOf(txs, n))
  BY <1>2, SubSeqSeq DEF FirstOf
<1> QED
  BY <1>3, SeqDomain

(* What a node answers to GetMempool is a sequence.                      *)
LEMMA RelayBatchSeq ==
  ASSUME NEW m, IsSeq(m)
  PROVE  IsSeq(RelayBatch(m))
<1> DEFINE limit == SmallerOf(Policy.max_mempool, Policy.relay_batch)
           reserve(n) == IF n = 0 THEN 0 ELSE SmallerOf(n, LargerOf(limit \div 4, 1))
           quota(n) == SmallerOf(Pool.max_shares, limit - reserve(n))
           sound == Where(m, SaleStandard)
           shares == ByParent(Shares(sound))
           ordinary == InTemplateOrder(Ordinary(sound))
           first == FirstOf(shares, quota(Len(ordinary)))
           second == FirstOf(ordinary, limit - Len(first))
<1>1. IsSeq(shares) /\ IsSeq(ordinary)
  <2>1. IsSeq(sound)
    BY StandardSeq
  <2> HIDE DEF sound
  <2> QED
    BY <2>1, SharesSeq, OrdinarySeq, ByParentSeq, TemplateOrderSeq
<1>2. RelayBatch(m) = first \o second
  BY Zenon DEF RelayBatch, FirstOf
<1> HIDE DEF shares, ordinary
<1>3. limit \in Int
  BY PolicyAssumption DEF SmallerOf
<1> HIDE DEF limit
<1>4. Len(ordinary) \in Nat
  BY <1>1, SeqDomain
<1>5. quota(Len(ordinary)) \in Int
  <2>1. limit \div 4 \in Int
    BY <1>3
  <2>2. reserve(Len(ordinary)) \in Int
    BY <1>4, <2>1 DEF SmallerOf, LargerOf
  <2>3. Pool.max_shares \in Int
    BY PoolsAssumption DEF PoolSettings
  <2> HIDE DEF reserve
  <2> QED
    BY <1>3, <2>2, <2>3 DEF SmallerOf
<1> HIDE DEF quota
<1>6. IsSeq(first) /\ Len(first) \in Nat
  BY <1>1, <1>5, FirstSeq
<1> HIDE DEF first
<1>7. IsSeq(second)
  BY <1>1, <1>3, <1>6, FirstSeq
<1> HIDE DEF second
<1> QED
  BY <1>2, <1>6, <1>7, ConcatSeq

-----------------------------------------------------------------------------
(* The two loops of the template, as folds.                              *)
TakeNextShare(c, t, tx) ==
  LET next == PoolValidate(tx, c.blocks, c.utxos, Height(c) + 1, 0, t.C)
  IN IF Len(t.txs) + 1 >= Consensus.max_txs \/ Len(t.txs) >= Pool.max_shares \/ next = {}
     THEN t ELSE [txs |-> Append(t.txs, tx), C |-> CHOOSE C \in next : TRUE]
TakeNext(c, t, tx) == TakeOrdinary(t, tx, c[1], c[2])
TemplateInv(c, k, t) == IsSeq(t.txs)
ShareTemplate == INSTANCE FoldFacts WITH Op <- TakeNextShare, Inv <- TemplateInv
OrdinaryTemplate == INSTANCE FoldFacts WITH Op <- TakeNext, Inv <- TemplateInv

(* The loop over shares, as an instance.                                 *)
LEMMA TemplateSharesIsFold ==
  ASSUME NEW c
  PROVE  TemplateShares(c) = ShareTemplate!Fold(c, [txs |-> <<>>, C |-> PoolContext(c.blocks, Height(c) + 1)],
                                                ByParent(Shares(c.mempool)))
BY Zenon DEF TemplateShares, TakeNextShare, Folded,
  ShareTemplate!Fold, ShareTemplate!Table

(* The shares of a template are a sequence.                              *)
LEMMA TemplateSharesSeq ==
  ASSUME NEW c, IsSeq(c.mempool)
  PROVE  IsSeq(TemplateShares(c).txs)
<1> DEFINE shares == ByParent(Shares(c.mempool))
           t0 == [txs |-> <<>>, C |-> PoolContext(c.blocks, Height(c) + 1)]
           n == Len(shares)
<1>1. n \in Nat /\ DOMAIN shares = 1..n
  BY SharesSeq, ByParentSeq, SeqDomain
<1>2. TemplateInv(c, 0, t0)
  BY DEF TemplateInv, IsSeq
<1>3. ASSUME NEW t, NEW tx, IsSeq(t.txs) PROVE IsSeq(TakeNextShare(c, t, tx).txs)
  <2>1. \/ TakeNextShare(c, t, tx) = t
        \/ \E C : TakeNextShare(c, t, tx) = [txs |-> Append(t.txs, tx), C |-> C]
    BY Zenon DEF TakeNextShare
  <2>2. IsSeq(Append(t.txs, tx))
    BY <1>3, AppendSeq
  <2>3. ASSUME NEW C, TakeNextShare(c, t, tx) = [txs |-> Append(t.txs, tx), C |-> C]
        PROVE  TakeNextShare(c, t, tx).txs = Append(t.txs, tx)
    BY <2>3
  <2>4. TakeNextShare(c, t, tx).txs \in {t.txs, Append(t.txs, tx)}
    BY <2>1, <2>3, Zenon
  <2> QED
    BY <1>3, <2>2, <2>4, Zenon
<1>4. \A i \in 1..n : \A t : TemplateInv(c, i - 1, t) => TemplateInv(c, i, TakeNextShare(c, t, shares[i]))
  BY <1>3 DEF TemplateInv
<1> HIDE DEF t0, shares
<1>5. TemplateInv(c, n, ShareTemplate!Fold(c, t0, shares))
  BY <1>1, <1>2, <1>4, ShareTemplate!FoldInvariant
<1> QED
  BY <1>5, TemplateSharesIsFold DEF TemplateInv, t0, shares

(* A template takes an ordinary transaction or leaves it.                *)
LEMMA TakeOrdinarySeq ==
  ASSUME NEW t, IsSeq(t.txs), NEW tx, NEW c, NEW miner
  PROVE  IsSeq(TakeOrdinary(t, tx, c, miner).txs)
<1> DEFINE u == TakeOrdinary(t, tx, c, miner)
<1>1. ASSUME NEW r, NEW h, NEW w \in Trial(t, tx, c, r, h) PROVE w.txs = Append(t.txs, tx)
  BY <1>1 DEF Trial
<1>2. u = t \/ \E r, h : u \in Trial(t, tx, c, r, h)
  BY Zenon DEF TakeOrdinary
<1> HIDE DEF u
<1>3. IsSeq(Append(t.txs, tx))
  BY AppendSeq
<1>4. IsSeq(u.txs)
  BY <1>1, <1>2, <1>3
<1> QED
  BY <1>4 DEF u

(* The loop over ordinary transactions, as an instance; chain and miner  *)
(* are its context x.                                                    *)
LEMMA OrdinaryTemplateIsFold ==
  ASSUME NEW x, NEW t, NEW txs
  PROVE  Folded(LAMBDA s, tx : TakeOrdinary(s, tx, x[1], x[2]), t, txs) = OrdinaryTemplate!Fold(x, t, txs)
BY Zenon DEF TakeNext, Folded,
  OrdinaryTemplate!Fold, OrdinaryTemplate!Table

(* What a template holds is a sequence.                                  *)
LEMMA CandidatesOfSeq ==
  ASSUME NEW x, IsSeq(x[1].mempool), NEW t \in Candidates(x[1], x[2])
  PROVE  IsSeq(t.txs)
<1> DEFINE c == x[1]
           shared == TemplateShares(c)
           ordinary == InTemplateOrder(Ordinary(c.mempool))
           scanned == SubSeq(ordinary, 1, SmallerOf(Len(ordinary), Policy.scan))
           start == BootstrapFor(JinStart(JinLedgerFrom(c.blocks), c.blocks), Height(c), Height(c) + 1)
           n == Len(scanned)
<1>1. IsSeq(shared.txs)
  BY TemplateSharesSeq
<1>2. IsSeq(scanned) /\ n \in Nat /\ DOMAIN scanned = 1..n
  <2>1. IsSeq(ordinary)
    BY OrdinarySeq, TemplateOrderSeq
  <2> HIDE DEF ordinary
  <2>2. Policy.scan \in Int
    BY PolicyAssumption
  <2>3. IsSeq(FirstOf(ordinary, Policy.scan))
    BY <2>1, <2>2, FirstSeq
  <2>4. IsSeq(scanned)
    BY <2>3 DEF FirstOf
  <2> HIDE DEF scanned
  <2> QED
    BY <2>4, SeqDomain
<1>3. \/ t = [txs |-> shared.txs, fees |-> 0]
      \/ \E s \in TemplateStart(c, shared, start) : t = OrdinaryTemplate!Fold(x, s, scanned)
  BY OrdinaryTemplateIsFold, Zenon DEF Candidates, CandidatesAfter
<1> HIDE DEF scanned, shared, start
<1>4. CASE t = [txs |-> shared.txs, fees |-> 0]
  BY <1>1, <1>4
<1>5. ASSUME NEW s \in TemplateStart(c, shared, start), t = OrdinaryTemplate!Fold(x, s, scanned)
      PROVE  IsSeq(t.txs)
  <2>1. s.txs = shared.txs
    BY DEF TemplateStart
  <2>2. TemplateInv(x, 0, s)
    BY <1>1, <2>1 DEF TemplateInv
  <2>3. \A i \in 1..n : \A u : TemplateInv(x, i - 1, u) => TemplateInv(x, i, TakeNext(x, u, scanned[i]))
    BY TakeOrdinarySeq DEF TemplateInv, TakeNext
  <2> QED
    BY <1>2, <1>5, <2>2, <2>3, OrdinaryTemplate!FoldInvariant DEF TemplateInv
<1> QED
  BY <1>3, <1>4, <1>5

(* The same, for a chain and a miner.                                    *)
LEMMA CandidatesSeq ==
  ASSUME NEW c, IsSeq(c.mempool), NEW miner, NEW t \in Candidates(c, miner)
  PROVE  IsSeq(t.txs)
<1> DEFINE x == <<c, miner>>
<1>1. x[1] = c /\ x[2] = miner
  OBVIOUS
<1> HIDE DEF x
<1> QED
  BY <1>1, CandidatesOfSeq

(* A state of the same chain with a sound mempool is sound.              *)
LEMMA OnChainSound ==
  ASSUME NEW c, ChainSound(c), NEW d, OnChain(c.blocks, c.utxos, d)
  PROVE  ChainSound(d)
<1>1. d = [blocks |-> c.blocks, utxos |-> c.utxos, mempool |-> d.mempool]
  BY DEF OnChain
<1>2. d.blocks = c.blocks /\ d.utxos = c.utxos
  BY <1>1
<1>3. IsChain(d)
  BY <1>1, <1>2, Zenon DEF IsChain
<1>4. MempoolSound(d.mempool, c.utxos, Len(c.blocks) + 1)
  BY DEF OnChain
<1> QED
  BY <1>2, <1>3, <1>4, Zenon DEF ChainSound, StateSound

(* A sound chain is a state of its own chain.                            *)
LEMMA ChainOnItself ==
  ASSUME NEW c, ChainSound(c)
  PROVE  OnChain(c.blocks, c.utxos, c)
BY Zenon DEF ChainSound, StateSound, IsChain, OnChain

(* A batch is admitted on a sound chain.                                 *)
LEMMA BatchChainSound ==
  ASSUME NEW c, ChainSound(c), NEW txs, IsSeq(txs)
  PROVE  ChainSound(AdmitBatch(c, txs))
BY ChainOnItself, BatchSound, OnChainSound

(* A transaction is admitted, or refused, on a sound chain.              *)
LEMMA AdmittedSound ==
  ASSUME NEW c, ChainSound(c), NEW tx
  PROVE  ChainSound(Admit(c, tx).c)
BY ChainOnItself, AdmitOneSound, OnChainSound

-----------------------------------------------------------------------------
(* The inductive invariant.                                              *)
NodeInv ==
  /\ chain = [n \in Nodes |-> chain[n]]
  /\ \A n \in Nodes : ChainSound(chain[n])
  /\ \A block \in mined : IsSeq(block.txs)

(* The histories to start from are sequences of blocks, and so is what    *)
(* the blocks of other programs hold (ScenesAssumption).                 *)
LEMMA SceneBlocks ==
  ASSUME NEW s \in Scenes
  PROVE  /\ IsSeq(s.blocks) /\ \A h \in 1..Len(s.blocks) : IsSeq(s.blocks[h].txs)
         /\ \A block \in s.foreign : IsSeq(block.txs)
<1>1. IsSeq(s.blocks) /\ \A block \in ToSet(s.blocks) \cup s.foreign : IsSeq(block.txs)
  BY ScenesAssumption DEF IsSeq
<1> QED
  BY <1>1, SeqDomain

(* The blocks a node mines hold sequences of transactions.               *)
LEMMA TemplatesSeq ==
  ASSUME NEW n \in Nodes, ChainSound(chain[n]), NEW block \in Templates(n)
  PROVE  IsSeq(block.txs)
<1> DEFINE c == chain[n]
<1>1. IsSeq(c.mempool)
  BY Zenon DEF ChainSound, MempoolSound
<1>2. \/ block \in SoloBlock(c, WalletOf[n][1], fresh)
      \/ \E pool \in DOMAIN PoolRegistryFrom(c.blocks) : block \in PoolBlock(c, pool, fresh)
  BY DEF Templates
<1> HIDE DEF c
<1>3. \E miner : \E t \in Candidates(c, miner) : block.txs = t.txs
  <2>1. CASE block \in SoloBlock(c, WalletOf[n][1], fresh)
    <3> DEFINE miner == WalletOf[n][1]
    <3>1. PICK t \in Candidates(c, miner) :
            block = [id |-> fresh, prev |-> TipId(c), txs |-> t.txs,
                     cb |-> Coinbase(fresh, <<Out(Subsidy(Height(c) + 1) + t.fees, PayTo(miner))>>, NoPool)]
      BY <2>1, Zenon DEF SoloBlock
    <3>2. block.txs = t.txs
      BY <3>1
    <3> QED
      BY <3>2, Zenon
  <2>2. ASSUME NEW pool, block \in PoolBlock(c, pool, fresh)
        PROVE  \E t \in Candidates(c, NoMiner) : block.txs = t.txs
    <3>1. PICK t \in (IF Height(c) + 1 >= Pool.active THEN Candidates(c, NoMiner) ELSE {}) :
            block \in {[id |-> fresh, prev |-> TipId(c), txs |-> t.txs, cb |-> Coinbase(fresh, outs, pool)] :
                         outs \in PoolCoinbase(c.blocks, pool, Subsidy(Height(c) + 1) + t.fees)}
      BY <2>2, Zenon DEF PoolBlock
    <3>2. block.txs = t.txs
      BY <3>1
    <3>3. t \in Candidates(c, NoMiner)
      BY <3>1, Zenon
    <3> QED
      BY <3>2, <3>3
  <2> QED
    BY <1>2, <2>1, <2>2
<1> QED
  BY <1>1, <1>3, CandidatesSeq

(* The invariant holds in the beginning.                                 *)
LEMMA InitSound == Init => NodeInv
<1> SUFFICES ASSUME Init PROVE NodeInv
  OBVIOUS
<1>1. PICK s \in Scenes : chain \in [Nodes -> {c \in FromBlocks(s.blocks) : TRUE}] /\ mined = s.foreign
  BY DEF Init
<1>2. ASSUME NEW n \in Nodes PROVE ChainSound(chain[n])
  <2>1. chain[n] \in FromBlocks(s.blocks)
    BY <1>1
  <2>2. StateSound(chain[n]) /\ chain[n].mempool = <<>>
    BY <2>1, SceneBlocks, FromBlocksSound
  <2> QED
    BY <2>2, EmptyMempool DEF ChainSound
<1>3. chain = [n \in Nodes |-> chain[n]]
  BY <1>1
<1>4. \A block \in mined : IsSeq(block.txs)
  BY <1>1, SceneBlocks
<1> QED
  BY <1>2, <1>3, <1>4 DEF NodeInv

(* The invariant after a step, from what it says of the new chains.      *)
LEMMA SoundAfter ==
  ASSUME chain' = [k \in Nodes |-> chain'[k]], \A k \in Nodes : ChainSound(chain'[k]),
         \A block \in mined' : IsSeq(block.txs)
  PROVE  NodeInv'
<1>1. ASSUME NEW k \in Nodes PROVE ChainSound(chain[k])'
  OBVIOUS
<1> QED
  BY <1>1 DEF NodeInv

(* Every step changes one node's chain.                                  *)
LEMMA OneChainChanges ==
  ASSUME NodeInv, NEW n \in Nodes, NEW c, ChainSound(c), chain' = [chain EXCEPT ![n] = c],
         \A block \in mined' : IsSeq(block.txs)
  PROVE  NodeInv'
<1>1. chain = [k \in Nodes |-> chain[k]]
  BY DEF NodeInv
<1>2. chain' = [k \in Nodes |-> IF k = n THEN c ELSE chain[k]]
  BY <1>1
<1>3. chain' = [k \in Nodes |-> chain'[k]]
  BY <1>2
<1>4. ASSUME NEW k \in Nodes PROVE ChainSound(chain'[k])
  <2>1. chain'[k] = IF k = n THEN c ELSE chain[k]
    BY <1>2
  <2>2. ChainSound(chain[k])
    BY DEF NodeInv
  <2> QED
    BY <2>1, <2>2, Zenon
<1> QED
  BY <1>3, <1>4, SoundAfter

(* Every step keeps the invariant: one case for each kind of step.       *)
LEMMA StepSound == NodeInv /\ [Next]_vars => NodeInv'
<1> SUFFICES ASSUME NodeInv, [Next]_vars PROVE NodeInv'
  OBVIOUS
<1>0. /\ \A n \in Nodes : ChainSound(chain[n])
      /\ \A block \in mined : IsSeq(block.txs)
  BY DEF NodeInv
<1>1. ASSUME NEW n \in Nodes, NEW r \in todo, Request(n, r) PROVE NodeInv'
  <2>1. PICK tx : chain' = [chain EXCEPT ![n] = Admit(chain[n], tx).c]
    BY <1>1, ZenonT(60) DEF Request
  <2>2. mined' = mined
    BY <1>1 DEF Request
  <2> QED
    BY <1>0, <2>1, <2>2, AdmittedSound, OneChainChanges
<1>2. ASSUME NEW n \in Nodes, NEW tx \in wire, ReceiveTx(n, tx) PROVE NodeInv'
  <2>1. chain' = [chain EXCEPT ![n] = Admit(chain[n], tx).c] /\ mined' = mined
    BY <1>2, Zenon DEF ReceiveTx
  <2> QED
    BY <1>0, <2>1, AdmittedSound, OneChainChanges
<1>3. ASSUME NEW n \in Nodes, NEW m \in Nodes \ {n}, ReceiveMempool(n, m) PROVE NodeInv'
  <2>1. chain' = [chain EXCEPT ![n] = AdmitBatch(chain[n], RelayBatch(chain[m].mempool))] /\ mined' = mined
    BY <1>3, Zenon DEF ReceiveMempool
  <2>2. IsSeq(RelayBatch(chain[m].mempool))
    BY <1>0, RelayBatchSeq DEF ChainSound, MempoolSound
  <2>3. ChainSound(AdmitBatch(chain[n], RelayBatch(chain[m].mempool)))
    BY <1>0, <2>2, BatchChainSound
  <2> QED
    BY <1>0, <2>1, <2>3, OneChainChanges
<1>4. ASSUME NEW n \in Nodes, Mine(n) PROVE NodeInv'
  <2>1. PICK block \in Templates(n) :
          /\ \E c \in Connected(chain[n], block) : chain' = [chain EXCEPT ![n] = c]
          /\ mined' = mined \cup {block}
    BY <1>4 DEF Mine
  <2>2. PICK c \in Connected(chain[n], block) : chain' = [chain EXCEPT ![n] = c]
    BY <2>1
  <2>3. IsSeq(block.txs)
    BY <1>0, TemplatesSeq
  <2>4. ChainSound(c)
    BY <1>0, <2>3, ConnectedSound
  <2> QED
    BY <1>0, <2>1, <2>2, <2>3, <2>4, OneChainChanges
<1>5. ASSUME NEW n \in Nodes, NEW block \in mined, ReceiveBlock(n, block) PROVE NodeInv'
  <2>1. PICK c \in Connected(chain[n], block) : chain' = [chain EXCEPT ![n] = c]
    BY <1>5 DEF ReceiveBlock
  <2>2. mined' = mined
    BY <1>5 DEF ReceiveBlock
  <2>3. ChainSound(c)
    BY <1>0, ConnectedSound
  <2> QED
    BY <1>0, <2>1, <2>2, <2>3, OneChainChanges
<1>6. ASSUME NEW n \in Nodes, NEW m \in Nodes \ {n}, NEW prefer \in BOOLEAN, Reorganise(n, m, prefer)
      PROVE  NodeInv'
  <2>1. chain' = [chain EXCEPT ![n] = Adopted(chain[n], chain[m].blocks, prefer)] /\ mined' = mined
    BY <1>6, Zenon DEF Reorganise
  <2>2. ChainSound(Adopted(chain[n], chain[m].blocks, prefer))
    BY <1>0, AdoptedSound DEF ChainSound, StateSound
  <2> QED
    BY <1>0, <2>1, <2>2, OneChainChanges
<1>7. CASE UNCHANGED vars
  <2>1. chain' = [k \in Nodes |-> chain'[k]] /\ \A k \in Nodes : ChainSound(chain'[k])
    BY <1>7 DEF vars, NodeInv
  <2>2. \A block \in mined' : IsSeq(block.txs)
    BY <1>7 DEF vars, NodeInv
  <2> QED
    BY <2>1, <2>2, SoundAfter
<1> QED
  BY <1>1, <1>2, <1>3, <1>4, <1>5, <1>6, <1>7 DEF Next

(* So it always holds.                                                   *)
LEMMA NodeInvHolds == Spec => []NodeInv
BY InitSound, StepSound, PTL DEF Spec

(* The ordinary transactions of a mempool are in it, and are no shares.  *)
LEMMA OrdinaryOnes ==
  ASSUME NEW m, IsSeq(m)
  PROVE  \A tx \in ToSet(Ordinary(m)) : ~IsShare(tx) /\ \E i \in 1..Len(m) : m[i] = tx
<1> DEFINE T == {x \in ToSet(m) : ~IsShare(x)}
           n == Len(m)
           r == OrdinaryFold!Fold(0, <<>>, m)
<1>1. n \in Nat /\ DOMAIN m = 1..n /\ \A i \in 1..n : m[i] \in ToSet(m)
  BY SeqDomain
<1>2. \A i \in 1..n : \A s : KeepOrdinary(0, s, m[i]) = IF m[i] \in T THEN Append(s, m[i]) ELSE s
  BY <1>1 DEF KeepOrdinary
<1> HIDE DEF T
<1>3. OrdinaryFold!Picked(m, n, T, r)
  BY <1>1, <1>2, OrdinaryFold!FilterFacts
<1>4. r \in Seq(T)
  BY <1>3 DEF OrdinaryFold!Picked
<1>5. Ordinary(m) = r
  BY Zenon DEF Ordinary, Where, KeepOrdinary, Folded,
    OrdinaryFold!Fold, OrdinaryFold!Table
<1>6. ToSet(Ordinary(m)) \subseteq T
  BY <1>4, <1>5, SeqOver
<1> QED
  BY <1>6, SeqElements DEF T

(* A sound chain's mempool is minable.                                   *)
LEMMA PaysCoins ==
  ASSUME NEW c, ChainSound(c)
  PROVE  /\ \A tx \in ToSet(Ordinary(c.mempool)) :
              \E fee \in MinerFee(tx, c.utxos, SpendHeight(c)) : PaysItsFees(tx, fee, SpendHeight(c))
         /\ \A a, b \in ToSet(Ordinary(c.mempool)) : a # b => ToSet(a.ins) \cap ToSet(b.ins) = {}
<1> DEFINE m == c.mempool
           h == SpendHeight(c)
<1>1. IsSeq(m) /\ MempoolSound(m, c.utxos, h)
  BY DEF ChainSound, MempoolSound, SpendHeight, Height
<1>2. ASSUME NEW tx \in ToSet(Ordinary(m)) PROVE Pays(tx, c.utxos, h)
  BY <1>1, OrdinaryOnes DEF MempoolSound
<1>3. ASSUME NEW a \in ToSet(Ordinary(m)), NEW b \in ToSet(Ordinary(m)), a # b
      PROVE  ToSet(a.ins) \cap ToSet(b.ins) = {}
  <2>1. PICK i \in 1..Len(m), j \in 1..Len(m) : m[i] = a /\ m[j] = b /\ ~IsShare(m[i]) /\ ~IsShare(m[j])
    BY <1>1, OrdinaryOnes
  <2>2. Apart(a, b)
    BY <1>1, <1>3, <2>1 DEF MempoolSound
  <2> QED
    BY <2>2 DEF Apart
<1> QED
  BY <1>2, <1>3 DEF Pays

(* Every ordinary transaction that waits in a mempool could be mined in  *)
(* the next block, with its fee, and no two of them spend the same coin, *)
(* whatever was admitted, pruned, confirmed, disconnected and admitted   *)
(* again (admit_transaction, rebuild_mempool_after_chain_change,         *)
(* try_adopt_peer_chain).                                                *)
THEOREM PendingMinable == Spec => []MempoolMinable
<1>1. NodeInv => MempoolMinable
  <2> SUFFICES ASSUME NodeInv, NEW n \in Nodes
               PROVE  /\ \A tx \in ToSet(Ordinary(chain[n].mempool)) :
                           \E fee \in MinerFee(tx, chain[n].utxos, SpendHeight(chain[n])) :
                             PaysItsFees(tx, fee, SpendHeight(chain[n]))
                      /\ \A a, b \in ToSet(Ordinary(chain[n].mempool)) :
                           a # b => ToSet(a.ins) \cap ToSet(b.ins) = {}
    BY DEF MempoolMinable
  <2>1. ChainSound(chain[n])
    BY DEF NodeInv
  <2> QED
    BY <2>1, PaysCoins
<1> QED
  BY <1>1, NodeInvHolds, PTL

(* In a sound mempool there are as many ids as transactions.             *)
LEMMA DistinctIds ==
  ASSUME NEW m, IsSeq(m), \A i, j \in 1..Len(m) : m[i].id = m[j].id => i = j
  PROVE  Cardinality(TxIds(m)) = Len(m)
<1> DEFINE n == Len(m)
           f == [i \in 1..n |-> m[i].id]
<1>1. n \in Nat
  BY SeqDomain
<1>2. \A x : x \in TxIds(m) <=> \E i \in 1..n : x = m[i].id
  BY SeqElements DEF TxIds
<1>3. f \in [1..n -> TxIds(m)] /\ \A x \in TxIds(m) : \E i \in 1..n : f[i] = x
  BY <1>2
<1>4. f \in Injection(1..n, TxIds(m))
  BY <1>3 DEF Injection, IsInjective
<1>5. f \in Surjection(1..n, TxIds(m))
  BY <1>3 DEF Surjection
<1>6. ExistsBijection(1..n, TxIds(m))
  BY <1>4, <1>5 DEF ExistsBijection, Bijection
<1> HIDE DEF f, n
<1>7. IsFiniteSet(1..n) /\ Cardinality(1..n) = n
  <2>1. 1 \in Int /\ n \in Int /\ (IF 1 > n THEN 0 ELSE n - 1 + 1) = n
    BY <1>1
  <2> QED
    BY <2>1, FS_Interval
<1>8. Cardinality(TxIds(m)) = n
  BY <1>6, <1>7, FS_Bijection
<1> QED
  BY <1>8 DEF n

(* The blocks of every chain are linked, its coins have a value and a    *)
(* height, and its mempool has distinct transactions within the cap.     *)
THEOREM NodeTyped == Spec => []TypeOK
<1>1. NodeInv => TypeOK
  <2> SUFFICES ASSUME NodeInv, NEW n \in Nodes
               PROVE  LET c == chain[n] IN
                      /\ \A h \in 1..Height(c) : c.blocks[h].prev = BlockId(c, h - 1)
                      /\ \A p \in DOMAIN c.utxos : /\ c.utxos[p].v \in 1..Consensus.max_money
                                                   /\ c.utxos[p].h \in 1..Height(c)
                      /\ Len(c.mempool) <= Policy.max_mempool
                      /\ Cardinality(TxIds(c.mempool)) = Len(c.mempool)
    BY DEF TypeOK
  <2> DEFINE c == chain[n]
  <2>1. ChainSound(c)
    BY DEF NodeInv
  <2> HIDE DEF c
  <2>2. StateSound(c) /\ MempoolSound(c.mempool, c.utxos, Len(c.blocks) + 1)
    BY <2>1, Zenon DEF ChainSound
  <2>3. Len(c.blocks) \in Nat
    BY <2>2, SeqDomain DEF StateSound, BlocksSound
  <2>4. \A h \in 1..Height(c) : c.blocks[h].prev = BlockId(c, h - 1)
    BY <2>2, <2>3 DEF StateSound, BlocksSound, Height, BlockId
  <2>5. \A p \in DOMAIN c.utxos : c.utxos[p].v \in 1..Consensus.max_money /\ c.utxos[p].h \in 1..Height(c)
    BY <2>2 DEF StateSound, CoinsSound, Height
  <2>6. Len(c.mempool) <= Policy.max_mempool /\ Cardinality(TxIds(c.mempool)) = Len(c.mempool)
    BY <2>2, DistinctIds DEF MempoolSound
  <2> QED
    BY <2>4, <2>5, <2>6 DEF c
<1> QED
  BY <1>1, NodeInvHolds, PTL

(* A name is registered once in a chain, and no reserved name ever is,   *)
(* although admission compares a pending registration with the confirmed *)
(* names only and two of them may wait side by side                      *)
(* (validate_qns_block, qns_registry_from_blocks).                       *)
THEOREM OneOwner == Spec => []NamesRegisteredOnce
<1>1. NodeInv => NamesRegisteredOnce
  <2> SUFFICES ASSUME NodeInv, NEW n \in Nodes
               PROVE  LET blocks == chain[n].blocks
                          In(p) == Registrations(blocks[p[1]].txs[p[2]])
                          NameAt(p) == QnsLabel[In(p)[p[3]].s.raw].name
                          places == UNION {UNION {{<<h, i, j>> : j \in 1..Len(In(<<h, i>>))} :
                                                  i \in 1..Len(blocks[h].txs)} : h \in 1..Len(blocks)}
                      IN \A p \in places : /\ NameAt(p) \notin DOMAIN ReservedNames
                                           /\ \A q \in places : NameAt(q) = NameAt(p) => q = p
    BY DEF NamesRegisteredOnce
  <2> DEFINE B == chain[n].blocks
             In(p) == Registrations(B[p[1]].txs[p[2]])
             NameAt(p) == QnsLabel[In(p)[p[3]].s.raw].name
             places == UNION {UNION {{<<h, i, j>> : j \in 1..Len(In(<<h, i>>))} :
                                     i \in 1..Len(B[h].txs)} : h \in 1..Len(B)}
  <2>1. NamesSound(B)
    <3>1. StateSound(chain[n])
      BY DEF NodeInv, ChainSound
    <3>2. BlocksSound(B)
      BY <3>1 DEF StateSound
    <3> HIDE DEF places
    <3> QED
      BY <3>2 DEF BlocksSound
  <2>2. ASSUME NEW p \in places
        PROVE  \E g \in 1..Len(B) : \E k \in 1..Len(B[g].txs) :
                 p = <<g, k, 1>> /\ Registers(B[g].txs[k]) /\ NameAt(p) = NameIn(B[g].txs[k])
    <3>1. PICK h \in 1..Len(B) : p \in UNION {{<<h, i, j>> : j \in 1..Len(In(<<h, i>>))} : i \in 1..Len(B[h].txs)}
      OBVIOUS
    <3>2. PICK i \in 1..Len(B[h].txs) : p \in {<<h, i, j>> : j \in 1..Len(In(<<h, i>>))}
      BY <3>1, Zenon
    <3>3. PICK j \in 1..Len(In(<<h, i>>)) : p = <<h, i, j>>
      BY <3>2
    <3>4. In(<<h, i>>) = Registrations(B[h].txs[i]) /\ In(p) = Registrations(B[h].txs[i])
      BY <3>3
    <3>5. Registers(B[h].txs[i])
      <4>1. Len(<<>>) = 0
        OBVIOUS
      <4> QED
        BY <3>3, <3>4, <4>1 DEF Registers
    <3>6. Registrations(B[h].txs[i]) = <<Registrations(B[h].txs[i])[1]>>
      BY <2>1, <3>5 DEF NamesSound, OneName
    <3>7. Len(Registrations(B[h].txs[i])) = 1
      BY <3>6
    <3>8. j = 1
      BY <3>3, <3>4, <3>7
    <3>9. NameAt(p) = NameIn(B[h].txs[i])
      BY <3>3, <3>4, <3>8 DEF NameIn, NameOf
    <3> QED
      BY <3>3, <3>5, <3>8, <3>9
  <2> HIDE DEF B, NameAt, places
  <2> SUFFICES ASSUME NEW p \in places
               PROVE  /\ NameAt(p) \notin DOMAIN ReservedNames
                      /\ \A q \in places : NameAt(q) = NameAt(p) => q = p
    BY DEF B, NameAt, places
  <2>3. PICK h \in 1..Len(B) : \E i \in 1..Len(B[h].txs) :
               p = <<h, i, 1>> /\ Registers(B[h].txs[i]) /\ NameAt(p) = NameIn(B[h].txs[i])
    BY <2>2
  <2>4. PICK i \in 1..Len(B[h].txs) :
               p = <<h, i, 1>> /\ Registers(B[h].txs[i]) /\ NameAt(p) = NameIn(B[h].txs[i])
    BY <2>3
  <2>5. NameAt(p) \notin DOMAIN ReservedNames
    BY <2>1, <2>4 DEF NamesSound
  <2>6. ASSUME NEW q \in places, NameAt(q) = NameAt(p) PROVE q = p
    <3>1. PICK g \in 1..Len(B) : \E j \in 1..Len(B[g].txs) :
                 q = <<g, j, 1>> /\ Registers(B[g].txs[j]) /\ NameAt(q) = NameIn(B[g].txs[j])
      BY <2>2
    <3>2. PICK j \in 1..Len(B[g].txs) :
                 q = <<g, j, 1>> /\ Registers(B[g].txs[j]) /\ NameAt(q) = NameIn(B[g].txs[j])
      BY <3>1
    <3>3. g = h /\ j = i
      BY <2>1, <2>4, <2>6, <3>2 DEF NamesSound
    <3> QED
      BY <2>4, <3>2, <3>3
  <2> QED
    BY <2>5, <2>6
<1> QED
  BY <1>1, NodeInvHolds, PTL

(* The atoms in all coins and those melted are at most the subsidies     *)
(* paid, and a vault holds what its claims are worth.                    *)
THEOREM NoInflation == Spec => []CoinsAccounted
<1>1. NodeInv => CoinsAccounted
  <2> SUFFICES ASSUME NodeInv, NEW n \in Nodes
               PROVE  LET c == chain[n]
                          coins == SumOn([p \in DOMAIN c.utxos |-> c.utxos[p].v])
                          paid == SumOn([h \in 1..Height(c) |-> Subsidy(h)])
                      IN /\ coins <= paid
                         /\ \A i \in InfusionFrom(c.blocks) : coins + i.melted <= paid
                         /\ \A p \in DOMAIN c.utxos : HoldsItsClaims(c.utxos[p])
    BY DEF CoinsAccounted
  <2> DEFINE B == chain[n].blocks
             U == chain[n].utxos
  <2>1. BooksSound(B, U)
    BY DEF NodeInv, ChainSound, StateSound
  <2>2. SumOn([p \in DOMAIN U |-> U[p].v]) = Coins(U) /\ SumOn([h \in 1..Height(chain[n]) |-> Subsidy(h)]) = Paid(Len(B))
    BY DEF Coins, Values, Paid, Height
  <2> HIDE DEF B, U
  <2>3. /\ Coins(U) <= Paid(Len(B))
        /\ \A i \in InfusionFrom(B) : Coins(U) + i.melted <= Paid(Len(B))
        /\ \A p \in DOMAIN U : HoldsItsClaims(U[p])
    BY <2>1, BooksAccount DEF HoldsItsClaims
  <2> QED
    BY <2>2, <2>3, Zenon DEF B, U
<1> QED
  BY <1>1, NodeInvHolds, PTL

(* Transfers, fees, purchases, infusions and melts make no JIN and lose  *)
(* none, unless a solo block's coinbase pays no address that could have  *)
(* its fees; an equal amount stays in the vault behind every atom of QUB *)
(* that can still exist, in both replays of the infusion; and no batch   *)
(* of the sale is sold twice.                                            *)
THEOREM JinKept == Spec => []JinAccounted
<1>1. NodeInv => JinAccounted
  <2> SUFFICES ASSUME NodeInv, NEW n \in Nodes
               PROVE  LET blocks == chain[n].blocks
                          FeesArrive(block) == PoolOf(block) # NoPool \/ MinerOf(block) # NoMiner
                          Accounted(r) ==
                            /\ SumOn(r.m) <= Jin.supply
                            /\ (\A h \in DOMAIN blocks : FeesArrive(blocks[h])) => SumOn(r.m) = Jin.supply
                            /\ \A i \in InfusionFrom(blocks) :
                                 /\ i = r.i
                                 /\ i.infused = i.per * i.max
                                 /\ Balance(r.m, Jin.vault) >= i.infused
                      IN /\ \A r \in {JinReplay(blocks)} : Len(blocks) >= Jin.active /\ r.ok => Accounted(r)
                         /\ \A units \in Range(SoldFrom(blocks)) : units <= Jin.sale_batch
    BY DEF JinAccounted
  <2> DEFINE B == chain[n].blocks
             r == JinReplay(B)
  <2>1. IsSeq(B) /\ JinSound(B) /\ SoldSound(SoldFrom(B))
    BY DEF NodeInv, ChainSound, StateSound, BlocksSound
  <2> HIDE DEF B, r
  <2>2. /\ Len(B) >= Jin.active /\ r.ok =>
             /\ SumOn(r.m) <= Jin.supply
             /\ (\A h \in DOMAIN B : Arrives(B[h])) => SumOn(r.m) = Jin.supply
             /\ \A i \in InfusionFrom(B) :
                  i = r.i /\ i.infused = i.per * i.max /\ Balance(r.m, Jin.vault) >= i.infused
        /\ \A units \in Range(SoldFrom(B)) : units <= Jin.sale_batch
    <3>1. r = JinReplay(B)
      BY DEF r
    <3> QED
      BY <2>1, <3>1, JinTells
  <2> QED
    BY <2>2, Zenon DEF Arrives, B, r
<1> QED
  BY <1>1, NodeInvHolds, PTL

(* A pool hands out the subsidy to the atom, keeps its commission within *)
(* its rate and gives every miner what the work earned, up to an atom.   *)
THEOREM ExactPayouts == Spec => []PayoutsExact
<1>1. NodeInv => PayoutsExact
  <2> SUFFICES ASSUME NodeInv, NEW n \in Nodes,
                      NEW pool \in DOMAIN PoolRegistryFrom(chain[n].blocks),
                      NEW plan \in PayoutPlan(chain[n].blocks, pool, Subsidy(SpendHeight(chain[n])))
               PROVE  Fair(plan, Subsidy(SpendHeight(chain[n])), PoolRegistryFrom(chain[n].blocks)[pool].bps,
                           Scores(chain[n].blocks, SpendHeight(chain[n]), pool))
    BY DEF PayoutsExact
  <2> DEFINE B == chain[n].blocks
             h == SpendHeight(chain[n])
             reg == PoolRegistryFrom(B)
             total == Subsidy(h)
             score == Scores(B, h, pool)
  <2>1. IsSeq(B) /\ PoolTxsSound(B) /\ \A g \in 1..Len(B) : IsSeq(B[g].txs)
    BY DEF NodeInv, ChainSound, StateSound, BlocksSound
  <2>2. h = Len(B) + 1 /\ h \in Nat
    BY <2>1, SeqDomain DEF SpendHeight, Height
  <2>3. total \in Nat
    BY <2>2, SubsidyNat
  <2>4. Rate(reg[pool].bps)
    <3>1. RatesSound(reg)
      BY <2>1, RegistryRates
    <3> HIDE DEF reg
    <3> QED
      BY <3>1, Zenon DEF RatesSound, PoolSound, reg
  <2>5. /\ IsFiniteSet(DOMAIN score) /\ DOMAIN score \subseteq DOMAIN AddressRank
        /\ score \in [DOMAIN score -> Nat \ {0}]
    <3> HIDE DEF B, h
    <3>1. h \in Int
      BY <2>2
    <3> QED
      BY <2>1, <3>1, ScoresFacts
  <2>6. PICK s \in Split(total, reg[pool].bps, score) :
               plan.commission = s.commission /\ plan.entries = s.entries
    <3>1. PICK p \in EntryOf(reg, pool) :
                 plan \in {[mgr |-> p.mgr, commission |-> s.commission, entries |-> s.entries] :
                             s \in Split(total, p.bps, Scores(B, Len(B) + 1, pool))}
      BY Zenon DEF PayoutPlan
    <3>2. p = reg[pool]
      BY <3>1 DEF EntryOf
    <3>3. Scores(B, Len(B) + 1, pool) = score
      BY <2>2
    <3> HIDE DEF total, score, reg, B
    <3> QED
      BY <3>1, <3>2, <3>3
  <2> HIDE DEF total, score, reg, B, h
  <2>7. /\ s.commission + SumOn(s.entries) = total
        /\ s.commission * 10000 <= total * reg[pool].bps
        /\ \A a \in DOMAIN score :
             LET off == s.entries[a] * SumOn(score) - (total - s.commission) * score[a]
             IN off < SumOn(score) /\ -off < SumOn(score)
    BY <2>3, <2>4, <2>5, SplitFacts
  <2>8. Fair(plan, total, reg[pool].bps, score)
    BY <2>6, <2>7 DEF Fair
  <2> QED
    BY <2>8, Zenon DEF total, score, reg, B, h
<1> QED
  BY <1>1, NodeInvHolds, PTL
===============================================================================

-------------------------------- MODULE Chain --------------------------------
(***************************************************************************)
(* The chain state of one node (ChainState in src/src/lib.rs): its blocks, *)
(* the unspent outputs and the mempool, with block validation, connection, *)
(* reorganisation, mempool admission and rebuild, and the block template.  *)
(* A chain is c = [blocks, utxos, mempool]; every function here is pure    *)
(* and the nodes that run it are in module Node.                           *)
(* All blocks of this model carry the same bits, so work is length; the    *)
(* header checks (version, merkle root, work, time) are left out.          *)
(***************************************************************************)
EXTENDS Governance, Names

CONSTANT Policy  \* the mempool and template limits, a record

ASSUME PolicyAssumption ==
  /\ Policy.max_mempool \in Nat \ {0} /\ Policy.min_fee \in Nat
  /\ Policy.scan \in Nat \ {0} /\ Policy.passes \in Nat \ {0}
  /\ Policy.relay_batch \in Nat \ {0}

Height(c) == Len(c.blocks)
BlockId(c, h) == IF h = 0 THEN 0 ELSE c.blocks[h].id
TipId(c) == BlockId(c, Height(c))
EmptyChain == [blocks |-> <<>>, utxos |-> <<>>, mempool |-> <<>>]

\* create_coinbase and the pool coinbase of build_candidate_pool_block
Coinbase(id, outs, pool) ==
  [id |-> id, ins |-> <<>>, outs |-> outs, by |-> {}, data |-> [k |-> "coinbase", pool |-> pool]]

\* Mutant: the atoms a melt burns are paid to the miner.
MinerFeeUnburnt(tx, U, h) == ContextualFee(tx, U, h)
\* The fee a miner collects, and what the protocols demand of it: sets, {} on error.
MinerFee(tx, U, h) ==
  UNION {{fee - burn : burn \in MeltBurn(tx, h) \cap 0..fee} : fee \in ContextualFee(tx, U, h)}
DemandedFee(tx, h) ==
  {QnsMinerFee(tx, h) + l + s : l \in LibraryMinerFee(tx, h), s \in SaleMinerFee(tx, h)}
PaysItsFees(tx, fee, h) == \E d \in DemandedFee(tx, h) : fee >= d

-----------------------------------------------------------------------------
(* Blocks. *)

\* validate_block: {} or the fees it found
FeesAfter(S, tx, h) ==
  UNION {{[U |-> U, fees |-> s.fees + fee] :
            fee \in {f \in MinerFee(tx, s.U, h) : PaysItsFees(tx, f, h)}, U \in ConnectTx(tx, s.U, h)} : s \in S}
BlockFees(block, U0, h) ==
  Folded(LAMBDA S, tx : FeesAfter(S, tx, h), {[U |-> U0, fees |-> 0]}, block.txs)
BlockOK(block, c, h) ==
  /\ Len(block.txs) + 1 <= Consensus.max_txs
  /\ block.prev = TipId(c)
  /\ IsCoinbase(block.cb)
  /\ \A tx \in ToSet(block.txs) : ~IsCoinbase(tx)
  /\ IsInjective([i \in 1..(Len(block.txs) + 1) |-> (<<block.cb>> \o block.txs)[i].id])
  /\ StatelessOK(block.cb)
  /\ \E s \in BlockFees(block, c.utxos, h) : ValueOf(block.cb.outs) <= Subsidy(h) + s.fees

\* validate_qns_block, validate_library_block
NamesBlockOK(block, registry, h) ==
  (\E tx \in ToSet(block.txs) : Registrations(tx) # <<>>) =>
    Folded(LAMBDA S, tx : UNION {QnsValidate(tx, h, registry, seen) : seen \in S}, {{}}, block.txs) # {}
LibraryBlockOK(block, prior, U0, h) ==
  (\E tx \in ToSet(block.txs) : Actions(tx) # <<>>) =>
    Folded(LAMBDA S, tx :
               UNION {{[L |-> L, U |-> ConnectAnyway(tx, s.U, h)] :
                         L \in IF LibraryOK(tx, s.L, s.U, h) THEN LibraryApply(s.L, tx) ELSE {}} : s \in S},
             {[L |-> L, U |-> U0] : L \in LibraryFrom(prior)}, block.txs) # {}

\* connect_block without its mempool, and from_blocks
ProtocolsOK(block, c, ledger, h) ==
  /\ NamesBlockOK(block, RegistryFrom(c.blocks), h)
  /\ JinBlockOK(block, c.blocks, c.utxos, JinStart(ledger, c.blocks), h)
  /\ SaleBlockOK(block, c.blocks, c.utxos, h)
  /\ PoolsBlockOK(block, c.blocks, c.utxos, h)
  /\ LibraryBlockOK(block, c.blocks, c.utxos, h)
  /\ GovBlockOK(block, c.blocks, c.utxos, ledger, h)
ConnectBlock(c, block) ==
  LET h == Height(c) + 1
  IN IF ~BlockOK(block, c, h) \/ ~ProtocolsOK(block, c, JinLedgerFrom(c.blocks), h) THEN {}
     ELSE {[c EXCEPT !.blocks = Append(@, block), !.utxos = V] :
             V \in Folded(LAMBDA S, tx : UNION {ConnectTx(tx, U, h) : U \in S},
                            {c.utxos}, <<block.cb>> \o block.txs)}
FromBlocks(blocks) ==
  Folded(LAMBDA S, block : UNION {ConnectBlock(c, block) : c \in S}, {EmptyChain}, blocks)

-----------------------------------------------------------------------------
(* The mempool. *)

TxIds(txs) == {tx.id : tx \in ToSet(txs)}
Shares(txs) == Where(txs, IsShare)
Ordinary(txs) == Where(txs, LAMBDA tx : ~IsShare(tx))
\* hf124_pool_share_mempool_limit
ShareLimit == SmallerOf(Pool.max_shares * Pool.stale, Policy.max_mempool)

\* Mutant: the cap is off by one.
HasRoomOneMore(c) == Len(c.mempool) <= Policy.max_mempool
HasRoom(c) == Len(c.mempool) < Policy.max_mempool

\* prune_unconfirmable_pool_shares
PruneShares(c) ==
  LET Confirmable(s) == /\ s.parent <= Height(c)
                        /\ Height(c) + 1 - s.parent <= Pool.stale
                        /\ s.parent_id = BlockId(c, s.parent)
  IN [c EXCEPT !.mempool = Where(@, LAMBDA tx : IsShare(tx) => Confirmable(tx.data))]

\* The pool context of an admission: the confirmed one with the pending shares.
AdmissionContext(c) ==
  AbsorbShares(PoolContext(c.blocks, Height(c) + 1), c.blocks, c.mempool, Height(c) + 1)

\* The checks of an ordinary transaction against chain and mempool.
FeeEnough(tx, c, h) ==
  \E fee \in MinerFee(tx, c.utxos, h) :
    /\ PaysItsFees(tx, fee, h)
    /\ IsClaim(tx) \/ fee >= Policy.min_fee \/ TxJinFees(tx) > 0
JinAllowed(tx, c, start, h) == JinAgainst(tx, c, start, h) /\ InfusionAgainst(tx, c, start, h)
OrdinaryAllowed(tx, c, ledger, h) ==
  /\ \A m \in ToSet(c.mempool) : ToSet(tx.ins) \cap ToSet(m.ins) = {}
  /\ FeeEnough(tx, c, h)
  /\ JinAllowed(tx, c, JinStart(ledger, c.blocks), h)
  /\ SaleAgainst(tx, c, h)
  /\ QnsValidate(tx, h, RegistryFrom(c.blocks), {}) # {}
  /\ \E L \in LibraryFrom(c.blocks) : Actions(tx) # <<>> => LibraryOK(tx, L, c.utxos, h)
  /\ GovAgainst(tx, c, ledger, h)

\* The pool context after a transaction that passes its checks, as a set
Allowed(tx, c, h) ==
  /\ HasRoom(c)
  /\ tx.id \notin TxIds(c.mempool)
  /\ SaleStandard(tx)
  /\ IF IsShare(tx) THEN Len(Shares(c.mempool)) < ShareLimit
     ELSE OrdinaryAllowed(tx, c, JinLedgerFrom(c.blocks), h)
Validated(tx, c, C) ==
  LET h == Height(c) + 1
  IN IF ~Allowed(tx, c, h) THEN {}
     ELSE UNION {PoolValidate(tx, c.blocks, c.utxos, h, fee, C) : fee \in ContextualFee(tx, c.utxos, h)}

\* accept_transaction_to_mempool_with_context: a = [c, C, ok]; the stale shares
\* a full mempool drops stay dropped when the transaction is refused
MakeRoom(a, tx) ==
  LET full == \/ ~HasRoom(a.c)
              \/ IsShare(tx) /\ Len(Shares(a.c.mempool)) >= ShareLimit
      pruned == PruneShares(a.c)
  IN IF full /\ pruned # a.c THEN [a EXCEPT !.c = pruned, !.C = AdmissionContext(pruned)] ELSE a
Enqueue(a, tx, contexts) ==
  IF contexts = {} THEN [a EXCEPT !.ok = FALSE]
  ELSE [c |-> [a.c EXCEPT !.mempool = Append(@, tx)], C |-> CHOOSE C \in contexts : TRUE, ok |-> TRUE]
AdmitInRoom(a, tx) == Enqueue(a, tx, Validated(tx, a.c, a.C))
AdmitWith(a, tx) == AdmitInRoom(MakeRoom(a, tx), tx)

\* accept_transaction_to_mempool
Admit(c, tx) == AdmitWith([c |-> c, C |-> AdmissionContext(c), ok |-> FALSE], tx)
\* accept_transactions_to_mempool_batch: one pool context for all of them
AdmitBatch(c, txs) ==
  Folded(AdmitWith, [c |-> c, C |-> AdmissionContext(c), ok |-> FALSE], txs).c

\* rebuild_mempool_from: shares, oldest parent first, then the others in
\* template order, again and again while the rejected become fewer
ByParent(txs) ==
  Sorted(txs, LAMBDA a, b : \/ a.data.parent < b.data.parent
                            \/ a.data.parent = b.data.parent /\ TxRank[a.id] < TxRank[b.id])
Distinct(txs) == Folded(LAMBDA s, tx : IF tx.id \in TxIds(s) THEN s ELSE Append(s, tx), <<>>, txs)
\* Mutant: what is left in the mempool is not checked again.
RebuildBlindly(c0, txs) == [c0 EXCEPT !.mempool = Distinct(txs)]

\* p = [a, left, go]: the admissions so far, the rejected of this pass, another pass?
Retried(p, tx, a) == [p EXCEPT !.a = a, !.left = IF a.ok \/ IsShare(tx) THEN @ ELSE Append(@, tx)]
Retry(p, tx) ==
  IF \/ ~HasRoom(p.a.c)
     \/ IsShare(tx) /\ Len(Shares(p.a.c.mempool)) >= ShareLimit
  THEN p ELSE Retried(p, tx, AdmitWith(p.a, tx))
Pass(p, i) ==
  LET Ended(q) == [q EXCEPT !.go = Len(q.left) < Len(Ordinary(p.left))]
  IN IF p.go THEN Ended(Folded(Retry, [p EXCEPT !.left = <<>>], p.left)) ELSE p
RebuildFrom(empty, all) ==
  Folded(Pass, [a |-> [c |-> empty, C |-> AdmissionContext(empty), ok |-> TRUE],
                  left |-> ByParent(Shares(all)) \o InTemplateOrder(Ordinary(all)),
                  go |-> TRUE],
           [i \in 1..Policy.passes |-> i]).a.c
RebuildMempool(c0, txs) == RebuildFrom([c0 EXCEPT !.mempool = <<>>], Distinct(txs))

Without(txs, ids) == Where(txs, LAMBDA tx : tx.id \notin ids)
\* connect_block: what the block confirmed leaves the mempool, the rest is checked again
Connected(c, block) ==
  {RebuildMempool(d, Without(c.mempool, TxIds(block.txs))) : d \in ConnectBlock(c, block)}

-----------------------------------------------------------------------------
(* Reorganisation. *)

CommonHeight(c, blocks) ==
  LET same(h) == \A g \in 1..h : g <= Len(blocks) /\ blocks[g].id = c.blocks[g].id
  IN CHOOSE h \in 0..Height(c) : same(h) /\ (h = Height(c) \/ ~same(h + 1))

\* disconnected_non_coinbase_transactions_for, reorg_mempool_candidates_for
Confirmed(blocks) == UNION {TxIds(blocks[h].txs) : h \in 1..Len(blocks)}
TxsOf(blocks) == Folded(LAMBDA txs, block : txs \o block.txs, <<>>, blocks)
\* Mutant: the abandoned tip is overlooked.
DisconnectedFew(c, blocks) ==
  Without(TxsOf(SubSeq(c.blocks, CommonHeight(c, blocks) + 1, Height(c) - 1)), Confirmed(blocks))
Disconnected(c, blocks) ==
  Without(TxsOf(SubSeq(c.blocks, CommonHeight(c, blocks) + 1, Height(c))), Confirmed(blocks))

\* try_adopt_peer_chain: the chain after it, c itself when it is not adopted
Switched(c, blocks, rebuilt) ==
  IF rebuilt = {} THEN c
  ELSE RebuildMempool(CHOOSE d \in rebuilt : TRUE, c.mempool \o Disconnected(c, blocks))
Adopted(c, blocks, prefer) ==
  LET better == \/ Len(blocks) > Height(c)
                \/ Len(blocks) = Height(c) /\ prefer /\ blocks[Len(blocks)].id # TipId(c)
  IN IF better THEN Switched(c, blocks, FromBlocks(blocks)) ELSE c

-----------------------------------------------------------------------------
(* The block template. *)

\* candidate_mempool_transactions, the shares
TemplateShares(c) ==
  LET h == Height(c) + 1
      Taken(t, tx, next) ==
        IF Len(t.txs) + 1 >= Consensus.max_txs \/ Len(t.txs) >= Pool.max_shares \/ next = {}
        THEN t ELSE [txs |-> Append(t.txs, tx), C |-> CHOOSE C \in next : TRUE]
  IN Folded(LAMBDA t, tx : Taken(t, tx, PoolValidate(tx, c.blocks, c.utxos, h, 0, t.C)),
              [txs |-> <<>>, C |-> PoolContext(c.blocks, h)], ByParent(Shares(c.mempool)))

\* Mutant: each registration is compared with the confirmed names only.
NamesTakenAlone(tx, c, seen) == QnsValidate(tx, Height(c) + 1, RegistryFrom(c.blocks), {})
\* candidate_mempool_transactions, the names of the template so far
NamesTaken(tx, c, seen) == QnsValidate(tx, Height(c) + 1, RegistryFrom(c.blocks), seen)
\* candidate_mempool_transactions, one ordinary transaction on trial copies
\* of every state t = [txs, fees, C, U, seen, r, sold, L, G]
Trial(t, tx, c, r, h) ==
  {[txs |-> Append(t.txs, tx), fees |-> t.fees + f, C |-> C, U |-> U, seen |-> seen,
    r |-> [r EXCEPT !.m = g.m], sold |-> s, L |-> L, G |-> g.G] :
     f \in {m \in MinerFee(tx, t.U, h) : PaysItsFees(tx, m, h)},
     C \in UNION {PoolValidate(tx, c.blocks, t.U, h, raw, t.C) : raw \in ContextualFee(tx, t.U, h)},
     U \in ConnectTx(tx, t.U, h),
     seen \in NamesTaken(tx, c, t.seen),
     s \in SaleTx(tx, t.U, t.sold, h),
     L \in IF LibraryOK(tx, t.L, t.U, h) THEN LibraryApply(t.L, tx) ELSE {},
     g \in IF r.ok THEN GovTx(tx, t.G, r.m, t.U, c.blocks, h) ELSE {}}
TakeOrdinary(t, tx, c, miner) ==
  LET h == Height(c) + 1
      OneOf(S) == IF S = {} THEN t ELSE CHOOSE u \in S : TRUE
  IN IF Len(t.txs) + 1 >= Consensus.max_txs \/ ~SaleStandard(tx) THEN t
     ELSE OneOf(Trial(t, tx, c, InfusionTx(JinTx(t.r, tx, t.U, h, miner), tx, t.U, h), h))

\* candidate_mempool_transactions: {} when a protocol state cannot be replayed
TemplateStart(c, shared, start) ==
  {[txs |-> shared.txs, fees |-> 0, C |-> shared.C, U |-> c.utxos, seen |-> {},
    r |-> start, sold |-> SoldFrom(c.blocks), L |-> L, G |-> G] :
     L \in LibraryFrom(c.blocks), G \in IF start.ok THEN GovernanceFrom(c.blocks) ELSE {}}
CandidatesAfter(c, miner, shared, ordinary) ==
  LET scanned == SubSeq(ordinary, 1, SmallerOf(Len(ordinary), Policy.scan))
      bootstrap(start) == BootstrapFor(start, Height(c), Height(c) + 1)
  IN IF ordinary = <<>> \/ Len(shared.txs) + 1 >= Consensus.max_txs THEN {[txs |-> shared.txs, fees |-> 0]}
     ELSE {Folded(LAMBDA t, tx : TakeOrdinary(t, tx, c, miner), s, scanned) :
             s \in TemplateStart(c, shared, bootstrap(JinStart(JinLedgerFrom(c.blocks), c.blocks)))}
Candidates(c, miner) ==
  CandidatesAfter(c, miner, TemplateShares(c), InTemplateOrder(Ordinary(c.mempool)))

\* build_candidate_block, build_candidate_pool_block
SoloBlock(c, miner, id) ==
  {[id |-> id, prev |-> TipId(c), txs |-> t.txs,
    cb |-> Coinbase(id, <<Out(Subsidy(Height(c) + 1) + t.fees, PayTo(miner))>>, NoPool)] :
     t \in Candidates(c, miner)}
PoolBlock(c, pool, id) ==
  UNION {{[id |-> id, prev |-> TipId(c), txs |-> t.txs, cb |-> Coinbase(id, outs, pool)] :
            outs \in PoolCoinbase(c.blocks, pool, Subsidy(Height(c) + 1) + t.fees)} :
         t \in IF Height(c) + 1 >= Pool.active THEN Candidates(c, NoMiner) ELSE {}}
=============================================================================

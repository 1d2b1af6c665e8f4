-------------------------------- MODULE Pools --------------------------------
(***************************************************************************)
(* Share pools (src/src/pools.rs). A pool is created, enlarged, cheapened  *)
(* and renamed by marker outputs; miners post signed pool shares as        *)
(* transactions; a pool block pays its reward to the miners of the last    *)
(* share_window_blocks in proportion to their shares (PPLNS).              *)
(*                                                                         *)
(* A block is [id, prev, cb, txs]: its hash, the hash before it, the       *)
(* coinbase and the other transactions; blocks[h] is the block at height h *)
(* and genesis, height 0, is left implicit. The registry and window caches *)
(* of HF124 are keyed by the exact tip, so they read as recomputation.     *)
(***************************************************************************)
EXTENDS Transactions

CONSTANTS
  Pool,        \* the pools settings, a record
  AddressRank  \* address |-> its place in the order of address texts

\* validate_pools_settings
PoolSettings ==
  /\ Pool.active \in Nat \ {0} /\ Pool.marker \in Nat \ {0}
  /\ Pool.base_price \in Nat \ {0} /\ Pool.base_slots \in Nat \ {0}
  /\ Pool.step_price \in Nat \ {0} /\ Pool.step_slots \in Nat \ {0}
  /\ Pool.max_slots \in Nat /\ Pool.max_slots >= Pool.base_slots
  /\ Pool.max_pools \in Nat \ {0} /\ Pool.max_commission \in 0..10000
  /\ Pool.window \in Nat \ {0} /\ Pool.stale \in Nat \ {0}
  /\ Pool.max_shares \in Nat \ {0} /\ Pool.max_shares + 1 <= Consensus.max_txs
ASSUME PoolsAssumption ==
  /\ PoolSettings
  /\ IsInjective(AddressRank) /\ \A a \in DOMAIN AddressRank : AddressRank[a] \in Nat

CreateMarker(name, mgr, bps, slots) ==
  [k |-> "pool_create", name |-> name, mgr |-> mgr, bps |-> bps, slots |-> slots]
TopUpMarker(pool, mgr, extra) == [k |-> "pool_topup", pool |-> pool, mgr |-> mgr, extra |-> extra]
CommissionMarker(pool, mgr, bps) == [k |-> "pool_commission", pool |-> pool, mgr |-> mgr, bps |-> bps]
RenameMarker(pool, mgr, name) == [k |-> "pool_rename", pool |-> pool, mgr |-> mgr, name |-> name]
PoolKinds == {"pool_create", "pool_topup", "pool_commission", "pool_rename"}
PoolActions(tx) == IF tx.outs = <<>> THEN <<>> ELSE Markers(tx, PoolKinds)

\* What Address::parse_with_prefix accepts.
Addresses == DOMAIN AddressRank
\* The JIN transfers and conversions in a transaction, which a pool action must
\* not carry; a script that names no address or no number is not one of them.
IsJinTransfer(o) ==
  /\ o.s.k = "jin_transfer" /\ {o.s.from, o.s.to} \subseteq Addresses
  /\ {o.s.amount, o.s.fee} \subseteq Nat /\ o.s.asset \in {"QUB", "JIN"}
IsJinConversion(o) ==
  /\ o.s.k = "jin_conversion" /\ o.s.from \in Addresses
  /\ {o.s.amount, o.s.fee} \subseteq Nat /\ o.s.asset \in {"QUB", "JIN"}
Transfers(tx) == Where(tx.outs, IsJinTransfer)
Conversions(tx) == Where(tx.outs, IsJinConversion)

SlotsValid(slots) ==
  slots \in Pool.base_slots..Pool.max_slots /\ (slots - Pool.base_slots) % Pool.step_slots = 0
ExtraSlotsValid(extra) == extra > 0 /\ extra % Pool.step_slots = 0
CreatePrice(slots) ==
  Pool.base_price + ((slots - Pool.base_slots) \div Pool.step_slots) * Pool.step_price
TopUpPrice(extra) == (extra \div Pool.step_slots) * Pool.step_price
ProtocolShare(price) == price \div 2
MinerShare(price) == price - price \div 2

-----------------------------------------------------------------------------
(* The registry: pool id |-> [name, mgr, bps, slots, created, paid]. *)

Set(f, x, y) == [z \in DOMAIN f \cup {x} |-> IF z = x THEN y ELSE f[z]]
SmallerOf(a, b) == IF a < b THEN a ELSE b
LargerOf(a, b) == IF a > b THEN a ELSE b

NewPool(m, h) == [name |-> m.name, mgr |-> m.mgr, bps |-> m.bps, slots |-> m.slots,
                  created |-> h, paid |-> CreatePrice(m.slots)]

Enlarged(p, extra) ==
  [p EXCEPT !.slots = SmallerOf(@ + extra, Pool.max_slots), !.paid = @ + TopUpPrice(extra)]

\* apply_pool_registry_block: what a confirmed marker does, unchecked
ApplyPoolMarker(reg, m, id, h) ==
  CASE m.k = "pool_create" -> Set(reg, id, NewPool(m, h))
    [] m.k = "pool_topup" /\ m.pool \in DOMAIN reg ->
         [reg EXCEPT ![m.pool] = Enlarged(@, m.extra)]
    [] m.k = "pool_commission" /\ m.pool \in DOMAIN reg /\ m.bps <= reg[m.pool].bps ->
         [reg EXCEPT ![m.pool].bps = m.bps]
    [] m.k = "pool_rename" /\ m.pool \in DOMAIN reg /\ m.mgr = reg[m.pool].mgr ->
         [reg EXCEPT ![m.pool].name = m.name]
    [] OTHER -> reg
PoolRegistryFrom(blocks) ==
  Folded(LAMBDA reg, p : Folded(LAMBDA r, o : ApplyPoolMarker(r, o.s, p.tx.id, p.h), reg, PoolActions(p.tx)),
           <<>>, Placed(blocks, Pool.active))

\* validate_pool_action_tx: the registry after a valid action
PoolActionCost(m) ==
  CASE m.k = "pool_create" -> CreatePrice(m.slots)
    [] m.k = "pool_topup" -> TopUpPrice(m.extra)
    [] OTHER -> 0
ManagedBy(tx, m, reg, U) ==
  /\ m.pool \in DOMAIN reg
  /\ m.mgr = reg[m.pool].mgr
  /\ SpendsFrom(tx, U, m.mgr)
PoolActionAllowed(tx, m, reg, U) ==
  IF m.k = "pool_create"
  THEN /\ Cardinality(DOMAIN reg) < Pool.max_pools
       /\ m.bps \in 0..Pool.max_commission
       /\ SlotsValid(m.slots)
  ELSE /\ ManagedBy(tx, m, reg, U)
       /\ m.k = "pool_topup" => ExtraSlotsValid(m.extra) /\ reg[m.pool].slots + m.extra <= Pool.max_slots
       /\ m.k = "pool_commission" => m.bps \in 0..reg[m.pool].bps
PoolActionOK(tx, fee, h, reg, U) ==
  LET as == PoolActions(tx)
      Paid(price) == /\ PaidTo(tx, Pool.protocol) >= ProtocolShare(price)
                     /\ fee >= MinerShare(price)
  IN /\ h >= Pool.active
     /\ ~IsCoinbase(tx)
     /\ as = <<as[1]>>
     /\ Markers(tx, {"qns"}) = <<>> /\ Transfers(tx) = <<>> /\ Conversions(tx) = <<>>
     /\ as[1].v = Pool.marker
     /\ PoolActionAllowed(tx, as[1].s, reg, U)
     /\ Paid(PoolActionCost(as[1].s))

-----------------------------------------------------------------------------
(* The share window: the pool each miner is active in, the miners active in *)
(* each pool and the shares already counted.                               *)

ShareKey(s) == <<s.pool, s.miner, s.parent, s.parent_id, s.nonce>>
Members(W, pool) == IF pool \in DOMAIN W.members THEN W.members[pool] ELSE {}
EmptyWindow == [active |-> <<>>, members |-> <<>>, seen |-> {}]

\* add_active_unchecked: the first pool of a miner stands
AddActive(W, s) ==
  [W EXCEPT !.active = IF s.miner \in DOMAIN @ THEN @ ELSE Set(@, s.miner, s.pool),
            !.members = Set(@, s.pool, Members(W, s.pool) \cup {s.miner})]

SharesOf(block) == SelectSeq(block.txs, IsShare)
WindowFrom(blocks, h) ==
  LET Shown(W, p) ==
        IF p.h >= h - Pool.stale THEN [W EXCEPT !.seen = @ \cup {ShareKey(p.tx.data)}] ELSE W
      AddShare(W, p) == IF p.h >= h - Pool.window THEN AddActive(Shown(W, p), p.tx.data) ELSE Shown(W, p)
      first == LargerOf(1, h - LargerOf(Pool.window, Pool.stale))
  IN Folded(AddShare, EmptyWindow,
              SelectSeq(Placed(blocks, first), LAMBDA p : p.h < h /\ IsShare(p.tx)))

\* A validation context is [reg, win].
PoolContext(blocks, h) == [reg |-> PoolRegistryFrom(blocks), win |-> WindowFrom(blocks, h)]

ShareIsCurrent(s, blocks, h, reg) ==
  /\ s.pool \in DOMAIN reg
  /\ s.parent >= reg[s.pool].created
  /\ s.parent \in 1..Len(blocks)
  /\ s.parent_id = blocks[s.parent].id
  /\ s.parent < h /\ h - s.parent <= Pool.stale

\* absorb_mempool_shares: pending shares count against a new one
AbsorbShares(C, blocks, pool_txs, h) ==
  LET Absorb(D, tx) ==
        IF IsShare(tx) /\ ShareIsCurrent(tx.data, blocks, h, C.reg)
        THEN [D EXCEPT !.win = AddActive([@ EXCEPT !.seen = @ \cup {ShareKey(tx.data)}], tx.data)]
        ELSE D
  IN Folded(Absorb, C, pool_txs)

\* Mutant: a pool takes a miner more than it has slots.
ShareOverfull(tx, blocks, h, C) ==
  LET s == tx.data IN
  /\ h >= Pool.active
  /\ ShareIsCurrent(s, blocks, h, C.reg)
  /\ s.nonce \in Pool.good_nonces
  /\ s.miner \in DOMAIN AddressRank \cap tx.by
  /\ ShareKey(s) \notin C.win.seen
  /\ s.miner \in DOMAIN C.win.active => C.win.active[s.miner] = s.pool
  /\ \/ s.miner \in Members(C.win, s.pool)
     \/ Cardinality(Members(C.win, s.pool)) <= C.reg[s.pool].slots
\* validate_share_tx_against_context and validate_and_add_share
ShareOK(tx, blocks, h, C) ==
  LET s == tx.data IN
  /\ h >= Pool.active
  /\ ShareIsCurrent(s, blocks, h, C.reg)
  /\ s.nonce \in Pool.good_nonces          \* pool_share_meets_target
  /\ s.miner \in DOMAIN AddressRank \cap tx.by
  /\ ShareKey(s) \notin C.win.seen
  /\ s.miner \in DOMAIN C.win.active => C.win.active[s.miner] = s.pool
  /\ \/ s.miner \in Members(C.win, s.pool)
     \/ Cardinality(Members(C.win, s.pool)) < C.reg[s.pool].slots
TakeShare(W, s) ==
  [active |-> Set(W.active, s.miner, s.pool),
   members |-> Set(W.members, s.pool, Members(W, s.pool) \cup {s.miner}),
   seen |-> W.seen \cup {ShareKey(s)}]

\* PoolValidationContext::validate_and_apply
PoolValidate(tx, blocks, U, h, fee, C) ==
  IF IsShare(tx)
  THEN IF ShareOK(tx, blocks, h, C) THEN {[C EXCEPT !.win = TakeShare(@, tx.data)]} ELSE {}
  ELSE IF PoolActions(tx) = <<>> THEN {C}
  ELSE IF PoolActionOK(tx, fee, h, C.reg, U)
       THEN {[C EXCEPT !.reg = ApplyPoolMarker(@, PoolActions(tx)[1].s, tx.id, h)]} ELSE {}

-----------------------------------------------------------------------------
(* Payouts. *)

\* pool_share_scores_from_blocks
ScoresOf(shares) ==
  [a \in {p.tx.data.miner : p \in ToSet(shares)} |->
     Cardinality({i \in DOMAIN shares : shares[i].tx.data.miner = a})]
Scores(blocks, h, pool) ==
  ScoresOf(Where(Placed(blocks, h - Pool.window),
                 LAMBDA p : p.h < h /\ IsShare(p.tx) /\ p.tx.data.pool = pool))

SumOn(f) == FoldFunction(LAMBDA x, y : x + y, 0, f)

\* Mutant: what does not divide is kept back.
SplitFloors(total, bps, score) ==
  LET commission == (total * bps) \div 10000
      forMiners == total - commission
  IN IF DOMAIN score = {} THEN {}
     ELSE {[commission |-> commission,
            entries |-> [a \in DOMAIN score |-> (forMiners * score[a]) \div SumOn(score)]]}
\* split_amount: floors in proportion to the scores; the atoms left over go to
\* the largest remainders, ties to the smaller address.
Portions(amount, score, all) ==
  LET rem(a) == (amount * score[a]) % all
      floors == [a \in DOMAIN score |-> (amount * score[a]) \div all]
      ahead(a) == {b \in DOMAIN score : \/ rem(b) > rem(a)
                                        \/ rem(b) = rem(a) /\ AddressRank[b] < AddressRank[a]}
      left == amount - SumOn(floors)
  IN [a \in DOMAIN score |-> floors[a] + IF Cardinality(ahead(a)) < left THEN 1 ELSE 0]
\* The commission first, then the miners' portions; {} when nobody mined.
Split(total, bps, score) ==
  LET commission == (total * bps) \div 10000
  IN IF DOMAIN score = {} THEN {}
     ELSE {[commission |-> commission, entries |-> Portions(total - commission, score, SumOn(score))]}

EntryOf(reg, pool) == IF pool \in DOMAIN reg THEN {reg[pool]} ELSE {}
\* pool_payout_plan of the block that follows blocks
PayoutPlan(blocks, pool, total) ==
  UNION {{[mgr |-> p.mgr, commission |-> s.commission, entries |-> s.entries] :
            s \in Split(total, p.bps, Scores(blocks, Len(blocks) + 1, pool))} :
         p \in EntryOf(PoolRegistryFrom(blocks), pool)}

\* expected_pool_coinbase_outputs; the empty sequence stands for an error
PoolCoinbase(blocks, pool, total) ==
  LET Outs(p) ==
        (IF p.commission > 0 THEN <<Out(p.commission, PayTo(p.mgr))>> ELSE <<>>) \o
        LET paid == SetToSortSeq({a \in DOMAIN p.entries : p.entries[a] > 0},
                                 LAMBDA a, b : AddressRank[a] < AddressRank[b])
        IN [i \in DOMAIN paid |-> Out(p.entries[paid[i]], PayTo(paid[i]))]
  IN {Outs(p) : p \in PayoutPlan(blocks, pool, total)} \ {<<>>}

\* parse_pool_block_marker: the coinbase names the pool it pays
PoolOf(block) == block.cb.data.pool
NoPool == 0

PoolTouched(block) ==
  \/ PoolOf(block) # NoPool
  \/ \E tx \in ToSet(block.txs) : IsShare(tx) \/ PoolActions(tx) # <<>>

AfterPooled(s, tx, prior, fee, h) ==
  {[C |-> C, U |-> U, fees |-> s.fees + fee] :
     C \in PoolValidate(tx, prior, s.U, h, fee, s.C), U \in ConnectTx(tx, s.U, h)}
\* validate_pools_block: fees are what the inputs leave over, and the coinbase
\* of a pool block must be the payout of subsidy and fees to the atom.
PoolsBlockOK(block, prior, U0, h) ==
  PoolTouched(block) =>
    /\ h >= Pool.active
    /\ Len(SharesOf(block)) <= Pool.max_shares
    /\ \E s \in Folded(
           LAMBDA S, tx : UNION {UNION {AfterPooled(s, tx, prior, fee, h) : fee \in ContextualFee(tx, s.U, h)} : s \in S},
           {[C |-> PoolContext(prior, h), U |-> U0, fees |-> 0]}, block.txs) :
         PoolOf(block) # NoPool =>
           block.cb.outs \in PoolCoinbase(prior, PoolOf(block), Subsidy(h) + s.fees)

\* jin_fee_receivers_for_block: the JIN fees of a block go where its reward goes;
\* address |-> units, {} for an error
JinFeeReceivers(prior, block, units) ==
  LET first == block.cb.outs[1].s
      commission(p) == IF p.commission > 0 THEN {p.mgr} ELSE {}
      miners(p) == {a \in DOMAIN p.entries : p.entries[a] > 0}
  IN IF units = 0 THEN {<<>>}
     ELSE IF PoolOf(block) # NoPool
     THEN {[a \in commission(p) \cup miners(p) |->
              (IF a = p.mgr THEN p.commission ELSE 0) +
              (IF a \in DOMAIN p.entries THEN p.entries[a] ELSE 0)] :
             p \in PayoutPlan(prior, PoolOf(block), units)}
     ELSE {IF block.cb.outs # <<>> /\ first.k = "addr" THEN [a \in {first.to} |-> units] ELSE <<>>}
=============================================================================

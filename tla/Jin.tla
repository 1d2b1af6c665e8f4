--------------------------------- MODULE Jin ---------------------------------
(***************************************************************************)
(* JIN, the second coin (the jin functions of src/src/lib.rs): a ledger of *)
(* balances recomputed from the marker outputs of the blocks, the public   *)
(* sale of its supply, and the infusion vault that backs QUB with JIN.     *)
(*                                                                         *)
(* An operation that can fail half-way works on a result                   *)
(*   r = [ok, m, i, due]:                                                  *)
(*       still fine?, balances, infusion state, fees of a pool's block     *)
(* and keeps what it had already changed when it fails, as a &mut argument *)
(* does: the mempool walks ignore the error and go on with r.m and r.i.    *)
(***************************************************************************)
EXTENDS Pools

CONSTANT Jin  \* the JIN and sale settings, a record

\* Settings::validate, JIN and its sale
JinSettings ==
  /\ {Jin.active, Jin.supply, Jin.marker, Jin.swap_marker, Jin.sale_price} \subseteq Nat \ {0}
  /\ {Jin.swap_active, Jin.sale_total} \subseteq Nat
ASSUME JinAssumption ==
  /\ JinSettings
  /\ Jin.conversion_from \in Nat /\ Jin.conversion_until \in Nat
  /\ Jin.infusion_active \in Nat \ {0} /\ Jin.max_atoms \in Nat \ {0}
  /\ Jin.bootstrap \in 0..Jin.supply /\ Jin.bootstrap % Jin.max_atoms = 0
  /\ Jin.sale_batch \in Nat \ {0} /\ Jin.sale_total <= Jin.supply
  /\ Jin.coin \in Nat \ {0} /\ Jin.reserved_batches \in Nat
  /\ Jin.fee_part \in Nat /\ Jin.fee_whole \in Nat \ {0}
  /\ Jin.active <= Jin.infusion_active
  /\ Jin.protocol \in Addresses /\ Jin.vault \notin Addresses

TransferMarker(from, to, amount, fee, asset) ==
  [k |-> "jin_transfer", from |-> from, to |-> to, amount |-> amount, fee |-> fee, asset |-> asset]
ConversionMarker(from, amount, fee, asset) ==
  [k |-> "jin_conversion", from |-> from, amount |-> amount, fee |-> fee, asset |-> asset]
PurchaseMarker(buyer, listing, amount, price, fee) ==
  [k |-> "jin_purchase", buyer |-> buyer, listing |-> listing, amount |-> amount,
   price |-> price, fee |-> fee]
InfuseMarker(from, amount) == [k |-> "jin_infuse", from |-> from, amount |-> amount]
MeltMarker(from, atoms, least) == [k |-> "jin_melt", from |-> from, atoms |-> atoms, min |-> least]

IsPurchase(o) ==
  /\ o.s.k = "jin_purchase" /\ o.s.buyer \in Addresses
  /\ {o.s.listing, o.s.amount, o.s.price, o.s.fee} \subseteq Nat
IsInfusionMarker(o) ==
  \/ o.s.k = "jin_infuse" /\ o.s.from \in Addresses /\ o.s.amount \in Nat
  \/ o.s.k = "jin_melt" /\ o.s.from \in Addresses /\ {o.s.atoms, o.s.min} \subseteq Nat
Purchases(tx) == Where(tx.outs, IsPurchase)
InfusionMarkers(tx) == Where(tx.outs, IsInfusionMarker)
IsSale(tx) == Purchases(tx) # <<>>
IsInfusion(tx) == InfusionMarkers(tx) # <<>>
JinMarkers(tx) == Purchases(tx) \o Transfers(tx) \o Conversions(tx) \o InfusionMarkers(tx)
IsJin(tx) == JinMarkers(tx) # <<>>

ConversionActive(h) == h >= Jin.conversion_from /\ h < Jin.conversion_until
InfusionActive(h) == h >= Jin.infusion_active

-----------------------------------------------------------------------------
(* The ledger. *)

Balance(m, a) == IF a \in DOMAIN m THEN m[a] ELSE 0
Require(r, condition) == IF r.ok /\ ~condition THEN [r EXCEPT !.ok = FALSE] ELSE r
Credit(r, a, n) == IF r.ok THEN [r EXCEPT !.m = Set(@, a, Balance(@, a) + n)] ELSE r
Debit(r, a, n) ==
  IF ~r.ok THEN r
  ELSE IF Balance(r.m, a) < n THEN [r EXCEPT !.ok = FALSE]
  ELSE [r EXCEPT !.m = Set(@, a, Balance(@, a) - n)]

Move(r, from, to, n) == Credit(Debit(r, from, n), to, n)

NoMiner == "none"
JinFee(t) == IF t.asset = "JIN" THEN t.fee ELSE 0
\* apply_jin_transfer, apply_jin_conversion: without a miner the fee is only
\* debited, and a pool's block shares it out at its end
PayMiner(r, fee, miner) ==
  IF miner = NoMiner THEN [r EXCEPT !.due = @ + fee]
  ELSE IF fee > 0 THEN Credit(r, miner, fee) ELSE r
ApplyTransfer(r, t, miner) ==
  PayMiner(Credit(Debit(r, t.from, t.amount + JinFee(t)),
                  IF t.k = "jin_transfer" THEN t.to ELSE Jin.protocol, t.amount),
           JinFee(t), miner)
ApplyPurchase(r, p) == Move(r, Jin.protocol, p.buyer, p.amount)

-----------------------------------------------------------------------------
(* Infusion: JIN locked behind every atom of QUB that can ever exist. *)

NoInfusion == [active |-> FALSE, melted |-> 0, max |-> Jin.max_atoms,
               lifetime |-> 0, infused |-> 0, per |-> 0]
Infused(i, units) ==
  [i EXCEPT !.lifetime = @ + units, !.infused = @ + units, !.per = @ + units \div i.max]

\* qub_jin_apply_bootstrap and its _for_context form
Backed(r) == IF r.ok THEN [r EXCEPT !.i = Infused(@, Jin.bootstrap)] ELSE r
Bootstrap(r) ==
  IF ~r.ok \/ r.i.active THEN r
  ELSE IF Jin.bootstrap = 0 THEN [r EXCEPT !.i.active = TRUE]
  ELSE Backed(Move([r EXCEPT !.i.active = TRUE], Jin.protocol, Jin.vault, Jin.bootstrap))
BootstrapFor(r, prior, h) ==
  IF InfusionActive(h) /\ prior < Jin.infusion_active THEN Bootstrap(r) ELSE r

\* qub_jin_apply_infuse_units
InfuseState(r, k) ==
  IF r.ok /\ k.amount > 0 /\ r.i.max > 0 /\ k.amount % r.i.max = 0
  THEN [r EXCEPT !.i = Infused(@, k.amount)] ELSE [r EXCEPT !.ok = FALSE]
\* Mutant: a melt leaves the atoms that can exist as they were.
AfterMeltForgetful(i, atoms) == [i EXCEPT !.melted = @ + atoms, !.infused = @ - atoms * i.per]
\* qub_jin_apply_melt_atoms
AfterMelt(i, atoms) ==
  [i EXCEPT !.melted = @ + atoms, !.max = @ - atoms, !.infused = @ - atoms * i.per]
MeltState(r, k) ==
  LET payout == k.atoms * r.i.per
  IN IF r.ok /\ k.atoms \in 1..r.i.max /\ r.i.per > 0 /\ payout >= k.min /\ r.i.infused >= payout
     THEN [r EXCEPT !.i = AfterMelt(@, k.atoms)] ELSE [r EXCEPT !.ok = FALSE]
ApplyInfusionState(r, k) == IF k.k = "jin_infuse" THEN InfuseState(r, k) ELSE MeltState(r, k)

\* qub_jin_apply_marker_unchecked: the state first, then the balances
Covered(r) == Require(r, r.i.infused <= r.i.lifetime)
ApplyInfusion(r, k) ==
  Covered(IF k.k = "jin_infuse" THEN Move(ApplyInfusionState(r, k), k.from, Jin.vault, k.amount)
          ELSE Move(ApplyInfusionState(r, k), Jin.vault, k.from, k.atoms * r.i.per))
\* What one marker does to the ledger, whoever checked it.
ApplyMarker(r, k, miner) ==
  CASE k.k = "jin_purchase" -> ApplyPurchase(r, k)
    [] k.k \in {"jin_transfer", "jin_conversion"} -> ApplyTransfer(r, k, miner)
    [] OTHER -> ApplyInfusion(r, k)

\* qub_jin_infusion_state_from_blocks: the state alone, {} on an error
InfusionFrom(blocks) ==
  LET first == [Infused(NoInfusion, Jin.bootstrap) EXCEPT !.active = TRUE]
      start == IF InfusionActive(Len(blocks)) THEN first ELSE NoInfusion
      Step(r, o) == ApplyInfusionState(Require(r, o.v = Jin.marker), o.s)
  IN {r.i : r \in {final \in {Folded(LAMBDA q, p : Folded(Step, q, InfusionMarkers(p.tx)),
                                      [ok |-> TRUE, i |-> start], Placed(blocks, Jin.infusion_active))} :
                     final.ok}}

\* qub_jin_melt_burn_atoms_for_fee
MeltBurn(tx, h) ==
  LET ks == InfusionMarkers(tx) IN
  IF ks = <<>> THEN {0}
  ELSE IF ~InfusionActive(h) \/ Len(ks) # 1 THEN {}
  ELSE {IF ks[1].s.k = "jin_infuse" THEN 0 ELSE ks[1].s.atoms}

-----------------------------------------------------------------------------
(* jin_ledger_from_blocks, up to the governance locks taken off at its end. *)

\* coinbase_miner_address; a pool block's fees are shared out at its end
MinerOf(block) ==
  LET outs == block.cb.outs
  IN IF PoolOf(block) # NoPool \/ outs = <<>> THEN NoMiner
     ELSE IF outs[1].s.k = "addr" THEN outs[1].s.to ELSE NoMiner

\* block_jin_fee_units, of one transaction
TxJinFees(tx) == Folded(LAMBDA n, o : n + JinFee(o.s), 0, Transfers(tx) \o Conversions(tx))
PayShares(r, receivers) ==
  IF receivers = {} THEN [r EXCEPT !.ok = FALSE]
  ELSE LET paid == CHOOSE f \in receivers : TRUE
       IN [r EXCEPT !.m = [a \in DOMAIN @ \cup DOMAIN paid |-> Balance(@, a) + Balance(paid, a)]]
PayFees(r, prior, block) ==
  IF ~r.ok \/ PoolOf(block) = NoPool THEN r
  ELSE PayShares(r, JinFeeReceivers(prior, block, r.due))

\* A confirmed transaction: purchases, transfers, conversions, infusion.
MarkerOnTime(o, h) ==
  CASE o.s.k = "jin_purchase" -> h >= Jin.swap_active /\ o.v = Jin.swap_marker
    [] o.s.k = "jin_transfer" -> o.v = Jin.marker
    [] o.s.k = "jin_conversion" -> h >= Jin.conversion_from /\ o.v = Jin.marker
    [] OTHER -> InfusionActive(h) /\ o.v = Jin.marker
ReplayJinTx(r0, tx, h, miner) ==
  Folded(LAMBDA r, o : ApplyMarker(Require(r, MarkerOnTime(o, h)), o.s, miner), r0, JinMarkers(tx))
BootstrapAt(r, h) == IF h = Jin.infusion_active THEN Bootstrap(r) ELSE r
ReplayJinBlock(r0, prior, block, h) ==
  PayFees(Folded(LAMBDA r, tx : ReplayJinTx(r, tx, h, MinerOf(block)),
                   [BootstrapAt(r0, h) EXCEPT !.due = 0], block.txs),
          prior, block)
Endowed == [ok |-> TRUE, m |-> [a \in {Jin.protocol} |-> Jin.supply], i |-> NoInfusion, due |-> 0]
JinReplay(blocks) ==
  IF Len(blocks) < Jin.active THEN [Endowed EXCEPT !.m = <<>>]
  ELSE Folded(LAMBDA r, h : IF h < Jin.active THEN BootstrapAt(r, h)
                              ELSE ReplayJinBlock(r, SubSeq(blocks, 1, h - 1), blocks[h], h),
                Endowed, [h \in DOMAIN blocks |-> h])

-----------------------------------------------------------------------------
(* Validation against a ledger. *)

\* validate_jin_transaction_with_ledger: transfers, conversions, purchases
MarkerSigned(o, tx, U, h) ==
  \/ o.s.k = "jin_purchase"
  \/ SpendsFrom(tx, U, o.s.from) /\ (o.s.k = "jin_conversion" => ConversionActive(h))
JinTx(r0, tx, U, h, miner) ==
  Folded(LAMBDA r, o :
             IF h >= Jin.active /\ MarkerOnTime(o, h) /\ MarkerSigned(o, tx, U, h)
             THEN ApplyMarker(r, o.s, miner) ELSE [r EXCEPT !.ok = FALSE],
           r0, Transfers(tx) \o Conversions(tx) \o Purchases(tx))

\* validate_qub_jin_infusion_transaction_with_state
InfusionAllowed(tx, k, U, h) ==
  /\ InfusionActive(h)
  /\ ~IsCoinbase(tx)
  /\ JinMarkers(tx) = <<k>>
  /\ k.v = Jin.marker
  /\ SpendsFrom(tx, U, k.s.from)
  /\ k.s.k = "jin_melt" => \E fee \in ContextualFee(tx, U, h) : fee >= k.s.atoms
InfusionTx(r, tx, U, h) ==
  LET k == InfusionMarkers(tx)[1]
  IN IF ~IsInfusion(tx) \/ ~r.ok THEN r
     ELSE IF InfusionAllowed(tx, k, U, h) THEN ApplyInfusion(r, k.s) ELSE [r EXCEPT !.ok = FALSE]

Recover(r) == [r EXCEPT !.ok = TRUE]  \* the caller ignores the error and goes on

\* validate_jin_transaction_against_chain: c is a chain [blocks, utxos, mempool]
\* and start its ledger and infusion state, see JinStart
JinAgainst(tx, c, start, h) ==
  LET Pending(r) ==
        Folded(LAMBDA q, mem : Recover(InfusionTx(JinTx(q, mem, c.utxos, h, NoMiner), mem, c.utxos, h)),
                 r, SelectSeq(c.mempool, LAMBDA mem : mem.id # tx.id))
      Takes(r) == r.ok /\ JinTx(Pending(r), tx, c.utxos, h, NoMiner).ok
  IN IsJin(tx) => Takes(BootstrapFor(start, Len(c.blocks), h))

\* validate_jin_block
JinBlockOK(block, prior, U0, start, h) ==
  LET Checked(r) == {q \in {r} : q.ok}
  IN (\E tx \in ToSet(block.txs) : IsJin(tx)) =>
       /\ start.ok
       /\ \E s \in Folded(LAMBDA S, tx :
               UNION {{[r |-> r, U |-> U] : U \in ConnectValid(tx, s.U, h),
                         r \in Checked(InfusionTx(JinTx(s.r, tx, s.U, h, MinerOf(block)), tx, s.U, h))} : s \in S},
               {[r |-> [BootstrapFor(start, Len(prior), h) EXCEPT !.due = 0], U |-> U0]}, block.txs) :
            PayFees(s.r, prior, block).ok
=============================================================================

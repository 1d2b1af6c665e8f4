--------------------------------- MODULE Sale ---------------------------------
(***************************************************************************)
(* The public sale of JIN, and what depends on the order in which a        *)
(* template takes the mempool (src/src/lib.rs, the jin_sale functions,     *)
(* mempool_template_priority and the infusion check against the chain).    *)
(* The sale offers its total in numbered batches, each dearer than the one *)
(* before; what is sold is recounted from the blocks and, for the mempool, *)
(* from the pending purchases that could still be mined.                   *)
(***************************************************************************)
EXTENDS Jin, Library

CONSTANT TxRank  \* the order of transaction ids as texts

\* mempool_template_priority
TemplatePriority(tx) ==
  IF IsShare(tx) THEN 0 ELSE IF IsSale(tx) THEN 1 ELSE IF IsInfusion(tx) THEN 2
  ELSE IF IsJin(tx) THEN 3 ELSE IF IsClaim(tx) THEN 4 ELSE IF Actions(tx) # <<>> THEN 5 ELSE 16

\* Pending transactions in the order a template would take them.
InTemplateOrder(txs) ==
  Sorted(txs, LAMBDA a, b : \/ TemplatePriority(a) < TemplatePriority(b)
                            \/ /\ TemplatePriority(a) = TemplatePriority(b)
                               /\ TxRank[a.id] < TxRank[b.id])

\* connect_tx_utxos when its error is ignored: inputs before a missing one are gone
ConnectAnyway(tx, U, h) ==
  LET missing == {i \in DOMAIN tx.ins : tx.ins[i] \notin DOMAIN U}
      gone == {tx.ins[i] : i \in {j \in DOMAIN tx.ins : \A k \in missing : j < k}}
  IN IF ConnectTx(tx, U, h) # {} THEN CHOOSE V \in ConnectTx(tx, U, h) : TRUE
     ELSE [p \in DOMAIN U \ gone |-> U[p]]

\* What a pending transaction leaves, q being the ledger after its JIN part.
AfterPending(s, mem, q, h) ==
  [r |-> Recover(InfusionTx(q, mem, s.U, h)), U |-> IF q.ok THEN ConnectAnyway(mem, s.U, h) ELSE s.U]
\* validate_qub_jin_infusion_transaction_against_chain: unlike JinAgainst it
\* walks the mempool in template order and lets its transactions spend outputs
InfusionAgainst(tx, c, start, h) ==
  LET Pending(r) ==
        Folded(LAMBDA s, mem : AfterPending(s, mem, JinTx(s.r, mem, s.U, h, NoMiner), h),
                 [r |-> r, U |-> c.utxos],
                 InTemplateOrder(SelectSeq(c.mempool, LAMBDA mem : mem.id # tx.id)))
      Takes(s) == InfusionTx(s.r, tx, s.U, h).ok
      Fits(r) == r.ok /\ Takes(Pending(r))
  IN IsInfusion(tx) => Fits(BootstrapFor(start, Len(c.blocks), h))

-----------------------------------------------------------------------------
(* The sale. *)

CeilMulDiv(n, mul, div) == (n * mul + div - 1) \div div
Batches == (Jin.sale_total + Jin.sale_batch - 1) \div Jin.sale_batch
ListingPrice(listing) == Jin.sale_price + Jin.sale_step * listing

\* jin_swap_sale_listing_total_units_at_height: the last batches were taken
\* off the sale at a height
ListingTotal(listing, h) ==
  IF listing >= Batches THEN {}
  ELSE IF h >= Jin.sale_lock /\ listing >= LargerOf(0, Batches - Jin.reserved_batches) THEN {0}
  ELSE {SmallerOf(Jin.sale_total - Jin.sale_batch * listing, Jin.sale_batch)}

SalePrice(listing, amount) ==
  LET price == ListingPrice(listing) * (amount \div Jin.coin)
  IN IF amount = 0 \/ amount % Jin.coin # 0 \/ listing >= Batches \/ price = 0 THEN {} ELSE {price}
SaleFee(price) == CeilMulDiv(price, Jin.fee_part, Jin.fee_whole)  \* to protocol and miner each

\* jin_swap_miner_fee_required_in_tx
SaleMinerFee(tx, h) ==
  IF ~IsSale(tx) \/ h < Jin.swap_active THEN {0}
  ELSE {SaleFee(p) : p \in SalePrice(Purchases(tx)[1].s.listing, Purchases(tx)[1].s.amount)}

\* hf106_jin_sale_standardness_policy
SaleStandard(tx) ==
  LET p == Purchases(tx)[1]
  IN IsSale(tx) => /\ Len(Purchases(tx)) = 1
                   /\ p.v = Jin.swap_marker
                   /\ p.s.amount <= Jin.max_buy
                   /\ \E price \in SalePrice(p.s.listing, p.s.amount) :
                        SaleFee(price) <= Jin.max_buy_fee

\* validate_jin_sale_purchase_state: what is sold after tx
Sold(sold, listing) == IF listing \in DOMAIN sold THEN sold[listing] ELSE 0
SaleAllowed(tx, p, U, sold, h) ==
  /\ h >= Jin.swap_active
  /\ ~IsCoinbase(tx)
  /\ Purchases(tx) = <<Out(Jin.swap_marker, p)>>
  /\ SpendsFrom(tx, U, p.buyer)
  /\ \E total \in ListingTotal(p.listing, h) : p.amount <= LargerOf(0, total - Sold(sold, p.listing))
  /\ \E price \in SalePrice(p.listing, p.amount) :
       /\ p.price = price
       /\ p.fee = SaleFee(price)
       /\ PaidTo(tx, Jin.protocol) >= price + SaleFee(price)
SaleTx(tx, U, sold, h) ==
  LET p == Purchases(tx)[1].s
  IN IF ~IsSale(tx) THEN {sold}
     ELSE IF SaleAllowed(tx, p, U, sold, h)
     THEN {Set(sold, p.listing, Sold(sold, p.listing) + p.amount)} ELSE {}

\* jin_sale_sold_by_listing_from_blocks
SoldFrom(blocks) ==
  LET Count(sold, o) == Set(sold, o.s.listing, Sold(sold, o.s.listing) + o.s.amount)
  IN Folded(LAMBDA sold, p : Folded(Count, sold, Purchases(p.tx)), <<>>, Placed(blocks, Jin.swap_active))

\* jin_sale_sold_by_listing_with_mempool_except
SoldWithMempool(c, but) ==
  LET Counted(s, tx, next) ==
        IF next = {} THEN s
        ELSE [sold |-> CHOOSE sold \in next : TRUE, spent |-> s.spent \cup ToSet(tx.ins)]
      Skipped(s, tx) == \/ tx.id = but \/ ~IsSale(tx) \/ ~SaleStandard(tx)
                        \/ ~(ToSet(tx.ins) \subseteq DOMAIN c.utxos \ s.spent)
  IN Folded(LAMBDA s, tx : IF Skipped(s, tx) THEN s
                             ELSE Counted(s, tx, SaleTx(tx, c.utxos, s.sold, Len(c.blocks) + 1)),
              [sold |-> SoldFrom(c.blocks), spent |-> {}], InTemplateOrder(c.mempool)).sold

\* jin_sale_listings: what the wallet offers
Remaining(c, listing) ==
  {total - SmallerOf(Sold(SoldWithMempool(c, 0), listing), total) :
     total \in ListingTotal(listing, Len(c.blocks) + 1)}

SaleAgainst(tx, c, h) == IsSale(tx) => SaleTx(tx, c.utxos, SoldWithMempool(c, tx.id), h) # {}

\* validate_jin_sale_block
SaleAfter(S, tx, h) ==
  UNION {{[sold |-> sold, U |-> U] :
            sold \in SaleTx(tx, s.U, s.sold, h), U \in ConnectValid(tx, s.U, h)} : s \in S}
SaleBlockOK(block, prior, U0, h) ==
  (\E tx \in ToSet(block.txs) : IsSale(tx)) =>
    Folded(LAMBDA S, tx : SaleAfter(S, tx, h), {[sold |-> SoldFrom(prior), U |-> U0]}, block.txs) # {}

-----------------------------------------------------------------------------
\* jin_balance_units_for_address: what the wallet shows. Pending effects are
\* applied one by one, errors ignored; only an infusion is undone as a whole.
ShownBalance(c, start, a) ==
  LET Kept(r, q, k) == IF ~q.ok /\ k \in {"jin_infuse", "jin_melt"} THEN r ELSE Recover(q)
  IN Balance(Folded(LAMBDA r, o : Kept(r, ApplyMarker(r, o.s, NoMiner), o.s.k),
                      Recover(BootstrapFor(start, Len(c.blocks), Len(c.blocks) + 1)),
                      FlattenSeq([i \in DOMAIN c.mempool |-> JinMarkers(c.mempool[i])])).m, a)
=============================================================================

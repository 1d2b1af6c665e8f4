------------------------------- MODULE Wallets -------------------------------
(***************************************************************************)
(* The transactions a wallet builds (WalletFile in src/src/lib.rs). A      *)
(* wallet w is the sequence of its addresses, the default one first: the   *)
(* order of ordered_wallet_keys_default_first. Every builder works on the  *)
(* chain c it is given and returns the set of transactions it may build,   *)
(* {} for an error: the coins come out of a hash map, so which of them are *)
(* taken is up to the map's order. A request q is a record; q.k names the  *)
(* builder and q.fee is the QUB fee.                                       *)
(***************************************************************************)
EXTENDS Chain

\* Mutant: coins that pending transactions spend are offered again.
PendingForgotten(c) == {}
\* pending_spent_outpoints
PendingSpent(c) == UNION {ToSet(m.ins) : m \in ToSet(c.mempool)}

\* select_signed_inputs_for_target_from_script: coins of the addresses from,
\* one after the other until they reach the target
Worth(c, S) == MapThenSumSet(LAMBDA p : c.utxos[p].v, S)
Selections(c, from, avoid, target) ==
  LET coins == {p \in DOMAIN c.utxos \ avoid : /\ c.utxos[p].s.k = "addr"
                                               /\ c.utxos[p].s.to \in from
                                               /\ ~Immature(c.utxos[p], Height(c))}
  IN {S \in SUBSET coins : /\ Worth(c, S) >= target
                           /\ \E p \in S : Worth(c, S \ {p}) < target}

\* sign_selected_transaction, with what is left over as the change output
Signed(c, S, target, outs, change, id) ==
  LET left == Worth(c, S) - target
  IN [id |-> id, ins |-> SetToSeq(S), by |-> {c.utxos[p].s.to : p \in S}, data |-> NoData,
      outs |-> IF left > 0 THEN Append(outs, Out(left, PayTo(change))) ELSE outs]
Paying(c, from, avoid, target, outs, change, id) ==
  {Signed(c, S, target, outs, change, id) : S \in Selections(c, from, avoid, target)}
PayingFromWallet(c, w, target, outs, id) ==
  IF w = <<>> THEN {} ELSE Paying(c, ToSet(w), PendingSpent(c), target, outs, w[1], id)

\* select_wallet_address_inputs_for_target and select_jin_source_for_payment:
\* the first address with the JIN and enough QUB of its own pays alone, for outs[it]
PayingAlone(c, addresses, target, outs, id) ==
  LET able == SelectSeq(addresses, LAMBDA a : Selections(c, {a}, PendingSpent(c), target) # {})
  IN IF able = <<>> THEN {}
     ELSE Paying(c, {able[1]}, PendingSpent(c), target, outs[able[1]], able[1], id)
WithJin(c, start, w, units) ==
  IF start.ok THEN SelectSeq(w, LAMBDA a : ShownBalance(c, start, a) >= units) ELSE <<>>

SpendHeight(c) == Height(c) + 1  \* spend_height

-----------------------------------------------------------------------------
\* create_signed_transaction, create_multi_signed_transaction
BuildSend(c, w, q, id) ==
  LET target == Folded(LAMBDA n, p : n + p.amount, q.fee, q.pay)
  IN IF Len(q.pay) \notin 1..Consensus.max_entries THEN {}
     ELSE PayingFromWallet(c, w, target, [i \in DOMAIN q.pay |-> Out(q.pay[i].amount, PayTo(q.pay[i].to))], id)

\* create_jin_transfer_transaction, create_jin_multi_transfer_transaction: the
\* JIN fee is spread over the markers, the first ones carry what does not divide
BuildJinSend(c, start, w, q, id) ==
  LET n == Len(q.pay)
      fee == IF q.asset = "JIN" THEN q.jin_fee ELSE 0
      share(i) == fee \div n + (IF i <= fee % n THEN 1 ELSE 0)
      units == Folded(LAMBDA s, p : s + p.amount, fee, q.pay)
      target == n * Jin.marker + (IF q.asset = "QUB" THEN q.fee ELSE 0)
      outs == [a \in ToSet(w) |-> [i \in 1..n |-> Out(Jin.marker,
                 TransferMarker(a, q.pay[i].to, q.pay[i].amount, share(i), q.asset))]]
  IN IF SpendHeight(c) < Jin.active \/ n \notin 1..Consensus.max_entries THEN {}
     ELSE PayingAlone(c, WithJin(c, start, w, units), target, outs, id)

\* create_jin_token_conversion_transaction
BuildConversion(c, start, w, q, id) ==
  LET fee == IF q.asset = "JIN" THEN q.jin_fee ELSE 0
      target == Jin.marker + (IF q.asset = "QUB" THEN q.fee ELSE 0)
      outs == [a \in ToSet(w) |->
                 <<Out(Jin.marker, ConversionMarker(a, q.amount, q.jin_fee, q.asset))>>]
  IN IF SpendHeight(c) < Jin.active \/ ~ConversionActive(SpendHeight(c)) THEN {}
     ELSE PayingAlone(c, WithJin(c, start, w, q.amount + fee), target, outs, id)

\* create_jin_public_sale_buy_transaction
BuildBuy(c, w, q, id) ==
  LET At(price) ==
        LET payment == price + SaleFee(price)
            target == Jin.swap_marker + payment + SaleFee(price) + q.fee
            outs == [a \in ToSet(w) |->
              <<Out(payment, PayTo(Jin.protocol)),
                Out(Jin.swap_marker, PurchaseMarker(a, q.listing, q.amount, price, SaleFee(price)))>>]
        IN PayingAlone(c, w, target, outs, id)
  IN IF SpendHeight(c) < Jin.swap_active \/ q.amount > Jin.max_buy THEN {}
     ELSE UNION {At(price) : price \in SalePrice(q.listing, q.amount)}

\* create_qub_jin_infuse_transaction, create_qub_melt_for_jin_transaction
BuildInfuse(c, start, w, q, id) ==
  LET allowed == \E i \in InfusionFrom(c.blocks) : q.amount > 0 /\ i.max > 0 /\ q.amount % i.max = 0
      outs == [a \in ToSet(w) |-> <<Out(Jin.marker, InfuseMarker(a, q.amount))>>]
  IN IF ~InfusionActive(SpendHeight(c)) \/ ~allowed THEN {}
     ELSE PayingAlone(c, WithJin(c, start, w, q.amount), Jin.marker + q.fee, outs, id)
BuildMelt(c, w, q, id) ==
  LET least(p) == IF q.least = 0 THEN p ELSE q.least  \* cmd_melt_qub_jin: the quote stands in
      Melted(p) ==
        LET outs == [a \in ToSet(w) |-> <<Out(Jin.marker, MeltMarker(a, q.atoms, least(p)))>>]
        IN PayingAlone(c, w, q.atoms + Jin.marker + q.fee, outs, id)
      payouts == {q.atoms * i.per : i \in InfusionFrom(c.blocks)}
  IN IF ~InfusionActive(SpendHeight(c)) \/ q.atoms = 0 THEN {}
     ELSE UNION {Melted(p) : p \in {x \in payouts : x >= least(x)}}

-----------------------------------------------------------------------------
\* create_blast_create_transaction_qub, create_blast_claim_transaction_qub: the
\* claim follows the vault from the outpoint the code was printed with
BuildBlast(c, w, q, id) ==
  LET vault == Vault("QUB", w[1], CodeHash(q.code), q.per, q.claims)
  IN IF \/ SpendHeight(c) < Consensus.blast_active \/ q.claims \notin 1..Consensus.max_entries \/ q.per = 0
     THEN {}
     ELSE PayingFromWallet(c, w, q.per * q.claims + q.fee, <<Out(q.per * q.claims, vault)>>, id)
BuildClaim(c, w, q, id) ==
  LET Open(p) == /\ p \in DOMAIN c.utxos \ PendingSpent(c)
                 /\ IsVault(c.utxos[p].s) /\ c.utxos[p].s.asset = "QUB"
                 /\ c.utxos[p].s.hash = CodeHash(q.code)
      found == IF Open(q.hint) THEN {q.hint} ELSE {p \in DOMAIN c.utxos : Open(p)}
      Claim(p) ==
        LET coin == c.utxos[p]
            rest == coin.v - coin.s.per
            left == coin.s.left - 1
            more == IF rest > 0 /\ left > 0 THEN <<Out(rest, [coin.s EXCEPT !.left = left])>> ELSE <<>>
        IN [id |-> id, ins |-> <<p>>, by |-> {}, data |-> [k |-> "claim", code |-> q.code, to |-> w[1]],
            outs |-> <<Out(coin.s.per, PayTo(w[1]))>> \o more]
  IN IF SpendHeight(c) < Consensus.blast_active \/ Cardinality(found) # 1 THEN {}
     ELSE {Claim(p) : p \in {x \in found : c.utxos[x].v >= c.utxos[x].s.per}}

\* create_qns_registration_transaction: its own selection does not look at the mempool
BuildName(c, w, q, id) ==
  LET h == SpendHeight(c)
      price == QnsPrice(q.raw)
      outs == <<Out(QnsProtocolShare(h, price), PayTo(Qns.protocol)), Out(Qns.marker, QnsMarker(q.raw, q.to))>>
      Sound(tx, registry) ==
        /\ QnsValidate(tx, h, registry, {}) # {}
        /\ \E fee \in ContextualFee(tx, c.utxos, h) : fee >= QnsMinerFee(tx, h)
  IN IF h < Qns.active \/ q.raw \notin DOMAIN QnsLabel THEN {}
     ELSE {tx \in Paying(c, ToSet(w), {}, price + Qns.marker + q.fee, outs, w[1], id) :
             Sound(tx, RegistryFrom(c.blocks))}

-----------------------------------------------------------------------------
(* Pools: the four builders share the selection that ignores the mempool and *)
(* validate_pools_transaction_against_chain at the end.                     *)
PaidToProtocol(price, marker) ==
  <<Out(ProtocolShare(price), PayTo(Pool.protocol)), Out(Pool.marker, marker)>>
BuildPool(c, w, q, id) ==
  LET price == CreatePrice(q.slots)
      outs == PaidToProtocol(price, CreateMarker(q.name, q.mgr, q.bps, q.slots))
  IN IF SpendHeight(c) < Pool.active \/ q.bps > Pool.max_commission \/ ~SlotsValid(q.slots) THEN {}
     ELSE Paying(c, ToSet(w), {}, price + Pool.marker + q.fee, outs, w[1], id)
\* the coins of the manager alone pay for a change, and its change returns to him
ByManager(c, w, q, mgr, cost, outs, id) ==
  Paying(c, ToSet(w) \cap {mgr}, {}, cost + Pool.marker + q.fee, outs, mgr, id)
BuildTopUp(c, w, q, pool, id) ==
  LET price == TopUpPrice(q.extra)
  IN IF pool.slots + q.extra > Pool.max_slots \/ ~ExtraSlotsValid(q.extra) THEN {}
     ELSE ByManager(c, w, q, pool.mgr, price, PaidToProtocol(price, TopUpMarker(q.pool, pool.mgr, q.extra)), id)
BuildSetCommission(c, w, q, pool, id) ==
  IF q.bps > pool.bps THEN {}
  ELSE ByManager(c, w, q, pool.mgr, 0, <<Out(Pool.marker, CommissionMarker(q.pool, pool.mgr, q.bps))>>, id)
BuildRename(c, w, q, pool, id) ==
  ByManager(c, w, q, pool.mgr, 0, <<Out(Pool.marker, RenameMarker(q.pool, pool.mgr, q.name))>>, id)

\* create_local_pool_share: a share on the tip
BuildShare(c, w, q, id) ==
  {[id |-> id, ins |-> <<>>, outs |-> <<>>, by |-> {q.miner},
    data |-> [k |-> "share", pool |-> q.pool, miner |-> q.miner, parent |-> Height(c),
              parent_id |-> TipId(c), nonce |-> nonce]] :
     nonce \in IF q.miner \in ToSet(w) /\ q.pool \in DOMAIN PoolRegistryFrom(c.blocks)
               THEN Pool.good_nonces ELSE {}}

-----------------------------------------------------------------------------
\* The Library builders: the default address is the author, whichever coins of
\* the wallet are spent, and no check follows.
ByAuthor(c, w, q, price, markers, id) ==
  IF SpendHeight(c) < Lib.active THEN {}
  ELSE PayingFromWallet(c, w, Len(markers) * Lib.marker + q.fee + price,
                        [i \in DOMAIN markers |-> Out(Lib.marker, markers[i])], id)
BuildPost(c, w, q, id) ==
  LET pages == Len(q.pages)
      Page(i) == PostMarker(w[1], q.title, q.category, i - 1, pages, q.pages[i])
      price == PostPrice([i \in 1..pages |-> Out(Lib.marker, Page(i))])
  IN IF pages > Lib.max_pages THEN {} ELSE ByAuthor(c, w, q, price, [i \in 1..pages |-> Page(i)], id)
BuildComment(c, w, q, id) == ByAuthor(c, w, q, 0, <<CommentMarker(q.post, q.parent, w[1], q.body)>>, id)
BuildVote(c, w, q, id) == ByAuthor(c, w, q, 0, <<VoteMarker(q.kind, q.target, w[1], q.up)>>, id)
BuildEdit(c, w, q, id) ==
  ByAuthor(c, w, q, 0, <<EditMarker(q.kind, q.target, w[1], q.title, q.category, q.body)>>, id)
BuildDelete(c, w, q, id) == ByAuthor(c, w, q, 0, <<DeleteMarker(q.kind, q.target, w[1])>>, id)

-----------------------------------------------------------------------------
\* What no builder of the wallet makes: a transaction somebody assembled and
\* signed elsewhere and hands to the node as it is.
BuildRaw(c, q, id) ==
  Paying(c, {q.from}, {}, ValueOf(q.outs) + q.fee, q.outs, q.from, id)

\* The command of each request: it loads chain and wallet and builds.
PaymentCommands(c, w, q, id) ==
  CASE q.k = "send" -> BuildSend(c, w, q, id)
    [] q.k = "blast" -> BuildBlast(c, w, q, id)
    [] q.k = "claim" -> BuildClaim(c, w, q, id)
    [] q.k = "name" -> BuildName(c, w, q, id)
    [] q.k = "raw" -> BuildRaw(c, q, id)
    [] OTHER -> {}
JinBuilt(c, start, w, q, id) ==
  CASE q.k = "jin_send" -> BuildJinSend(c, start, w, q, id)
    [] q.k = "jin_convert" -> BuildConversion(c, start, w, q, id)
    [] q.k = "jin_buy" -> BuildBuy(c, w, q, id)
    [] q.k = "jin_infuse" -> BuildInfuse(c, start, w, q, id)
    [] q.k = "jin_melt" -> BuildMelt(c, w, q, id)
    [] OTHER -> {}
\* The check each JIN builder ends with.
JinChecked(tx, c, start, q) ==
  LET h == SpendHeight(c)
  IN CASE q.k = "jin_buy" -> SaleAgainst(tx, c, h)
       [] q.k \in {"jin_infuse", "jin_melt"} -> InfusionAgainst(tx, c, start, h)
       [] OTHER -> JinAgainst(tx, c, start, h)
JinCommands(c, start, w, q, id) == {tx \in JinBuilt(c, start, w, q, id) : JinChecked(tx, c, start, q)}
PoolBuilt(c, w, q, pool, id) ==
  CASE q.k = "pool_topup" -> BuildTopUp(c, w, q, pool, id)
    [] q.k = "pool_commission" -> BuildSetCommission(c, w, q, pool, id)
    [] q.k = "pool_rename" -> BuildRename(c, w, q, pool, id)
PoolChecked(txs, c) ==
  {tx \in txs : \E fee \in ContextualFee(tx, c.utxos, SpendHeight(c)) :
     PoolValidate(tx, c.blocks, c.utxos, SpendHeight(c), fee, AdmissionContext(c)) # {}}
PoolCommands(c, w, q, id) ==
  CASE q.k = "pool_create" -> PoolChecked(BuildPool(c, w, q, id), c)
    [] q.k \in {"pool_topup", "pool_commission", "pool_rename"} ->
         IF SpendHeight(c) < Pool.active THEN {}
         ELSE PoolChecked(UNION {PoolBuilt(c, w, q, pool, id) :
                                   pool \in EntryOf(PoolRegistryFrom(c.blocks), q.pool)}, c)
    [] q.k = "share" -> BuildShare(c, w, q, id)
    [] OTHER -> {}
LibraryCommands(c, w, q, id) ==
  CASE q.k = "post" -> BuildPost(c, w, q, id)
    [] q.k = "comment" -> BuildComment(c, w, q, id)
    [] q.k = "vote" -> BuildVote(c, w, q, id)
    [] q.k = "edit" -> BuildEdit(c, w, q, id)
    [] q.k = "delete" -> BuildDelete(c, w, q, id)
    [] OTHER -> {}
Built(c, w, q, id) ==
  UNION {PaymentCommands(c, w, q, id), JinCommands(c, JinStart(JinLedgerFrom(c.blocks), c.blocks), w, q, id),
         PoolCommands(c, w, q, id), LibraryCommands(c, w, q, id)}
=============================================================================

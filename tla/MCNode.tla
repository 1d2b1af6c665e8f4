-------------------------------- MODULE MCNode --------------------------------
(***************************************************************************)
(* Instances of Node: small settings and the histories the runs start      *)
(* from, each built by the model's own wallet, mempool and miner.          *)
(***************************************************************************)
EXTENDS Node

CONSTANT Families  \* the names of the histories of this run

MCConsensus == [subsidy |-> 60, halving |-> 4, maturity |-> 2, max_money |-> 600,
                max_txs |-> 4, max_entries |-> 3, blast_active |-> 1]
MCPool == [active |-> 2, marker |-> 1, base_price |-> 6, base_slots |-> 1, step_price |-> 3,
           step_slots |-> 1, max_slots |-> 2, max_pools |-> 2, max_commission |-> 2000,
           window |-> 2, stale |-> 1, max_shares |-> 2, protocol |-> "bank", good_nonces |-> {1}]
MCJin == [active |-> 2, supply |-> 6000, marker |-> 1, conversion_from |-> 3, conversion_until |-> 7,
          infusion_active |-> 6, max_atoms |-> 600, bootstrap |-> 1200, swap_active |-> 2,
          swap_marker |-> 1, sale_batch |-> 20, sale_total |-> 60, coin |-> 10, reserved_batches |-> 1,
          fee_part |-> 5, fee_whole |-> 10000, vault |-> "vault", protocol |-> "bank",
          sale_price |-> 3, sale_step |-> 2, sale_lock |-> 6, max_buy |-> 20, max_buy_fee |-> 2]
MCQns == [active |-> 2, split |-> 6, marker |-> 1, base |-> 2, coefficient |-> 1, max_label |-> 3,
          protocol |-> "bank", protocol_name |-> "bank.qub", pools_name |-> "pools.qub",
          pools_protocol |-> "bank"]
MCQnsLabel == ("Ann" :> [name |-> "ann.qub", len |-> 3]) @@ ("ann" :> [name |-> "ann.qub", len |-> 3])
MCLib == [active |-> 2, marker |-> 1, base |-> 2, byte_fee |-> 1, max_pages |-> 2, max_depth |-> 1]
MCTextBytes == [t \in {"text", "news"} |-> 1]
MCGov == [active |-> 2, marker |-> 1, wallet_bond |-> 100, pool_bond |-> 100, report_bond |-> 50,
          moderator_bond |-> 100, min_lock |-> 2, appeal |-> 2, max_reports |-> 1, max_slash |-> 50]
MCPolicy == [max_mempool |-> 3, min_fee |-> 1, scan |-> 3, passes |-> 3, relay_batch |-> 2]
MCAddressRank == ("alice" :> 2) @@ ("alias" :> 1) @@ ("bob" :> 3) @@ ("bank" :> 4)
MCTxRank == [i \in 0..60 |-> (i * 7) % 61]
MCNodes == {"a", "b"}
MCWalletOf == ("a" :> <<"alice", "alias">>) @@ ("b" :> <<"bob">>)

-----------------------------------------------------------------------------
\* A history is a list of blocks to come, each with its miner and the requests
\* <<wallet, request>> it confirms.
Ask(t, r) ==
  [c |-> Admit(t.c, CHOOSE tx \in Built(t.c, r[1], r[2], t.fresh) : TRUE).c, fresh |-> t.fresh + 1]
MinedBy(t, miner) ==
  [c |-> CHOOSE c \in Connected(t.c, CHOOSE b \in SoloBlock(t.c, miner, t.fresh) : TRUE) : TRUE,
   fresh |-> t.fresh + 1]
Grow(s, step) == MinedBy(Folded(Ask, s, step[2]), step[1])
Scene(steps, requests) == [steps |-> steps, todo |-> requests, left |-> 2, foreign |-> <<>>]
\* Three blocks: a branch of one block loses to a branch of two.
Longer(scene) == [scene EXCEPT !.left = 3]

At(n, q) == [at |-> n, q |-> q]
Send(pay) == [k |-> "send", fee |-> 1, pay |-> pay]
Pay(to, amount) == [to |-> to, amount |-> amount]
JinSend(pay, asset, jin_fee) ==
  [k |-> "jin_send", fee |-> 1, pay |-> pay, asset |-> asset, jin_fee |-> jin_fee]
Bank == <<"bank">>
Bob == <<"bob">>
\* After four blocks the coins of bank and bob can be spent; the fifth carries
\* what the history confirms first.
Start(requests) ==
  <<<<"bank", <<>>>>, <<"bob", <<>>>>, <<"alice", <<>>>>, <<"alias", <<>>>>, <<"bank", requests>>>>

\* Names: both wallets want the same name.
Name(raw, to) == [k |-> "name", fee |-> 1, raw |-> raw, to |-> to]
NamesScene ==
  Longer(Scene(Start(<<>>), {At("a", Name("Ann", "alice")), At("b", Name("ann", "bob"))}))

\* BLAST: two claims of one vault, one with the outpoint it was printed with.
Claim(hint) == [k |-> "claim", fee |-> 0, code |-> "c", hint |-> hint]
BlastScene ==
  Scene(Start(<<<<Bob, [k |-> "blast", fee |-> 1, code |-> "c", per |-> 10, claims |-> 2]>>>>),
        {At("a", Claim(<<5, 1>>)), At("b", Claim(<<0, 0>>)), At("a", Send(<<Pay("bob", 70)>>))})

\* Library: a post of two pages, an answer to it, a vote, an edit and its deletion.
Post == <<Bob, [k |-> "post", fee |-> 1, title |-> "news", category |-> "news", pages |-> <<"text", "text">>]>>
Comment == [k |-> "comment", fee |-> 1, post |-> 5, parent |-> 0, body |-> "text"]
VoteUp == [k |-> "vote", fee |-> 1, kind |-> "post", target |-> 5, up |-> TRUE]
Delete == [k |-> "delete", fee |-> 1, kind |-> "post", target |-> 5]
Edit == [k |-> "edit", fee |-> 1, kind |-> "post", target |-> 5,
         title |-> "text", category |-> "news", body |-> "news"]
LibraryScene == Longer(Scene(Start(<<Post>>), {At("a", Comment), At("b", Delete)}))
EditScene == Scene(Start(<<Post>>), {At("a", VoteUp), At("b", Edit)})

\* JIN: bank has paid alice and bob.
Dowry == <<Bank, JinSend(<<Pay("alice", 700), Pay("bob", 650)>>, "QUB", 0)>>
JinScene ==
  Scene(Start(<<Dowry>>),
        {At("a", JinSend(<<Pay("bob", 90), Pay("alias", 5)>>, "JIN", 3)),
         At("a", [k |-> "jin_infuse", fee |-> 1, amount |-> 600]),
         At("b", [k |-> "jin_melt", fee |-> 1, atoms |-> 4, least |-> 0])})
SaleScene ==
  Scene(Start(<<Dowry>>),
        {At("a", [k |-> "jin_buy", fee |-> 0, listing |-> 0, amount |-> 20]),
         At("b", [k |-> "jin_buy", fee |-> 0, listing |-> 0, amount |-> 10]),
         At("b", [k |-> "jin_convert", fee |-> 0, asset |-> "JIN", amount |-> 7, jin_fee |-> 2])})

\* Pools: three miners for two slots, and one of them has a share already.
MakePool(mgr, slots) ==
  [k |-> "pool_create", fee |-> 1, name |-> "p", mgr |-> mgr, bps |-> 1000, slots |-> slots]
Share(pool, miner) == [k |-> "share", fee |-> 0, pool |-> pool, miner |-> miner]
PoolScene ==
  Scene(Append(Start(<<<<Bob, MakePool("bob", 2)>>>>), <<"bob", <<<<<<"alice">>, Share(5, "alice")>>>>>>),
        {At("a", Share(5, "alice")), At("b", Share(5, "bob")), At("a", Share(5, "alias"))})
\* A full mempool: one transaction more than fit, one of them a share, one
\* the top-up of the pool.
Simple(from) == [k |-> "raw", fee |-> 1, from |-> from, outs |-> <<Out(9, PayTo("bob"))>>]
CrowdScene ==
  [Scene(Start(<<<<Bob, MakePool("bob", 1)>>>>),
         {At("a", Share(5, "alice")), At("a", Simple("alice")), At("a", Simple("alias")),
          At("b", [k |-> "pool_topup", fee |-> 1, pool |-> 5, extra |-> 1])})
   EXCEPT !.left = 1]

\* Governance: alice stands for moderator, bob has reported, bank has voted;
\* bob's vote locks JIN he also infuses, and the decision waits for his vote.
Raw(from, marker) == [k |-> "raw", fee |-> 1, from |-> from, outs |-> <<Out(Gov.marker, marker)>>]
Stand == Raw("alice", ModeratorApply("alice", 100, 30, TRUE))
ReportBob == [Raw("bob", Report("bob", "somebody", 50, TRUE)) EXCEPT !.outs = Append(@, Out(20, PayTo("bob")))]
VoteFor(voter, units, conviction) ==
  Raw(voter, Vote(voter, "moderator", "alice", TRUE, units, conviction, 20))
GovernanceStart ==
  Start(<<Dowry>>) \o <<<<"bank", <<<<Bob, Stand>>, <<Bob, ReportBob>>>>>>, <<"bank", <<<<Bank, VoteFor("bank", 100, 0)>>>>>>>>
GovernanceScene ==
  Scene(GovernanceStart,
        {At("b", VoteFor("bob", 500, 1)),
         At("b", [k |-> "jin_infuse", fee |-> 1, amount |-> 600]),
         At("a", Raw("alice", Decision("alice", <<8, 1>>, "warning", 10)))})
\* The same two requests of bob in one block of a miner that runs another
\* program: no template takes both.
ForeignScene ==
  [Scene(GovernanceStart, {At("a", Send(<<Pay("bob", 1)>>)), At("b", JinSend(<<Pay("alice", 10)>>, "QUB", 0))})
   EXCEPT !.left = 1,
          !.foreign = <<<<Bob, VoteFor("bob", 500, 1)>>, <<Bob, [k |-> "jin_infuse", fee |-> 1, amount |-> 600]>>>>]

\* Profiles: alice and the pool of bob apply for verification.
ProfileScene ==
  Scene(Start(<<Dowry, <<Bob, MakePool("bob", 1)>>>>),
        {At("a", Raw("alice", WalletApply("alice", 100, 20, TRUE))),
         At("b", Raw("bob", PoolApply(6, "bob", 100, 20, TRUE))),
         At("a", JinSend(<<Pay("bob", 650)>>, "QUB", 0))})

\* A melt in the mempool of a pool that has shares to pay.
PoolMeltScene ==
  Scene(Start(<<Dowry, <<Bob, MakePool("bob", 1)>>>>) \o <<<<"alice", <<<<<<"alice">>, Share(6, "alice")>>>>>>>>,
        {At("b", [k |-> "jin_melt", fee |-> 1, atoms |-> 4, least |-> 0])})

Plan(f) ==
  CASE f = "names" -> NamesScene [] f = "blast" -> BlastScene
     [] f = "library" -> LibraryScene [] f = "edits" -> EditScene
     [] f = "jin" -> JinScene [] f = "sale" -> SaleScene [] f = "pools" -> PoolScene
     [] f = "governance" -> GovernanceScene [] f = "profiles" -> ProfileScene
     [] f = "crowd" -> CrowdScene
     [] f = "pool_melt" -> PoolMeltScene [] f = "foreign" -> ForeignScene

-----------------------------------------------------------------------------
\* A foreign block on the history t: the transactions as they come, each with
\* coins of its own.
ForeignTxs(t, requests) ==
  Folded(LAMBDA txs, r :
           Append(txs, CHOOSE tx \in Built([t.c EXCEPT !.mempool = txs], r[1], r[2], t.fresh + Len(txs)) :
                         \A other \in ToSet(txs) : ToSet(tx.ins) \cap ToSet(other.ins) = {}),
         <<>>, requests)
ForeignBlocks(t, txs, id) ==
  IF txs = <<>> THEN {}
  ELSE {[id |-> id, prev |-> TipId(t.c), txs |-> txs,
         cb |-> Coinbase(id, <<Out(Subsidy(Height(t.c) + 1), PayTo("somebody"))>>, NoPool)]}
WithForeign(t, foreign) ==
  [blocks |-> t.c.blocks, foreign |-> foreign,
   fresh |-> t.fresh + Cardinality(foreign) + Len(TxsOf(SetToSeq(foreign)))]
Prepared(p, t) ==
  LET txs == ForeignTxs(t, p.foreign)
  IN [todo |-> p.todo, left |-> p.left] @@ WithForeign(t, ForeignBlocks(t, txs, t.fresh + Len(txs)))
MCScenes ==
  {Prepared(Plan(f), Folded(Grow, [c |-> EmptyChain, fresh |-> 1], Plan(f).steps)) : f \in Families}
=============================================================================

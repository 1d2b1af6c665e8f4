--------------------------------- MODULE Node ---------------------------------
(***************************************************************************)
(* Several nodes, each with its chain and mempool: what the commands of    *)
(* src/src/main.rs, the RPC submission and the handlers of src/src/p2p.rs  *)
(* do to a ChainState, one step each. A transaction that was broadcast may *)
(* reach a node late, twice or never, and so may a block; a node compares  *)
(* whole chains with a peer when it reorganises. A history may come with   *)
(* blocks of miners that run other programs than these nodes.              *)
(* One counter numbers transactions and blocks: an id stands for a hash.   *)
(***************************************************************************)
EXTENDS Wallets

CONSTANTS
  Nodes,      \* the nodes
  WalletOf,   \* node |-> the addresses of its wallet, default first
  Scenes      \* the histories to start from: [blocks, foreign, todo, fresh, left]

\* A history is a sequence of blocks, each with its sequence of transactions;
\* foreign are the blocks of other programs that may reach the nodes after it.
ASSUME ScenesAssumption ==
  \A s \in Scenes : /\ s.blocks \in Seq(ToSet(s.blocks))
                    /\ \A block \in ToSet(s.blocks) \cup s.foreign : block.txs \in Seq(ToSet(block.txs))

VARIABLES
  chain,  \* node |-> [blocks, utxos, mempool]
  wire,   \* every transaction ever broadcast
  mined,  \* every block ever mined
  todo,   \* the requests the users have not made yet: [at, q]
  fresh,  \* the next id
  left    \* bound: so many blocks are still to be mined

vars == <<chain, wire, mined, todo, fresh, left>>

Init ==
  \E s \in Scenes :
    /\ chain \in [Nodes -> {c \in FromBlocks(s.blocks) : TRUE}]
    /\ wire = {} /\ mined = s.foreign /\ todo = s.todo /\ fresh = s.fresh /\ left = s.left

\* cmd_send and its kin: load, build, admit, relay, save. An error ends the
\* command, and the user may try again.
Request(n, r) ==
  /\ r.at = n
  /\ \E tx \in Built(chain[n], WalletOf[n], r.q, fresh) :
       /\ \E a \in {Admit(chain[n], tx)} : a.ok /\ chain' = [chain EXCEPT ![n] = a.c]
       /\ wire' = wire \cup {tx}
  /\ todo' = todo \ {r}
  /\ fresh' = fresh + 1
  /\ UNCHANGED <<mined, left>>

\* WireMessage::Tx: what a full mempool pruned stays pruned on a refusal
ReceiveTx(n, tx) ==
  /\ chain' = [chain EXCEPT ![n] = Admit(@, tx).c]
  /\ UNCHANGED <<wire, mined, todo, fresh, left>>

\* hf124_fair_mempool_relay_batch: the oldest shares, as many as a block holds,
\* with a quarter of the batch kept for ordinary transactions
RelayBatch(mempool) ==
  LET limit == SmallerOf(Policy.max_mempool, Policy.relay_batch)
      reserve(n) == IF n = 0 THEN 0 ELSE SmallerOf(n, LargerOf(limit \div 4, 1))
      quota(n) == SmallerOf(Pool.max_shares, limit - reserve(n))
      First(txs, n) == SubSeq(txs, 1, SmallerOf(Len(txs), n))
      Filled(first, ordinary) == first \o First(ordinary, limit - Len(first))
      Batch(shares, ordinary) == Filled(First(shares, quota(Len(ordinary))), ordinary)
      sound == Where(mempool, SaleStandard)
  IN Batch(ByParent(Shares(sound)), InTemplateOrder(Ordinary(sound)))
\* WireMessage::GetMempool and the answer, WireMessage::Mempool
ReceiveMempool(n, m) ==
  /\ chain' = [chain EXCEPT ![n] = AdmitBatch(@, RelayBatch(chain[m].mempool))]
  /\ UNCHANGED <<wire, mined, todo, fresh, left>>

\* cmd_mine, cmd_pool_mine: the template, its proof of work, and the block in
\* the own chain before anybody else sees it
Templates(n) ==
  SoloBlock(chain[n], WalletOf[n][1], fresh) \cup
  UNION {PoolBlock(chain[n], pool, fresh) : pool \in DOMAIN PoolRegistryFrom(chain[n].blocks)}
Mine(n) ==
  /\ left > 0 /\ left' = left - 1
  /\ \E block \in Templates(n) :
       /\ \E c \in Connected(chain[n], block) : chain' = [chain EXCEPT ![n] = c]
       /\ mined' = mined \cup {block}
  /\ fresh' = fresh + 1
  /\ UNCHANGED <<wire, todo>>

\* WireMessage::Block of a direct child
ReceiveBlock(n, block) ==
  /\ block.prev = TipId(chain[n])
  /\ \E c \in Connected(chain[n], block) : chain' = [chain EXCEPT ![n] = c]
  /\ UNCHANGED <<wire, mined, todo, fresh, left>>

\* try_adopt_peer_chain and, for a canonical peer, its equal-height form
Reorganise(n, m, prefer) ==
  /\ chain' = [chain EXCEPT ![n] = Adopted(@, chain[m].blocks, prefer)]
  /\ UNCHANGED <<wire, mined, todo, fresh, left>>

Next ==
  \/ \E n \in Nodes, r \in todo : Request(n, r)
  \/ \E n \in Nodes, tx \in wire : ReceiveTx(n, tx)
  \/ \E n \in Nodes : \E m \in Nodes \ {n} : ReceiveMempool(n, m)
  \/ \E n \in Nodes : Mine(n)
  \/ \E n \in Nodes, block \in mined : ReceiveBlock(n, block)
  \/ \E n \in Nodes : \E m \in Nodes \ {n} : \E prefer \in BOOLEAN : Reorganise(n, m, prefer)

Spec == Init /\ [][Next]_vars

-----------------------------------------------------------------------------
(* Properties. Every one is about the chain of each node at every moment.  *)

\* The type invariant: linked blocks, coins with a value and a height, a
\* mempool of distinct transactions within its cap.
TypeOK ==
  \A n \in Nodes :
    LET c == chain[n] IN
    /\ \A h \in 1..Height(c) : c.blocks[h].prev = BlockId(c, h - 1)
    /\ \A p \in DOMAIN c.utxos : c.utxos[p].v \in 1..Consensus.max_money /\ c.utxos[p].h \in 1..Height(c)
    /\ Len(c.mempool) <= Policy.max_mempool
    /\ Cardinality(TxIds(c.mempool)) = Len(c.mempool)

\* Every protocol's state can be recomputed from the blocks.
Replays(blocks) ==
  /\ JinStart(JinLedgerFrom(blocks), blocks).ok
  /\ LibraryFrom(blocks) # {}
  /\ GovernanceFrom(blocks) # {}

\* What the node would mine next connects to its own chain: the template's
\* running states (candidate_mempool_transactions) agree with the validators of
\* connect_block, so that no proof of work is wasted. So does the template of
\* every pool that has somebody to pay, whose coinbase validate_pools_block
\* compares to the atom, with one exception: a pool's template that takes a melt
\* pays out the fees without what the melt burns, validate_pools_block expects
\* them with it. A solo template there always is on a chain that replays.
TakesMelt(block) ==
  \E tx \in ToSet(block.txs) : \E o \in ToSet(InfusionMarkers(tx)) : o.s.k = "jin_melt"
TemplatesConnect ==
  \A n \in Nodes :
    LET Connect(blocks) ==
          /\ Replays(chain[n].blocks) => \E b \in blocks : PoolOf(b) = NoPool
          /\ \A b \in blocks : PoolOf(b) = NoPool \/ ~TakesMelt(b) => ConnectBlock(chain[n], b) # {}
    IN Connect(Templates(n))

\* The same without the exception, as HF124-v181-RELIABILITY-REVIEW.md:51 says of
\* the candidate that is built: it is valid under the block validator.
EveryTemplateConnects ==
  \A n \in Nodes : \A b \in Templates(n) : ConnectBlock(chain[n], b) # {}

\* A chain whose blocks were all made by templates can be replayed by every
\* protocol: the replays do not look at signatures and prices again and take
\* markers in another order than the validators, yet never meet a step they cannot
\* take, for after that no JIN or governance transaction would be accepted and
\* no template with an ordinary transaction could be built. It is the
\* template's one running ledger that sees to it, not the validators: see
\* ConnectedChainsReplay.
Foreign == UNION {s.foreign : s \in Scenes}
LedgersReplay ==
  \A n \in Nodes : ToSet(chain[n].blocks) \cap Foreign = {} => Replays(chain[n].blocks)

\* What connect_block accepted replays, whoever made it: the error at the end of
\* jin_ledger_from_blocks (lib.rs:9603) asserts that no lock exceeds a balance,
\* and preflight calls a chain that connects again "chain_replay_valid".
ConnectedChainsReplay == \A n \in Nodes : Replays(chain[n].blocks)

\* A vault that a transaction made holds what its remaining claims are worth.
HoldsItsClaims(coin) ==
  IsVault(coin.s) /\ coin.s.asset = "QUB" /\ ~coin.cb => coin.v = coin.s.per * coin.s.left

\* The atoms in all coins and those melted are at most the subsidies paid so
\* far, through fees, pool payouts, halvings and melts; and a BLAST vault that a
\* transaction made holds exactly what its remaining claims are worth.
CoinsAccounted ==
  \A n \in Nodes :
    LET c == chain[n]
        coins == SumOn([p \in DOMAIN c.utxos |-> c.utxos[p].v])
        paid == SumOn([h \in 1..Height(c) |-> Subsidy(h)])
    IN /\ coins <= paid
       /\ \A i \in InfusionFrom(c.blocks) : coins + i.melted <= paid
       /\ \A p \in DOMAIN c.utxos : HoldsItsClaims(c.utxos[p])

\* What a replay of the JIN ledger arrives at: no unit is made by transfers, fees,
\* purchases, infusions and melts, and none is lost, unless a solo block's coinbase
\* pays no address that could have its fees; the vault holds what is infused, an
\* equal amount behind every atom of QUB that can still exist; the infusion state
\* that is replayed on its own is the one the ledger arrives at. (That the replay
\* arrives at all is LedgersReplay.) And no batch of the sale is sold twice.
JinAccounted ==
  \A n \in Nodes :
    LET blocks == chain[n].blocks
        FeesArrive(block) == PoolOf(block) # NoPool \/ MinerOf(block) # NoMiner
        Accounted(r) ==
          /\ SumOn(r.m) <= Jin.supply
          /\ (\A h \in DOMAIN blocks : FeesArrive(blocks[h])) => SumOn(r.m) = Jin.supply
          /\ \A i \in InfusionFrom(blocks) :
               /\ i = r.i
               /\ i.infused = i.per * i.max
               /\ Balance(r.m, Jin.vault) >= i.infused
    IN /\ \A r \in {JinReplay(blocks)} : Len(blocks) >= Jin.active /\ r.ok => Accounted(r)
       /\ \A units \in Range(SoldFrom(blocks)) : units <= Jin.sale_batch

\* Whatever is pending could be mined into the next block as far as its coins
\* go: no two pending transactions share a coin, every coin is unspent on this
\* chain and the fees are paid, also after blocks and reorganisations.
MempoolMinable ==
  \A n \in Nodes :
    LET c == chain[n]
        txs == ToSet(Ordinary(c.mempool))
    IN /\ \A tx \in txs : \E fee \in MinerFee(tx, c.utxos, SpendHeight(c)) : PaysItsFees(tx, fee, SpendHeight(c))
       /\ \A a, b \in txs : a # b => ToSet(a.ins) \cap ToSet(b.ins) = {}

\* A name is registered once in a chain, although admission compares a pending
\* registration with the confirmed names only and two may wait side by side.
NamesRegisteredOnce ==
  \A n \in Nodes :
    LET blocks == chain[n].blocks
        In(p) == Registrations(blocks[p[1]].txs[p[2]])
        NameAt(p) == QnsLabel[In(p)[p[3]].s.raw].name
        places == UNION {UNION {{<<h, i, j>> : j \in 1..Len(In(<<h, i>>))} :
                                i \in 1..Len(blocks[h].txs)} : h \in 1..Len(blocks)}
    IN \A p \in places : /\ NameAt(p) \notin DOMAIN ReservedNames
                         /\ \A q \in places : NameAt(q) = NameAt(p) => q = p

\* At every height the window of shares counts a miner in one pool only and a
\* pool within its slots, although shares come and go with the window, wait in
\* mempools and change chains.
WindowRespectsSlots ==
  \A n \in Nodes :
    LET c == chain[n]
        W == WindowFrom(c.blocks, SpendHeight(c))
        reg == PoolRegistryFrom(c.blocks)
    IN \A pool \in DOMAIN W.members :
         /\ Cardinality(W.members[pool]) <= reg[pool].slots
         /\ \A a \in W.members[pool] : W.active[a] = pool

\* A plan that pays a total to the atom, takes no more than its rate and gives
\* every address its share of the work, up to an atom.
Fair(plan, total, bps, score) ==
  LET work == SumOn(score)
      NearShare(a) ==
        LET off == plan.entries[a] * work - (total - plan.commission) * score[a]
        IN off < work /\ -off < work
  IN /\ plan.commission + SumOn(plan.entries) = total
     /\ plan.commission * 10000 <= total * bps
     /\ \A a \in DOMAIN score : NearShare(a)

\* A pool hands out the subsidy to the atom: commission and payouts add up, the
\* commission is within its rate and nobody is an atom or more away from the
\* share its work earned.
PayoutsExact ==
  \A n \in Nodes :
    LET c == chain[n]
        reg == PoolRegistryFrom(c.blocks)
        total == Subsidy(SpendHeight(c))
    IN \A pool \in DOMAIN reg : \A plan \in PayoutPlan(c.blocks, pool, total) :
         Fair(plan, total, reg[pool].bps, Scores(c.blocks, SpendHeight(c), pool))

\* A reorganisation loses no transaction that could still be confirmed: what
\* the abandoned blocks and the mempool held is in the new chain, in the new
\* mempool, or refused by the new mempool as it now stands.
ReorgKeepsTransactions ==
  [][\A n \in Nodes :
       LET old == chain[n]
           new == chain'[n]
           had == Ordinary(TxsOf(old.blocks)) \o Ordinary(old.mempool)
       IN \A tx \in ToSet(had) :
            \/ tx.id \in Confirmed(new.blocks) \cup TxIds(new.mempool)
            \/ ~Admit(new, tx).ok]_vars

\* What a wallet builds and checks for itself is admitted by the node it runs
\* on, unless the mempool is full: the builder's view (single checks, the shown
\* JIN balance, the confirmed height) is not wider than admission's.
SelfChecked == {"send", "jin_send", "jin_convert", "jin_buy", "jin_infuse", "jin_melt", "blast", "claim"}
WalletBuildsAdmissible ==
  \A n \in Nodes, r \in todo :
    LET c == chain[n] IN
    r.at = n /\ r.q.k \in SelfChecked /\ Len(c.mempool) < Policy.max_mempool =>
      \A tx \in Built(c, WalletOf[n], r.q, fresh) : Admit(c, tx).ok
=============================================================================

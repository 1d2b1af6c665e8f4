# A TLA+ verification of QUB Core

This directory specifies, model-checks and proves parts of QUB Core: a
proof-of-work node in Rust (`src/src`), its wallet and GUI, and the reserve-vault
contracts beside it (`src/ethereum`).  Paths below are relative to the
repository; `fast_storage.rs:902` means `src/src/fast_storage.rs`, line 902.

`PROJECT.json` lists for every definition the source lines it models (`map`),
the runs, for every checked property a plausible bug that breaks it (`mutants`),
the disagreements between code and documents (`findings`) and what is hard to
test in this code (`hazards`).

1. [The system](#1-the-system)
2. [Modules](#2-modules)
3. [From the code to the models](#3-from-the-code-to-the-models)
4. [Runs](#4-runs)
5. [Fairness](#5-fairness)
6. [Proofs](#6-proofs)
7. [What the code and its documents disagree on](#7-what-the-code-and-its-documents-disagree-on)
8. [What is not modelled](#8-what-is-not-modelled)
9. [Plan](#9-plan)

## 1. The system

A node is one process: the `run_node` loop of `p2p.rs`, threads for inbound peers
and RPC clients, outbound synchronisation and catch-up workers, a miner and, in
the desktop program, the GUI.  Several programs (node, GUI, command line) may be
pointed at the same data directory.  Everything they share is the chain: one
committed on disk, one in the memory of each process.

| Component | State | Operations | Talks to |
|---|---|---|---|
| Fast Chain Engine, commits (`fast_storage.rs`) | `CURRENT.json`, `PREVIOUS.json`, state files, block journals, `chain.json` | load, initialise, commit (normal, re-anchor), prune, export | everything that saves |
| Fast Chain Engine, writer lease (`fast_storage.rs:423`) | the lock file with a process id | acquire, judge stale, remove, release | other processes |
| Chain in memory (`fast_storage.rs:1494`, `p2p.rs:640`) | the live chain, `mempool_dirty`, the deferred publications | publish now or later, merge, persist | peers, RPC, miner, wallet, loop |
| Block delivery and re-anchor (`p2p.rs`, HF125, HF126) | `pending-block-relay.json`, broadcasts and their answers | broadcast, retry, gather evidence, re-anchor | peers, official seeds, web site |
| Peers, lanes, synchronisation (`p2p.rs`) | peer table, bans, inbound counters | accept, gossip, the synchronisation ladders | remote nodes |
| Consensus (`lib.rs`) | blocks, UTXO set, JIN and name registries | validate, connect, reorganise, replay | storage, mempool |
| Difficulty and work (`lib.rs`) | none | compact targets, retarget, block work | consensus |
| Mempool (`lib.rs`) | pending transactions | admit, cap, rebuild after a reorganisation | chain in memory |
| JIN ledger (`lib.rs`) | supply, balances, infusion vault, public sale | infuse, melt, convert, swap, sell | consensus |
| Names, Library, governance, BLAST (`lib.rs`) | replay-derived registries | register, vote, settle | consensus |
| Share pools (`pools.rs`) | shares, windows, payout plans | join, count, split | consensus, mempool |
| RPC and mining jobs (`rpc.rs`) | job cache, rate windows | get work, submit block or transaction | chain in memory |
| Wallet and outbox (`lib.rs:6765`) | keys, `wallet-pending-txs.json` | remember, reconcile | chain in memory |
| GUI, CLI, miners (`bin/`, `main.rs`, `gpu_miner.rs`) | windows, controllers, kernels | start, stop, show | all of the above |
| Reserve vaults and bridge (`ethereum/`) | token balances, limits, roles | lock, release, pause | outside the node |
| Deployment, explorer, installer | scripts and static pages | publish a snapshot | outside the node |

**How they interact.**  A block arrives (a peer's message, an RPC submission, the
miner, a synchronisation session), consensus connects it to a copy or to the live
chain, the engine commits the result under the storage mutex and the writer
lease, and the committed chain is offered to the live chain under the chain's
mutex, now or, when somebody holds it, by a worker later.  A block found here is
then broadcast and stays in the pending record until the broadcast counts as
delivered.  The loop notices commits of other processes, merges them, re-admits
the wallet's transactions and persists the mempool.

**What is hard.**

- *Crashes between two file operations.*  A commit is some eight of them, over
  files that two pointers share; the next commit rewrites a journal of which an
  older commit still needs a prefix, and pruning removes what it thinks unused.
- *Processes.*  The lease is a file that is judged, removed and created by name.
- *Two mutexes and a register.*  Some threads save while they hold the chain's
  mutex, every save offers its chain to the memory while it holds the storage
  mutex, copies are saved long after they were taken, and the memory may only
  show what is on disk.
- *One record, many threads.*  Broadcasts, the retry worker and the re-anchor
  load, change and remove the same file; answers are lost or late, peers move on.
- *Ties.*  Two blocks of equal height and work stop the miner until evidence from
  outside settles them.
- *Arithmetic.*  Compact targets, pool payouts and JIN conversions round.
- *Four readings of one rule.*  Whether a marker is good is decided by admission
  against the mempool, by the template on running copies, by the validator of the
  block, and by the replay that recomputes a registry later.  Each walks the
  transactions in its own order and checks its own subset; they have to agree.
- *Caches and lanes at their limit.*  Mining jobs, mempool, inbound connections
  and the outbox throw something out when they are full.

**What makes each component correct.**  The engine: a load returns the last
commit whatever was interrupted, the fallback is usable and not ahead, work never
decreases, equal-work siblings replace one another under one policy only, and
start-up comes to rest.  The lease: one writer, and an orphan's lock goes.  The
chain in memory: never ahead of disk, no deadlock, nothing queued is forgotten,
memory and disk converge and the wallet's transactions come back.  Delivery: a
found block stays queued until it is delivered, evidence is about the block it
is held against, ties are settled by independent sources, the queue drains.
Consensus: supply and UTXO set are what the replay of the blocks gives, and
disconnecting undoes connecting.  Mempool: rebuilding keeps what is still valid.
Pools and JIN: a split or a conversion conserves the amount.  Mining jobs: a
solution is credited to the job it was found for.  Peers: the
reserve for found blocks stays free.  Wallets: what a wallet builds its own node
admits.  Vaults: what is minted is covered by what is locked.

`PROJECT.json` has 40 hazards at their lines, with the properties that cover
them or the reason that none does.

## 2. Modules

| Module | What it is | Models |
|---|---|---|
| `CommittedStore` | abstract | one durable register that moves only to what is not behind it |
| `FastStorage` | detailed, implements `CommittedStore` | commits, loads, pruning, export, crashes and I/O errors |
| `FastStorageFaults` | extends `FastStorage` | damaged files, and the two-rename fallback |
| `FastStorageProofs` | theorems | `FastStorage`, `FastStorageFaults` |
| `WriterLease`, `WriterLeaseProofs` | component, theorems | the lock file |
| `LiveChain`, `LiveChainProofs` | component, theorems | memory, threads, mutexes, loop, outbox |
| `BlockRelay`, `BlockRelayProofs` | component, theorems | delivery, retry, re-anchor |
| `Lists` | operators | folding, filtering and sorting of lists |
| `Transactions` | rules | coins, fees, subsidy, BLAST vaults |
| `Names`, `Library`, `Pools`, `Jin`, `Sale`, `Governance` | rules | the protocols that are replayed from blocks, each with its checks, its replay and its walk over a block |
| `Chain` | rules | `ChainState`: validation, connection, reorganisation, mempool, template |
| `Wallets` | rules | the transaction builders |
| `ChainProofs` | theorems | sequences and sums, names, pools and their payouts, coins, JIN and its sale, as far as the rules alone decide |
| `Node`, `NodeProofs` | component, theorems | several nodes that run `Chain` and exchange transactions, blocks and chains |
| `Outbox` | component | `wallet-pending-txs.json` between its readers and writers |
| `MiningJobs` | component | templates, job cache and submission over RPC, and the reference worker |
| `MinerRounds` | component | a round of the graphical wallet's processor and graphics miners |
| `Difficulty` | component | compact targets, both retarget rules, block work |
| `PeerSessions` | component | inbound lanes, active peers, the budgets of a session |
| `ServicesProofs` | theorems | `PeerSessions`, `Outbox`, `MiningJobs`, `MinerRounds` |
| `FoldFacts` | theorems | induction over a sequence, for whoever folds an operator over one |
| `MC...` | instances for TLC | block trees, settings, histories and small sets; `MCFastStorage` also runs `WriterLease`, and `MCServices` the five services and `FastStorageFaults` |

They are layers.  `FastStorage` is the writer that holds the storage mutex and
the lease; `WriterLease` says when there is one such writer.  `LiveChain` takes
what is on disk as one register with the rules of `Allowed`, which is what
`FastStorage` provides as `CommittedStore` with the sibling rule on top.
`BlockRelay` takes committed and live chain as one `tip`, and has the rule of the
commits (`Commits`) where the re-anchor depends on it.

Blocks are model values that stand for the chain they end: `Height`, `Work` and
`BlockAt` (the ancestor at a height) are constants, a tree rather than a list of
headers.  More height is not more work in any module: compact targets make the two
independent between branches.  On one branch each block adds work (`block_work` is
at least one, `lib.rs:4232`); `BlockRelay` assumes that and its proofs use it, the
other modules assume no relation at all.

The other half says what is in the blocks.  The modules of rules have no variables;
they extend one another as the protocols use one another:

    Lists -- Transactions -- Pools -- Jin -- Sale -- Governance -- Chain -- Wallets -- Node
                        \-- Library ------/                      /
                        \-- Names -----------------------------/

A fee of a JIN transfer goes to the miners of a pool (`Jin` on `Pools`); purchases
rank before posts in a template (`Sale` on `Library`); locks of votes are taken
from JIN balances (`Governance` on `Sale`).  What the code recomputes from the
blocks is a fold over the blocks here, so that every registry is a function of the
chain and a reorganisation has nothing to undo but coins.

The five services share no state with each other or with `Node`: each knows of the
chain only what it looks at.  `MCServices` extends all five, and `FastStorageFaults`
as a sixth, and picks one (`service`) at the start; a run of it is six runs.
`MCFastStorage` is the writer's files and, in a part of its own, the programs at the
lock file (`part`): its number of states is the sum of the two.

Definitions whose comment begins with "Faulty" or "Mutant" are bugs the code does
not have, each next to the definition it spoils; they show that a property can fail.

## 3. From the code to the models

### FastStorage

`cur` and `prv` are the two pointer files, `states` and `journal` the state files
and journals by name, `legacy` is `chain.json`.  A pointer and the state file it
names are the same record: equality stands for the checksum, schema and field
comparisons of `read_pointer_state`.  `pc`, `base`, `new` and `policy` are the
local variables of `commit_chain_with_policy`.

| Action | Code |
|---|---|
| `Load`, `LoadOrInit`, `LoadLegacyForUi` | `load_or_init_chain` and its fast form for the GUI |
| `SaveInit`, `BeginCommit` | `save_chain`, on a directory without and with the engine |
| `Truncate`, `AppendRecord`, `SyncJournal` | `append_journal`; a crash in `append` may leave a torn record |
| `WriteFullJournal` | `write_full_journal`, a new generation |
| `WriteState`, `WritePrevious`, `WriteCurrent` | the three durable writes, in this order |
| `Cleanup` | pruning; which unprotected files go depends on file times, so any of them may |
| `Export` | refreshing `chain.json`, when it is due |
| `Abort`, `Crash` | an I/O error or the end of the process, before any of these steps |

The writer chooses its base (`WriterBase`) without reading the journal; a load
(`LoadResult`) reads it.  The module has both.

### FastStorageFaults

Adds damage (`RotPointer`, `RotState`, `RotRecord`) and `replace_file_atomic`
after its first rename has failed: `AsidePrevious`, `InstallPrevious`,
`AsideCurrent`, `InstallCurrent`, `InstallFails`.  `last` remembers the commit
installed last and `before` the one that was built on, which is not the one
installed before it when a writer had to build on PREVIOUS.

### WriterLease

One file operation of `acquire_lease` per action: `Create` (create_new), `WritePid`
or `WriteFails`, `Stat` (age), `ReadOwner` (`lock_owner_alive`), `RemoveStale`,
`Release` (the `Drop` of the lease).  `Age` lets the file pass the stale age,
`Dies` and `Start` end and start programs; `ReusePids` lets the system give an id
again.  `raced` remembers a removal of a file other than the one judged.

### LiveChain

`live` is the chain behind `Arc<Mutex<ChainState>>`, `owner` the thread that keeps
that mutex from one step to the next, `storing` the same for the storage mutex;
critical sections without a save inside are one step.  `thr` holds what each
thread is in the middle of.  `deferred`, `worker`, `popped` and `rechecks` are
`deferred_live_publications` and the worker of `spawn_deferred_live_worker`.

| Action | Code |
|---|---|
| `TakeTx`, `MarkDirty` | transactions from a peer; the flag is set after the mutex is released |
| `TakeBlock`, `InstallBlock` | `connect_block_persist_atomic`: the mutex is held through the save |
| `SubmitTx`, `Unlock` | `submit_transaction` of the RPC |
| `TakeChain`, `InstallChain` | a peer's chain: copy, save, compare, install |
| `Pay`, `FetchTx`, `Advance`, `Reanchor` | wallet, synchronisation, GUI miner, HF126: on a copy |
| `Commit`, `Refused`, `WriteError` | the commit and the two ways it fails |
| `Publish`, `Republish` | `publish_live_chain` (try_lock under the storage mutex) and its re-anchor form (lock after it) |
| `Look`, `Apply`, `Leave`, `Recheck` | the deferred worker |
| `LoadCommitted`, `Merge` | the loop follows other processes |
| `Heartbeat` | `reconcile_pending_txs` |
| `TakeDirty`, `TakeSnapshot`, `Persisted` | the loop persists the mempool |
| `OtherProcess`, `Crash` | another program commits; this one restarts |

### BlockRelay

`record` is `pending-block-relay.json`; `jobs` are threads that wait for
`hf125_block_relay_lock`, `active` the broadcast that has it, `ans` its answers;
`retry` is what the retry worker has loaded, `anchor` the re-anchor in progress.
`at` is what peers and the official web site have.

| Action | Code |
|---|---|
| `Mine`, `Push` | a found block, or a peer's, is committed and a broadcast starts |
| `Adopt`, `PeerFinds`, `PeerAdopts`, `WebPublishes` | synchronisation, and the rest of the network |
| `Enter` | the mutex is taken, `schedule_pending_block_relay` |
| `Answer` | `submit_block_to_peer` with the suffix or overlap window it may send |
| `CloseDelivered`, `CloseUndelivered`, `WriteRecord` | `delivered`, removal or update of the record |
| `RetryLoad`, `RetryClear`, `RetrySend` | `retry_pending_block_relay` |
| `Gather` | `hf126_verified_equal_height_competing_tip` |
| `SaveTail`, `LoadForSnapshot`, `SaveSnapshot`, `ClearAfterAnchor`, `AnchorFails` | `sync_official_http_tail_reanchor_hf114` |
| `Crash` | chain and record survive, threads do not |

An exchange that fails leaves no answer; whether the peer took the block all the
same is the peer's own step (`PeerAdopts`), so lost requests and lost answers are
both there.  `owed`, `told`, `seeded` and `crossed` are history variables that no
guard reads.

### The rules: Transactions, Names, Library, Pools, Jin, Sale, Governance

A transaction is a record: an id for its hash, the outpoints it spends, its outputs,
and the addresses that signed it.  An output's script is a record whose `k` says
what `parse` finds in it.  Hashing, signing and text encoding are left out: an id is
fresh, a signature is a member of `by`, a text has a number of bytes, a name has a
normal form.  Every settings structure is a record constant, and the assumptions on
it are the checks of `Settings::validate`.

Each protocol has the same three parts, named for the code's functions: what the
marker must satisfy against a state (`validate_...`), what it does to the state
(`apply_...`), and the fold over the blocks (`..._from_blocks`).

| Definitions | Code |
|---|---|
| `StatelessOK`, `ContextualFee`, `ConnectTx` | `validate_tx_stateless`, `validate_tx_contextual`, `connect_tx_utxos` |
| `BlastCreatesOK`, `BlastClaimFee` | creation and claims of BLAST vaults |
| `QnsValidate`, `RegisterAll`, `RegistryFrom` | names |
| `LibraryOK`, `LibraryApply`, `LibraryFrom` | posts of pages, comments, votes, edits, deletions |
| `PoolActionOK`, `ShareOK`, `WindowFrom`, `PoolValidate`, `PoolsBlockOK` | markers and shares of pools, the moving window, the walk over a block |
| `Split`, `PayoutPlan`, `PoolCoinbase` | the proportional payout and its remainders |
| `ApplyMarker`, `ApplyTransfer`, `ApplyPurchase`, `PayFees` | the JIN ledger |
| `InfuseState`, `MeltState`, `InfusionFrom` | the infusion vault and its second replay |
| `JinReplay`, `JinAgainst`, `JinBlockOK` | replay, check against the mempool, walk over a block |
| `SaleTx`, `SoldWithMempool`, `SaleBlockOK` | the batches of the public sale |
| `Enter`, `Decide`, `LockOK`, `ActionAllowed`, `GovBlockOK` | applications, reports, votes, decisions and locks |

An operation on JIN that fails half-way keeps what it had changed, as the code's
`&mut` arguments do, and the walks that ignore the error go on with that.

### Chain, Wallets and Node

| Definition | Code |
|---|---|
| `BlockOK`, `ConnectBlock`, `FromBlocks` | `validate_block`, `connect_block`, `from_blocks` |
| `Admit`, `AdmitBatch`, `PruneShares` | `accept_transaction_to_mempool` and its batch |
| `RebuildMempool`, `Connected` | `rebuild_mempool_from` after a block |
| `Adopted`, `Disconnected` | adoption of a chain with more work, or of an equal-height one from a canonical peer |
| `Candidates`, `SoloBlock`, `PoolBlock` | `candidate_mempool_transactions` and the two templates |
| `BuildSend` ... `BuildDelete`, `Built` | one builder of `WalletFile` each; which coins are taken is up to a hash map's order |
| `Request` | a command: load, build, admit, relay |
| `ReceiveTx`, `ReceiveMempool`, `ReceiveBlock` | the messages `Tx`, `Mempool`, `Block` |
| `Mine` | `mine_next_block`, `mine_next_pool_block` |
| `Reorganise` | `try_adopt_peer_chain` and its canonical form |

`wire` and `mined` keep everything ever sent, and nobody has to take it: messages
come late, twice, in another order, or never.  A history may bring blocks that another
program mined (`foreign`): they are in `mined` from the beginning, and a node that
receives one asks its validators, not its template.

### Services

| Module | Action | Code |
|---|---|---|
| `Outbox` | `LoadToRemember`, `SaveRemembered`, `RememberFails` | `remember_pending_tx`: the storage lock is held for the load and for the save, each alone |
| | `LoadToReconcile`, `SaveReconciled`, `ReconcileFails` | `reconcile_pending_txs`, by the heartbeat (which holds the chain) or a window (on a clone) |
| | `Send`, `Publish`, `BlockArrives`, `ChainReorganises`, `TimePasses` | what the sender and the chain do meanwhile |
| `MiningJobs` | `CreateTemplates`, `StrangerFetches` | `create_template`, which inserts into the job cache |
| | `LookUp`, `LookUpFails`, `Verify`, `Connect`, `Settle` | `submit_block`, a step per mutex it takes |
| | `StartRound`, `EndRound`, `Submit` | the reference worker `qub_rpc_miner` |
| | `ChainMoves`, `Tick` | another block; the clock of the jobs |
| `MinerRounds` | `StartRounds`, `Joins`, `SubmitsFound` | a round of the controller |
| | `Looks`, `ScansOn`, `Finds`, `Sends`, `GivesUp` | `mine_worker`, `gpu_mine_worker` |
| | `Listens`, `Checks` | the controller at its channel, and away at its four second check |
| `Difficulty` | `ConnectHeader` | `required_work_bits`, `retarget_bits`, `biguint_to_compact` |
| `PeerSessions` | `AcceptPeer`, `DialPeer`, `Enters`, `TurnsBack` | acceptor, dialler, entry in the active set |
| | `ReadMessage`, `ReadTimeout`, `LeavePeer`, `EndPeer` | the read loop with its budgets, and the guards that end it |

## 4. Runs

| Run | Distinct states | What it asks |
|---|---|---|
| `fast_storage` | 348,235 | commits, crashes and errors at every step, refinement, start-up; exclusion and orphans at the lock file |
| `aside_fallback` | violation | two moves aside |
| `journal_rot` | violation | a damaged record under a readable commit |
| `writer_lease_race` | violation | exclusion without the proviso |
| `block_relay` | 246,655 | queue, evidence, draining |
| `relay_queue` | violation | queue without the proviso |
| `relay_sources` | violation | two sources |
| `live_chain` | 60,209 | memory against disk, deadlock, convergence |
| `chain_rules` | 69,618 | templates, replays, books, mempool, pools, wallets |
| `pool_melt` | violation | a pool's template with a melt |
| `foreign_block` | violation | a connected chain that does not replay |
| `services` | about 4.8 million | outbox, jobs, rounds, retarget, sessions; storage with one fault of any kind |

**fast_storage.**  The tree has siblings `a1` and `b1` of equal work and a block
`b2` on one of them: appends, reorganisations, re-anchors in both directions.
Three generations and two revisions of each are enough for a generation that
PREVIOUS still needs while CURRENT is in the next and a third is being written,
for an append over a torn leftover, and for a generation number a crashed commit
has used before.  `Recoverable`: a load finds the commit CURRENT names.
`FallbackUsable`: PREVIOUS always names a complete commit, whatever has been
pruned.  `FallbackNotAhead`: PREVIOUS has no more work.  `SiblingOnlyByReanchor`:
an equal-work sibling replaces the tip under the re-anchor policy only.
`ImplementsStore`: what a load would return behaves like `CommittedStore`; no
step but the write of CURRENT changes it.  `ComesToRest`: start-up never gets
stuck in what a crash left.

*The lease in fast_storage.*  Two programs, four process ids, two crashes: enough for
one to die with the lock, the other to judge it stale, the first to return and take
it meanwhile.  `OneWriterUnlessRaced` and `HolderKeepsLock` exclude every way to
two writers but one; `OrphanGoes` says a dead owner's lock is removed.  Process
ids are fresh in this run: an id that is used again by a lasting process keeps
the lock for as long as that process lives, which is what the code does.
**writer_lease_race** has reused ids and shows the way that remains.

**aside_fallback, journal_rot.**  With a second fault of the kind `aside`,
`StartupNeverReinitialises` fails; with a damaged record, `CommitsBuildOnWhatLoads`
does.  See section 7.

**block_relay.**  A fork at height 1, one branch of which goes on; one official
seed, one other peer, the web site.  Any of them may find any block.
`KeptUnlessCrossed`: while the tip of this node is a block it has queued and no
official seed has had it, the record is there, unless a thread that was working
on *another* block has taken it away.  `EvidenceIsForItsBlock`: the recorded
stale-parent answers were given about the recorded block.  `QueueDrains`: the
record goes away again and again; when nobody finds another block, that is a
tie being settled.  **relay_queue** and **relay_sources** check the statements of
the documents without these provisos.

**live_chain.**  One handler, one copying thread, the loop, the worker and another
process; siblings `a` and `b`, a block on `a`, and a transaction of the wallet that
`b` confirms.  `MaxInput` bounds what comes in or goes wrong to three events; what
the threads then do is not bounded.  Three are enough for each of: a save that
finds the mutex taken while the worker is leaving; a copy that overtakes an
admission; a commit of another process between load and merge; a re-anchor
against a save.  `MemoryNotAhead`, `MutexesReleased`, `QueueIsPublished`,
`Converges` and `OutboxReturns` are stated in the module.  In this instance work
grows with height; in the code the loop follows another process by height alone,
so where they differ memory need not follow (a hazard without a property).

**chain_rules.**  Two nodes with a wallet each, from twelve histories.  A history is a
list of blocks that the model's own wallets, mempool and miner make, up to where
coins are mature and the protocols are active; then two or three requests, two
more blocks (three where a longer branch shall win), and everything that can happen
to them.  The histories are chosen for what only they can show:

| History | What meets |
|---|---|
| `names` | both wallets register one name in two spellings; a branch of two beats one of one |
| `blast` | two claims of one vault, one by the outpoint printed with the code, and a payment |
| `library`, `edits` | an answer to a post while its author deletes it; a vote while he edits it |
| `jin` | a transfer to two, an infusion, a melt, out of balances that do not cover all |
| `sale` | two purchases from one batch and a conversion that takes of the same JIN |
| `pools` | three miners for two slots of a pool, within a moving window |
| `governance` | a vote whose lock an infusion competes for, and a decision that waits for it |
| `profiles` | a wallet and a pool that apply, a payment that takes a bond away |
| `crowd` | one transaction more than the mempool holds, one of them a share |
| `pool_melt` | a melt in the mempool of a pool that has shares to pay |
| `foreign` | a block of another miner's program, with a vote that locks JIN its sender also infuses |

`TemplatesConnect`: what a node would mine next is connected by its own validators,
except the template of a pool that takes a melt, and on a chain that replays a solo
template can be built.  `LedgersReplay`: a chain whose blocks were all made by the
nodes' templates can be replayed by every protocol.  Both exceptions are runs of
their own: `pool_melt` and `foreign_block` below.
`CoinsAccounted`: coins and what was melted are at most the subsidies paid, and
vaults hold what their claims are worth.  `JinAccounted`: where the ledger replays, no
JIN is made and none is lost (the fees of a solo block whose coinbase pays no address
have nobody to go to), the vault holds an equal amount behind every atom of QUB that
can still exist, the two replays of the infusion agree, and no batch is sold twice.  `MempoolMinable`: what is pending can be mined.  `NamesRegisteredOnce`,
`WindowRespectsSlots` and `PayoutsExact`: as their names say.
`WalletBuildsAdmissible`: what a wallet has built and checked is admitted.
`ReorgKeepsTransactions`: a transaction that a reorganisation drops is one the new
chain's mempool refuses.  Ids run from a counter, the number of blocks is bounded by
`left`, and a node has nothing more to do when all is mined and told, so deadlock is
not checked.

**pool_melt, foreign_block.**  The two histories by the same names, each with the
statement that has no exception.  `EveryTemplateConnects` fails after one request: the
melt is admitted, and the template of the pool does not connect.
`ConnectedChainsReplay` fails when a node receives the foreign block: every validator
passes it, and the JIN ledger cannot be computed any more.  The other properties of
`chain_rules` hold in these histories too.

**services.**  `OutboxKept`: a payment is forgotten only for a reason, or by a
writer that had not seen it.  Three payments, one command and the heartbeat, room
for two records: enough for a lost update between two loads and for a full file.
`JobsHonoured`: a job is kept until it expires, its parent is settled or
`MaxCached - 1` younger ones push it out, and two jobs on one parent are never both
accepted.  Two request threads, a reference worker, strangers that send any job
ever handed out.  `MinersDeliver`: no worker goes past a nonce that solves its
header, whatever batches the device is tuned to, and a block sent to a controller
that listens is taken.  `RetargetSound`: the target on the chain can be read back and
is within the limit, follows the clock and eases by no more than the factor; every
chain of six headers with any timestamps of 0..7, over the end of the legacy rule,
with a byte of two bits so that truncation and the sign bit occur within small
numbers.  `LanesHonoured`: the count is that of the sockets, ordinary sessions never
take the reserve, a session of the reserve stays within its budget, and a peer is
active while exactly one session of it runs.  Three sockets and two peers: one
ordinary, one of the reserve, and a second one of a peer that is already there.
The bounds on ticks, tips and jobs stop the behaviours, so deadlock is not checked.

*The storage in services.*  Two generations of two revisions, one fault; up
to four commits, so that there is something older than the two that may be served.
The theorems about all three properties hold for any number of commits.
`NothingOlderIsServed`: a load returns the last commit, the one it was built on, or
nothing.  ("One of the last two installed" is false for two faults, which an attempt
to prove it showed: CURRENT is lost, a commit is built on PREVIOUS, CURRENT is lost
again, and the load returns the commit installed two before.)
`PointerLossIsCovered`: from the second commit on, losing a pointer (damage, or a
crash in the vacant moment of a move aside) costs at most one commit.
`StartupNeverReinitialises`: no start begins a new chain in a directory that has
a commit.  In the runs of this module deadlock is not checked: the code
fails closed when neither commit verifies, and the system does stop.

Every action and every disjunct of the next-state relations fires in the passing
runs.  The bounds that cut behaviours off are `MaxGen`, `MaxRev`, `StartGens`,
`MaxFaults`, `MaxCrash`, `Pid` and `MaxInput`, in `Node` `left` and `todo`, and in
the services those that end in `Bound`; `BlockRelay` needs none, its tree is finite.

## 5. Fairness

- `FastStorage`: a commit that has begun goes on and a process that is down is
  started again; `ComesToRest` assumes that crashes and errors stop.
- `WriterLease`: each program is scheduled and tries again (the node persists on a
  timer), a commit ends, and time passes.
- `BlockRelay`: the loop starts the retry and the catch-up worker every few seconds
  (`Retry`, `Sync`, weak); a report has a deadline (`Close`); the relay mutex is
  handed on and seeds are reached now and then (strong: both are enabled and
  disabled for ever); the web site follows the seeds; a re-anchor is not
  interrupted for ever.  Nobody has to find a block.
- `LiveChain`: threads run and get a mutex they wait for again and again (strong
  fairness: `std::sync::Mutex` does not promise it, the operating system's
  scheduler gives it in practice), and the loop comes round.  Nothing has to
  come in.

`Node`, the services and `FastStorageFaults` state no fairness and have no liveness property.  Nobody
has to deliver a message, mine a block or read a channel in time, and what they
promise is safety.

Liveness is checked under exactly these, none of which makes an input, a failure
or a crash necessary.

## 6. Proofs

TLC checks an instance; the theorems below hold for every block tree, every
number of processes, nodes, peers, threads, sockets and payments, and every value of
the bounds.

They assume what the modules assume of their constants, and TLC evaluates that in
every run: `BlockAt` gives ancestors (`ChainAssumption`, `TreeAssumption`; the second
also that each block of a branch adds work), constants that stand for "nothing" are
not values (`FileAssumption`, `RecordAssumption`), settings are what
`Settings::validate` accepts, the histories of `Node` are sequences of blocks
and so are the contents of foreign blocks, of whatever transactions
(`ScenesAssumption`; the theorems about `Node` hold for chains with them), sockets are finitely many, and bounds are natural numbers.  The
block tree is what hash-linking gives; it is trusted, not derived from header
validation.

**FastStorageProofs**, without faults (`TypeCorrect`, `CrashSafe`,
`FallbackAlwaysUsable`, `FallbackNeverAhead`, `SiblingRule`, `Refinement`).  "A load
finds CURRENT" is not inductive: it holds in the middle of a commit only because of
what the commit has not yet touched.  The invariant is `TypeOK` with

- `CurrentInv`, `PreviousInv`: the two named commits are complete, PREVIOUS is no
  later in generation and work, and, in one generation, no longer than CURRENT;
- `PlanInv`: the commit in progress is based on CURRENT and uses a generation and
  revision neither pointer has;
- `AppendInv`: during an append the journal is the committed prefix and the new
  blocks so far, so every shorter prefix still holds;
- `WrittenInv`: once journal or state file is written, it is complete.

The heart is that an append keeps every commit of its generation whose length is
at most the base's (`StaysUsable`), and that a state file gets a fresh name
(`FreshName`).  Refinement follows: a step either leaves the load's result alone
or writes CURRENT, whose candidate passed `NotBehindCommitted`.

**FastStorageProofs**, with faults (`NothingOlder`, `OneLossIsCovered`,
`OneFaultNoReinitialising`).  The first holds for any number of faults: `PointerInv`
says that what is left of either pointer is the last commit, the one it was built on,
or cannot be read.  The second is for any number of commits, crashes and errors and
the loss of one pointer; for it the invariants above are stated again for a disk on
which one of the two names may be vacant, and the pointer that is left must be
complete, whichever it is and whatever the writer has begun on it.  The third is for
`MaxFaults` of at most one, which is the reach of the statement: two moves aside break
it (`aside_fallback`).

**WriterLeaseProofs** (`LeaseTypeCorrect`, `AtMostOneWriter`, `WriterKeepsLock`).
While nothing has raced, `OwnInv` says that a process between creation and release
has its own file in place (and its id in it once written); `JudgedInv` says that
whoever is about to remove the file it judged removes one whose owner is gone,
because an owner that is alive is found alive.  Two writers would own one file.

**BlockRelayProofs** (`RelayTypeCorrect`, `EvidenceIsOwn`, `RecordKept`).  Evidence
reaches the record from answers that are collected first, so the invariant of
`EvidenceIsOwn` adds `AnswersInv`: the answers of the broadcast in progress, and the
record it has loaded, are about its own block.  `RecordKept` (a found block stays in
the record until a seed has had it, the tip has left it, or a thread at work on
another block took it away) needs `KeepInv`, what each thread knows of a record or a
tip it has looked at and not compared again: a block not yet broadcast is nowhere
else in the relay (`FirstInv`), a retry is of the record it loaded (`RetryInv`,
`HeightInv`), an acknowledgement by a seed means that a seed has the block
(`SeedInv`), and a re-anchor that has saved its chain has left the sibling for good,
since no later tip has less work (`AnchorInv`).

**LiveChainProofs** (`LiveTypeCorrect`, `DiskFirst`).  `MemoryNotAhead` needs that
every chain on its way to the memory is durable: `SaversInv` (what a thread
publishes or installs after its save has no more work than what is committed, and
what the loop has loaded neither) and `QueueInv` (nor have the queued and the popped
candidate), with the committed work never decreasing.

**FoldFacts** (`FoldInvariant`, `FoldStep`, `FilterFacts`, `GrowthFacts`).  The models
are written with folds over sequences.  A theorem about every operator needs an
operator as a parameter, which the provers cannot instantiate; here the operator and
the invariant are constants of the module, and `INSTANCE FoldFacts WITH Op <- ...,
Inv <- ...` makes the facts about a particular fold.  They rest on the definition
of `Folded` (`Lists`), through a least-number argument from the well-foundedness of
inclusion on finite sets.  `Folded` does what `FoldLeft` of the community modules does,
by recursion on the position; TLC needs half the time for it.

**ChainProofs** (`SplitFacts`) holds what follows from the rules of a chain alone.
Sequences: what concatenation, filters and sorting keep.  Names: after every block the
registry knows each registration so far, and a block that passes `NamesBlockOK` adds
names that neither the registry nor an earlier registration of the block has.  Pools:
the registry holds pools whose commission is within its bounds, whatever a marker
changed.  Sums over finite sets: linear, monotone, and taken apart at one element.
`SplitFacts` is the largest-remainder argument: the remainders of the division sum to
as many whole shares as atoms are left over and each is less than one, so at least that
many are positive (`WinnersEarned`), the ranking is strict because no two addresses
rank alike, so exactly that many miners are first (`FirstOnes`), and nobody is an atom
or more from what his work earned.  Coins: what a transaction creates takes the place
of what it spends and its fee is the rest (`TxPays`), so the walk of `validate_block`
keeps coins, fees and burns together within what there was (`BlockPays`).
`connect_block` walks again, with the coinbase in front; the two walks differ by the
coinbase's own coins only, because no transaction of a block has another's id
(`BesideWalk`), so a block adds at most its subsidy (`BooksNext`).  The burn that the
fee rules read off a transaction is the one the replay of the infusion finds in it,
whatever state it finds it in (`TxMelts`).

JIN is a sum over balances (`IsLedger`, `SumOn`).  A replay walks over the markers of
the transactions of the blocks, three folds in each other, and at every step the
balances together with the fees still due to a pool's miners come to the same sum
(`Held`), the infusion state is backed (`Backing`: what is infused is the same amount
for every atom that can exist) and the vault has at least what is infused; the replay
of the infusion alone takes the same steps beside it (`InStep`), so it ends in the same
state.  `PayFees` hands a pool's due fees out exactly, by `SplitFacts`, so a block
leaves the sum as it was, or less if nobody could have the fees (`BlockStanding`).  A
height is added by `LedgerNext` (`JinSound`, `JinNext`).  A marker has the fields that
its parser checked (`IsPurchase`, `IsJinTransfer`, `IsJinConversion`,
`IsInfusionMarker`) and nobody signs for the vault, whose name is no address: without
that a transfer could empty it.  The sale: the walk of `validate_jin_sale_block` counts
what the recount of the blocks counts (`SaleInStep`), so no batch exceeds its size
(`SaleNext`).

**NodeProofs** (`NodeTyped`, `PendingMinable`, `OneOwner`, `NoInflation`, `JinKept`,
`ExactPayouts`).  What waits
in a mempool pays its fees from the node's own unspent coins, no two transactions spend
one coin, and the mempool is within its cap (`NodeInv`, `ChainSound`).  Admission,
pruning of shares, the passes of the rebuild, the candidates, `connect_block` and the
replay of another chain are folds, each with the part of the invariant it keeps.  Some
parts of `ChainSound` are about the blocks themselves: every registration stands where
no other of its name does (`NamesSound`), every pool transaction was one the rules
allow (`PoolTxsSound`), coins and burns are within the subsidies paid, with vaults
worth their claims (`BooksSound`), the JIN ledger replays to what it should
(`JinSound`) and no batch of the sale is oversold (`SoldSound`); `OneOwner`,
`ExactPayouts`, `NoInflation` and `JinKept` (`NamesRegisteredOnce`, `PayoutsExact`,
`CoinsAccounted`, `JinAccounted`) follow with `ChainProofs`.
`CoinsAccounted` speaks of the infusion state only where its replay succeeds; the
invariant says of every replay, from either of the states one may start from, that the
burns it has found are paid for.  That a mempool may hold two registrations of
one name does not matter to the first: it is `connect_block` that decides.  Signatures
and the other protocols' rules do not enter: what they refuse makes these operations do
less.

**ServicesProofs** (`SessionsInvariant`, `BooksKept`, `MinersAlwaysDeliver`,
`JobsAlwaysHonoured`, `OutboxAlwaysKept`).  Sessions: the acceptor's count is the number
of sessions it let in (`CountsKept`), each session of the reserve is within its budget,
and the sessions inside have addresses with nothing in common (`OneSessionEach`), so
that the one who leaves takes nobody else's entry away.
`RoundsInv`: every golden nonce of a lane at work is still ahead of it, which a step
keeps because a batch's extent is what was hashed and the next extra nonce is the next
one of that lane.  `JobsInv`: the cache is in order of issue and every job that is not
in it is outdated or followed by `MaxCached - 1` younger ones (a cut leaves that many);
an accepted block has made the chain longer than its parent for good, so the parent of
an accepted job is never the tip again.  `OutboxInv`: every copy in anybody's hand was
a file once, within its limit and with no payment twice; that a full list loses its
first record and no other comes from a filter that keeps everything.

**Only model-checked.**  All liveness properties: liveness under fairness is beyond
the provers.  In `Node`: `TemplatesConnect`, `LedgersReplay`, `WindowRespectsSlots`,
`WalletBuildsAdmissible` and `ReorgKeepsTransactions`, whose invariants run through
the replays of the protocols.  `RetargetSound`: powers and quotients of variables are
beyond the arithmetic of the solver.

That a chain replays (`LedgersReplay`), and with it that its owner can build on it
(`TemplatesConnect`), does not follow from the validators alone, so no proof can be had
from them; attempts at one, and small histories checked for it, showed three reasons.
(a) The bootstrap of the infusion debits the protocol's account at a height: if that
account has moved its JIN away before, every later replay stops there.  The preflight
check (`main.rs:2227`-`2242`) asks the operator to keep the reserve; no rule does.
(b) The validators apply a transaction's transfers before its purchase
(`lib.rs:8568`-`8642`), the replay its purchase first (`lib.rs:8428`-`8491`): with next
to nothing in the protocol's account one transaction can pass the one and stop the
other.  (c) `validate_jin_block` and `validate_verified_governance_block` each ignore
what the other takes from the same balances within one block; only the template keeps an
infusion and a lock of the same JIN apart.  The run `foreign_block` shows (c), and
`LedgersReplay` leaves out the chains with such a block.  So it is a statement about
chains that templates make and a protocol account that is funded, which is what the
histories start from, and it stays with TLC.  `JinKept` needs none of this: it says what
a replay comes to when it succeeds.

## 7. What the code and its documents disagree on

Each of these is a run that TLC must find violated.

- *Start-up may begin a new chain* (`aside_fallback`, `fast_storage.rs:390`).  Where a
  rename cannot replace its target, the pointer is moved to a `.bak` name first.
  Two crashes in that window leave neither pointer; start-up asks for the two
  names only and takes the directory for an empty one.
  `README-FAST-CHAIN-ENGINE.md:56` says it fails closed.
- *Writer and reader disagree on what is current* (`journal_rot`,
  `fast_storage.rs:602`).  The writer does not read the journal; over a damaged
  record it builds on CURRENT where a load falls back.
- *Two writers* (`writer_lease_race`, `fast_storage.rs:493`).  Two processes judge one
  stale lock; the slower removes the lock the faster has just made.
- *A queued block is forgotten* (`relay_queue`, `p2p.rs:6792`).  There is one record,
  and it is cleared without a look at whose it is.
- *One source counts twice* (`relay_sources`, `p2p.rs:3659`).  The record's evidence and
  the probes are added up, so one seed's answers make two matches.

- *A template that does not connect* (`pool_melt`, `pools.rs:1498`).  While a melt is
  pending, the template of a pool with shares to pay computes the payouts without what
  the melt burns (`lib.rs:3639`-`3649`, `3872`), `validate_pools_block` with it
  (`pools.rs:1495`-`1515`).  `HF124-v181-RELIABILITY-REVIEW.md:51` says the candidate is
  valid under the block validator.
- *A chain that connects and does not replay* (`foreign_block`, `lib.rs:8711`).  A block
  that holds an infusion and a governance lock of the same JIN passes
  `validate_jin_block` and `validate_verified_governance_block`, which do not see each
  other's debits; the assertion that ends `jin_ledger_from_blocks`
  (`lib.rs:9603`) then fails until the lock expires.  No template of a node makes such
  a block; any other miner's program may.

*Met while modelling, and not a statement of any document.*  These are in the
models as the code has them; where a property names an exception, this is why.

- A worker stores `round_stop` before it sends its block, and a controller that was
  away at its four second check sees the flag at the loop's head and leaves without
  a look at the channel (`bin/qub_core.rs:12070`, `:12327`).  A valid block is then
  lost; `MinersDeliver` is stated for a controller that listens.
- `remember_pending_tx` and `reconcile_pending_txs` overwrite each other's records,
  and a file that cannot be read counts as empty (`lib.rs:6765`).  `wallet.json` is
  loaded and saved in the same way.
- A look-up prunes the job cache as an insertion does, so a full cache loses its
  oldest job to a reader (`rpc.rs:129`): one job less than the limit is safe.
- A child of a transaction that is only in the mempool is not admitted
  (`lib.rs:1813` rebuilds in passes all the same).  A BLAST vault of JIN can be made
  and never claimed.  Applications for verification stay pending.  A coinbase of zero
  is refused once the subsidy is exhausted.
- The builders of names and pools offer coins that a pending transaction spends, and
  the Library's of a wallet with several keys may sign with another author's coins;
  `WalletBuildsAdmissible` is stated for the others (`SelfChecked`).
- The inbound count is given back by a statement, not a guard: a session that panics
  keeps its place (`p2p.rs:704`).
- `submit_transaction` admits before it saves (`rpc.rs:1258`), the command line relays
  and remembers before it saves.

## 8. What is not modelled

- A reader in another process that takes no lock and retries while the writer
  prunes (`fast_storage.rs:793`).
- Age and record limits of the outbox are in `Outbox`; in `LiveChain` the outbox has
  none, and a transaction is valid wherever it is not confirmed.  An empty peer
  table, for which the relay has short cuts.
- The interval that makes an export due and the file times that pruning goes by:
  both are nondeterministic.
- A save that fails *after* CURRENT is written: `FastStorage` has the step, the
  callers in `LiveChain` do not see it.
- `BlockRelay` has one process, though the command line's relay command uses the
  same file.
- Peers: the order of the synchronisation ladders (HF82 to HF117), address gossip,
  LAN discovery and the seed registry.  They choose whom to ask; `Node` lets anybody
  be asked at any time.  Ban scores are in `PeerSessions` as far as they end a session.
- Chains that differ in work per block: all blocks of `Node` carry the same bits, and
  `Difficulty` has one chain.  Header version, merkle root and time checks.
- RPC: rate windows, token and address filter only refuse requests, and any request
  of the model may fail to come.  Reading endpoints keep no state.
- Wallet: creation, import and deletion of keys.
- GUI, command line and kernels: windows, input, output, formatting, updates, the
  OpenCL calls; what the commands do to the chain is in `Wallets` and `Node`.  The
  pool miner's rule of one share per parent is left out.
- The preview of an admission (`lib.rs:1492`) and the USDJ bridge scaffold
  (`lib.rs:9241`-`9367`) have no callers.  The contracts under `ethereum/` are another
  program on another chain; nothing in `src/src` calls them.  Explorer, installer,
  deployment: no core logic.

## 9. Plan

Done: the engine (abstract, detailed, faults, refinement), the lease, delivery and
re-anchor, the chain in memory, peer sessions, the outbox, mining jobs and mining
rounds, each with proofs of its safety properties; the rules of transactions and of
every protocol, the chain, mempool, templates, wallets and nodes, with proofs of the
types, of the mempool, of the names, of the payouts, of the coins and of JIN; retargeting.

Next, by importance, are proofs about what is so far only checked:

1. `WindowRespectsSlots`: one more registry, whose window moves with the height.
2. `TemplatesConnect`: that the walk over a block accepts what the checks against the
   mempool accepted, one protocol after the other, for a funded protocol account.
3. That `LiveChain`'s register is the one `FastStorage` implements.

Models still worth writing: the lock-free reader composed with `FastStorage`; a save
that fails after it took effect composed with `LiveChain`; `BlockRelay` with two
processes; chains of different work competing in `Node`.

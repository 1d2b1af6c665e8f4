------------------------------ MODULE LiveChain ------------------------------
(***************************************************************************)
(* The canonical chain in memory and the threads of a node process that    *)
(* change it: the peer and RPC handlers, which work on the chain itself    *)
(* under its mutex; the wallet, GUI miner and synchronisation threads,     *)
(* which work on a copy and save it; the run_node loop, which merges what  *)
(* others have committed, re-admits the wallet's transactions and persists *)
(* the mempool; and the worker that publishes a saved chain later when the *)
(* mutex was busy (src/fast_storage.rs and src/p2p.rs).                    *)
(*                                                                         *)
(* What is on disk is one register here: FastStorage implements it.  A     *)
(* save takes the storage mutex, commits, and offers the chain to the      *)
(* memory before it lets go; a re-anchor lets go first and then waits.     *)
(*                                                                         *)
(* Every transaction is valid wherever it is not confirmed yet, and no cap *)
(* of the mempool is reached: what admission refuses is not modelled here. *)
(***************************************************************************)
EXTENDS Integers

CONSTANTS
  Block,    \* block hashes; a block stands for the chain it ends
  Genesis,  \* the block every chain starts with
  Height,   \* Height[t]     : height of t
  Work,     \* Work[t]       : cumulative work of the chain ending in t
  BlockAt,  \* BlockAt[t][h] : the ancestor of t at height h
  Tx,       \* transactions
  Own,      \* those this node's wallet makes
  Mined,    \* Mined[b]      : the transactions in block b
  Handler,  \* threads that work on the chain in memory
  Writer,   \* threads that work on a copy
  Main,     \* the run_node loop
  Others,   \* another process may commit to the data directory
  Mainnet,  \* network.name = "mainnet"
  MaxInput, \* bound on what comes in and goes wrong
  None      \* no thread, no chain

ASSUME ChainAssumption ==
  /\ Genesis \in Block
  /\ Height \in [Block -> Nat]
  /\ Work \in [Block -> Nat]
  /\ \A t \in Block : BlockAt[t] \in [0..Height[t] -> Block]
  /\ Mined \in [Block -> SUBSET Tx]
  /\ Own \subseteq Tx

ASSUME ThreadAssumption ==
  /\ Main \notin Handler \cup Writer
  /\ Handler \cap Writer = {}
  /\ None \notin Handler \cup Writer \cup {Main}
  /\ None \notin [tip : Block, mem : SUBSET Tx]
  /\ {Others, Mainnet} \subseteq BOOLEAN
  /\ MaxInput \in Nat

VARIABLES
  committed,  \* tip and mempool of the committed chain
  live,       \* tip and mempool of the chain in memory
  owner,      \* the thread that holds the chain's mutex across steps
  storing,    \* the thread that holds the storage mutex across steps
  thr,        \* what each thread is doing
  dirty,      \* mempool_dirty
  deferred,   \* deferred_live_publications
  worker,     \* spawn_deferred_live_worker: its worker
  popped,     \* the candidate the worker has taken
  rechecks,   \* a worker that is done has yet to look for new candidates
  outbox,     \* wallet-pending-txs.json
  inputs      \* how much has come in so far

vars == <<committed, live, owner, storing, thr, dirty, deferred, worker,
          popped, rechecks, outbox, inputs>>
publication == <<deferred, worker, popped, rechecks>>

Thread == Handler \cup Writer \cup {Main}
Chain == [tip : Block, mem : SUBSET Tx]

(* A thread: the step it is at, the job it saves for, the chain it started *)
(* from or loaded, and the chain it saves.                                 *)
Task(at, job, base, cand) == [at |-> at, job |-> job, base |-> base, cand |-> cand]
Idle == Task("idle", None, None, None)
Goto(p, at) == thr' = [thr EXCEPT ![p].at = at]
Becomes(p, task) == thr' = [thr EXCEPT ![p] = task]
Free == owner = None

-----------------------------------------------------------------------------
(* Chains. *)

Confirmed(t) == UNION {Mined[BlockAt[t][h]] : h \in 0..Height[t]}
Extends(b, t) == Height[b] > 0 /\ BlockAt[b][Height[b] - 1] = t

Better(t, u) ==
  \/ Work[t] > Work[u]
  \/ Work[t] = Work[u] /\ Height[t] > Height[u]

(* What synchronisation adopts: a better chain, or, in the repair HF60 of  *)
(* a suffix after the checkpoint, a higher one (which the save may refuse).*)
Adoptable(t, u) == Better(t, u) \/ (Mainnet /\ Height[t] > Height[u])

(* Chain c continued or reorganised to tip t: pending transactions stay,   *)
(* those of disconnected blocks return, those confirmed by t go            *)
(* (reorg_mempool_candidates_for, rebuild_mempool_from, connect_block).    *)
Onto(c, t, others) ==
  [tip |-> t, mem |-> (c.mem \cup Confirmed(c.tip) \cup others) \ Confirmed(t)]

With(c, txs) == [c EXCEPT !.mem = @ \cup (txs \ Confirmed(c.tip))]

(* apply_live_candidate_locked. *)
Applied(c, d) ==
  IF c.tip = d.tip THEN With(c, d.mem)
  ELSE IF Work[d.tip] > Work[c.tip] THEN d ELSE c

(* merge_deferred_candidate. *)
Deferred(d) == IF deferred = None THEN d ELSE Applied(deferred, d)

Sibling(t, u) == Work[t] = Work[u] /\ Height[t] = Height[u] /\ t # u

(* publish_live_chain_verified_equal_work_reanchor. *)
Reanchored(c, d) ==
  IF c.tip = d.tip THEN Applied(c, d)
  ELSE IF Better(c.tip, d.tip) THEN c
  ELSE IF Better(d.tip, c.tip) \/ (Mainnet /\ Sibling(d.tip, c.tip)) THEN d ELSE c

(* commit_chain and commit_chain_verified_equal_work_reanchor. *)
Allowed(c, job) ==
  IF job = "anchor"
  THEN Mainnet /\ Sibling(c.tip, committed.tip)
  ELSE ~Better(committed.tip, c.tip) /\ ~(Mainnet /\ Sibling(c.tip, committed.tip))

-----------------------------------------------------------------------------
Init ==
  /\ committed = [tip |-> Genesis, mem |-> {}]
  /\ live = committed
  /\ owner = None
  /\ storing = None
  /\ thr = [p \in Thread |-> Idle]
  /\ dirty = FALSE
  /\ deferred = None
  /\ worker = "off"
  /\ popped = None
  /\ rechecks = FALSE
  /\ outbox = {}
  /\ inputs = 0

-----------------------------------------------------------------------------
(* A handler on the chain in memory. *)

Ready(p) == thr[p] = Idle /\ Free
Pending(x) == x \notin live.mem \cup Confirmed(live.tip)

(* Tx and Mempool of a peer: admit it, let go of the mutex ... *)
TakeTx(h, x) ==
  /\ Ready(h)
  /\ Pending(x)
  /\ live' = With(live, {x})
  /\ Goto(h, "mark")
  /\ UNCHANGED <<committed, owner, storing, dirty, publication, outbox>>

(* ... and only then note that there is something to persist. *)
MarkDirty(h) ==
  /\ thr[h].at = "mark"
  /\ dirty' = TRUE
  /\ Becomes(h, Idle)
  /\ UNCHANGED <<committed, live, owner, storing, publication, outbox>>

(* Block or SubmitBlock of a peer, or the RPC's submit_block: the mutex is *)
(* held until the block is saved and in memory.                            *)
TakeBlock(h, b) ==
  /\ Ready(h)
  /\ Extends(b, live.tip)
  /\ owner' = h
  /\ Becomes(h, Task("commit", "block", None, Onto(live, b, {})))
  /\ UNCHANGED <<committed, live, storing, dirty, publication, outbox>>

(* submit_transaction of the RPC: the chain itself is changed and saved. *)
SubmitTx(h, x) ==
  /\ Ready(h)
  /\ Pending(x)
  /\ owner' = h
  /\ live' = With(live, {x})
  /\ Becomes(h, Task("commit", "tx", None, With(live, {x})))
  /\ UNCHANGED <<committed, storing, dirty, publication, outbox>>

(* Chain of a peer: a copy is saved, then installed. *)
TakeChain(h, t) ==
  /\ Ready(h)
  /\ Adoptable(t, live.tip)
  /\ Becomes(h, Task("commit", "chain", live, Onto(live, t, {})))
  /\ UNCHANGED <<committed, live, owner, storing, dirty, publication, outbox>>

-----------------------------------------------------------------------------
(* A thread on a copy of the chain. *)

Save(w, c, job) == Becomes(w, Task("commit", job, None, c))

(* Faulty: the mutex is kept during the save. *)
PayLocked(w, x) ==
  /\ Ready(w)
  /\ x \in Own
  /\ Pending(x)
  /\ outbox' = outbox \cup {x}
  /\ owner' = w
  /\ Save(w, With(live, {x}), "copy")
  /\ UNCHANGED <<committed, live, storing, dirty, publication>>

(* The wallet makes a transaction: outbox first, then the save. *)
Pay(w, x) ==
  /\ Ready(w)
  /\ x \in Own
  /\ Pending(x)
  /\ outbox' = outbox \cup {x}
  /\ Save(w, With(live, {x}), "copy")
  /\ UNCHANGED <<committed, live, owner, storing, dirty, publication>>

(* A synchronisation session brings a transaction. *)
FetchTx(w, x) ==
  /\ Ready(w)
  /\ Pending(x)
  /\ Save(w, With(live, {x}), "copy")
  /\ UNCHANGED <<committed, live, owner, storing, dirty, publication, outbox>>

(* It brings a chain, or the miner of the GUI has found a block. *)
Advance(w, t) ==
  /\ Ready(w)
  /\ Adoptable(t, live.tip)
  /\ Save(w, Onto(live, t, {}), "copy")
  /\ UNCHANGED <<committed, live, owner, storing, dirty, publication, outbox>>

(* The equal-height re-anchor (BlockRelay has its conditions). *)
Reanchor(w, t) ==
  /\ Ready(w)
  /\ Mainnet
  /\ Sibling(t, live.tip)
  /\ Save(w, Onto(live, t, {}), "anchor")
  /\ UNCHANGED <<committed, live, owner, storing, dirty, publication, outbox>>

-----------------------------------------------------------------------------
(* save_chain and save_chain_verified_equal_work_reanchor. *)

Commit(p) ==
  /\ thr[p].at = "commit"
  /\ storing = None
  /\ Allowed(thr[p].cand, thr[p].job)
  /\ committed' = thr[p].cand
  /\ IF thr[p].job = "anchor"
     THEN Goto(p, "republish") /\ UNCHANGED storing
     ELSE Goto(p, "publish") /\ storing' = p
  /\ UNCHANGED <<live, owner, dirty, publication, outbox>>

(* Faulty: the block is in memory though it was not saved. *)
FailsInMemory(p) ==
  /\ thr[p].at = "commit"
  /\ storing = None
  /\ owner' = IF owner = p THEN None ELSE owner
  /\ live' = IF thr[p].job = "block" THEN thr[p].cand ELSE live
  /\ dirty' = (dirty \/ thr[p].job = "persist")
  /\ Becomes(p, Idle)
  /\ UNCHANGED <<committed, storing, publication, outbox>>

(* The save fails: its thread gives up, lets go of the chain's mutex, and  *)
(* in the loop of run_node tries again later.                              *)
Fails(p) ==
  /\ thr[p].at = "commit"
  /\ storing = None
  /\ owner' = IF owner = p THEN None ELSE owner
  /\ dirty' = (dirty \/ thr[p].job = "persist")
  /\ Becomes(p, Idle)
  /\ UNCHANGED <<committed, live, storing, publication, outbox>>

(* The candidate is behind the committed chain, or its sibling. *)
Refused(p) ==
  thr[p].at = "commit" /\ ~Allowed(thr[p].cand, thr[p].job) /\ Fails(p)

(* An I/O error before the commit takes effect. *)
WriteError(p) ==
  thr[p].at = "commit" /\ Allowed(thr[p].cand, thr[p].job) /\ Fails(p)

(* What a thread does after its save; one that saved a copy is done. *)
Saved(p) == IF thr[p].job = "copy" THEN Idle ELSE [thr[p] EXCEPT !.at = "saved"]

(* Faulty: wait for the mutex instead of trying it. *)
WaitAndPublish(p) ==
  /\ thr[p].at = "publish"
  /\ Free
  /\ live' = Applied(live, thr[p].cand)
  /\ storing' = None
  /\ Becomes(p, Saved(p))
  /\ UNCHANGED <<committed, owner, dirty, publication, outbox>>

(* publish_live_chain, still under the storage mutex: apply the candidate, *)
(* or leave it to the worker when somebody holds the chain's mutex (this   *)
(* thread itself may).                                                     *)
Publish(p) ==
  /\ thr[p].at = "publish"
  /\ IF Free
     THEN /\ live' = Applied(live, thr[p].cand)
          /\ UNCHANGED publication
     ELSE /\ deferred' = Deferred(thr[p].cand)
          /\ worker' = IF worker = "off" THEN "look" ELSE worker
          /\ UNCHANGED <<live, popped, rechecks>>
  /\ storing' = None
  /\ Becomes(p, Saved(p))
  /\ UNCHANGED <<committed, owner, dirty, outbox>>

Republish(p) ==
  /\ thr[p].at = "republish"
  /\ Free
  /\ live' = Reanchored(live, thr[p].cand)
  /\ Becomes(p, Idle)
  /\ UNCHANGED <<committed, owner, storing, dirty, publication, outbox>>

-----------------------------------------------------------------------------
(* After the save. *)

Ends(p, job) == thr[p].at = "saved" /\ thr[p].job = job /\ Becomes(p, Idle)

(* The peer handlers clear mempool_dirty, the RPC does not. *)
InstallBlock(h) ==
  /\ Ends(h, "block")
  /\ live' = thr[h].cand
  /\ owner' = None
  /\ dirty' \in {FALSE, dirty}
  /\ UNCHANGED <<committed, storing, publication, outbox>>

(* What the copy was made from may no longer be what is in memory. *)
InstallChain(h) ==
  /\ Free
  /\ Ends(h, "chain")
  /\ LET t == thr[h].cand.tip
     IN IF live.tip = thr[h].base.tip
        THEN live' = thr[h].cand /\ dirty' = FALSE
        ELSE IF Better(t, live.tip)
             THEN live' = Onto(live, t, {}) /\ dirty' = FALSE
             ELSE UNCHANGED <<live, dirty>>
  /\ UNCHANGED <<committed, owner, storing, publication, outbox>>

(* submit_transaction lets go of the mutex. *)
Unlock(h) ==
  /\ Ends(h, "tx")
  /\ owner' = None
  /\ UNCHANGED <<committed, live, storing, dirty, publication, outbox>>

-----------------------------------------------------------------------------
(* The loop of run_node. *)

(* The committed pointer differs from the chain in memory: load it. *)
LoadCommitted ==
  /\ thr[Main].at = "idle"
  /\ Free
  /\ live # committed
  /\ Becomes(Main, Task("merge", None, committed, None))
  /\ UNCHANGED <<committed, live, owner, storing, dirty, publication, outbox>>

(* The transactions of the loaded chain are admitted; the chain itself is  *)
(* taken when it is higher, or as high with another tip.                   *)
Merged(c, d) ==
  LET m == With(c, d.mem)
  IN IF Height[d.tip] > Height[c.tip] \/ (Height[d.tip] = Height[c.tip] /\ d.tip # c.tip)
     THEN Onto(m, d.tip, d.mem) ELSE m

(* Faulty: a transaction that only the memory has is not persisted. *)
MergeQuietly ==
  /\ thr[Main].at = "merge"
  /\ Free
  /\ live' = Merged(live, thr[Main].base)
  /\ Becomes(Main, Idle)
  /\ UNCHANGED <<committed, owner, storing, dirty, publication, outbox>>

Merge ==
  /\ thr[Main].at = "merge"
  /\ Free
  /\ live' = Merged(live, thr[Main].base)
  /\ dirty' = (dirty \/ live'.mem # thr[Main].base.mem)
  /\ Becomes(Main, Idle)
  /\ UNCHANGED <<committed, owner, storing, publication, outbox>>

(* A transaction leaves the outbox when its second confirmation is there. *)
Settled(x) ==
  \E h \in 0..(Height[live.tip] - 1) : x \in Mined[BlockAt[live.tip][h]]

(* Faulty: the heartbeat forgets what is not in the mempool. *)
ForgetfulHeartbeat ==
  /\ thr[Main].at = "idle"
  /\ Free
  /\ outbox' = outbox \cap live.mem
  /\ UNCHANGED <<committed, live, owner, storing, thr, dirty, publication>>

(* reconcile_pending_txs, every six seconds. *)
Heartbeat ==
  /\ thr[Main].at = "idle"
  /\ Free
  /\ outbox' = {x \in outbox : ~Settled(x)}
  /\ live' = With(live, outbox)
  /\ dirty' = (dirty \/ live' # live)
  /\ UNCHANGED <<committed, owner, storing, thr, publication>>

(* mempool_dirty.swap(false), at most every five seconds ... *)
TakeDirty ==
  /\ thr[Main].at = "idle"
  /\ dirty
  /\ dirty' = FALSE
  /\ Goto(Main, "snapshot")
  /\ UNCHANGED <<committed, live, owner, storing, publication, outbox>>

(* ... then a snapshot, if the mutex is free. *)
TakeSnapshot ==
  /\ thr[Main].at = "snapshot"
  /\ IF Free
     THEN Becomes(Main, Task("commit", "persist", None, live)) /\ UNCHANGED dirty
     ELSE Becomes(Main, Idle) /\ dirty' = TRUE
  /\ UNCHANGED <<committed, live, owner, storing, publication, outbox>>

(* The memory has moved on during the save, or cannot be looked at. *)
Persisted ==
  /\ Ends(Main, "persist")
  /\ dirty' = (dirty \/ ~Free \/ live # thr[Main].cand)
  /\ UNCHANGED <<committed, live, owner, storing, publication, outbox>>

-----------------------------------------------------------------------------
(* The worker of spawn_deferred_live_worker. *)

Look ==
  /\ worker = "look"
  /\ popped' = deferred
  /\ deferred' = None
  /\ worker' = IF deferred = None THEN "leave" ELSE "apply"
  /\ UNCHANGED <<committed, live, owner, storing, thr, dirty, rechecks, outbox>>

Apply ==
  /\ worker = "apply"
  /\ Free
  /\ live' = Applied(live, popped)
  /\ popped' = None
  /\ worker' = "look"
  /\ UNCHANGED <<committed, owner, storing, thr, dirty, deferred, rechecks, outbox>>

(* Faulty: what was queued while the worker was leaving is not looked for. *)
LeaveForGood ==
  /\ worker = "leave"
  /\ worker' = "off"
  /\ UNCHANGED <<committed, live, owner, storing, thr, dirty, deferred, popped, rechecks, outbox>>

Leave ==
  /\ worker = "leave"
  /\ worker' = "off"
  /\ rechecks' = TRUE
  /\ UNCHANGED <<committed, live, owner, storing, thr, dirty, deferred, popped, outbox>>

Recheck ==
  /\ rechecks
  /\ rechecks' = FALSE
  /\ worker' = IF deferred # None /\ worker = "off" THEN "look" ELSE worker
  /\ UNCHANGED <<committed, live, owner, storing, thr, dirty, deferred, popped, outbox>>

-----------------------------------------------------------------------------
(* Another process saves a chain it has loaded at some time. *)
OtherProcess(t, m) ==
  /\ Others
  /\ storing = None
  /\ Allowed([tip |-> t, mem |-> m], "copy")
  /\ committed' = [tip |-> t, mem |-> m \ Confirmed(t)]
  /\ UNCHANGED <<live, owner, storing, thr, dirty, publication, outbox>>

(* The process ends and starts again: disk and outbox survive. *)
Crash ==
  /\ live' = committed
  /\ owner' = None
  /\ storing' = None
  /\ thr' = [p \in Thread |-> Idle]
  /\ dirty' = FALSE
  /\ deferred' = None
  /\ worker' = "off"
  /\ popped' = None
  /\ rechecks' = FALSE
  /\ UNCHANGED <<committed, outbox>>

-----------------------------------------------------------------------------
(* New work for the process, and what goes wrong. *)
Arrives ==
  \/ \E h \in Handler, x \in Tx : TakeTx(h, x) \/ SubmitTx(h, x)
  \/ \E h \in Handler, t \in Block : TakeBlock(h, t) \/ TakeChain(h, t)
  \/ \E w \in Writer, x \in Tx : Pay(w, x) \/ FetchTx(w, x)
  \/ \E w \in Writer, t \in Block : Advance(w, t) \/ Reanchor(w, t)
  \/ \E p \in Thread : WriteError(p)
  \/ \E t \in Block, m \in SUBSET Tx : OtherProcess(t, m)
  \/ Crash

Input == inputs < MaxInput /\ inputs' = inputs + 1 /\ Arrives

(* A thread goes on with what it is doing. *)
Proceed(p) ==
  /\ \/ Commit(p) \/ Refused(p) \/ Publish(p) \/ Republish(p)
     \/ p \in Handler /\ (MarkDirty(p) \/ InstallBlock(p) \/ InstallChain(p) \/ Unlock(p))
     \/ p = Main /\ (Merge \/ TakeSnapshot \/ Persisted)
  /\ UNCHANGED inputs

CheckCommitted == LoadCommitted /\ UNCHANGED inputs
KeepWallet == Heartbeat /\ UNCHANGED inputs
StartPersist == TakeDirty /\ UNCHANGED inputs
Worker == (Look \/ Apply \/ Leave \/ Recheck) /\ UNCHANGED inputs

Next ==
  \/ Input
  \/ \E p \in Thread : Proceed(p)
  \/ CheckCommitted \/ KeepWallet \/ StartPersist
  \/ Worker

Spec == Init /\ [][Next]_vars

(* Threads are scheduled and get a mutex they wait for, and the loop of    *)
(* run_node keeps coming round.                                            *)
Fairness ==
  /\ \A p \in Thread : SF_vars(Proceed(p))
  /\ SF_vars(CheckCommitted)
  /\ SF_vars(KeepWallet)
  /\ SF_vars(StartPersist)
  /\ SF_vars(Worker)

FairSpec == Spec /\ Fairness

-----------------------------------------------------------------------------
TaskType ==
  [at : {"idle", "mark", "commit", "publish", "republish", "saved", "merge", "snapshot"},
   job : {"block", "tx", "chain", "copy", "anchor", "persist", None},
   base : Chain \cup {None}, cand : Chain \cup {None}]

TypeOK ==
  /\ committed \in Chain
  /\ live \in Chain
  /\ owner \in Handler \cup {None}
  /\ storing \in Thread \cup {None}
  /\ thr \in [Thread -> TaskType]
  /\ dirty \in BOOLEAN
  /\ deferred \in Chain \cup {None}
  /\ worker \in {"off", "look", "apply", "leave"}
  /\ popped \in Chain \cup {None}
  /\ rechecks \in BOOLEAN
  /\ outbox \subseteq Own
  /\ inputs \in 0..MaxInput

(* "A disk error can never leave memory one block ahead of durable         *)
(* storage" (connect_block_persist_atomic): whatever the threads, the      *)
(* worker and failing saves do in between, the chain in memory has no more *)
(* work than the committed one.                                            *)
MemoryNotAhead == Work[live.tip] <= Work[committed.tip]

(* No thread keeps the storage mutex or the chain's mutex for ever, though *)
(* block handlers take the storage mutex while they hold the chain's, and  *)
(* saves offer their chain to the memory under the storage mutex.          *)
MutexesReleased == []<>(storing = None) /\ []<>(owner = None)

(* A chain that was saved while the mutex was busy is published, also when *)
(* it is queued at the moment the worker leaves (the insertion/removal     *)
(* race of spawn_deferred_live_worker).                                    *)
QueueIsPublished == deferred # None ~> deferred = None

(* Once nothing new comes in, memory and disk agree on chain and mempool,  *)
(* and stay so, also after another process has committed: the memory takes  *)
(* a chain it did not save, and every transaction that only one of the two *)
(* had is in both ("restart durability and the lightweight identity check  *)
(* converge", the loop of run_node).                                       *)
Converges == <>[](live = committed)

(* A transaction of the wallet stays pending until it is confirmed, though *)
(* saves by threads with older copies drop it from the memory and the disk.*)
OutboxReturns == \A x \in Own : (x \in outbox /\ x \notin live.mem) ~>
  (x \in live.mem \cup Confirmed(live.tip))
=============================================================================

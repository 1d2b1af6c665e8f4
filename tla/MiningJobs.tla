------------------------------ MODULE MiningJobs ------------------------------
(***************************************************************************)
(* Mining over the embedded RPC service (HF122, HF123): templates are      *)
(* handed out as jobs, kept in a bounded cache, and a solved job comes     *)
(* back as a block.  Every request has a thread of its own; the cache and  *)
(* the chain have a mutex each, held for one step of a request.  The       *)
(* clients are reference workers (qub_rpc_miner) and strangers, who send   *)
(* any job they were ever given, late or twice.                            *)
(*                                                                         *)
(* A chain is the sequence of its blocks, and stands for the hash of its   *)
(* tip as well; a block of this service is its job's number and the nonce. *)
(***************************************************************************)
EXTENDS Lists

CONSTANTS Threads,                     \* request threads: rpc.max_connections
          Miners,                      \* reference workers
          Golden,                      \* the nonces that solve a header
          JobTtl,                      \* rpc.job_ttl_secs
          MaxCached,                   \* rpc.max_cached_jobs
          Batch,                       \* rpc.max_template_batch, and the miners' --batch
          IssueBound, TipBound, TickBound   \* bounds of the model

ASSUME JobsAssumption ==
    /\ JobTtl \in Nat \ {0} /\ Batch \in Nat \ {0}
    /\ MaxCached \in Nat /\ MaxCached >= Batch     \* Settings::validate
    /\ IssueBound \in Nat /\ TipBound \in Nat /\ TickBound \in Nat

VARIABLES tick, tip,
          issued,       \* every job ever handed out
          cache,        \* JobCache: jobs and order, oldest first
          thread,       \* the request a thread serves
          miner,        \* what a reference worker is doing
          accepted      \* the jobs whose block this service connected

jobsVars == <<tick, tip, issued, cache, thread, miner, accepted>>

FreeThread == [at |-> "free", job |-> {}, nonce |-> {}, client |-> {}]
NewRound == [at |-> "idle", jobs |-> {}, found |-> <<>>, chosen |-> {}]

-----------------------------------------------------------------------------
(* JobCache *)

\* A prune that takes from the wrong end of the order.
PrunedFromBack(jobs) ==
    LET live == Where(jobs, LAMBDA j : j.expires >= tick)
    IN  IF Len(live) >= MaxCached THEN SubSeq(live, 1, MaxCached - 1) ELSE live

\* prune: expired jobs go, then the oldest until one more would fit.
Pruned(jobs) ==
    LET live == Where(jobs, LAMBDA j : j.expires >= tick)
        excess == Len(live) - (MaxCached - 1)
    IN  IF excess > 0 THEN SubSeq(live, 1 + excess, Len(live)) ELSE live

Inserted(jobs, j) == Append(Pruned(jobs), j)

InCache(jobs, j) == \E i \in DOMAIN jobs : jobs[i] = j

WithoutParent(jobs, parent) == Where(jobs, LAMBDA j : j.parent # parent)

\* block_with_nonce, and the hash its block makes the tip's.
BlockOf(j, n) == Append(j.parent, [job |-> j.extra, nonce |-> n])

-----------------------------------------------------------------------------
JobsInit ==
    /\ tick = 0 /\ tip = <<>> /\ issued = {} /\ cache = <<>> /\ accepted = {}
    /\ thread = [t \in Threads |-> FreeThread]
    /\ miner = [m \in Miners |-> NewRound]

\* create_templates, under the chain's mutex: `count' jobs on the present tip,
\* each with an extra nonce of its own, each put into the cache.
NewJobs(count) ==
    [i \in 1..count |->
        [extra |-> Cardinality(issued) + i, parent |-> tip, expires |-> tick + JobTtl]]

CreateTemplates(count) ==
    LET jobs == NewJobs(count)
    IN  /\ Cardinality(issued) + count <= IssueBound
        /\ issued' = issued \cup {jobs[i] : i \in 1..count}
        /\ cache' = Folded(Inserted, cache, jobs)

\* A stranger asks for a batch; the count is clamped to the configured one.
StrangerFetches ==
    \E count \in 1..Batch :
        /\ CreateTemplates(count)
        /\ UNCHANGED <<tick, tip, thread, miner, accepted>>

\* The chain moves without this service: the cache is not told.
ChainMoves ==
    \E keep \in 0..Len(tip), grown \in 1..2 :
        /\ keep + grown > Len(tip) /\ keep + grown <= TipBound
        /\ tip' = SubSeq(tip, 1, keep) \o [i \in 1..grown |-> [job |-> 0, nonce |-> 0]]
        /\ UNCHANGED <<tick, issued, cache, thread, miner, accepted>>

Tick ==
    /\ tick < TickBound /\ tick' = tick + 1
    /\ UNCHANGED <<tip, issued, cache, thread, miner, accepted>>

-----------------------------------------------------------------------------
(* submit_block, step by step.  A request of a miner ends with its reply:   *)
(* rpc_json fails on every status but 2xx, and the worker exits.            *)

Replied(t, ok) ==
    /\ thread' = [thread EXCEPT ![t] = FreeThread]
    /\ miner' = [m \in Miners |->
                    IF m \in thread[t].client
                    THEN IF ok THEN NewRound ELSE [NewRound EXCEPT !.at = "exited"]
                    ELSE miner[m]]

\* A free thread takes the request (503 without one) and looks the job up:
\* JobCache::get prunes first, 404 for a job that is not there.
LookUp(t, j, n, client) ==
    /\ thread[t].at = "free"
    /\ cache' = Pruned(cache)
    /\ InCache(cache', j)
    /\ thread' = [thread EXCEPT ![t] =
                     [at |-> "verifies", job |-> {j}, nonce |-> {n}, client |-> client]]

LookUpFails(t, j) ==
    /\ thread[t].at = "free"
    /\ cache' = Pruned(cache)
    /\ ~InCache(cache', j)
    /\ UNCHANGED thread

StrangerSubmits(t) ==
    \E j \in issued, n \in Golden :
        /\ LookUp(t, j, n, {}) \/ LookUpFails(t, j)
        /\ UNCHANGED <<tick, tip, issued, miner, accepted>>

\* 409 expired, 422 for a nonce that solves nothing, 409 when the live-tip
\* guard has a reason to wait (it asks peers), else the block is complete.
Verify(t) ==
    /\ thread[t].at = "verifies"
    /\ \/ Replied(t, FALSE)
       \/ /\ \A j \in thread[t].job : j.expires >= tick
          /\ thread' = [thread EXCEPT ![t].at = "connects"]
          /\ UNCHANGED miner
    /\ UNCHANGED <<tick, tip, issued, cache, accepted>>

\* Under the chain's mutex: the block may be the tip already; the tip may have
\* moved (stale_job); connecting and persisting it may fail.
Connect(t) ==
    /\ thread[t].at = "connects"
    /\ \E j \in thread[t].job, n \in thread[t].nonce :
          \/ /\ tip = BlockOf(j, n)
             /\ thread' = [thread EXCEPT ![t].at = "settles"]
             /\ UNCHANGED <<tip, miner, accepted>>
          \/ /\ tip # BlockOf(j, n)
             /\ Replied(t, FALSE)
             /\ UNCHANGED <<tip, accepted>>
          \/ /\ tip = j.parent
             /\ tip' = BlockOf(j, n)
             /\ accepted' = accepted \cup {j}
             /\ thread' = [thread EXCEPT ![t].at = "settles"]
             /\ UNCHANGED miner
    /\ UNCHANGED <<tick, issued, cache>>

\* The block is relayed, the jobs on its parent are dropped, 200.
Settle(t) ==
    /\ thread[t].at = "settles"
    /\ \E j \in thread[t].job : cache' = WithoutParent(cache, j.parent)
    /\ Replied(t, TRUE)
    /\ UNCHANGED <<tick, tip, issued, accepted>>

-----------------------------------------------------------------------------
(* The reference worker: one thread per template of its batch. *)

\* A round starts with a batch; any refusal (rate limit, no thread, no
\* template, no connection) ends the worker.
StartRound(m) ==
    /\ miner[m].at = "idle"
    /\ \/ /\ CreateTemplates(Batch)
          /\ miner' = [miner EXCEPT ![m] = [NewRound EXCEPT !.at = "mines",
                           !.jobs = {NewJobs(Batch)[i] : i \in 1..Batch}]]
       \/ /\ miner' = [miner EXCEPT ![m].at = "exited"]
          /\ UNCHANGED <<issued, cache>>
    /\ UNCHANGED <<tick, tip, thread, accepted>>

\* mine_template: a thread solves its header, not later than a second before
\* the job expires, and tells the others to stop.  Those may be past their own
\* look at the flag.
Solves(m, j) ==
    /\ miner[m].at \in {"mines", "joins"}
    /\ j \in miner[m].jobs /\ tick + 1 < j.expires
    /\ \A i \in DOMAIN miner[m].found : miner[m].found[i].job # j
    /\ \E n \in Golden :
          miner' = [miner EXCEPT ![m].found = Append(@, [job |-> j, nonce |-> n])]
    /\ UNCHANGED <<tick, tip, issued, cache, thread, accepted>>

\* The round ends with the first nonce received; or without one, at the
\* refresh deadline, two seconds before the expiry, or when all threads are
\* through: what is found after that look at the channel is not looked at.
EndRound(m) ==
    /\ miner[m].at = "mines"
    /\ \/ /\ miner[m].found # <<>>
          /\ miner' = [miner EXCEPT ![m].at = "joins", ![m].chosen = {Head(miner[m].found)}]
       \/ miner' = [miner EXCEPT ![m].at = "joins"]
    /\ UNCHANGED <<tick, tip, issued, cache, thread, accepted>>

\* All threads are joined: the chosen nonce is submitted, or a new round begins.
Submit(m) ==
    /\ miner[m].at = "joins"
    /\ \/ /\ miner[m].chosen = {}
          /\ miner' = [miner EXCEPT ![m] = NewRound]
          /\ UNCHANGED <<cache, thread>>
       \/ \E f \in miner[m].chosen, t \in Threads :
             /\ LookUp(t, f.job, f.nonce, {m})
             /\ miner' = [miner EXCEPT ![m] = [NewRound EXCEPT !.at = "submits"]]
       \/ \E f \in miner[m].chosen, t \in Threads :
             /\ LookUpFails(t, f.job)
             /\ miner' = [miner EXCEPT ![m] = [NewRound EXCEPT !.at = "exited"]]
       \/ /\ miner[m].chosen # {}    \* refused or not connected
          /\ miner' = [miner EXCEPT ![m] = [NewRound EXCEPT !.at = "exited"]]
          /\ UNCHANGED <<cache, thread>>
    /\ UNCHANGED <<tick, tip, issued, accepted>>

JobsNext ==
    \/ StrangerFetches \/ ChainMoves \/ Tick
    \/ \E t \in Threads :
          StrangerSubmits(t) \/ Verify(t) \/ Connect(t) \/ Settle(t)
    \/ \E m \in Miners :
          \/ StartRound(m) \/ EndRound(m) \/ Submit(m)
          \/ \E j \in issued : Solves(m, j)

JobsSpec == JobsInit /\ [][JobsNext]_jobsVars

-----------------------------------------------------------------------------
\* A job that was handed out is answered for: it stays in the cache until it
\* expires, a block of this service settles its parent, or at least
\* MaxCached - 1 younger jobs push it out (rpc.rs JobCache; a look-up makes room
\* for an insertion that never comes, hence the - 1).  The cache keeps its
\* limit.  And however requests interleave, two jobs on one parent are never
\* both accepted, so that every accepted block was the child of the tip its
\* template was made on.
Outdated(j) == j.expires < tick \/ \E a \in accepted : a.parent = j.parent
Younger(j) == {k \in issued : k.extra > j.extra}

JobsHonoured ==
    /\ \A j \in issued :
          InCache(cache, j) \/ Outdated(j) \/ Cardinality(Younger(j)) >= MaxCached - 1
    /\ Len(cache) <= MaxCached
    /\ \A a, b \in accepted : a.parent = b.parent => a = b

=============================================================================

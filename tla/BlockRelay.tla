----------------------------- MODULE BlockRelay -----------------------------
(***************************************************************************)
(* HF125 acknowledged block delivery and the HF126 equal-height re-anchor  *)
(* of src/p2p.rs, in one node process.  A block this node finds is         *)
(* committed, then broadcast: the broadcast writes                         *)
(* pending-block-relay.json, submits the block to every peer, and removes  *)
(* the file when the report counts as delivered.  A worker retries what    *)
(* the file names.  Blocks that peers push are forwarded by the same       *)
(* broadcast, without a record of their own.  The catch-up worker may      *)
(* replace a tip whose record is still there by an equal-work sibling.     *)
(*                                                                         *)
(* Broadcasts exclude each other (hf125_block_relay_lock); the retry and   *)
(* the re-anchor read and remove the file without that lock.  Requests and *)
(* answers may be lost: a peer that does not answer before the deadline is *)
(* one without an answer, whatever it did with the block.                  *)
(***************************************************************************)
EXTENDS Integers, FiniteSets

CONSTANTS
  Block,    \* block hashes; a block stands for the chain it ends
  Genesis,  \* the block every chain starts with
  Height,   \* Height[t]     : height of t
  Work,     \* Work[t]       : cumulative work of the chain ending in t
  BlockAt,  \* BlockAt[t][h] : the ancestor of t at height h
  Peer,     \* the peers a broadcast goes to
  Official, \* those that are official seeds or bootnodes
  Web,      \* the official web site, which publishes tip, tail and snapshot
  Mainnet,  \* network.name = "mainnet"
  Ack,      \* an "accepted" or "already_known" BlockAck
  None      \* no file, no thread, no answer

ASSUME TreeAssumption ==
  /\ Genesis \in Block
  /\ Height \in [Block -> Nat]
  /\ Work \in [Block -> Nat]
  /\ Height[Genesis] = 0
  /\ \A t \in Block :
       /\ BlockAt[t] \in [0..Height[t] -> Block]
       /\ BlockAt[t][0] = Genesis /\ BlockAt[t][Height[t]] = t
       /\ \A h \in 0..Height[t] :
            /\ Height[BlockAt[t][h]] = h
            /\ h < Height[t] => Work[BlockAt[t][h]] < Work[t]

ASSUME NetworkAssumption ==
  /\ Official \subseteq Peer
  /\ IsFiniteSet(Peer)
  /\ Web \notin Peer
  /\ Mainnet \in BOOLEAN
  /\ {Ack, None} \cap (Block \cup Peer) = {}
  /\ Ack # None

VARIABLES
  found,   \* blocks somebody has found
  at,      \* at[p]: tip of peer p, and the tip the web site publishes
  tip,     \* tip of the local chain, committed and live
  record,  \* pending-block-relay.json
  jobs,    \* threads that wait for the relay mutex to broadcast a block
  active,  \* the broadcast that holds the mutex
  ans,     \* its answers so far: Ack, or the tip of a stale_parent answer
  retry,   \* the record the retry worker has loaded
  anchor,  \* the re-anchor in progress
  owed,    \* history: blocks of the local chain a record was written for
  told,    \* history: <<b, t, p>>, p answered b with stale_parent at tip t
  seeded,  \* history: blocks that have been on the chain of a seed
  crossed  \* history: a thread took away the tip's record while it was
           \* working on another block

relay == <<record, jobs, active, ans, retry, anchor>>
history == <<owed, told, seeded, crossed>>
vars == <<found, at, tip, record, jobs, active, ans, retry, anchor,
          owed, told, seeded, crossed>>

OnChain(b, t) == Height[b] <= Height[t] /\ BlockAt[t][Height[b]] = b
Parent(b) == BlockAt[b][Height[b] - 1]
Extends(b, t) == b # Genesis /\ Parent(b) = t

(* try_adopt_peer_chain, without the preference for a peer at equal work,  *)
(* which save_chain refuses.                                               *)
Better(t, u) ==
  \/ Work[t] > Work[u]
  \/ Work[t] = Work[u] /\ Height[t] > Height[u]

(* The fields of the record that decide something: the block, its height,  *)
(* and the stale-parent evidence, with the counts as the peers behind them.*)
Record == [block : Block, height : Nat,
           stale : Block \cup {None}, from : SUBSET Peer]
ASSUME RecordAssumption == None \notin Record
Job == [kind : {"own", "push", "retry"}, block : Block,
        source : Peer \cup {None}]
Tracks(j) == j.kind # "push"
Asked(j) == Peer \ {j.source}
NoAnswers == [p \in Peer |-> None]

Init ==
  /\ found = {Genesis}
  /\ at = [p \in Peer \cup {Web} |-> Genesis]
  /\ tip = Genesis
  /\ record = None
  /\ jobs = {}
  /\ active = None
  /\ ans = NoAnswers
  /\ retry = None
  /\ anchor = None
  /\ owed = {}
  /\ told = {}
  /\ seeded = {Genesis}
  /\ crossed = FALSE

-----------------------------------------------------------------------------
(* Blocks and chains. *)

MoveTip(t) ==
  /\ tip' = t
  /\ owed' = {b \in owed : OnChain(b, t)}

(* A miner of this node finds b: connect_block_persist_atomic, then        *)
(* broadcast_block_confirmed.                                              *)
Mine(b) ==
  /\ b \notin found
  /\ Extends(b, tip)
  /\ found' = found \cup {b}
  /\ MoveTip(b)
  /\ jobs' = jobs \cup {[kind |-> "own", block |-> b, source |-> None]}
  /\ UNCHANGED <<at, record, active, ans, retry, anchor, told, seeded, crossed>>

(* p sends Block or SubmitBlock and it extends the tip. *)
Push(p, b) ==
  /\ b \in found
  /\ OnChain(b, at[p])
  /\ Extends(b, tip)
  /\ MoveTip(b)
  /\ jobs' = jobs \cup {[kind |-> "push", block |-> b, source |-> p]}
  /\ UNCHANGED <<found, at, record, active, ans, retry, anchor, told, seeded, crossed>>

(* Synchronisation with p adopts its chain (try_adopt_peer_chain). *)
Adopt(p) ==
  /\ Better(at[p], tip)
  /\ MoveTip(at[p])
  /\ UNCHANGED <<found, at, relay, told, seeded, crossed>>

(* The peers whose acknowledgement counts for a block of this node. *)
Seeds == IF Official = {} THEN Peer ELSE Official

(* Peer p's tip becomes t. *)
PeerTip(p, t) ==
  /\ at' = [at EXCEPT ![p] = t]
  /\ seeded' = IF p \in Seeds THEN seeded \cup {b \in Block : OnChain(b, t)}
               ELSE seeded

PeerFinds(p, b) ==
  /\ b \notin found
  /\ Extends(b, at[p])
  /\ found' = found \cup {b}
  /\ PeerTip(p, b)
  /\ UNCHANGED <<tip, relay, owed, told, crossed>>

(* p gets a better chain from another peer or from this node. *)
PeerAdopts(p, t) ==
  /\ t \in {tip} \cup {at[q] : q \in Peer}
  /\ Better(t, at[p])
  /\ PeerTip(p, t)
  /\ UNCHANGED <<found, tip, relay, owed, told, crossed>>

WebPublishes(p) ==
  /\ at[Web] # at[p]
  /\ at' = [at EXCEPT ![Web] = at[p]]
  /\ UNCHANGED <<found, tip, relay, history>>

-----------------------------------------------------------------------------
(* A broadcast. *)

(* The tip's record goes away, or is replaced, in a step about block b. *)
Takes(b) == record # None /\ record.block = tip /\ b # tip

(* Faulty: a new record starts with a report nobody made. *)
NewRecordWithReport(b, h) ==
  [block |-> b, height |-> h, stale |-> None, from |-> {None}]

NewRecord(b, h) ==
  [block |-> b, height |-> h, stale |-> None, from |-> {}]

(* Faulty: the evidence outlives its block. *)
ScheduledOverOld(b, h) ==
  IF record # None
  THEN [record EXCEPT !.block = b, !.height = h]
  ELSE NewRecord(b, h)

(* schedule_pending_block_relay keeps what an earlier attempt for the same *)
(* block has learned.                                                      *)
Scheduled(b, h) ==
  IF record # None /\ record.block = b
  THEN [record EXCEPT !.height = h]
  ELSE NewRecord(b, h)

(* The mutex is free: the thread loads the chain and schedules the block.  *)
Enter(j) ==
  LET b == j.block
      h == IF OnChain(b, tip) THEN Height[b] ELSE Height[tip] + 1
  IN /\ active = None
     /\ j \in jobs
     /\ jobs' = jobs \ {j}
     /\ active' = [job |-> j, carry |-> tip, got |-> None]
     /\ ans' = NoAnswers
     /\ IF Tracks(j)
        THEN /\ record' = Scheduled(b, h)
             /\ owed' = owed \cup {x \in {b} : OnChain(x, tip)}
             /\ crossed' = (crossed \/ Takes(b))
        ELSE UNCHANGED <<record, owed, crossed>>
     /\ UNCHANGED <<found, at, tip, retry, anchor, told, seeded>>

Collecting == active # None /\ active.got = None

(* What p's chain is after the exchange about b: it connects b, or the     *)
(* suffix or overlap window it was sent because its tip was lower.         *)
AfterSubmit(p, b, carry) ==
  IF OnChain(b, at[p]) THEN at[p]
  ELSE IF Extends(b, at[p]) THEN b
  ELSE IF Height[at[p]] < Height[carry] /\ Better(carry, at[p]) THEN carry
  ELSE at[p]

(* submit_block_to_peer, and its answer arrives in time.  An exchange that *)
(* fails leaves ans[p] = None; that p kept the block then is PeerAdopts.   *)
Answer(p) ==
  /\ Collecting
  /\ p \in Asked(active.job)
  /\ ans[p] = None
  /\ LET b == active.job.block
         t == AfterSubmit(p, b, active.carry)
         reply == IF OnChain(b, t) THEN Ack ELSE t
     IN /\ PeerTip(p, t)
        /\ ans' = [ans EXCEPT ![p] = reply]
        /\ told' = told \cup {x \in {<<b, t, p>>} : reply # Ack}
  /\ UNCHANGED <<found, tip, record, jobs, active, retry, anchor, owed, crossed>>

Acknowledged == {p \in Peer : ans[p] = Ack}

(* Faulty: any acknowledgement will do. *)
DeliveredToAnyone(j) == Acknowledged # {}

(* BlockRelayReport::delivered. *)
Delivered(j) ==
  IF Asked(j) \cap Official # {}
  THEN Acknowledged \cap Official # {}
  ELSE Acknowledged # {}

(* The stale-parent view with the most official, then the most reports. *)
Reports(t) == {p \in Peer : ans[p] = t}
Score(t) == 100 * Cardinality(Reports(t) \cap Official) + Cardinality(Reports(t))
StaleViews == {t \in Block \ {Genesis} : Reports(t) # {}}
BestViews == {t \in StaleViews : \A u \in StaleViews : Score(u) <= Score(t)}

Leave ==
  /\ active' = None
  /\ ans' = NoAnswers
  /\ retry' = IF active.job.kind = "retry" THEN None ELSE retry

(* Everyone has answered or the deadline is over, and the report is        *)
(* delivered: the record is removed.                                       *)
CloseDelivered ==
  /\ Collecting
  /\ Delivered(active.job)
  /\ record' = None
  /\ crossed' = (crossed \/ Takes(active.job.block))
  /\ Leave
  /\ UNCHANGED <<found, at, tip, jobs, anchor, owed, told, seeded>>

(* It is not: the record is loaded to be brought up to date. *)
CloseUndelivered ==
  /\ Collecting
  /\ ~Delivered(active.job)
  /\ IF Tracks(active.job) /\ record # None /\ record.block = active.job.block
     THEN active' = [active EXCEPT !.got = record] /\ UNCHANGED <<ans, retry>>
     ELSE Leave
  /\ UNCHANGED <<found, at, tip, record, jobs, anchor, history>>

(* The loaded record is written back with what was learned. *)
WriteRecord ==
  /\ active # None
  /\ active.got # None
  /\ IF BestViews = {}
     THEN record' = active.got
     ELSE \E t \in BestViews :
            record' = [active.got EXCEPT !.stale = t, !.from = Reports(t)]
  /\ crossed' = (crossed \/ Takes(active.job.block))
  /\ Leave
  /\ UNCHANGED <<found, at, tip, jobs, anchor, owed, told, seeded>>

-----------------------------------------------------------------------------
(* The retry worker, one at a time (HF125_BLOCK_RETRY_RUNNING). *)

RetryQueued ==
  \/ \E j \in jobs : j.kind = "retry"
  \/ active # None /\ active.job.kind = "retry"

RetryLoad ==
  /\ retry = None
  /\ record # None
  /\ retry' = [block |-> record.block, height |-> record.height]
  /\ UNCHANGED <<found, at, tip, record, jobs, active, ans, anchor, history>>

(* The loaded block is the tip, at the height of the record. *)
RetryWanted == Height[tip] = retry.height /\ tip = retry.block

(* Replaced or buried: the file is removed, whatever it holds by now. *)
RetryClear ==
  /\ retry # None
  /\ ~RetryQueued
  /\ ~RetryWanted
  /\ record' = None
  /\ crossed' = (crossed \/ Takes(retry.block))
  /\ retry' = None
  /\ UNCHANGED <<found, at, tip, jobs, active, ans, anchor, owed, told, seeded>>

(* Enough time has passed since the last attempt. *)
RetrySend ==
  /\ retry # None
  /\ ~RetryQueued
  /\ RetryWanted
  /\ jobs' = jobs \cup {[kind |-> "retry", block |-> retry.block, source |-> None]}
  /\ UNCHANGED <<found, at, tip, record, active, ans, retry, anchor, history>>

-----------------------------------------------------------------------------
(* The equal-height re-anchor, sync_official_http_tail_reanchor_hf114. *)

(* pending_block_relay_waiting. *)
Waiting == record # None /\ record.block = tip /\ record.height = Height[tip]

Sibling(t, of) == Height[t] = Height[of] /\ t # of

(* hf126_verified_equal_height_competing_tip asks the web site, the        *)
(* official seeds and the peers in S; the record's own evidence is added.  *)
Recorded(t) == IF record.stale = t THEN record.from ELSE {}
HttpMatches(t, S) == Cardinality({p \in S \cap {Web} : at[p] = t})
OfficialMatches(t, S) ==
  Cardinality(Recorded(t) \cap Official)
    + Cardinality({p \in S \cap Official : at[p] = t})
DirectMatches(t, S) ==
  Cardinality(Recorded(t) \ Official) + Cardinality({p \in S \cap Peer : at[p] = t})
Confirmed(t, S) ==
  \/ HttpMatches(t, S) > 0 /\ OfficialMatches(t, S) > 0
  \/ OfficialMatches(t, S) >= 2
  \/ HttpMatches(t, S) > 0 /\ DirectMatches(t, S) >= 2
Sources(t, S) == Recorded(t) \cup {p \in S : at[p] = t}

Gather(t, S) ==
  /\ anchor = None
  /\ Mainnet
  /\ Waiting
  /\ Sibling(t, tip)
  /\ Confirmed(t, S)
  /\ anchor' = [stage |-> "tail", local |-> tip, target |-> t,
                sources |-> Sources(t, S)]
  /\ UNCHANGED <<found, at, tip, record, jobs, active, ans, retry, history>>

(* Faulty: the storage layer knows no re-anchor. *)
CommitsBetter(t, reanchor) == Better(t, tip)

(* What the Fast Chain Engine lets replace the committed tip: a better     *)
(* chain, or under the re-anchor policy an equal-work sibling.             *)
Commits(t, reanchor) ==
  IF reanchor THEN Work[t] = Work[tip] /\ Sibling(t, tip) ELSE Better(t, tip)

AnchorTo(t) ==
  /\ MoveTip(t)
  /\ anchor' = [anchor EXCEPT !.stage = "saved"]

(* The published tail ends in the confirmed tip, and is saved. *)
SaveTail ==
  /\ anchor # None
  /\ anchor.stage = "tail"
  /\ at[Web] = anchor.target
  /\ Work[anchor.target] >= Work[anchor.local]
  /\ Commits(anchor.target, Work[anchor.target] = Work[anchor.local])
  /\ AnchorTo(anchor.target)
  /\ UNCHANGED <<found, at, record, jobs, active, ans, retry, told, seeded, crossed>>

(* No tail fits: the local chain is loaded again for the full snapshot. *)
LoadForSnapshot ==
  /\ anchor # None
  /\ anchor.stage = "tail"
  /\ anchor' = [anchor EXCEPT !.stage = "snapshot", !.local = tip]
  /\ UNCHANGED <<found, at, tip, record, jobs, active, ans, retry, history>>

(* The hint only rules out a lower snapshot and a sibling of the confirmed *)
(* tip.                                                                    *)
Hinted(t) ==
  /\ Height[t] >= Height[anchor.target]
  /\ Height[t] = Height[anchor.target] => t = anchor.target

SaveSnapshot ==
  /\ anchor # None
  /\ anchor.stage = "snapshot"
  /\ LET t == at[Web]
     IN /\ Hinted(t)
        /\ \/ /\ Sibling(t, anchor.local)
              /\ Work[t] >= Work[anchor.local]
              /\ Commits(t, Work[t] = Work[anchor.local])
              /\ AnchorTo(t)
           \/ /\ Height[t] # Height[anchor.local]
              /\ Commits(t, FALSE)
              /\ MoveTip(t)
              /\ anchor' = None
  /\ UNCHANGED <<found, at, record, jobs, active, ans, retry, told, seeded, crossed>>

(* After the save, clear_pending_block_relay. *)
ClearAfterAnchor ==
  /\ anchor # None
  /\ anchor.stage = "saved"
  /\ record' = None
  /\ crossed' = (crossed \/ Takes(anchor.local))
  /\ anchor' = None
  /\ UNCHANGED <<found, at, tip, jobs, active, ans, retry, owed, told, seeded>>

(* A download, the replay or the save fails. *)
AnchorFails ==
  /\ anchor # None
  /\ anchor.stage # "saved"
  /\ anchor' = None
  /\ UNCHANGED <<found, at, tip, record, jobs, active, ans, retry, history>>

(* The process ends and starts again: the chain and the file survive. *)
Crash ==
  /\ jobs' = {}
  /\ active' = None
  /\ ans' = NoAnswers
  /\ retry' = None
  /\ anchor' = None
  /\ UNCHANGED <<found, at, tip, record, history>>

-----------------------------------------------------------------------------
Find == (\E b \in Block : Mine(b)) \/ (\E p \in Peer, b \in Block : PeerFinds(p, b))
Sync == \E p \in Peer : Adopt(p)
Retry == RetryLoad \/ RetryClear \/ RetrySend
Close == CloseDelivered \/ CloseUndelivered \/ WriteRecord
GatherAny == \E t \in Block, S \in SUBSET (Peer \cup {Web}) : Gather(t, S)
Save == SaveTail \/ SaveSnapshot
EndAnchor == LoadForSnapshot \/ ClearAfterAnchor \/ AnchorFails
Anchor ==
  \/ GatherAny
  \/ Save
  \/ EndAnchor

Next ==
  \/ Find
  \/ Sync
  \/ \E p \in Peer, b \in Block : Push(p, b)
  \/ \E p \in Peer, t \in Block : PeerAdopts(p, t)
  \/ \E p \in Official : WebPublishes(p)
  \/ \E j \in jobs : Enter(j)
  \/ \E p \in Peer : Answer(p)
  \/ Close
  \/ Retry
  \/ Anchor
  \/ Crash

Spec == Init /\ [][Next]_vars

(* The run_node loop starts the retry and the catch-up worker every few    *)
(* seconds, a report has a deadline, the mutex is handed on, an official   *)
(* seed is reached now and then, the web site follows the seeds, and a     *)
(* re-anchor is not interrupted for ever.  Nobody has to find a block.     *)
Fairness ==
  /\ WF_vars(Sync)
  /\ WF_vars(Retry)
  /\ WF_vars(Close)
  /\ WF_vars(EndAnchor)
  /\ WF_vars(\E p \in Official : WebPublishes(p))
  /\ SF_vars(\E j \in jobs : j.kind = "retry" /\ Enter(j))
  /\ SF_vars(\E p \in Official : Answer(p))
  /\ SF_vars(GatherAny)
  /\ SF_vars(Save)
  /\ <>[][~Crash]_vars

FairSpec == Spec /\ Fairness

-----------------------------------------------------------------------------
(* Every variable has its type: the record and the threads of the relay    *)
(* hold blocks, and answers are acknowledgements or tips.                  *)
TypeOK ==
  /\ found \subseteq Block
  /\ at \in [Peer \cup {Web} -> Block]
  /\ tip \in Block
  /\ record \in Record \cup {None}
  /\ jobs \subseteq Job
  /\ active \in [job : Job, carry : Block, got : Record \cup {None}] \cup {None}
  /\ ans \in [Peer -> Block \cup {Ack, None}]
  /\ retry \in [block : Block, height : Nat] \cup {None}
  /\ anchor \in [stage : {"tail", "snapshot", "saved"}, local : Block,
                 target : Block, sources : SUBSET (Peer \cup {Web})] \cup {None}
  /\ owed \subseteq Block
  /\ told \subseteq Block \X Block \X Peer
  /\ seeded \subseteq Block
  /\ crossed \in BOOLEAN

Queued(b) == record # None /\ record.block = b
(* What the comment of the retry loop in run_node says: a block this node  *)
(* has queued stays queued until a peer has it.  Stated for the tip, and   *)
(* for a seed that has it, it is weaker than the comment.                  *)
StaysQueued == \A b \in owed : b = tip => Queued(b) \/ b \in seeded

(* What the code keeps: only a thread that was working on another block    *)
(* takes the record of an undelivered tip away.  No lost answer, late      *)
(* retry, crash or re-anchor of that same block does, and no answer of a   *)
(* peer that is not official (delivered, schedule_pending_block_relay,     *)
(* retry_pending_block_relay).                                             *)
KeptUnlessCrossed == crossed \/ StaysQueued

(* The stale-parent evidence of the record was given by those peers about  *)
(* the very block the record is for: HF126 uses it against that block      *)
(* (the comment before write_pending_block_relay in the broadcast).        *)
EvidenceIsForItsBlock ==
  record # None =>
    \A p \in record.from : <<record.block, record.stale, p>> \in told

(* A re-anchor acts on observations of two sources (README, "independent   *)
(* official/direct observations agree on one exact competing hash").       *)
IndependentSources == anchor # None => Cardinality(anchor.sources) >= 2

(* Every record goes away, though no further block be found: its block is  *)
(* delivered to an official seed, is buried or replaced, or gives way to   *)
(* the sibling the seeds and the web site agree on.  This is what HF125's  *)
(* retry and HF126's re-anchor are for: a tie must not stop a miner.  (As  *)
(* the tree is finite, no record is followed by others for ever.)          *)
QueueDrains == []<>(record = None)
=============================================================================

------------------------------ MODULE MinerRounds ------------------------------
(***************************************************************************)
(* The graphical wallet's miner (HF124): rounds of processor and graphics  *)
(* workers on one stable template.  A worker scans the nonces of a header, *)
(* then takes the next extra nonce of its lane; it sends what it finds     *)
(* over a channel.  The controller listens to the channel, and leaves it   *)
(* every few seconds to look for a new tip and to ask peers for a reason   *)
(* to pause.                                                               *)
(***************************************************************************)
EXTENDS Integers, Sequences, FiniteSets

CONSTANTS CpuThreads,    \* how many mine_worker threads
          Gpus,          \* graphics devices, numbered from 0
          GpuLane,       \* the first extra nonce of a device
          LastNonce,     \* u32::MAX
          WorkGroup,     \* GPU_WORKGROUP_ALIGN
          Batches,       \* tuning_work_item_candidates
          ExtraBound, HeightBound   \* bounds of the model

ASSUME RoundsAssumption ==
    /\ LastNonce \in Nat /\ WorkGroup \in Nat \ {0}
    /\ Batches # {} /\ Batches \subseteq Nat \ {0}
    /\ CpuThreads \in Nat \ {0}
    /\ GpuLane \in [Gpus -> Nat]
    /\ \A g, h \in Gpus : /\ GpuLane[g] > ExtraBound
                          /\ g # h => GpuLane[g] # GpuLane[h]
    /\ ExtraBound \in Nat /\ HeightBound \in Nat

VARIABLES top,         \* the chain's tip, as other threads move it
          parent,      \* the template's parent
          worker,      \* [at, extra, nonce] of every thread of the round
          golden,      \* the <<extra, nonce>> pairs that solve the round
          channel,     \* found_tx .. found_rx; `heard' if sent to a listening controller
          roundStop, stop,
          controller   \* [at, chosen]: what it does, the block it took

roundsVars == <<top, parent, worker, golden, channel, roundStop, stop, controller>>

Cpus == 0..CpuThreads - 1
Lanes == ({"cpu"} \X Cpus) \cup ({"gpu"} \X Gpus)

\* Extra nonces: threads interleave, every device has a range of its own.
FirstExtra(w) == IF w[1] = "cpu" THEN w[2] ELSE GpuLane[w[2]]
NextExtra(w, extra) == IF w[1] = "cpu" THEN extra + CpuThreads ELSE extra + 1
Extras(w) == {e \in FirstExtra(w)..FirstExtra(w) + ExtraBound :
                 w[1] = "gpu" \/ (e - w[2]) % CpuThreads = 0}

\* align_work_items: whole work groups, or less than one.
AlignWorkItems(n) == IF n < WorkGroup THEN n ELSE (n \div WorkGroup) * WorkGroup

\* What is asked of a scan: one nonce of a thread, of a device a batch (the one
\* being tried, or the best so far) that does not run past the last nonce.
Requests(w, start) ==
    IF w[1] = "cpu" THEN {1}
    ELSE {IF b < LastNonce + 1 - start THEN b ELSE LastNonce + 1 - start : b \in Batches}

\* scan_nonce_range: the nonces it tries, and the number it reports.
Scanned(w, size) == IF w[1] = "cpu" THEN size ELSE AlignWorkItems(size)

\* A report of what was asked for.
HashesRequested(w, size) == size

Hashes(w, size) == Scanned(w, size)

\* Where the next scan starts.
Advanced(w, k, hashes) ==
    IF k.nonce + hashes <= LastNonce
    THEN [k EXCEPT !.at = "looks", !.nonce = @ + hashes]
    ELSE [at |-> IF NextExtra(w, k.extra) \in Extras(w) THEN "looks" ELSE "gone",  \* bound
          extra |-> NextExtra(w, k.extra), nonce |-> 0]

Hits(w, size) ==
    {n \in worker[w].nonce..worker[w].nonce + Scanned(w, size) - 1 :
        <<worker[w].extra, n>> \in golden}

-----------------------------------------------------------------------------
Gone == [w \in Lanes |-> [at |-> "gone", extra |-> 0, nonce |-> 0]]
Away == [at |-> "prepares", chosen |-> {}]

RoundsInit ==
    /\ top = 0 /\ parent = 0 /\ worker = Gone /\ golden = {} /\ channel = <<>>
    /\ roundStop = FALSE /\ stop = FALSE /\ controller = Away

\* The safety check and the parent guard have passed: the template is made on
\* the tip, and the workers start.  A graphics device may be missing.
StartRounds ==
    /\ controller.at = "prepares" /\ ~stop /\ top < HeightBound
    /\ parent' = top /\ roundStop' = FALSE /\ channel' = <<>>
    /\ \E some \in SUBSET Gpus :
          worker' = [w \in Lanes |->
              [at |-> IF w[1] = "cpu" \/ w[2] \in some THEN "looks" ELSE "gone",
               extra |-> FirstExtra(w), nonce |-> 0]]
    /\ \E a, b \in UNION {Extras(w) \X (0..LastNonce) : w \in Lanes} : golden' = {a, b}
    /\ controller' = [Away EXCEPT !.at = "listens"]
    /\ UNCHANGED <<top, stop>>

\* A worker looks at the flags before every scan.
Looks(w) ==
    /\ worker[w].at = "looks"
    /\ worker' = [worker EXCEPT ![w].at = IF stop \/ roundStop THEN "gone" ELSE "scans"]
    /\ UNCHANGED <<top, parent, golden, channel, roundStop, stop, controller>>

\* A scan without a hit.
ScansOn(w) ==
    /\ worker[w].at = "scans"
    /\ \E size \in Requests(w, worker[w].nonce) :
          /\ Hits(w, size) = {}
          /\ worker' = [worker EXCEPT ![w] = Advanced(w, @, Hashes(w, size))]
    /\ UNCHANGED <<top, parent, golden, channel, roundStop, stop, controller>>

\* The candidate cannot be built, a device's scan or a thread's check fails: a
\* device leaves alone, a thread takes the round with it. (A device's hit that
\* the processor does not confirm is none: that scan is ScansOn.)
GivesUp(w) ==
    /\ worker[w].at = "scans"
    /\ worker' = [worker EXCEPT ![w].at = "gone"]
    /\ roundStop' = (roundStop \/ w[1] = "cpu")
    /\ UNCHANGED <<top, parent, golden, channel, stop, controller>>

\* A scan with a hit: the round is stopped first, then the block is sent.
Finds(w) ==
    /\ worker[w].at = "scans"
    /\ \E size \in Requests(w, worker[w].nonce) : \E n \in Hits(w, size) :
          /\ worker' = [worker EXCEPT ![w] = [at |-> "sends", extra |-> @.extra, nonce |-> n]]
          /\ roundStop' = TRUE
    /\ UNCHANGED <<top, parent, golden, channel, stop, controller>>

Sends(w) ==
    /\ worker[w].at = "sends"
    /\ channel' = Append(channel, [extra |-> worker[w].extra, nonce |-> worker[w].nonce,
                                    heard |-> controller.at = "listens"])
    /\ worker' = [worker EXCEPT ![w].at = "gone"]
    /\ UNCHANGED <<top, parent, golden, roundStop, stop, controller>>

-----------------------------------------------------------------------------
AllGone == \A w \in Lanes : worker[w].at = "gone"

Ends(chosen) ==
    /\ controller' = [at |-> "joins", chosen |-> chosen]
    /\ roundStop' = TRUE

\* The head of the controller's loop.
LoopsOn == IF stop \/ roundStop THEN Ends({})
           ELSE controller' = [controller EXCEPT !.at = "listens"] /\ UNCHANGED roundStop

\* recv_timeout: a block that is there is taken; without one the controller
\* gives up when no worker is left, and else goes to look around.
Listens ==
    /\ controller.at = "listens"
    /\ \/ /\ channel # <<>>
          /\ channel' = Tail(channel)
          /\ Ends({Head(channel)})
       \/ /\ channel = <<>>
          /\ IF AllGone THEN Ends({})
             ELSE /\ controller' = [controller EXCEPT !.at = "checks"]
                  /\ UNCHANGED roundStop
          /\ UNCHANGED channel
    /\ UNCHANGED <<top, parent, worker, golden, stop>>

\* The template check, the network check, the hash rate; then the loop's head.
Checks ==
    /\ controller.at = "checks"
    /\ \/ Ends({})    \* a new tip, or a reason of the peers to pause
       \/ LoopsOn     \* nothing new, or not the time to look
    /\ UNCHANGED <<top, parent, worker, golden, channel, stop>>

\* All threads are joined.  A stopped miner leaves; a block goes to be
\* submitted; without one the next round begins.
Joins ==
    /\ controller.at = "joins" /\ AllGone
    /\ controller' = [controller EXCEPT !.at =
                         IF stop THEN "left"
                         ELSE IF controller.chosen = {} THEN "prepares" ELSE "submits"]
    /\ UNCHANGED <<top, parent, worker, golden, channel, roundStop, stop>>

\* The submit guard, the look at the tip, connect_block_persist_atomic (which
\* may fail: run_miner starts over), the broadcast.
SubmitsFound ==
    /\ controller.at = "submits"
    /\ \/ UNCHANGED top
       \/ top = parent /\ top' = top + 1
    /\ controller' = Away
    /\ UNCHANGED <<parent, worker, golden, channel, roundStop, stop>>

TipMoves ==
    /\ top < HeightBound /\ top' = top + 1
    /\ UNCHANGED <<parent, worker, golden, channel, roundStop, stop, controller>>

UserStops ==
    /\ ~stop /\ stop' = TRUE
    /\ UNCHANGED <<top, parent, worker, golden, channel, roundStop, controller>>

RoundsNext ==
    \/ StartRounds \/ Listens \/ Checks \/ Joins \/ SubmitsFound \/ TipMoves \/ UserStops
    \/ \E w \in Lanes : Looks(w) \/ ScansOn(w) \/ GivesUp(w) \/ Finds(w) \/ Sends(w)

\* The miner delivers.  No worker goes past a nonce that solves its header,
\* however its batches are cut (bin/qub_core.rs gpu_mine_worker: start_nonce
\* advances by the hashes the device reports).  And a block sent to a listening
\* controller is taken: no round ends empty-handed with such a block in the
\* channel.  A block sent while the controller looks elsewhere is lost: the
\* worker has stopped the round, and the loop's head sees that first.
MinersDeliver ==
    /\ \A w \in Lanes, g \in golden :
          worker[w].at \in {"looks", "scans"} /\ g[1] \in Extras(w) =>
              \/ g[1] > worker[w].extra
              \/ g[1] = worker[w].extra /\ g[2] >= worker[w].nonce
    /\ controller.at = "joins" /\ controller.chosen = {} =>
          \A i \in DOMAIN channel : ~channel[i].heard

RoundsSpec == RoundsInit /\ [][RoundsNext]_roundsVars

=============================================================================

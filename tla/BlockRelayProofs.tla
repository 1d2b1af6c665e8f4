-------------------------- MODULE BlockRelayProofs --------------------------
(***************************************************************************)
(* Proofs about BlockRelay for every block tree, every set of peers and    *)
(* every interleaving: type correctness (RelayTypeCorrect), that the       *)
(* evidence HF126 may hold against a block was given about that block      *)
(* (EvidenceIsOwn), and that a found block stays in the pending record     *)
(* until it is delivered or lost to a step between another one's load and  *)
(* save (RecordKept).  The last one needs KeepInv: what each thread that   *)
(* holds a loaded copy of the record, a saved chain or a height knows      *)
(* about the record and the tip that it has not yet compared again.        *)
(***************************************************************************)
EXTENDS BlockRelay, TLAPS

(* The answers of a broadcast are about its block, and the record it has   *)
(* loaded to write back is one of that block.                              *)
AnswersInv ==
  active # None =>
    /\ \A p \in Peer : ans[p] \in Block => <<active.job.block, ans[p], p>> \in told
    /\ active.got # None =>
         /\ active.got.block = active.job.block
         /\ \A p \in active.got.from : <<active.got.block, active.got.stale, p>> \in told

Inv == TypeOK /\ EvidenceIsForItsBlock /\ AnswersInv

(* The marks of absence are not blocks or peers.                           *)
LEMMA NoneIsNothing ==
  /\ None \notin Block
  /\ Ack \notin Block
  /\ Ack # None
  /\ None \notin Peer
  /\ Web \notin Peer
BY NetworkAssumption

(* The invariant of the evidence holds initially.                          *)
LEMMA InitInv == Init => Inv
<1> SUFFICES ASSUME Init PROVE Inv
  OBVIOUS
<1>1. TypeOK
  BY TreeAssumption DEF Init, TypeOK, NoAnswers
<1>2. EvidenceIsForItsBlock /\ AnswersInv
  BY DEF Init, EvidenceIsForItsBlock, AnswersInv
<1> QED
  BY <1>1, <1>2 DEF Inv

(* Steps that leave the record, the broadcast and what was told alone. *)
LEMMA Elsewhere ==
  ASSUME Inv, TypeOK', UNCHANGED <<record, active, ans, told>>
  PROVE  Inv'
BY DEF Inv, EvidenceIsForItsBlock, AnswersInv

(* A report about a peer keeps the table of reports typed.                 *)
LEMMA PeerTipType ==
  ASSUME TypeOK, NEW p \in Peer, NEW t \in Block, PeerTip(p, t)
  PROVE  at' \in [Peer \cup {Web} -> Block] /\ seeded' \subseteq Block
BY DEF TypeOK, PeerTip

(* Moving the tip keeps tips and reports typed.                            *)
LEMMA MoveTipType ==
  ASSUME TypeOK, NEW t \in Block, MoveTip(t)
  PROVE  tip' \in Block /\ owed' \subseteq Block
BY DEF TypeOK, MoveTip

(* The chain: found, received and committed blocks.                        *)
LEMMA ChainSteps ==
  ASSUME Inv,
         Find \/ Sync \/ (\E p \in Peer, b \in Block : Push(p, b))
           \/ (\E p \in Peer, t \in Block : PeerAdopts(p, t))
           \/ (\E p \in Official : WebPublishes(p))
  PROVE  Inv'
<1>0. TypeOK
  BY DEF Inv
<1>1. ASSUME NEW b \in Block, Mine(b) PROVE Inv'
  <2>1. TypeOK'
    BY <1>0, <1>1, MoveTipType DEF Mine, TypeOK, Job
  <2> QED
    BY <1>1, <2>1, Elsewhere DEF Mine
<1>2. ASSUME NEW p \in Peer, NEW b \in Block, PeerFinds(p, b) PROVE Inv'
  <2>1. TypeOK'
    BY <1>0, <1>2, PeerTipType DEF PeerFinds, TypeOK, relay
  <2> QED
    BY <1>2, <2>1, Elsewhere DEF PeerFinds, relay
<1>3. ASSUME NEW p \in Peer, Adopt(p) PROVE Inv'
  <2>1. at[p] \in Block
    BY <1>0 DEF TypeOK
  <2>2. TypeOK'
    BY <1>0, <1>3, <2>1, MoveTipType DEF Adopt, TypeOK, relay
  <2> QED
    BY <1>3, <2>2, Elsewhere DEF Adopt, relay
<1>4. ASSUME NEW p \in Peer, NEW b \in Block, Push(p, b) PROVE Inv'
  <2>1. TypeOK'
    BY <1>0, <1>4, MoveTipType DEF Push, TypeOK, Job
  <2> QED
    BY <1>4, <2>1, Elsewhere DEF Push
<1>5. ASSUME NEW p \in Peer, NEW t \in Block, PeerAdopts(p, t) PROVE Inv'
  <2>1. TypeOK'
    BY <1>0, <1>5, PeerTipType DEF PeerAdopts, TypeOK, relay
  <2> QED
    BY <1>5, <2>1, Elsewhere DEF PeerAdopts, relay
<1>6. ASSUME NEW p \in Official, WebPublishes(p) PROVE Inv'
  <2>1. at[p] \in Block
    BY <1>0, NetworkAssumption DEF TypeOK
  <2>2. TypeOK'
    BY <1>0, <1>6, <2>1 DEF WebPublishes, TypeOK, relay, history
  <2> QED
    BY <1>6, <2>2, Elsewhere DEF WebPublishes, relay, history
<1> QED
  BY <1>1, <1>2, <1>3, <1>4, <1>5, <1>6 DEF Find, Sync

(* A scheduled job is a job of the schedule.                               *)
LEMMA ScheduledType ==
  ASSUME TypeOK, NEW b \in Block, NEW h \in Nat
  PROVE  Scheduled(b, h) \in Record
BY DEF TypeOK, Scheduled, NewRecord, Record

(* A broadcast starts; it loads its record when it tracks one.             *)
LEMMA EnterStep ==
  ASSUME Inv, NEW j \in jobs, Enter(j)
  PROVE  Inv'
<1>0. TypeOK /\ j \in Job
  BY DEF Inv, TypeOK
<1> DEFINE h == IF OnChain(j.block, tip) THEN Height[j.block] ELSE Height[tip] + 1
<1>1. j.block \in Block /\ h \in Nat
  BY <1>0, TreeAssumption DEF Job, TypeOK
<1>2. Scheduled(j.block, h) \in Record
  BY <1>0, <1>1, ScheduledType
<1>3. /\ record' = record \/ record' = Scheduled(j.block, h)
      /\ told' = told
      /\ active' = [job |-> j, carry |-> tip, got |-> None]
      /\ ans' = [p \in Peer |-> None]
  BY DEF Enter, NoAnswers
<1>4. TypeOK'
  <2>1. owed' \subseteq Block /\ crossed' \in BOOLEAN
    BY <1>0, <1>1 DEF Enter, TypeOK, Takes
  <2>2. record' \in Record \cup {None}
    BY <1>0, <1>2, <1>3 DEF TypeOK
  <2>3. /\ active' \in [job : Job, carry : Block, got : Record \cup {None}] \cup {None}
        /\ ans' \in [Peer -> Block \cup {Ack, None}]
    BY <1>0, <1>3 DEF TypeOK
  <2> QED
    BY <1>0, <2>1, <2>2, <2>3 DEF Enter, TypeOK
<1>5. EvidenceIsForItsBlock'
  BY <1>0, <1>3 DEF Inv, EvidenceIsForItsBlock, Scheduled, NewRecord, TypeOK, Record
<1>6. AnswersInv'
  BY <1>3, NoneIsNothing DEF AnswersInv
<1> QED
  BY <1>4, <1>5, <1>6 DEF Inv

(* A peer answers for the block of the running broadcast.                  *)
LEMMA AnswerStep ==
  ASSUME Inv, NEW p \in Peer, Answer(p)
  PROVE  Inv'
<1> DEFINE b == active.job.block
           t == AfterSubmit(p, b, active.carry)
<1>0. TypeOK
  BY DEF Inv
<1>1. active # None /\ active.got = None /\ b \in Block /\ active.carry \in Block
  BY <1>0 DEF Answer, Collecting, TypeOK, Job
<1>2. t \in Block
  BY <1>0, <1>1 DEF AfterSubmit, TypeOK
<1>3. /\ PeerTip(p, t)
      /\ ans' = [ans EXCEPT ![p] = IF OnChain(b, t) THEN Ack ELSE t]
      /\ told' = told \cup {x \in {<<b, t, p>>} : (IF OnChain(b, t) THEN Ack ELSE t) # Ack}
      /\ UNCHANGED <<found, tip, record, jobs, active, retry, anchor, owed, crossed>>
  BY DEF Answer
<1> HIDE DEF t
<1>4. TypeOK'
  <2>1. ans' \in [Peer -> Block \cup {Ack, None}]
    BY <1>0, <1>2, <1>3 DEF TypeOK
  <2>2. told' \subseteq Block \X Block \X Peer
    BY <1>0, <1>1, <1>2, <1>3 DEF TypeOK
  <2>3. at' \in [Peer \cup {Web} -> Block] /\ seeded' \subseteq Block
    BY <1>0, <1>2, <1>3, PeerTipType
  <2> QED
    BY <1>0, <1>3, <2>1, <2>2, <2>3 DEF TypeOK
<1>5. EvidenceIsForItsBlock'
  BY <1>3 DEF Inv, EvidenceIsForItsBlock
<1>6. ASSUME NEW q \in Peer, ans'[q] \in Block
      PROVE  <<b, ans'[q], q>> \in told'
  <2>1. CASE q = p
    BY <1>0, <1>2, <1>3, <1>6, <2>1, NoneIsNothing DEF TypeOK
  <2>2. CASE q # p
    BY <1>0, <1>1, <1>3, <1>6, <2>2 DEF Inv, AnswersInv, TypeOK
  <2> QED
    BY <2>1, <2>2
<1>7. AnswersInv'
  BY <1>1, <1>3, <1>6 DEF AnswersInv
<1> QED
  BY <1>4, <1>5, <1>7 DEF Inv

(* The broadcast that ends leaves a typed state.                           *)
LEMMA LeaveType ==
  ASSUME TypeOK, Leave
  PROVE  /\ active' = None
         /\ ans' \in [Peer -> Block \cup {Ack, None}]
         /\ retry' \in [block : Block, height : Nat] \cup {None}
BY DEF TypeOK, Leave, NoAnswers

(* The broadcast ends and writes what it has heard.                        *)
LEMMA CloseStep ==
  ASSUME Inv, Close
  PROVE  Inv'
<1>0. TypeOK
  BY DEF Inv
<1>1. CASE CloseDelivered
  <2>1. record' = None /\ told' = told /\ crossed' \in BOOLEAN
    BY <1>0, <1>1 DEF CloseDelivered, TypeOK, Takes
  <2>2. TypeOK' /\ active' = None
    BY <1>0, <1>1, <2>1, LeaveType DEF CloseDelivered, TypeOK
  <2> QED
    BY <2>1, <2>2 DEF Inv, EvidenceIsForItsBlock, AnswersInv
<1>2. CASE CloseUndelivered
  <2>1. record' = record /\ told' = told
    BY <1>2 DEF CloseUndelivered, history
  <2>2. CASE Tracks(active.job) /\ record # None /\ record.block = active.job.block
    <3>1. active # None /\ active' = [active EXCEPT !.got = record] /\ UNCHANGED <<ans, retry>>
      BY <1>2, <2>2 DEF CloseUndelivered, Collecting
    <3>2. /\ active' # None => active'.job = active.job /\ active'.got = record
          /\ active' \in [job : Job, carry : Block, got : Record \cup {None}] \cup {None}
      BY <1>0, <3>1 DEF TypeOK
    <3>3. TypeOK'
      BY <1>0, <1>2, <3>1, <3>2 DEF CloseUndelivered, TypeOK, history
    <3> QED
      BY <2>1, <2>2, <3>1, <3>2, <3>3 DEF Inv, EvidenceIsForItsBlock, AnswersInv
  <2>3. CASE ~(Tracks(active.job) /\ record # None /\ record.block = active.job.block)
    <3>1. Leave
      BY <1>2, <2>3 DEF CloseUndelivered
    <3>2. TypeOK' /\ active' = None
      BY <1>0, <1>2, <3>1, LeaveType DEF CloseUndelivered, TypeOK, history
    <3> QED
      BY <2>1, <3>2 DEF Inv, EvidenceIsForItsBlock, AnswersInv
  <2> QED
    BY <2>2, <2>3
<1>3. CASE WriteRecord
  <2>0. /\ active # None
        /\ active.got \in Record
        /\ told' = told
        /\ crossed' \in BOOLEAN
        /\ Leave
    BY <1>0, <1>3 DEF WriteRecord, TypeOK, Takes
  <2>1. /\ active.got.block = active.job.block
        /\ \A p \in active.got.from : <<active.got.block, active.got.stale, p>> \in told
    BY <1>3, <2>0 DEF WriteRecord, Inv, AnswersInv
  <2>2. CASE BestViews = {}
    <3>1. record' = active.got
      BY <1>3, <2>2 DEF WriteRecord
    <3>2. TypeOK' /\ active' = None
      BY <1>0, <1>3, <2>0, <3>1, LeaveType DEF WriteRecord, TypeOK
    <3> QED
      BY <2>0, <2>1, <3>1, <3>2 DEF Inv, EvidenceIsForItsBlock, AnswersInv
  <2>3. CASE BestViews # {}
    <3>1. PICK t \in BestViews :
            record' = [active.got EXCEPT !.stale = t, !.from = Reports(t)]
      BY <1>3, <2>3 DEF WriteRecord
    <3>2. t \in Block /\ Reports(t) \subseteq Peer
      BY DEF BestViews, StaleViews, Reports
    <3>3. /\ record' \in Record
          /\ record'.block = active.job.block
          /\ record'.stale = t
          /\ record'.from = Reports(t)
      BY <2>0, <2>1, <3>1, <3>2 DEF Record
    <3>4. TypeOK' /\ active' = None
      BY <1>0, <1>3, <2>0, <3>3, LeaveType DEF WriteRecord, TypeOK
    <3>5. \A p \in Reports(t) : <<active.job.block, t, p>> \in told
      BY <2>0, <3>2 DEF Reports, Inv, AnswersInv
    <3> QED
      BY <2>0, <3>3, <3>4, <3>5 DEF Inv, EvidenceIsForItsBlock, AnswersInv
  <2> QED
    BY <2>2, <2>3
<1> QED
  BY <1>1, <1>2, <1>3 DEF Close

(* The retry worker reads, compares and schedules.                         *)
LEMMA RetryStep ==
  ASSUME Inv, Retry
  PROVE  Inv'
<1>0. TypeOK
  BY DEF Inv
<1>1. CASE RetryLoad
  <2>1. TypeOK'
    BY <1>0, <1>1 DEF RetryLoad, TypeOK, Record, history
  <2> QED
    BY <1>1, <2>1, Elsewhere DEF RetryLoad, history
<1>2. CASE RetryClear
  <2>1. TypeOK'
    BY <1>0, <1>2 DEF RetryClear, TypeOK, Takes
  <2> QED
    BY <1>2, <2>1 DEF RetryClear, Inv, EvidenceIsForItsBlock, AnswersInv
<1>3. CASE RetrySend
  <2>1. TypeOK'
    BY <1>0, <1>3 DEF RetrySend, TypeOK, Job, history
  <2> QED
    BY <1>3, <2>1, Elsewhere DEF RetrySend, history
<1> QED
  BY <1>1, <1>2, <1>3 DEF Retry

AnchorType == [stage : {"tail", "snapshot", "saved"}, local : Block,
               target : Block, sources : SUBSET (Peer \cup {Web})]

(* The re-anchor reads the evidence, fetches and commits.                  *)
LEMMA AnchorStep ==
  ASSUME Inv, Anchor
  PROVE  Inv'
<1>0. TypeOK /\ (anchor # None => anchor \in AnchorType)
  BY DEF Inv, TypeOK, AnchorType
<1>1. ASSUME NEW t \in Block, NEW S \in SUBSET (Peer \cup {Web}), Gather(t, S)
      PROVE  Inv'
  <2>1. Sources(t, S) \subseteq Peer \cup {Web}
    BY <1>0, <1>1 DEF Gather, Waiting, Sources, Recorded, TypeOK, Record
  <2>2. anchor' \in AnchorType
    BY <1>0, <1>1, <2>1 DEF Gather, TypeOK, AnchorType
  <2>3. TypeOK'
    BY <1>0, <1>1, <2>2 DEF Gather, TypeOK, AnchorType, history
  <2> QED
    BY <1>1, <2>3, Elsewhere DEF Gather, history
<1>2. CASE SaveTail
  <2>1. anchor \in AnchorType /\ AnchorTo(anchor.target)
    BY <1>0, <1>2 DEF SaveTail
  <2>2. tip' \in Block /\ owed' \subseteq Block /\ anchor' \in AnchorType
    BY <1>0, <2>1, MoveTipType DEF AnchorTo, AnchorType
  <2>3. TypeOK'
    BY <1>0, <1>2, <2>2 DEF SaveTail, TypeOK, AnchorType
  <2> QED
    BY <1>2, <2>3, Elsewhere DEF SaveTail
<1>3. CASE SaveSnapshot
  <2>1. anchor \in AnchorType /\ at[Web] \in Block
    BY <1>0, <1>3 DEF SaveSnapshot, TypeOK
  <2>2. AnchorTo(at[Web]) \/ (MoveTip(at[Web]) /\ anchor' = None)
    BY <1>3 DEF SaveSnapshot
  <2>3. tip' \in Block /\ owed' \subseteq Block /\ anchor' \in AnchorType \cup {None}
    BY <1>0, <2>1, <2>2, MoveTipType DEF AnchorTo, AnchorType
  <2>4. TypeOK'
    BY <1>0, <1>3, <2>3 DEF SaveSnapshot, TypeOK, AnchorType
  <2> QED
    BY <1>3, <2>4, Elsewhere DEF SaveSnapshot
<1>4. CASE LoadForSnapshot
  <2>1. anchor' \in AnchorType
    BY <1>0, <1>4 DEF LoadForSnapshot, TypeOK, AnchorType
  <2>2. TypeOK'
    BY <1>0, <1>4, <2>1 DEF LoadForSnapshot, TypeOK, AnchorType, history
  <2> QED
    BY <1>4, <2>2, Elsewhere DEF LoadForSnapshot, history
<1>5. CASE ClearAfterAnchor
  <2>1. TypeOK'
    BY <1>0, <1>5 DEF ClearAfterAnchor, TypeOK, Takes
  <2> QED
    BY <1>5, <2>1 DEF ClearAfterAnchor, Inv, EvidenceIsForItsBlock, AnswersInv
<1>6. CASE AnchorFails
  <2>1. TypeOK'
    BY <1>0, <1>6 DEF AnchorFails, TypeOK, history
  <2> QED
    BY <1>6, <2>1, Elsewhere DEF AnchorFails, history
<1> QED
  BY <1>1, <1>2, <1>3, <1>4, <1>5, <1>6 DEF Anchor, GatherAny, Save, EndAnchor

(* A crash forgets the threads and keeps the record.                       *)
LEMMA CrashStep ==
  ASSUME Inv, Crash
  PROVE  Inv'
<1>1. TypeOK'
  BY DEF Crash, Inv, TypeOK, NoAnswers, history
<1> QED
  BY <1>1 DEF Crash, Inv, EvidenceIsForItsBlock, AnswersInv, history

(* Every step keeps types and evidence.                                    *)
LEMMA NextInv == Inv /\ [Next]_vars => Inv'
<1> SUFFICES ASSUME Inv, [Next]_vars PROVE Inv'
  OBVIOUS
<1>1. CASE UNCHANGED vars
  BY <1>1 DEF vars, Inv, TypeOK, EvidenceIsForItsBlock, AnswersInv
<1>2. CASE Next
  BY <1>2, ChainSteps, EnterStep, AnswerStep, CloseStep, RetryStep, AnchorStep, CrashStep
     DEF Next
<1> QED
  BY <1>1, <1>2

(* The relay's variables always have their types. *)
THEOREM RelayTypeCorrect == Spec => []TypeOK
<1>1. Inv => TypeOK
  BY DEF Inv
<1> QED
  BY <1>1, InitInv, NextInv, PTL DEF Spec

(* HF126 never holds against a block what a peer said about another one:   *)
(* the evidence in pending-block-relay.json was given, by the peers it     *)
(* counts, in answers to the block it is about.                            *)
THEOREM EvidenceIsOwn == Spec => []EvidenceIsForItsBlock
<1>1. Inv => EvidenceIsForItsBlock
  BY DEF Inv
<1> QED
  BY <1>1, InitInv, NextInv, PTL DEF Spec
-----------------------------------------------------------------------------
(* Why an undelivered tip keeps its record (KeptUnlessCrossed).  The       *)
(* invariant is KeepInv, on top of Inv: the record's height is right while *)
(* its block is owed, so that the retry never takes it for a buried one; a *)
(* seed's acknowledgement means that the seed has the block; and the       *)
(* re-anchor clears the record only when the tip it replaced is behind for *)
(* good.                                                                   *)
(* What was queued is on the chain. *)
OwedInv == \A b \in owed : OnChain(b, tip)

(* Whatever the relay works on has been found. *)
KnownInv ==
  /\ record # None => record.block \in found
  /\ retry # None => retry.block \in found
  /\ active # None => active.job.block \in found
  /\ \A j \in jobs : j.block \in found

(* A block this node found waits to be broadcast before anything else in   *)
(* the relay is about it.                                                  *)
FirstInv ==
  \A j \in jobs : j.kind = "own" =>
    /\ record # None => record.block # j.block
    /\ retry # None => retry.block # j.block
    /\ active # None /\ Tracks(active.job) => active.job.block # j.block

(* Only a pushed block has a source; there is one retry at a time, of the  *)
(* loaded block, which was the tip at the height of the record.            *)
Retries(j) == retry # None /\ retry.block = j.block /\ retry.height = Height[j.block]
RetryInv ==
  /\ \A j \in jobs : /\ Tracks(j) => j.source = None
                     /\ j.kind = "retry" => Retries(j)
  /\ active # None /\ active.job.kind = "retry" =>
       Retries(active.job) /\ \A j \in jobs : j.kind # "retry"

(* Records of a block that is owed have its height.                        *)
HeightInv ==
  /\ record # None /\ record.block \in owed => record.height = Height[record.block]
  /\ retry # None /\ retry.block \in owed => retry.height = Height[retry.block]
  /\ active # None /\ active.got # None =>
       /\ Tracks(active.job)
       /\ active.got.block \in owed => active.got.height = Height[active.got.block]

(* What a seed acknowledges, pushes or has on its chain, it has had.       *)
SeedInv ==
  /\ \A p \in Seeds, b \in Block : OnChain(b, at[p]) => b \in seeded
  /\ \A j \in jobs : j.source \in Seeds => j.block \in seeded
  /\ active # None =>
       /\ active.job.source \in Seeds => active.job.block \in seeded
       /\ \A p \in Peer : ans[p] = Ack =>
            p \in Asked(active.job) /\ (p \in Seeds => active.job.block \in seeded)

(* The tip has left u behind for good: it is better, or an equal sibling.  *)
Past(t, u) == Work[t] > Work[u] \/ (Work[t] = Work[u] /\ Height[t] >= Height[u] /\ t # u)
AnchorInv ==
  anchor # None =>
    /\ anchor.stage = "tail" => Sibling(anchor.target, anchor.local)
    /\ anchor.stage = "saved" => Past(tip, anchor.local)

KeepInv ==
  /\ OwedInv /\ KnownInv /\ FirstInv /\ RetryInv /\ HeightInv /\ SeedInv /\ AnchorInv
  /\ KeptUnlessCrossed

(* A block on its own chain; a child is higher and has more work.          *)
LEMMA ChildFacts ==
  /\ \A t \in Block : /\ Height[t] \in Nat /\ Work[t] \in Nat
                      /\ OnChain(t, t)
  /\ \A b, t \in Block : Extends(b, t) => Height[b] > Height[t] /\ Work[b] > Work[t]
<1>1. \A t \in Block : /\ Height[t] \in Nat /\ Work[t] \in Nat
                       /\ OnChain(t, t)
  BY TreeAssumption DEF OnChain
<1>2. ASSUME NEW b \in Block, NEW t \in Block, Extends(b, t)
      PROVE  Height[b] > Height[t] /\ Work[b] > Work[t]
  <2>1. Height[b] \in Nat /\ Height[b] # 0
    <3>1. BlockAt[b][Height[b]] = b /\ BlockAt[b][0] = Genesis
      BY TreeAssumption
    <3> QED
      BY <1>2, TreeAssumption DEF Extends, Parent
  <2>2. Height[b] - 1 \in 0..Height[b] /\ Height[b] - 1 < Height[b] /\ BlockAt[b][Height[b] - 1] = t
    BY <1>2, <2>1 DEF Extends, Parent
  <2> QED
    BY <2>1, <2>2, TreeAssumption
<1> QED
  BY <1>1, <1>2

(* Nothing on the chain of t is better than t, a child or a sibling of it. *)
LEMMA NotOnChain ==
  ASSUME NEW t \in Block, NEW b \in Block, OnChain(b, t)
  PROVE  ~Better(b, t) /\ ~Extends(b, t) /\ ~Sibling(b, t)
<1>1. Height[b] \in Nat /\ Height[t] \in Nat /\ Work[b] \in Nat /\ Work[t] \in Nat
  BY ChildFacts
<1>2. Height[b] \in 0..Height[t] /\ BlockAt[t][Height[b]] = b
  BY <1>1 DEF OnChain
<1>3. Height[b] < Height[t] => Work[b] < Work[t]
  BY <1>2, TreeAssumption
<1>4. Height[b] = Height[t] => b = t
  BY <1>2, TreeAssumption
<1>5. ~Better(b, t) /\ ~Sibling(b, t)
  BY <1>1, <1>2, <1>3, <1>4 DEF Better, Sibling
<1>6. ~Extends(b, t)
  BY <1>1, <1>2, ChildFacts
<1> QED
  BY <1>5, <1>6

(* The parts of the invariant that a move of the tip can disturb, for a    *)
(* tip that is not on the chain it replaces.                               *)
LEMMA TipMoves ==
  ASSUME Inv, KeepInv, NEW t \in Block, MoveTip(t), ~OnChain(t, tip)
  PROVE  /\ OwedInv' /\ owed' \subseteq owed /\ tip' = t /\ tip' \notin owed' /\ StaysQueued'
<1>1. tip' = t /\ owed' = {b \in owed : OnChain(b, t)}
  BY DEF MoveTip
<1>2. \A b \in owed : OnChain(b, tip)
  BY DEF KeepInv, OwedInv
<1>3. tip' \notin owed'
  BY <1>1, <1>2
<1>4. OwedInv'
  BY <1>1 DEF OwedInv, OnChain
<1> QED
  BY <1>1, <1>3, <1>4 DEF StaysQueued

(* The heights stay right when fewer blocks are owed.                      *)
LEMMA HeightsStay ==
  ASSUME KeepInv, owed' \subseteq owed, UNCHANGED <<record, retry, active>>
  PROVE  HeightInv'
BY DEF KeepInv, HeightInv

(* Steps that leave the seeds and the broadcast alone.                     *)
LEMMA SeedsStay ==
  ASSUME KeepInv, UNCHANGED <<at, seeded, active, ans>>,
         \A j \in jobs' : j \in jobs \/ (j.source \in Seeds => j.block \in seeded)
  PROVE  SeedInv'
BY DEF KeepInv, SeedInv

(* What a re-anchor has left behind stays behind.                          *)
LEMMA PastStays ==
  ASSUME Inv, KeepInv, NEW t \in Block, tip' = t, anchor' = anchor, Better(t, tip) \/ Extends(t, tip)
  PROVE  AnchorInv'
<1> SUFFICES ASSUME anchor # None, anchor.stage = "saved" PROVE Past(t, anchor.local)
  BY DEF KeepInv, AnchorInv
<1> DEFINE u == anchor.local
<1>1. tip \in Block /\ u \in Block
  BY DEF Inv, TypeOK
<1>2. \A b \in {t, tip, u} : Height[b] \in Nat /\ Work[b] \in Nat
  BY <1>1, ChildFacts
<1>3. Work[t] > Work[tip] \/ (Work[t] = Work[tip] /\ Height[t] > Height[tip])
  BY <1>1, ChildFacts DEF Better
<1>4. Past(tip, u)
  BY DEF KeepInv, AnchorInv
<1> HIDE DEF u
<1>5. Past(t, u)
  BY <1>2, <1>3, <1>4 DEF Past
<1> QED
  BY <1>5 DEF u

(* A block is connected on the tip.                                        *)
LEMMA ConnectKeeps ==
  ASSUME Inv, KeepInv, NEW b \in Block, Mine(b) \/ \E p \in Peer : Push(p, b)
  PROVE  KeepInv'
<1>1. /\ MoveTip(b) /\ Extends(b, tip) /\ tip \in Block
      /\ UNCHANGED <<at, record, active, ans, retry, anchor, told, seeded, crossed>>
  BY DEF Mine, Push, Inv, TypeOK
<1>2. /\ OwedInv' /\ owed' \subseteq owed /\ tip' = b /\ StaysQueued'
  BY <1>1, NotOnChain, TipMoves
<1>3. AnchorInv'
  BY <1>1, <1>2, PastStays
<1>4. HeightInv'
  BY <1>1, <1>2, HeightsStay
<1>5. CASE Mine(b)
  <2>1. /\ b \notin found /\ found' = found \cup {b}
        /\ jobs' = jobs \cup {[kind |-> "own", block |-> b, source |-> None]}
    BY <1>5 DEF Mine
  <2>2. KnownInv'
    BY <1>1, <2>1 DEF KeepInv, KnownInv
  <2>3. FirstInv'
    BY <1>1, <2>1 DEF KeepInv, KnownInv, FirstInv
  <2>4. RetryInv'
    BY <1>1, <2>1 DEF KeepInv, RetryInv, Retries
  <2>5. None \notin Seeds
    BY NetworkAssumption DEF Seeds
  <2>6. SeedInv'
    BY <1>1, <2>1, <2>5, SeedsStay
  <2> QED
    BY <1>2, <1>3, <1>4, <2>2, <2>3, <2>4, <2>6 DEF KeepInv, KeptUnlessCrossed
<1>6. ASSUME NEW p \in Peer, Push(p, b) PROVE KeepInv'
  <2>1. /\ b \in found /\ found' = found /\ OnChain(b, at[p])
        /\ jobs' = jobs \cup {[kind |-> "push", block |-> b, source |-> p]}
    BY <1>6 DEF Push
  <2>2. KnownInv'
    BY <1>1, <2>1 DEF KeepInv, KnownInv
  <2>3. FirstInv'
    BY <1>1, <2>1 DEF KeepInv, FirstInv
  <2>4. RetryInv'
    BY <1>1, <2>1 DEF KeepInv, RetryInv, Retries, Tracks
  <2>5. p \in Seeds => b \in seeded
    BY <2>1 DEF KeepInv, SeedInv
  <2>6. SeedInv'
    BY <1>1, <2>1, <2>5, SeedsStay
  <2> QED
    BY <1>2, <1>3, <1>4, <2>2, <2>3, <2>4, <2>6 DEF KeepInv, KeptUnlessCrossed
<1> QED
  BY <1>5, <1>6

(* Another chain is adopted.                                               *)
LEMMA AdoptKeeps ==
  ASSUME Inv, KeepInv, NEW p \in Peer, Adopt(p)
  PROVE  KeepInv'
<1>1. /\ MoveTip(at[p]) /\ Better(at[p], tip) /\ tip \in Block /\ at[p] \in Block
      /\ UNCHANGED <<found, at, relay, told, seeded, crossed>>
  BY DEF Adopt, Inv, TypeOK
<1>2. /\ OwedInv' /\ owed' \subseteq owed /\ tip' = at[p] /\ StaysQueued'
  BY <1>1, NotOnChain, TipMoves
<1>3. AnchorInv'
  BY <1>1, <1>2, PastStays DEF relay
<1>4. HeightInv' /\ SeedInv'
  BY <1>1, <1>2, HeightsStay, SeedsStay DEF relay
<1>5. KnownInv' /\ FirstInv' /\ RetryInv'
  BY <1>1 DEF relay, KeepInv, KnownInv, FirstInv, RetryInv, Retries
<1> QED
  BY <1>2, <1>3, <1>4, <1>5 DEF KeepInv, KeptUnlessCrossed

(* Other nodes go on, and a seed's chain grows.                            *)
LEMMA PeersKeep ==
  ASSUME Inv, KeepInv,
         \/ \E p \in Peer, b \in Block : PeerFinds(p, b) \/ PeerAdopts(p, b)
         \/ \E p \in Official : WebPublishes(p)
  PROVE  KeepInv'
<1>1. /\ UNCHANGED <<tip, record, jobs, active, ans, retry, anchor, owed, crossed>>
      /\ found \subseteq found'
      /\ \/ \E p \in Peer, b \in Block : PeerTip(p, b)
         \/ /\ seeded' = seeded
            /\ \E q \in Official : at' = [at EXCEPT ![Web] = at[q]]
  BY DEF PeerFinds, PeerAdopts, WebPublishes, relay, history
<1>2. Web \notin Seeds /\ at \in [Peer \cup {Web} -> Block]
  BY NetworkAssumption DEF Seeds, Inv, TypeOK
<1>3. seeded \subseteq seeded'
  BY <1>1 DEF PeerTip
<1>4. \A p \in Seeds, b \in Block : OnChain(b, at'[p]) => b \in seeded'
  <2>1. CASE \E p \in Peer, b \in Block : PeerTip(p, b)
    <3>1. PICK q \in Peer, t \in Block : PeerTip(q, t)
      BY <2>1
    <3>2. \A p \in Seeds : p # q => at'[p] = at[p]
      BY <1>2, <3>1 DEF PeerTip
    <3>3. at'[q] = t /\ (q \in Seeds => \A b \in Block : OnChain(b, t) => b \in seeded')
      BY <1>2, <3>1 DEF PeerTip
    <3> QED
      BY <1>3, <3>2, <3>3 DEF KeepInv, SeedInv
  <2>2. CASE seeded' = seeded /\ \E q \in Official : at' = [at EXCEPT ![Web] = at[q]]
    <3>1. \A p \in Seeds : at'[p] = at[p]
      BY <1>2, <2>2
    <3> QED
      BY <1>3, <3>1 DEF KeepInv, SeedInv
  <2> QED
    BY <1>1, <2>1, <2>2
<1>5. SeedInv'
  BY <1>1, <1>3, <1>4 DEF KeepInv, SeedInv, OnChain
<1>6. KnownInv'
  BY <1>1 DEF KeepInv, KnownInv
<1>7. OwedInv' /\ FirstInv' /\ RetryInv' /\ HeightInv' /\ AnchorInv' /\ KeptUnlessCrossed'
  BY <1>1, <1>3 DEF KeepInv, OwedInv, OnChain, FirstInv, RetryInv, Retries, HeightInv, AnchorInv, Past,
     Sibling, KeptUnlessCrossed, StaysQueued, Queued
<1> QED
  BY <1>5, <1>6, <1>7 DEF KeepInv

(* A broadcast begins: the record it writes is of its block.               *)
LEMMA EnterKeeps ==
  ASSUME Inv, KeepInv, NEW j \in jobs, Enter(j)
  PROVE  KeepInv'
<1> DEFINE b == j.block
           h == IF OnChain(b, tip) THEN Height[b] ELSE Height[tip] + 1
<1>1. /\ active = None /\ jobs' = jobs \ {j} /\ active' = [job |-> j, carry |-> tip, got |-> None]
      /\ ans' = [p \in Peer |-> None]
      /\ UNCHANGED <<found, at, tip, retry, anchor, told, seeded>>
      /\ Tracks(j) => /\ record' = Scheduled(b, h)
                      /\ owed' = owed \cup {x \in {b} : OnChain(x, tip)}
                      /\ crossed' = (crossed \/ Takes(b))
      /\ ~Tracks(j) => UNCHANGED <<record, owed, crossed>>
  BY DEF Enter, NoAnswers
<1>2. b \in Block /\ j.kind \in {"own", "push", "retry"} /\ b \in found /\ j \in Job
  BY DEF Inv, TypeOK, Job, KeepInv, KnownInv
<1>3. active'.job = j /\ active'.got = None /\ \A p \in Peer : ans'[p] # Ack
  BY <1>1, NoneIsNothing
<1>4. Tracks(j) => record'.block = b /\ record'.height = h /\ record' # None
  <2>1. h \in Nat
    BY <1>2, ChildFacts DEF Inv, TypeOK
  <2> HIDE DEF h
  <2>2. Scheduled(b, h) \in Record
    BY <1>2, <2>1, ScheduledType DEF Inv
  <2>3. Scheduled(b, h).block = b /\ Scheduled(b, h).height = h
    BY <1>2, <2>1 DEF Scheduled, NewRecord, Inv, TypeOK, Record
  <2> QED
    BY <1>1, <2>2, <2>3, RecordAssumption
<1>5. OnChain(b, tip) => h = Height[b]
  OBVIOUS
<1>6. /\ \A x \in owed' : x \in owed \/ (x = b /\ OnChain(b, tip))
      /\ owed \subseteq owed'
  BY <1>1
<1> HIDE DEF h
<1>7. OwedInv'
  BY <1>1, <1>6 DEF KeepInv, OwedInv, OnChain
<1>8. KnownInv'
  BY <1>1, <1>2, <1>3, <1>4 DEF KeepInv, KnownInv
<1>9. ASSUME NEW k \in jobs', k.kind = "own"
      PROVE  k \in jobs /\ (Tracks(j) => k.block # b)
  <2>1. k \in jobs /\ k # j /\ k \in Job
    BY <1>1 DEF Inv, TypeOK
  <2>2. ASSUME j.kind = "own" PROVE k.block # b
    BY <1>9, <2>1, <2>2, <1>2 DEF KeepInv, RetryInv, Tracks, Job
  <2>3. ASSUME j.kind = "retry" PROVE k.block # b
    BY <1>9, <2>1, <2>3 DEF KeepInv, RetryInv, Retries, FirstInv
  <2> QED
    BY <1>2, <2>1, <2>2, <2>3 DEF Tracks
<1>10. FirstInv'
  BY <1>1, <1>3, <1>4, <1>9 DEF KeepInv, FirstInv, Tracks
<1>11. ASSUME NEW k \in jobs', j.kind = "retry" PROVE k.kind # "retry"
  <2>1. k \in jobs /\ k # j /\ k \in Job
    BY <1>1 DEF Inv, TypeOK
  <2> QED
    BY <1>2, <1>11, <2>1 DEF KeepInv, RetryInv, Retries, Tracks, Job
<1>12. RetryInv'
  BY <1>1, <1>3, <1>11 DEF KeepInv, RetryInv, Retries, Tracks
<1>13. HeightInv'
  <2>1. record' # None /\ record'.block \in owed' => record'.height = Height[record'.block]
    BY <1>1, <1>4, <1>5, <1>6 DEF KeepInv, HeightInv, OwedInv
  <2>2. retry # None /\ retry.block \in owed' => retry.height = Height[retry.block]
    <3>1. CASE ~Tracks(j)
      BY <1>1, <3>1 DEF KeepInv, HeightInv
    <3>2. CASE j.kind = "own"
      BY <1>6, <3>2 DEF KeepInv, HeightInv, FirstInv
    <3>3. CASE j.kind = "retry"
      BY <3>3 DEF KeepInv, RetryInv, Retries
    <3> QED
      BY <1>2, <3>1, <3>2, <3>3 DEF Tracks
  <2> QED
    BY <1>1, <1>3, <2>1, <2>2 DEF HeightInv
<1>14. SeedInv'
  BY <1>1, <1>3 DEF KeepInv, SeedInv, OnChain
<1>15. AnchorInv'
  BY <1>1 DEF KeepInv, AnchorInv
<1>16. KeptUnlessCrossed'
  <2>1. CASE Tracks(j)
    <3>1. CASE b = tip
      BY <1>1, <1>4, <2>1, <3>1 DEF KeptUnlessCrossed, StaysQueued, Queued
    <3>2. CASE b # tip
      BY <1>1, <1>6, <2>1, <3>2 DEF KeepInv, KeptUnlessCrossed, StaysQueued, Queued, Takes
    <3> QED
      BY <3>1, <3>2
  <2>2. CASE ~Tracks(j)
    BY <1>1, <2>2 DEF KeepInv, KeptUnlessCrossed, StaysQueued, Queued
  <2> QED
    BY <2>1, <2>2
<1> QED
  BY <1>7, <1>8, <1>10, <1>12, <1>13, <1>14, <1>15, <1>16 DEF KeepInv

(* A peer answers.                                                         *)
LEMMA AnswerKeeps ==
  ASSUME Inv, KeepInv, NEW p \in Peer, Answer(p)
  PROVE  KeepInv'
<1> DEFINE b == active.job.block
           t == AfterSubmit(p, b, active.carry)
<1>1. /\ active # None /\ active.got = None /\ b \in Block /\ t \in Block
      /\ at \in [Peer \cup {Web} -> Block] /\ ans \in [Peer -> Block \cup {Ack, None}]
  BY DEF Answer, Collecting, Inv, TypeOK, Job, AfterSubmit
<1>2. /\ PeerTip(p, t) /\ p \in Asked(active.job)
      /\ ans' = [ans EXCEPT ![p] = IF OnChain(b, t) THEN Ack ELSE t]
      /\ UNCHANGED <<found, tip, record, jobs, active, retry, anchor, owed, crossed>>
  BY DEF Answer
<1> HIDE DEF t, b
<1>3. /\ at'[p] = t /\ \A q \in Peer : q # p => at'[q] = at[q]
      /\ seeded \subseteq seeded' /\ (p \in Seeds => \A x \in Block : OnChain(x, t) => x \in seeded')
  BY <1>1, <1>2 DEF PeerTip
<1>4. Seeds \subseteq Peer
  BY NetworkAssumption DEF Seeds
<1>5. \A q \in Seeds, x \in Block : OnChain(x, at'[q]) => x \in seeded'
  BY <1>3, <1>4 DEF KeepInv, SeedInv
<1>6. ASSUME NEW q \in Peer, ans'[q] = Ack
      PROVE  q \in Asked(active.job) /\ (q \in Seeds => b \in seeded')
  <2>1. CASE q = p
    <3>1. OnChain(b, t)
      BY <1>1, <1>2, <1>6, <2>1, NoneIsNothing
    <3> QED
      BY <1>1, <1>2, <1>3, <2>1, <3>1
  <2>2. CASE q # p
    <3>1. ans[q] = Ack
      BY <1>1, <1>2, <1>6, <2>2
    <3> QED
      BY <1>1, <1>3, <3>1 DEF KeepInv, SeedInv, b
  <2> QED
    BY <2>1, <2>2
<1>7. SeedInv'
  BY <1>2, <1>3, <1>5, <1>6 DEF KeepInv, SeedInv, OnChain, Asked, b
<1>8. /\ KnownInv' /\ OwedInv' /\ FirstInv' /\ RetryInv' /\ HeightInv' /\ AnchorInv' /\ KeptUnlessCrossed'
  BY <1>2, <1>3 DEF KeepInv, KnownInv, OwedInv, OnChain, FirstInv, RetryInv, Retries, HeightInv,
     AnchorInv, Past, Sibling, KeptUnlessCrossed, StaysQueued, Queued
<1> QED
  BY <1>7, <1>8 DEF KeepInv

(* A delivered block is one that a seed has: an acknowledgement of a seed, *)
(* or the block came from the only official one.                           *)
LEMMA DeliveredIsSeeded ==
  ASSUME Inv, KeepInv, Collecting, Delivered(active.job)
  PROVE  active.job.block \in seeded
<1> DEFINE j == active.job
<1>1. active # None /\ j.source \in Peer \cup {None}
  BY DEF Collecting, Inv, TypeOK, Job
<1>2. /\ \A p \in Acknowledged : p \in Asked(j) /\ (p \in Seeds => j.block \in seeded)
      /\ j.source \in Seeds => j.block \in seeded
  BY <1>1 DEF Acknowledged, KeepInv, SeedInv
<1>3. CASE Official = {}
  BY <1>2, <1>3 DEF Delivered, Seeds, Acknowledged
<1>4. CASE Official # {} /\ Asked(j) \cap Official # {}
  BY <1>2, <1>4 DEF Delivered, Seeds
<1>5. CASE Official # {} /\ Asked(j) \cap Official = {}
  <2>1. j.source \in Official
    BY <1>5, NetworkAssumption DEF Asked
  <2> QED
    BY <1>2, <1>5, <2>1 DEF Seeds
<1> QED
  BY <1>3, <1>4, <1>5

(* The end of a broadcast, whatever becomes of the record.                 *)
LEMMA LeaveKeeps ==
  ASSUME Inv, KeepInv, active # None, Leave,
         UNCHANGED <<found, at, tip, jobs, anchor, owed, seeded>>
  PROVE  /\ active' = None /\ (retry' = None \/ retry' = retry)
         /\ OwedInv' /\ RetryInv' /\ SeedInv' /\ AnchorInv'
<1>1. /\ active' = None /\ ans' = [p \in Peer |-> None]
      /\ retry' = IF active.job.kind = "retry" THEN None ELSE retry
  BY DEF Leave, NoAnswers
<1>2. OwedInv' /\ SeedInv' /\ AnchorInv'
  BY <1>1 DEF KeepInv, OwedInv, SeedInv, AnchorInv, OnChain
<1>3. RetryInv'
  BY <1>1 DEF KeepInv, RetryInv, Retries, Tracks
<1> QED
  BY <1>1, <1>2, <1>3

(* The end of a broadcast removes the record only of a block delivered.    *)
LEMMA CloseKeeps ==
  ASSUME Inv, KeepInv, Close
  PROVE  KeepInv'
<1>1. CASE CloseDelivered
  <2>1. /\ active # None /\ Leave /\ record' = None
        /\ crossed' = (crossed \/ Takes(active.job.block))
        /\ UNCHANGED <<found, at, tip, jobs, anchor, owed, seeded>>
        /\ active.job.block \in seeded
    BY <1>1, DeliveredIsSeeded DEF CloseDelivered, Collecting
  <2>2. /\ active' = None /\ (retry' = None \/ retry' = retry)
        /\ OwedInv' /\ RetryInv' /\ SeedInv' /\ AnchorInv'
    BY <2>1, LeaveKeeps
  <2>3. KnownInv' /\ FirstInv' /\ HeightInv'
    BY <2>1, <2>2 DEF KeepInv, KnownInv, FirstInv, HeightInv
  <2>4. KeptUnlessCrossed'
    BY <2>1 DEF KeepInv, KeptUnlessCrossed, StaysQueued, Queued, Takes
  <2> QED
    BY <2>2, <2>3, <2>4 DEF KeepInv
<1>2. CASE CloseUndelivered
  <2>0. /\ active # None
        /\ UNCHANGED <<found, at, tip, record, jobs, anchor, owed, seeded, crossed>>
    BY <1>2 DEF CloseUndelivered, Collecting, history
  <2>1. KeptUnlessCrossed'
    BY <2>0 DEF KeepInv, KeptUnlessCrossed, StaysQueued, Queued
  <2>2. CASE Tracks(active.job) /\ record # None /\ record.block = active.job.block
    <3>1. active' = [active EXCEPT !.got = record] /\ UNCHANGED <<ans, retry>>
      BY <1>2, <2>2 DEF CloseUndelivered
    <3>2. active' # None => active'.job = active.job /\ active'.got = record
      BY <2>0, <3>1 DEF Inv, TypeOK
    <3>3. OwedInv' /\ KnownInv' /\ FirstInv' /\ SeedInv' /\ AnchorInv'
      BY <2>0, <3>1, <3>2 DEF KeepInv, OwedInv, OnChain, KnownInv, FirstInv, SeedInv, AnchorInv
    <3>4. RetryInv' /\ HeightInv'
      BY <2>0, <2>2, <3>1, <3>2 DEF KeepInv, RetryInv, Retries, HeightInv
    <3> QED
      BY <2>1, <3>3, <3>4 DEF KeepInv
  <2>3. CASE ~(Tracks(active.job) /\ record # None /\ record.block = active.job.block)
    <3>1. Leave
      BY <1>2, <2>3 DEF CloseUndelivered
    <3>2. /\ active' = None /\ (retry' = None \/ retry' = retry)
          /\ OwedInv' /\ RetryInv' /\ SeedInv' /\ AnchorInv'
      BY <2>0, <3>1, LeaveKeeps
    <3>3. KnownInv' /\ FirstInv' /\ HeightInv'
      BY <2>0, <3>2 DEF KeepInv, KnownInv, FirstInv, HeightInv
    <3> QED
      BY <2>1, <3>2, <3>3 DEF KeepInv
  <2> QED
    BY <2>2, <2>3
<1>3. CASE WriteRecord
  <2>1. /\ active # None /\ active.got \in Record /\ active.got # None /\ Leave
        /\ crossed' = (crossed \/ Takes(active.job.block))
        /\ UNCHANGED <<found, at, tip, jobs, anchor, owed, seeded>>
    BY <1>3, RecordAssumption DEF WriteRecord, Inv, TypeOK
  <2>2. active.got.block = active.job.block
    BY <2>1 DEF Inv, AnswersInv
  <2>3. record' # None /\ record'.block = active.job.block /\ record'.height = active.got.height
    <3>1. CASE BestViews = {}
      BY <1>3, <2>1, <2>2, <3>1 DEF WriteRecord
    <3>2. CASE BestViews # {}
      <4>1. PICK t \in BestViews :
              record' = [active.got EXCEPT !.stale = t, !.from = Reports(t)]
        BY <1>3, <3>2 DEF WriteRecord
      <4>2. t \in Block /\ Reports(t) \subseteq Peer
        BY DEF BestViews, StaleViews, Reports
      <4>3. /\ record' \in Record
            /\ record'.block = active.got.block
            /\ record'.height = active.got.height
        BY <2>1, <4>1, <4>2 DEF Record
      <4> QED
        BY <2>2, <4>3, RecordAssumption
    <3> QED
      BY <3>1, <3>2
  <2>4. /\ active' = None /\ (retry' = None \/ retry' = retry)
        /\ OwedInv' /\ RetryInv' /\ SeedInv' /\ AnchorInv'
    BY <2>1, LeaveKeeps
  <2>5. KnownInv'
    BY <2>1, <2>3, <2>4 DEF KeepInv, KnownInv
  <2>6. FirstInv' /\ HeightInv'
    BY <2>1, <2>2, <2>3, <2>4 DEF KeepInv, FirstInv, HeightInv
  <2>7. KeptUnlessCrossed'
    BY <2>1, <2>3 DEF KeepInv, KeptUnlessCrossed, StaysQueued, Queued, Takes
  <2> QED
    BY <2>4, <2>5, <2>6, <2>7 DEF KeepInv
<1> QED
  BY <1>1, <1>2, <1>3 DEF Close

(* The retry worker: it takes the record of its own block away only when   *)
(* that is not the tip, because the height of an owed record is right.     *)
LEMMA RetryKeeps ==
  ASSUME Inv, KeepInv, Retry
  PROVE  KeepInv'
<1>0. UNCHANGED <<found, at, tip, active, ans, anchor, owed, seeded>>
  BY DEF Retry, RetryLoad, RetryClear, RetrySend, history
<1>1. OwedInv' /\ AnchorInv'
  BY <1>0 DEF KeepInv, OwedInv, OnChain, AnchorInv
<1>2. CASE RetryLoad
  <2>1. /\ retry = None /\ record # None /\ UNCHANGED <<record, jobs, crossed>>
        /\ retry' = [block |-> record.block, height |-> record.height]
    BY <1>2 DEF RetryLoad, history
  <2>2. retry'.block = record.block /\ retry'.height = record.height
    BY <2>1
  <2>3. KnownInv' /\ FirstInv' /\ HeightInv'
    BY <1>0, <2>1, <2>2 DEF KeepInv, KnownInv, FirstInv, HeightInv
  <2>4. RetryInv' /\ SeedInv'
    BY <1>0, <2>1, SeedsStay DEF KeepInv, RetryInv, Retries
  <2>5. KeptUnlessCrossed'
    BY <1>0, <2>1 DEF KeepInv, KeptUnlessCrossed, StaysQueued, Queued
  <2> QED
    BY <1>1, <2>3, <2>4, <2>5 DEF KeepInv
<1>3. CASE RetryClear
  <2>1. /\ retry # None /\ ~RetryQueued /\ ~RetryWanted /\ record' = None /\ retry' = None
        /\ jobs' = jobs /\ crossed' = (crossed \/ Takes(retry.block))
    BY <1>3 DEF RetryClear
  <2>2. KnownInv' /\ FirstInv' /\ HeightInv'
    BY <1>0, <2>1 DEF KeepInv, KnownInv, FirstInv, HeightInv
  <2>3. RetryInv' /\ SeedInv'
    BY <1>0, <2>1, SeedsStay DEF KeepInv, RetryInv, RetryQueued
  <2>4. tip \in owed => retry.block # tip
    BY <2>1 DEF KeepInv, HeightInv, RetryWanted
  <2>5. KeptUnlessCrossed'
    BY <1>0, <2>1, <2>4 DEF KeepInv, KeptUnlessCrossed, StaysQueued, Queued, Takes
  <2> QED
    BY <1>1, <2>2, <2>3, <2>5 DEF KeepInv
<1>4. CASE RetrySend
  <2>1. /\ retry # None /\ ~RetryQueued /\ RetryWanted /\ UNCHANGED <<record, retry, crossed>>
        /\ jobs' = jobs \cup {[kind |-> "retry", block |-> retry.block, source |-> None]}
    BY <1>4 DEF RetrySend, history
  <2>2. KnownInv' /\ FirstInv' /\ HeightInv'
    BY <1>0, <2>1 DEF KeepInv, KnownInv, FirstInv, HeightInv
  <2>3. RetryInv'
    BY <1>0, <2>1 DEF KeepInv, RetryInv, Retries, RetryQueued, RetryWanted
  <2>4. None \notin Seeds
    BY NetworkAssumption DEF Seeds
  <2>5. SeedInv'
    BY <1>0, <2>1, <2>4, SeedsStay
  <2>6. KeptUnlessCrossed'
    BY <1>0, <2>1 DEF KeepInv, KeptUnlessCrossed, StaysQueued, Queued
  <2> QED
    BY <1>1, <2>2, <2>3, <2>5, <2>6 DEF KeepInv
<1> QED
  BY <1>2, <1>3, <1>4 DEF Retry

(* A re-anchor saves its chain: what it replaced is behind for good.       *)
LEMMA SaveKeeps ==
  ASSUME Inv, KeepInv, NEW t \in Block, MoveTip(t), ~OnChain(t, tip), AnchorInv',
         UNCHANGED <<found, at, record, jobs, active, ans, retry, seeded, crossed>>
  PROVE  KeepInv'
<1>1. OwedInv' /\ owed' \subseteq owed /\ StaysQueued'
  BY TipMoves
<1>2. HeightInv' /\ SeedInv'
  BY <1>1, HeightsStay, SeedsStay
<1>3. KnownInv' /\ FirstInv' /\ RetryInv'
  BY DEF KeepInv, KnownInv, FirstInv, RetryInv, Retries
<1> QED
  BY <1>1, <1>2, <1>3 DEF KeepInv, KeptUnlessCrossed

(* The re-anchor leaves the record to the block it is about.               *)
LEMMA AnchorKeeps ==
  ASSUME Inv, KeepInv, Anchor
  PROVE  KeepInv'
<1>0. tip \in Block /\ (anchor # None => anchor \in AnchorType) /\ at[Web] \in Block
  BY DEF Inv, TypeOK, AnchorType
<1>1. ASSUME AnchorInv', UNCHANGED <<found, at, tip, record, jobs, active, ans, retry, owed, seeded, crossed>>
      PROVE  KeepInv'
  BY <1>1, SeedsStay, HeightsStay DEF KeepInv, OwedInv, OnChain, KnownInv, FirstInv, RetryInv, Retries,
     KeptUnlessCrossed, StaysQueued, Queued
<1>2. ASSUME NEW t \in Block, NEW S \in SUBSET (Peer \cup {Web}), Gather(t, S)
      PROVE  KeepInv'
  <2>1. AnchorInv'
    BY <1>2 DEF Gather, AnchorInv
  <2> QED
    BY <1>1, <1>2, <2>1 DEF Gather, history
<1>3. ASSUME NEW t \in Block, NEW u \in Block, Commits(t, Work[t] = Work[u]), Sibling(t, u), Work[t] >= Work[u],
             u = anchor.local, anchor # None, AnchorTo(t),
             UNCHANGED <<found, at, record, jobs, active, ans, retry, seeded, crossed>>
      PROVE  KeepInv'
  <2>1. ~OnChain(t, tip)
    BY <1>0, <1>3, NotOnChain DEF Commits
  <2>2. tip' = t /\ MoveTip(t) /\ anchor' = [anchor EXCEPT !.stage = "saved"]
    BY <1>3 DEF AnchorTo, MoveTip
  <2>3. anchor'.stage = "saved" /\ anchor'.local = u
    BY <1>0, <1>3, <2>2 DEF AnchorType
  <2>4. Past(t, u)
    BY <1>3, ChildFacts DEF Past, Sibling
  <2>5. AnchorInv'
    BY <2>2, <2>3, <2>4 DEF AnchorInv
  <2> QED
    BY <1>3, <2>1, <2>2, <2>5, SaveKeeps
<1>4. CASE SaveTail
  <2>1. Sibling(anchor.target, anchor.local)
    BY <1>4 DEF SaveTail, KeepInv, AnchorInv
  <2> QED
    BY <1>0, <1>3, <1>4, <2>1 DEF SaveTail, AnchorType
<1>5. CASE SaveSnapshot
  <2> DEFINE t == at[Web]
  <2>1. /\ anchor # None
        /\ UNCHANGED <<found, at, record, jobs, active, ans, retry, seeded, crossed>>
    BY <1>5 DEF SaveSnapshot
  <2>2. CASE Sibling(t, anchor.local) /\ Work[t] >= Work[anchor.local]
             /\ Commits(t, Work[t] = Work[anchor.local]) /\ AnchorTo(t)
    BY <1>0, <1>3, <2>1, <2>2 DEF AnchorType
  <2>3. CASE Commits(t, FALSE) /\ MoveTip(t) /\ anchor' = None
    <3>1. ~OnChain(t, tip)
      BY <1>0, <2>3, NotOnChain DEF Commits
    <3>2. AnchorInv'
      BY <2>3 DEF AnchorInv
    <3> QED
      BY <1>0, <2>1, <2>3, <3>1, <3>2, SaveKeeps
  <2> QED
    BY <1>5, <2>2, <2>3 DEF SaveSnapshot
<1>6. CASE LoadForSnapshot
  <2>1. anchor'.stage = "snapshot"
    BY <1>0, <1>6 DEF LoadForSnapshot, AnchorType
  <2>2. AnchorInv'
    BY <2>1 DEF AnchorInv
  <2> QED
    BY <1>1, <1>6, <2>2 DEF LoadForSnapshot, history
<1>7. CASE ClearAfterAnchor
  <2>1. /\ anchor # None /\ anchor.stage = "saved" /\ record' = None /\ anchor' = None
        /\ crossed' = (crossed \/ Takes(anchor.local))
        /\ UNCHANGED <<found, at, tip, jobs, active, ans, retry, owed, seeded>>
    BY <1>7 DEF ClearAfterAnchor
  <2>2. anchor.local \in Block /\ anchor.local # tip
    BY <1>0, <2>1, ChildFacts DEF KeepInv, AnchorInv, Past, AnchorType
  <2>3. KeptUnlessCrossed'
    BY <2>1, <2>2 DEF KeepInv, KeptUnlessCrossed, StaysQueued, Queued, Takes
  <2>4. /\ OwedInv' /\ KnownInv' /\ FirstInv' /\ RetryInv' /\ HeightInv' /\ AnchorInv'
    BY <2>1 DEF KeepInv, OwedInv, OnChain, KnownInv, FirstInv, RetryInv, Retries, HeightInv, AnchorInv
  <2> QED
    BY <2>1, <2>3, <2>4, SeedsStay DEF KeepInv
<1>8. CASE AnchorFails
  <2>1. AnchorInv'
    BY <1>8 DEF AnchorFails, AnchorInv
  <2> QED
    BY <1>1, <1>8, <2>1 DEF AnchorFails, history
<1> QED
  BY <1>2, <1>4, <1>5, <1>6, <1>7, <1>8 DEF Anchor, GatherAny, Save, EndAnchor

(* After a restart the chain and the record are all there is.              *)
LEMMA CrashKeeps ==
  ASSUME Inv, KeepInv, Crash
  PROVE  KeepInv'
BY DEF KeepInv, Crash, history, OwedInv, OnChain, KnownInv, FirstInv, RetryInv, HeightInv, SeedInv,
   AnchorInv, KeptUnlessCrossed, StaysQueued, Queued

(* Nothing is owed initially.                                              *)
LEMMA InitKeep == Init => KeepInv
<1> SUFFICES ASSUME Init PROVE KeepInv
  OBVIOUS
<1>1. ASSUME NEW b \in Block, OnChain(b, Genesis) PROVE b = Genesis
  BY <1>1, TreeAssumption DEF OnChain
<1>2. \A p \in Seeds : at[p] = Genesis
  BY NetworkAssumption DEF Init, Seeds
<1>3. SeedInv
  BY <1>1, <1>2 DEF Init, SeedInv
<1> QED
  BY <1>3 DEF Init, KeepInv, OwedInv, KnownInv, FirstInv, RetryInv, HeightInv, AnchorInv,
     KeptUnlessCrossed, StaysQueued

(* Every step keeps a found block in the record, or crosses it.            *)
LEMMA NextKeep == Inv /\ KeepInv /\ [Next]_vars => KeepInv'
<1> SUFFICES ASSUME Inv, KeepInv, [Next]_vars PROVE KeepInv'
  OBVIOUS
<1>1. CASE UNCHANGED vars
  BY <1>1 DEF vars, KeepInv, OwedInv, OnChain, KnownInv, FirstInv, RetryInv, Retries, HeightInv, SeedInv,
     AnchorInv, Past, Sibling, KeptUnlessCrossed, StaysQueued, Queued
<1>2. CASE Next
  BY <1>2, ConnectKeeps, AdoptKeeps, PeersKeep, EnterKeeps, AnswerKeeps, CloseKeeps, RetryKeeps, AnchorKeeps,
     CrashKeeps DEF Next, Find, Sync
<1> QED
  BY <1>1, <1>2

(* An undelivered block of this node that is its tip keeps its record, or  *)
(* a seed has the block, unless a thread that was working on another block *)
(* took the record away: no lost answer, late retry, crash or re-anchor of *)
(* that same block, and no answer of a peer that is not official, does.    *)
THEOREM RecordKept == Spec => []KeptUnlessCrossed
<1>1. KeepInv => KeptUnlessCrossed
  BY DEF KeepInv
<1> QED
  BY <1>1, InitInv, NextInv, InitKeep, NextKeep, PTL DEF Spec
=============================================================================

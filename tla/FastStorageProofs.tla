-------------------------- MODULE FastStorageProofs --------------------------
(***************************************************************************)
(* Proofs about FastStorage, for every block tree, every clock and every   *)
(* bound.  The argument is one inductive invariant, Inv: CURRENT and       *)
(* PREVIOUS always name complete commits; the writer's base is CURRENT     *)
(* from the start of a commit to the replacement of CURRENT; and the name  *)
(* the new commit writes to (a later revision of the same generation, or a *)
(* new generation) is not a name either pointer uses.                      *)
(*                                                                         *)
(* The second part is about FastStorageFaults, the same directory on a     *)
(* disk that fails.  PointerInv holds after any number of faults, StartInv *)
(* and CoverInv after one: CURRENT may be gone, the base is then PREVIOUS, *)
(* and the commits that are needed (Held) stay complete all the same.      *)
(***************************************************************************)
EXTENDS FastStorageFaults, SequenceTheorems, TLAPS

Writing == {"truncate", "append", "full", "state", "previous", "current"}

CurrentInv == cur # Missing => Usable(cur)

(* PREVIOUS is an earlier name than CURRENT, or the same one. *)
PreviousInv ==
  prv # Missing =>
    /\ Usable(prv)
    /\ cur # Missing
    /\ Work[prv.tip] <= Work[cur.tip]
    /\ prv.gen <= cur.gen
    /\ prv.gen = cur.gen => prv.rev <= cur.rev /\ prv.records <= cur.records

(* What the writer has decided when a commit begins. *)
PlanInv ==
  pc \in Writing =>
    /\ new \in Commit
    /\ new.records = Height[new.tip] + 1
    /\ base = cur
    /\ base # Missing =>
         /\ NotBehindCommitted(new.tip, base, policy)
         /\ new.gen = NextGen(new.tip, base)
         /\ new.rev = NextRev(new.tip, base)
    /\ pc \in {"truncate", "append"} =>
         base # Missing /\ Extends(new.tip, base)
    /\ pc = "full" /\ base # Missing => ~Extends(new.tip, base)
    /\ pc = "previous" => base # Missing
    /\ pc = "current" /\ base # Missing => prv = base

(* What it has written so far. *)
AppendInv ==
  pc = "append" =>
    /\ new.gen \in DOMAIN journal
    /\ base.records <= Len(journal[new.gen])
    /\ Len(journal[new.gen]) <= new.records
    /\ \A h \in 0..(Len(journal[new.gen]) - 1) :
         journal[new.gen][h + 1] = BlockAt[new.tip][h]

WrittenInv ==
  /\ pc \in {"state", "previous", "current"} => JournalHolds(new)
  /\ pc \in {"previous", "current"} => StateHolds(new)
  /\ pc \in {"cleanup", "export"} => new \in Commit /\ cur = new

Inv ==
  /\ TypeOK
  /\ CurrentInv
  /\ PreviousInv
  /\ PlanInv
  /\ AppendInv
  /\ WrittenInv
-----------------------------------------------------------------------------
(* A chain that extends a commit agrees with it on the committed prefix.   *)
LEMMA BranchPoint ==
  ASSUME NEW t \in Tip, NEW c \in Commit,
         c.records = Height[c.tip] + 1, Extends(t, c)
  PROVE  \A h \in 0..(c.records - 1) : BlockAt[t][h] = BlockAt[c.tip][h]
BY ChainAssumption, SMTT(60) DEF Extends, Commit

(* A usable commit stays usable when its state file and the journal        *)
(* records it counts are what they were.                                   *)
LEMMA StaysUsable ==
  ASSUME NEW p, Usable(p), p \in Commit,
         StateName(p) \in DOMAIN states',
         states'[StateName(p)] = states[StateName(p)],
         p.gen \in DOMAIN journal',
         Len(journal'[p.gen]) >= p.records,
         \A h \in 0..(p.records - 1) :
           journal'[p.gen][h + 1] = journal[p.gen][h + 1]
  PROVE  Usable(p)'
BY DEF Usable, StateHolds, JournalHolds, IsPointer

LEMMA InitInv == Init => Inv
<1> SUFFICES ASSUME Init PROVE Inv
  OBVIOUS
<1>1. TypeOK
  BY DEF Init, TypeOK, Policies
<1> QED
  BY <1>1 DEF Init, Inv, CurrentInv, PreviousInv, PlanInv, AppendInv,
              WrittenInv, Writing

(* Steps that leave every file alone. *)
LEMMA RestingStep ==
  ASSUME Inv, UNCHANGED disk, pc' \in {"down", "idle"},
         UNCHANGED <<base, new, policy>> \/ (base' = Missing /\ new' = Missing /\ policy' = "Normal")
  PROVE  Inv'
<1>1. TypeOK'
  BY DEF Inv, TypeOK, disk, Policies
<1>2. CurrentInv' /\ PreviousInv'
  BY DEF Inv, CurrentInv, PreviousInv, disk, Usable, StateHolds, JournalHolds
<1>3. PlanInv' /\ AppendInv' /\ WrittenInv'
  BY DEF PlanInv, AppendInv, WrittenInv, Writing
<1> QED
  BY <1>1, <1>2, <1>3 DEF Inv

(* A commit begins: the writer's base is CURRENT, because CURRENT verifies. *)
LEMMA BeginStep ==
  ASSUME Inv, NEW s \in Snapshot, NEW pol \in Policies, BeginCommit(s, pol)
  PROVE  Inv'
<1>1. cur # Missing /\ Usable(cur) /\ WriterBase = cur
  BY FileAssumption DEF Inv, CurrentInv, PreviousInv, BeginCommit, FastStorageExists,
     WriterBase, Usable
<1>2. cur \in Commit /\ s.tip \in Tip /\ s.mem \in Mempool
  BY <1>1 DEF Inv, TypeOK, Usable, IsPointer, Snapshot
<1>3. /\ NextGen(s.tip, cur) \in Nat
      /\ NextRev(s.tip, cur) \in Nat
  BY <1>2 DEF NextGen, NextRev, Commit
<1>4. /\ new' = NewCommit(NextGen(s.tip, cur), NextRev(s.tip, cur), s)
      /\ base' = cur /\ policy' = pol /\ UNCHANGED disk
      /\ NotBehindCommitted(s.tip, cur, pol)
      /\ pc' = IF Extends(s.tip, cur) THEN "truncate" ELSE "full"
  BY <1>1 DEF BeginCommit
<1>5. /\ new' \in Commit
      /\ new'.gen = NextGen(s.tip, cur)
      /\ new'.rev = NextRev(s.tip, cur)
      /\ new'.tip = s.tip
      /\ new'.records = Height[s.tip] + 1
  BY <1>2, <1>3, <1>4, ChainAssumption DEF NewCommit, Commit
<1>6. TypeOK'
  BY <1>2, <1>4, <1>5 DEF Inv, TypeOK, disk
<1>7. CurrentInv' /\ PreviousInv'
  BY <1>4 DEF Inv, CurrentInv, PreviousInv, disk, Usable, StateHolds, JournalHolds
<1>8. PlanInv'
  BY <1>1, <1>4, <1>5 DEF PlanInv, Writing, disk
<1>9. AppendInv' /\ WrittenInv'
  BY <1>4 DEF AppendInv, WrittenInv
<1> QED
  BY <1>6, <1>7, <1>8, <1>9 DEF Inv

(* The first commit of a directory: both pointers are absent. *)
LEMMA InitialiseStep ==
  ASSUME Inv, ~FastStorageExists, NEW s \in Snapshot, Initialise(s)
  PROVE  Inv'
<1>1. PICK g \in StartGens :
        /\ base' = Missing
        /\ new' = NewCommit(g, 1, s)
        /\ policy' = "Normal"
        /\ pc' = "full"
        /\ UNCHANGED disk
  BY DEF Initialise
<1>2. new' \in Commit /\ new'.records = Height[new'.tip] + 1
  BY <1>1, ChainAssumption, ConfigAssumption DEF NewCommit, Commit, Snapshot
<1>3. TypeOK'
  BY <1>1, <1>2 DEF Inv, TypeOK, disk, Policies
<1>4. CurrentInv' /\ PreviousInv'
  BY <1>1 DEF Inv, CurrentInv, PreviousInv, FastStorageExists, disk
<1>5. PlanInv' /\ AppendInv' /\ WrittenInv'
  BY <1>1, <1>2 DEF PlanInv, AppendInv, WrittenInv, FastStorageExists, disk
<1> QED
  BY <1>3, <1>4, <1>5 DEF Inv

(* What cannot change as long as the journal of CURRENT's generation keeps *)
(* CURRENT's records and the other journals are not touched.               *)
LEMMA AppendingStep ==
  ASSUME Inv, pc \in {"truncate", "append"}, UNCHANGED <<cur, prv, states>>,
         NEW recs \in Seq(Tip \cup {Torn}),
         journal' = Put(journal, cur.gen, recs),
         Len(recs) >= cur.records,
         \A h \in 0..(cur.records - 1) : recs[h + 1] = journal[cur.gen][h + 1]
  PROVE  CurrentInv' /\ PreviousInv'
<1>1. cur # Missing /\ Usable(cur) /\ cur \in Commit
  BY DEF Inv, PlanInv, Writing, CurrentInv, TypeOK, Usable, IsPointer
<1>2. Usable(cur)'
  BY <1>1 DEF Usable, StateHolds, JournalHolds, IsPointer, Put, Commit
<1>3. ASSUME prv # Missing
      PROVE  Usable(prv)'
  <2>1. prv \in Commit /\ Usable(prv)
    BY <1>3 DEF Inv, PreviousInv, TypeOK, Usable, IsPointer
  <2>2. CASE prv.gen = cur.gen
    <3>1. prv.records <= cur.records /\ prv.records \in Nat /\ cur.records \in Nat
      BY <1>1, <1>3, <2>1, <2>2 DEF Inv, PreviousInv, Commit
    <3> QED
      BY <1>1, <2>1, <2>2, <3>1 DEF Usable, StateHolds, JournalHolds, IsPointer, Put
  <2>3. CASE prv.gen # cur.gen
    BY <2>1, <2>3 DEF Usable, StateHolds, JournalHolds, IsPointer, Put
  <2> QED
    BY <2>2, <2>3
<1> QED
  BY <1>2, <1>3 DEF Inv, CurrentInv, PreviousInv

LEMMA TruncateStep ==
  ASSUME Inv, Truncate
  PROVE  Inv'
<1> DEFINE recs == SubSeq(journal[cur.gen], 1, cur.records)
<1>1. /\ cur \in Commit /\ Usable(cur) /\ base = cur /\ new \in Commit
      /\ cur # Missing /\ Extends(new.tip, cur) /\ new.gen = cur.gen
      /\ new.records = Height[new.tip] + 1
  BY DEF Inv, PlanInv, Truncate, Writing, CurrentInv, TypeOK, Usable, IsPointer, NextGen
<1>2. /\ cur.gen \in DOMAIN journal
      /\ journal[cur.gen] \in Seq(Tip \cup {Torn})
      /\ Len(journal[cur.gen]) >= cur.records
      /\ cur.records \in Nat
      /\ cur.records = Height[cur.tip] + 1
      /\ \A h \in 0..(cur.records - 1) : journal[cur.gen][h + 1] = BlockAt[cur.tip][h]
  BY <1>1 DEF Usable, JournalHolds, Inv, TypeOK, Commit
<1>3. /\ recs \in Seq(Tip \cup {Torn})
      /\ Len(recs) = cur.records
      /\ \A h \in 0..(cur.records - 1) : recs[h + 1] = journal[cur.gen][h + 1]
  BY <1>2
<1>4. journal' = Put(journal, cur.gen, recs)
  BY <1>1 DEF Truncate
<1> HIDE DEF recs
<1>5. CurrentInv' /\ PreviousInv'
  BY <1>2, <1>3, <1>4, AppendingStep DEF Truncate
<1>6. TypeOK'
  BY <1>2, <1>3, <1>4, ZenonT(60) DEF Inv, TypeOK, Truncate, Put
<1>7. PlanInv'
  BY <1>1 DEF Inv, PlanInv, Truncate, Writing
<1>8. AppendInv'
  <2>1. \A h \in 0..(cur.records - 1) : BlockAt[new.tip][h] = BlockAt[cur.tip][h]
    BY <1>1, <1>2, BranchPoint DEF Commit
  <2>2. journal'[new.gen] = recs /\ new.gen \in DOMAIN journal'
    BY <1>1, <1>4 DEF Put
  <2>3. cur.records <= new.records
    BY <1>1, <1>2, ChainAssumption, SMTT(60) DEF Extends, Commit
  <2> QED
    BY <1>1, <1>2, <1>3, <2>1, <2>2, <2>3 DEF AppendInv, Truncate
<1>9. WrittenInv'
  BY DEF WrittenInv, Truncate
<1> QED
  BY <1>5, <1>6, <1>7, <1>8, <1>9 DEF Inv

LEMMA AppendRecordStep ==
  ASSUME Inv, AppendRecord
  PROVE  Inv'
<1> DEFINE old  == journal[new.gen]
           recs == Append(old, BlockAt[new.tip][Len(old)])
<1>1. /\ cur \in Commit /\ Usable(cur) /\ base = cur /\ new \in Commit
      /\ Extends(new.tip, cur) /\ new.gen = cur.gen
      /\ new.records = Height[new.tip] + 1
  BY DEF Inv, PlanInv, AppendRecord, Writing, CurrentInv, TypeOK, Usable, IsPointer, NextGen
<1>2. /\ new.gen \in DOMAIN journal
      /\ old \in Seq(Tip \cup {Torn})
      /\ cur.records \in Nat /\ new.records \in Nat
      /\ Len(old) \in Nat
      /\ cur.records <= Len(old)
      /\ Len(old) < new.records
      /\ \A h \in 0..(Len(old) - 1) : old[h + 1] = BlockAt[new.tip][h]
  BY <1>1 DEF AppendRecord, Inv, TypeOK, AppendInv, Commit
<1>3. BlockAt[new.tip][Len(old)] \in Tip
  BY <1>1, <1>2, ChainAssumption, SMTT(60) DEF Commit
<1>4. /\ recs \in Seq(Tip \cup {Torn})
      /\ Len(recs) = Len(old) + 1
      /\ \A h \in 0..(Len(old) - 1) : recs[h + 1] = old[h + 1]
      /\ recs[Len(old) + 1] = BlockAt[new.tip][Len(old)]
  BY <1>2, <1>3
<1>5. journal' = Put(journal, new.gen, recs)
  BY DEF AppendRecord
<1> HIDE DEF recs
<1>6. CurrentInv' /\ PreviousInv'
  BY <1>1, <1>2, <1>4, <1>5, AppendingStep, SMTT(60) DEF AppendRecord
<1>7. TypeOK'
  BY <1>2, <1>4, <1>5 DEF Inv, TypeOK, AppendRecord, Put
<1>8. PlanInv'
  BY <1>1 DEF Inv, PlanInv, AppendRecord, Writing
<1>9. AppendInv'
  <2>1. journal'[new.gen] = recs /\ new.gen \in DOMAIN journal'
    BY <1>5 DEF Put
  <2>2. \A h \in 0..(Len(recs) - 1) : recs[h + 1] = BlockAt[new.tip][h]
    BY <1>2, <1>4, SMTT(60)
  <2>3. cur.records <= Len(recs) /\ Len(recs) <= new.records
    BY <1>2, <1>4
  <2>4. UNCHANGED <<base, new>>
    BY DEF AppendRecord
  <2> HIDE DEF old
  <2> QED
    BY <1>1, <2>1, <2>2, <2>3, <2>4 DEF AppendInv
<1>10. WrittenInv'
  BY DEF WrittenInv, AppendRecord
<1> QED
  BY <1>6, <1>7, <1>8, <1>9, <1>10 DEF Inv

LEMMA SyncJournalStep ==
  ASSUME Inv, SyncJournal
  PROVE  Inv'
<1>1. TypeOK'
  BY DEF Inv, TypeOK, SyncJournal, disk
<1>2. CurrentInv' /\ PreviousInv'
  BY DEF Inv, CurrentInv, PreviousInv, SyncJournal, disk, Usable, StateHolds, JournalHolds
<1>3. PlanInv' /\ AppendInv'
  BY DEF Inv, PlanInv, AppendInv, SyncJournal, disk, Writing
<1>4. WrittenInv'
  BY DEF Inv, PlanInv, AppendInv, WrittenInv, SyncJournal, disk, Writing, JournalHolds
<1> QED
  BY <1>1, <1>2, <1>3, <1>4 DEF Inv

(* A journal that is written whole has a generation neither pointer uses.  *)
LEMMA WriteFullJournalStep ==
  ASSUME Inv, WriteFullJournal
  PROVE  Inv'
<1> DEFINE recs == [i \in 1..new.records |-> BlockAt[new.tip][i - 1]]
<1>1. new \in Commit /\ new.records = Height[new.tip] + 1 /\ base = cur
  BY DEF Inv, PlanInv, WriteFullJournal, Writing
<1>2. recs \in Seq(Tip \cup {Torn}) /\ Len(recs) = new.records
  <2>1. \A i \in 1..new.records : i - 1 \in 0..Height[new.tip]
    BY <1>1, ChainAssumption DEF Commit
  <2>2. \A i \in 1..new.records : BlockAt[new.tip][i - 1] \in Tip
    BY <1>1, <2>1, ChainAssumption DEF Commit
  <2> QED
    BY <1>1, <2>2 DEF Commit
<1>3. \A h \in 0..(new.records - 1) : recs[h + 1] = BlockAt[new.tip][h]
  BY <1>1 DEF Commit
<1>4. journal' = Put(journal, new.gen, recs)
  BY DEF WriteFullJournal
<1> HIDE DEF recs
<1>5. TypeOK'
  BY <1>1, <1>2, <1>4 DEF Inv, TypeOK, WriteFullJournal, Put, Commit
<1>6. ASSUME cur # Missing
      PROVE  cur \in Commit /\ cur.gen # new.gen /\ (prv # Missing => prv \in Commit /\ prv.gen # new.gen)
  <2>1. cur \in Commit /\ new.gen = cur.gen + 1
    BY <1>1, <1>6 DEF Inv, PlanInv, WriteFullJournal, Writing, NextGen, CurrentInv,
       TypeOK, Usable, IsPointer
  <2>2. prv # Missing => prv \in Commit /\ prv.gen <= cur.gen
    BY DEF Inv, PreviousInv, TypeOK, Usable, IsPointer
  <2> QED
    BY <2>1, <2>2 DEF Commit
<1>7. cur # Missing => Usable(cur)'
  BY <1>4, <1>6 DEF Inv, CurrentInv, Usable, StateHolds, JournalHolds, WriteFullJournal, Put
<1>8. prv # Missing => Usable(prv)'
  BY <1>4, <1>6 DEF Inv, PreviousInv, Usable, StateHolds, JournalHolds, WriteFullJournal, Put
<1>9. CurrentInv' /\ PreviousInv'
  BY <1>7, <1>8 DEF Inv, CurrentInv, PreviousInv, WriteFullJournal
<1>10. PlanInv' /\ AppendInv'
  BY DEF Inv, PlanInv, AppendInv, WriteFullJournal, Writing
<1>11. WrittenInv'
  BY <1>1, <1>2, <1>3, <1>4 DEF WrittenInv, WriteFullJournal, JournalHolds, Put, Commit
<1> QED
  BY <1>5, <1>9, <1>10, <1>11 DEF Inv

(* The name of the new state file is not one either pointer uses.          *)
LEMMA FreshName ==
  ASSUME Inv, pc \in Writing, cur # Missing
  PROVE  /\ StateName(new) # StateName(cur)
         /\ prv # Missing => StateName(new) # StateName(prv)
<1>1. cur \in Commit /\ new \in Commit
  BY DEF Inv, PlanInv, CurrentInv, TypeOK, Usable, IsPointer
<1>2. \/ new.gen = cur.gen /\ new.rev = cur.rev + 1
      \/ new.gen = cur.gen + 1
  BY DEF Inv, PlanInv, NextGen, NextRev
<1>3. prv # Missing => /\ prv \in Commit /\ prv.gen <= cur.gen
                       /\ prv.gen = cur.gen => prv.rev <= cur.rev
  BY DEF Inv, PreviousInv, TypeOK, Usable, IsPointer
<1> QED
  BY <1>1, <1>2, <1>3 DEF StateName, Commit

LEMMA WriteStateStep ==
  ASSUME Inv, WriteState
  PROVE  Inv'
<1>1. new \in Commit /\ base = cur /\ JournalHolds(new)
  BY DEF Inv, PlanInv, WrittenInv, WriteState, Writing
<1>2. states' = Put(states, StateName(new), new) /\ UNCHANGED <<cur, prv, journal>>
  BY DEF WriteState
<1>3. TypeOK'
  BY <1>1, <1>2 DEF Inv, TypeOK, WriteState, Put, StateName, Commit
<1>4. cur # Missing => Usable(cur)'
  BY <1>2, FreshName DEF Inv, CurrentInv, Usable, StateHolds, JournalHolds, WriteState, Put, Writing
<1>5. prv # Missing => Usable(prv)'
  BY <1>2, FreshName DEF Inv, PreviousInv, Usable, StateHolds, JournalHolds, WriteState, Put, Writing
<1>6. CurrentInv' /\ PreviousInv'
  BY <1>2, <1>4, <1>5 DEF Inv, CurrentInv, PreviousInv
<1>7. PlanInv' /\ AppendInv'
  <2>1. base = Missing => cur = Missing /\ prv = Missing
    BY <1>1 DEF Inv, PreviousInv
  <2> QED
    BY <2>1 DEF Inv, PlanInv, AppendInv, WriteState, Writing
<1>8. WrittenInv'
  BY <1>1, <1>2 DEF WrittenInv, WriteState, JournalHolds, StateHolds, Put
<1> QED
  BY <1>3, <1>6, <1>7, <1>8 DEF Inv

(* PREVIOUS takes the commit CURRENT names, which is complete. *)
LEMMA WritePreviousStep ==
  ASSUME Inv, WritePrevious
  PROVE  Inv'
<1>1. base = cur /\ cur # Missing /\ Usable(cur) /\ cur \in Commit
  BY DEF Inv, PlanInv, WritePrevious, Writing, CurrentInv, TypeOK, Usable, IsPointer
<1>2. prv' = cur /\ UNCHANGED <<cur, states, journal>>
  BY <1>1 DEF WritePrevious
<1>3. TypeOK'
  BY <1>1, <1>2 DEF Inv, TypeOK, WritePrevious
<1>4. CurrentInv'
  BY <1>1, <1>2 DEF CurrentInv, Usable, StateHolds, JournalHolds
<1>5. PreviousInv'
  BY <1>1, <1>2, ChainAssumption DEF PreviousInv, Usable, StateHolds, JournalHolds, Commit
<1>6. PlanInv' /\ AppendInv' /\ WrittenInv'
  BY <1>1 DEF Inv, PlanInv, AppendInv, WrittenInv, WritePrevious, Writing, JournalHolds, StateHolds
<1> QED
  BY <1>3, <1>4, <1>5, <1>6 DEF Inv

(* The new commit is complete when CURRENT names it, and not behind the    *)
(* commit it replaces.                                                     *)
LEMMA WriteCurrentStep ==
  ASSUME Inv, WriteCurrent
  PROVE  /\ Inv'
         /\ base = cur
         /\ cur' = new /\ new \in Commit
         /\ cur # Missing => cur \in Commit /\ NotBehindCommitted(new.tip, cur, policy)
<1>1. /\ base = cur /\ new \in Commit /\ new.records = Height[new.tip] + 1
      /\ JournalHolds(new) /\ StateHolds(new)
  BY DEF Inv, PlanInv, WrittenInv, WriteCurrent, Writing
<1>2. cur' = new /\ UNCHANGED <<prv, states, journal>>
  BY DEF WriteCurrent
<1>3. TypeOK'
  BY <1>1, <1>2 DEF Inv, TypeOK, WriteCurrent
<1>4. CurrentInv'
  BY <1>1, <1>2, FileAssumption DEF CurrentInv, Usable, IsPointer, StateHolds, JournalHolds
<1>5. cur # Missing => /\ cur \in Commit
                       /\ NotBehindCommitted(new.tip, cur, policy)
                       /\ prv = cur
                       /\ new.gen = NextGen(new.tip, cur)
                       /\ new.rev = NextRev(new.tip, cur)
  BY <1>1 DEF Inv, PlanInv, CurrentInv, TypeOK, Usable, IsPointer, WriteCurrent, Writing
<1>6. PreviousInv'
  <2>1. SUFFICES ASSUME prv # Missing
                 PROVE  PreviousInv'
    BY <1>2 DEF PreviousInv
  <2>2. cur # Missing /\ Usable(prv)
    BY <2>1 DEF Inv, PreviousInv
  <2>3. Usable(prv)'
    BY <1>2, <2>2 DEF Usable, StateHolds, JournalHolds
  <2>4. new # Missing
    BY <1>1, FileAssumption
  <2>5. Work[prv.tip] <= Work[new.tip]
    BY <1>1, <1>5, <2>2, ChainAssumption DEF NotBehindCommitted, Stale, Commit
  <2>6. prv.gen <= new.gen
    BY <1>1, <1>5, <2>2 DEF NextGen, Commit
  <2>7. ASSUME prv.gen = new.gen
        PROVE  prv.rev <= new.rev /\ prv.records <= new.records
    <3>1. Extends(new.tip, cur)
      BY <1>5, <2>2, <2>7 DEF NextGen, Commit
    <3> QED
      BY <1>1, <1>5, <2>2, <3>1, ChainAssumption, SMTT(60) DEF NextRev, Extends, Commit
  <2> QED
    BY <1>2, <2>1, <2>3, <2>4, <2>5, <2>6, <2>7 DEF PreviousInv
<1>7. PlanInv' /\ AppendInv' /\ WrittenInv'
  BY <1>1, <1>2 DEF PlanInv, AppendInv, WrittenInv, WriteCurrent, Writing
<1> QED
  BY <1>1, <1>2, <1>3, <1>4, <1>5, <1>6, <1>7 DEF Inv

(* Pruning keeps the files of both pointers. *)
LEMMA CleanupStep ==
  ASSUME Inv, Cleanup
  PROVE  Inv'
<1>1. PICK S \in SUBSET DOMAIN states, J \in SUBSET DOMAIN journal :
        /\ KeptStates \cap DOMAIN states \subseteq S
        /\ KeptJournals \cap DOMAIN journal \subseteq J
        /\ states' = Keep(states, S)
        /\ journal' = Keep(journal, J)
  BY DEF Cleanup
<1>2. new = cur /\ cur \in Commit /\ UNCHANGED <<cur, prv>>
  BY DEF Inv, WrittenInv, Cleanup
<1>3. TypeOK'
  BY <1>1 DEF Inv, TypeOK, Cleanup, Keep
<1>4. cur # Missing => Usable(cur)'
  BY <1>1, <1>2 DEF Inv, CurrentInv, Usable, StateHolds, JournalHolds, Keep, KeptStates, KeptJournals
<1>5. prv # Missing => Usable(prv)'
  BY <1>1, <1>2 DEF Inv, PreviousInv, Usable, IsPointer, StateHolds, JournalHolds, Keep,
     KeptStates, KeptJournals
<1>6. CurrentInv' /\ PreviousInv'
  BY <1>2, <1>4, <1>5 DEF Inv, CurrentInv, PreviousInv
<1>7. PlanInv' /\ AppendInv' /\ WrittenInv'
  BY <1>2 DEF PlanInv, AppendInv, WrittenInv, Cleanup, Writing
<1> QED
  BY <1>3, <1>6, <1>7 DEF Inv

LEMMA ExportStep ==
  ASSUME Inv, Export
  PROVE  Inv'
<1>1. new \in Commit
  BY DEF Inv, WrittenInv, Export
<1>2. TypeOK'
  BY <1>1 DEF Inv, TypeOK, Export, Snap, Snapshot, Commit, Policies
<1>3. CurrentInv' /\ PreviousInv'
  BY DEF Inv, CurrentInv, PreviousInv, Export, Usable, StateHolds, JournalHolds
<1>4. PlanInv' /\ AppendInv' /\ WrittenInv'
  BY DEF PlanInv, AppendInv, WrittenInv, Export, Writing
<1> QED
  BY <1>2, <1>3, <1>4 DEF Inv

(* A torn record is appended behind every record a pointer counts. *)
LEMMA CrashStep ==
  ASSUME Inv, Crash
  PROVE  Inv'
<1>1. CASE journal' = journal
  BY <1>1, RestingStep DEF Crash, disk
<1>2. CASE pc = "append" /\ journal' = Put(journal, new.gen, Append(journal[new.gen], Torn))
  <2> DEFINE old  == journal[new.gen]
             recs == Append(old, Torn)
  <2>1. /\ cur \in Commit /\ base = cur /\ new.gen = cur.gen
    BY <1>2 DEF Inv, PlanInv, Writing, CurrentInv, TypeOK, Usable, IsPointer, NextGen
  <2>2. /\ new.gen \in DOMAIN journal
        /\ old \in Seq(Tip \cup {Torn})
        /\ cur.records \in Nat /\ Len(old) \in Nat
        /\ cur.records <= Len(old)
    BY <1>2, <2>1 DEF Inv, TypeOK, AppendInv, Commit
  <2>3. /\ recs \in Seq(Tip \cup {Torn})
        /\ Len(recs) = Len(old) + 1
        /\ \A h \in 0..(Len(old) - 1) : recs[h + 1] = old[h + 1]
    BY <2>2
  <2>4. journal' = Put(journal, cur.gen, recs)
    BY <1>2, <2>1
  <2> HIDE DEF recs
  <2>5. CurrentInv' /\ PreviousInv'
    BY <1>2, <2>1, <2>2, <2>3, <2>4, AppendingStep, SMTT(60) DEF Crash
  <2>6. TypeOK'
    BY <2>2, <2>1, <2>3, <2>4 DEF Inv, TypeOK, Crash, Put, Policies
  <2>7. PlanInv' /\ AppendInv' /\ WrittenInv'
    BY DEF PlanInv, AppendInv, WrittenInv, Crash, Writing
  <2> QED
    BY <2>5, <2>6, <2>7 DEF Inv
<1> QED
  BY <1>1, <1>2 DEF Crash
-----------------------------------------------------------------------------
LEMMA NextInv == Inv /\ [Next]_vars => Inv'
<1> SUFFICES ASSUME Inv, [Next]_vars PROVE Inv'
  OBVIOUS
<1>1. CASE Load
  BY <1>1, RestingStep DEF Load
<1>2. CASE LoadOrInit
  <2>1. PICK m \in Mempool :
          Initialise(IF legacy # Missing THEN legacy ELSE [tip |-> Genesis, mem |-> m])
    BY <1>2 DEF LoadOrInit
  <2>2. (IF legacy # Missing THEN legacy ELSE [tip |-> Genesis, mem |-> m]) \in Snapshot
    BY ChainAssumption DEF Inv, TypeOK, Snapshot
  <2> QED
    BY <1>2, <2>1, <2>2, InitialiseStep DEF LoadOrInit
<1>3. CASE LoadLegacyForUi
  BY <1>3, RestingStep DEF LoadLegacyForUi
<1>4. ASSUME NEW s \in Snapshot, SaveInit(s) PROVE Inv'
  BY <1>4, InitialiseStep DEF SaveInit
<1>5. ASSUME NEW s \in Snapshot, NEW pol \in Policies, BeginCommit(s, pol) PROVE Inv'
  BY <1>5, BeginStep
<1>6. CASE Step
  BY <1>6, TruncateStep, AppendRecordStep, SyncJournalStep, WriteFullJournalStep,
     WriteStateStep, WritePreviousStep, WriteCurrentStep, CleanupStep, ExportStep DEF Step
<1>7. CASE Abort
  BY <1>7, RestingStep DEF Abort
<1>8. CASE Crash
  BY <1>8, CrashStep
<1>9. CASE UNCHANGED vars
  BY <1>9 DEF vars, Inv, TypeOK, CurrentInv, PreviousInv, PlanInv, AppendInv, WrittenInv,
     Usable, StateHolds, JournalHolds
<1> QED
  BY <1>1, <1>2, <1>3, <1>4, <1>5, <1>6, <1>7, <1>8, <1>9 DEF Next

LEMMA Invariance == Spec => []Inv
BY InitInv, NextInv, PTL DEF Spec

(* The files and the writer's registers always have their type. *)
THEOREM TypeCorrect == Spec => []TypeOK
<1>1. Inv => TypeOK
  BY DEF Inv
<1> QED
  BY <1>1, Invariance, PTL

(* A crash at any point leaves a directory that loads the commit           *)
(* CURRENT.json names.                                                     *)
THEOREM CrashSafe == Spec => []Recoverable
<1>1. Inv => Recoverable
  BY DEF Inv, CurrentInv, Recoverable, LoadResult
<1> QED
  BY <1>1, Invariance, PTL

(* PREVIOUS.json always names a commit that loads ... *)
THEOREM FallbackAlwaysUsable == Spec => []FallbackUsable
<1>1. Inv => FallbackUsable
  BY DEF Inv, PreviousInv, FallbackUsable
<1> QED
  BY <1>1, Invariance, PTL

(* ... and is not ahead of CURRENT.json. *)
THEOREM FallbackNeverAhead == Spec => []FallbackNotAhead
<1>1. Inv => FallbackNotAhead
  BY DEF Inv, PreviousInv, FallbackNotAhead
<1> QED
  BY <1>1, Invariance, PTL

(* Only the replacement of CURRENT.json changes CURRENT.json. *)
LEMMA OnlyWriteCurrent == [Next]_vars => WriteCurrent \/ cur' = cur
BY DEF Next, vars, Load, LoadOrInit, LoadLegacyForUi, SaveInit, BeginCommit, Initialise,
   Step, Truncate, AppendRecord, SyncJournal, WriteFullJournal, WriteState, WritePrevious,
   Cleanup, Export, Abort, Crash, disk

(* On mainnet a sibling of equal work replaces the committed tip in a      *)
(* verified re-anchor only.                                                *)
THEOREM SiblingRule == Spec => SiblingOnlyByReanchor
<1>1. Inv /\ [Next]_vars =>
        [cur # Missing /\ cur' # cur /\ EqualWorkSibling(cur'.tip, cur)
           => policy = "VerifiedEqualWorkReanchor"]_vars
  <2> SUFFICES ASSUME Inv, [Next]_vars, cur # Missing, cur' # cur,
                      EqualWorkSibling(cur'.tip, cur)
               PROVE  policy = "VerifiedEqualWorkReanchor"
    OBVIOUS
  <2>1. WriteCurrent
    BY OnlyWriteCurrent
  <2>2. NotBehindCommitted(cur'.tip, cur, policy)
    BY <2>1, WriteCurrentStep
  <2> QED
    BY <2>2 DEF NotBehindCommitted, Stale
<1> QED
  BY <1>1, Invariance, PTL DEF Spec, SiblingOnlyByReanchor

(* The files implement the register of CommittedStore: between crashes,    *)
(* aborted commits and restarts a load returns the last commit installed,  *)
(* and that commit is only ever replaced by one that is not behind it.     *)
THEOREM Refinement == Spec => ImplementsStore
<1>1. Init => Abs!StoreInit
  BY DEF Init, Abs!StoreInit, Committed, LoadResult, Usable, IsPointer
<1>2. Inv => Committed = IF cur = Missing THEN Missing ELSE Snap(cur)
  BY DEF Inv, CurrentInv, PreviousInv, Committed, LoadResult, Usable, IsPointer
<1>3. Inv' => (Committed = IF cur = Missing THEN Missing ELSE Snap(cur))'
  BY <1>2, PTL
<1>4. Inv /\ [Next]_vars => [Abs!StoreNext]_Committed
  <2> SUFFICES ASSUME Inv, [Next]_vars, Committed' # Committed
               PROVE  Abs!StoreNext
    OBVIOUS
  <2>1. Inv'
    BY NextInv
  <2>2. WriteCurrent
    BY <1>2, <1>3, <2>1, OnlyWriteCurrent
  <2>3. /\ cur' = new /\ new \in Commit
        /\ cur # Missing => cur \in Commit /\ NotBehindCommitted(new.tip, cur, policy)
    BY <2>2, WriteCurrentStep
  <2>4. Committed' = Snap(new) /\ Snap(new) \in Abs!Snapshot
    BY <1>3, <2>1, <2>3, FileAssumption DEF Snap, Abs!Snapshot, Commit
  <2>5. CASE cur = Missing
    BY <1>2, <2>4, <2>5 DEF Abs!StoreNext, Abs!Initialise
  <2>6. CASE cur # Missing
    <3>1. Committed = Snap(cur) /\ Snap(cur) # Missing
      BY <1>2, <2>3, <2>6, FileAssumption DEF Snap, Snapshot, Commit
    <3>2. Abs!NotBehind(new.tip, cur.tip)
      <4>1. cur.records = Height[cur.tip] + 1
        BY <2>6 DEF Inv, CurrentInv, Usable, JournalHolds
      <4> QED
        BY <2>3, <2>6, <4>1, ChainAssumption DEF NotBehindCommitted, Stale, Abs!NotBehind, Commit
    <3> QED
      BY <2>4, <3>1, <3>2 DEF Abs!StoreNext, Abs!Replace, Snap
  <2> QED
    BY <2>5, <2>6
<1> QED
  BY <1>1, <1>4, Invariance, PTL DEF Spec, ImplementsStore, Abs!StoreSpec
-----------------------------------------------------------------------------
(* On a disk that fails (FastStorageFaults).  PointerInv says what the two *)
(* pointer files can hold after any number of faults; StartInv that one    *)
(* fault leaves one of them in place.                                      *)

(* The writer is in a commit that is not installed yet.                    *)
Busy == Writing \cup {"install previous", "install current"}

(* CURRENT is the commit installed last or is lost, PREVIOUS that one, the *)
(* one it was built on, or lost; a commit without a base starts where      *)
(* neither pointer is; a pointer is moved aside when its replacement is    *)
(* known.                                                                  *)
PointerInv ==
  /\ faults \in Seq(FaultKinds) /\ Len(faults) <= MaxFaults
  /\ cur \in {Missing, Unreadable, last}
  /\ prv \in {Missing, Unreadable, last, before}
  /\ pc \in Busy =>
       /\ base \in {Missing, last, before}
       /\ base = Missing => cur = Missing /\ prv = Missing
  /\ pc \in {"previous", "install previous", "install current"} => base # Missing
  /\ pc \in {"install previous", "install current"} => faults # <<>>
  /\ pc = "install previous" => prv = Missing /\ backup \in {Unreadable, last, before}
  /\ pc = "install current" => cur = Missing /\ backup \in {Unreadable, last}
  /\ pc \in {"current", "install current"} => prv \in {Unreadable, base}

(* One fault leaves one of the pointer files in place.                     *)
StartInv ==
  /\ last # Missing /\ faults = <<>> => cur # Missing
  /\ last # Missing /\ Len(faults) <= 1 => FastStorageExists

(* Commits in the order of their names. *)
Behind(p, q) ==
  /\ p.gen <= q.gen
  /\ p.gen = q.gen => p.rev <= q.rev /\ p.records <= q.records

(* The commits whose files the writer may still need. *)
Held ==
  {p \in {cur, prv, backup} \cup {x \in {base} : pc \in Busy} : IsPointer(p)}

(* The files and registers have their types.                               *)
FileTypes ==
  /\ {cur, prv, backup} \subseteq Commit \cup {Missing, Unreadable}
  /\ {base, new} \subseteq Commit \cup {Missing}
  /\ DOMAIN states \subseteq Nat \X Nat
  /\ \A n \in DOMAIN states : states[n] \in Commit
  /\ DOMAIN journal \subseteq Nat
  /\ \A g \in DOMAIN journal : journal[g] \in Seq(Tip \cup {Torn})
  /\ legacy \in Snapshot \cup {Missing}

(* What is needed is complete, and PREVIOUS is not later than CURRENT.     *)
HeldInv ==
  /\ \A p \in Held : Usable(p)
  /\ IsPointer(cur) /\ IsPointer(prv) => Behind(prv, cur)
  /\ pc \notin {"install previous", "install current"} => backup = Missing

(* What the writer has decided: the base is CURRENT when that is there,    *)
(* and no commit that is needed is later than the base.                    *)
ChosenInv ==
  pc \in Busy =>
    /\ new \in Commit
    /\ new.records = Height[new.tip] + 1
    /\ base # Missing =>
         /\ new.gen = NextGen(new.tip, base)
         /\ new.rev = NextRev(new.tip, base)
         /\ IsPointer(cur) => cur = base
         /\ \A p \in Held : Behind(p, base)
    /\ pc \in {"truncate", "append"} => base # Missing /\ Extends(new.tip, base)
    /\ pc = "full" /\ base # Missing => ~Extends(new.tip, base)
    /\ pc = "install current" /\ IsPointer(backup) => backup = base

(* What it has written so far.                                             *)
LaidInv ==
  /\ pc \in Busy \ {"truncate", "append", "full"} => JournalHolds(new)
  /\ pc \in Busy \ {"truncate", "append", "full", "state"} => StateHolds(new)
  /\ pc \in {"cleanup", "export"} => new \in Commit /\ (IsPointer(cur) => cur = new)

(* One loss leaves one of the two pointers, from the second commit on. *)
LossInv ==
  /\ before # Missing => IsPointer(cur) \/ IsPointer(prv)
  /\ before # Missing /\ faults = <<>> => IsPointer(cur) /\ IsPointer(prv)
  /\ pc = "current" /\ faults = <<>> => prv = base

(* All this as long as one pointer file at most was lost.                  *)
CoverInv ==
  OnePointerLost =>
    FileTypes /\ HeldInv /\ ChosenInv /\ AppendInv /\ LaidInv /\ LossInv
-----------------------------------------------------------------------------
(* Nothing has been installed and nothing has failed.                      *)
LEMMA FInitPointers == FInit => PointerInv /\ StartInv
BY FaultAssumption DEF FInit, Init, PointerInv, StartInv, Busy, Writing

(* A fault is one more. *)
LEMMA OneMore ==
  ASSUME PointerInv, NEW k \in FaultKinds, Fault(k)
  PROVE  /\ faults' \in Seq(FaultKinds) /\ Len(faults') <= MaxFaults
         /\ Len(faults) \in Nat /\ Len(faults') = Len(faults) + 1
         /\ faults' # <<>>
         /\ Len(faults) <= 0 => faults = <<>>
<1>1. faults \in Seq(FaultKinds) /\ faults' = Append(faults, k) /\ Len(faults) < MaxFaults
  BY DEF PointerInv, Fault
<1>2. /\ Len(faults) \in Nat
      /\ Append(faults, k) \in Seq(FaultKinds) /\ Len(Append(faults, k)) = Len(faults) + 1
  BY <1>1
<1>3. Len(faults') # 0 /\ Len(<<>>) = 0
  BY <1>1, <1>2
<1>4. Len(faults) = 0 => faults = <<>>
  BY <1>1, EmptySeq
<1> QED
  BY <1>1, <1>2, <1>3, <1>4, FaultAssumption

(* Steps of a commit that leave the pointers and the history alone.        *)
LEMMA PointersRest ==
  ASSUME PointerInv, StartInv, UNCHANGED <<cur, prv, faults, last, before>>,
         pc' \notin Busy
  PROVE  PointerInv' /\ StartInv'
BY DEF PointerInv, StartInv, Busy, Writing, FastStorageExists

(* The first commit begins where there is neither pointer.                 *)
LEMMA PointersInitialise ==
  ASSUME PointerInv, StartInv, ~FastStorageExists, NEW s, Initialise(s), Quiet
  PROVE  PointerInv' /\ StartInv'
BY DEF PointerInv, StartInv, Busy, Writing, FastStorageExists, Initialise, Quiet, disk

(* A commit begins on the commit that a pointer names.                     *)
LEMMA PointersBegin ==
  ASSUME PointerInv, StartInv, NEW s, NEW pol, BeginCommit(s, pol), Quiet
  PROVE  PointerInv' /\ StartInv'
<1>1. /\ base' \in {last, before} /\ base' # Missing /\ pc' \in {"truncate", "full"}
      /\ UNCHANGED <<cur, prv, faults, last, before>>
  BY DEF PointerInv, BeginCommit, WriterBase, IsPointer, Quiet, disk
<1> QED
  BY <1>1 DEF PointerInv, StartInv, Busy, Writing, FastStorageExists

(* PREVIOUS takes the base; the other steps leave both pointers alone.     *)
LEMMA PointersWork ==
  ASSUME PointerInv, StartInv, Quiet,
         Truncate \/ AppendRecord \/ SyncJournal \/ WriteFullJournal \/ WriteState
           \/ WritePrevious \/ Cleanup \/ Export
  PROVE  PointerInv' /\ StartInv'
<1>0. UNCHANGED <<faults, backup, last, before>>
  BY DEF Quiet
<1>1. CASE Truncate \/ AppendRecord \/ SyncJournal \/ WriteFullJournal
  <2>1. /\ pc \in Writing /\ pc' \in {"append", "state"} /\ UNCHANGED <<cur, prv, base>>
    BY <1>1 DEF Truncate, AppendRecord, SyncJournal, WriteFullJournal, disk, Writing
  <2> QED
    BY <1>0, <2>1 DEF PointerInv, StartInv, Busy, Writing, FastStorageExists
<1>2. CASE WriteState
  BY <1>0, <1>2 DEF WriteState, PointerInv, StartInv, Busy, Writing, FastStorageExists
<1>3. CASE WritePrevious
  BY <1>0, <1>3 DEF WritePrevious, PointerInv, StartInv, Busy, Writing, FastStorageExists
<1>4. CASE Cleanup \/ Export
  <2>1. pc' \in {"export", "idle"} /\ UNCHANGED <<cur, prv>>
    BY <1>4 DEF Cleanup, Export
  <2> QED
    BY <1>0, <2>1, PointersRest DEF Busy, Writing
<1> QED
  BY <1>1, <1>2, <1>3, <1>4

(* Damage makes a pointer unreadable; it does not make it vanish.          *)
LEMMA PointersRot ==
  ASSUME PointerInv, StartInv, RotPointer \/ RotState \/ RotRecord
  PROVE  PointerInv' /\ StartInv'
<1>1. PICK k \in FaultKinds : Fault(k)
  BY DEF RotPointer, RotState, RotRecord, FaultKinds
<1>2. /\ faults' \in Seq(FaultKinds) /\ Len(faults') <= MaxFaults
      /\ Len(faults') = Len(faults) + 1 /\ faults' # <<>> /\ Len(faults) \in Nat
  BY <1>1, OneMore
<1>3. Len(faults) <= 0 => faults = <<>>
  BY <1>1, OneMore
<1>4. /\ UNCHANGED <<pc, base, new, backup, last, before>>
      /\ UNCHANGED <<cur, prv>> \/ (IsPointer(cur) /\ cur' = Unreadable /\ prv' = prv)
           \/ (IsPointer(prv) /\ prv' = Unreadable /\ cur' = cur)
  BY DEF RotPointer, RotState, RotRecord
<1>5. cur' # Missing <=> cur # Missing
  BY <1>4, FileAssumption DEF IsPointer
<1>6. prv' # Missing <=> prv # Missing
  BY <1>4, FileAssumption DEF IsPointer
<1>7. PointerInv'
  BY <1>2, <1>4, <1>5, <1>6 DEF PointerInv, Busy, Writing, IsPointer
<1>8. StartInv'
  BY <1>2, <1>3, <1>4, <1>5, <1>6 DEF StartInv, FastStorageExists
<1> QED
  BY <1>7, <1>8

(* A pointer is moved aside only while the other name is taken, or is      *)
(* about to be.                                                            *)
LEMMA PointersAside ==
  ASSUME PointerInv, StartInv, AsidePrevious \/ AsideCurrent
  PROVE  PointerInv' /\ StartInv'
<1>1. Fault("aside") /\ "aside" \in FaultKinds /\ UNCHANGED <<base, last, before>>
  BY DEF AsidePrevious, AsideCurrent, FaultKinds
<1>2. /\ faults' \in Seq(FaultKinds) /\ Len(faults') <= MaxFaults
      /\ Len(faults') = Len(faults) + 1 /\ faults' # <<>> /\ Len(faults) \in Nat
  BY <1>1, OneMore
<1>3. Len(faults) <= 0 => faults = <<>>
  BY <1>1, OneMore
<1>4. CASE AsidePrevious
  <2>1. /\ base # Missing /\ cur' = cur /\ prv' = Missing /\ backup' \in {Unreadable, last, before}
        /\ base \in {last, before} /\ pc' = "install previous"
    BY <1>1, <1>4 DEF AsidePrevious, PointerInv, Busy, Writing
  <2>2. PointerInv'
    BY <1>1, <1>2, <2>1 DEF PointerInv, Busy
  <2>3. ASSUME last # Missing, Len(faults') <= 1 PROVE cur # Missing
    <3>1. faults = <<>>
      BY <1>2, <1>3, <2>3
    <3> QED
      BY <2>3, <3>1 DEF StartInv
  <2>4. StartInv'
    BY <1>1, <1>2, <2>1, <2>3 DEF StartInv, FastStorageExists
  <2> QED
    BY <2>2, <2>4
<1>5. CASE AsideCurrent
  <2>1. /\ cur' = Missing /\ prv' = prv /\ backup' \in {Unreadable, last} /\ base # Missing
        /\ base \in {last, before} /\ pc' = "install current" /\ prv \in {Unreadable, base}
    BY <1>1, <1>5 DEF AsideCurrent, PointerInv, Busy, Writing
  <2>2. PointerInv'
    BY <1>1, <1>2, <2>1 DEF PointerInv, Busy
  <2>3. StartInv'
    BY <1>2, <2>1, FileAssumption DEF StartInv, FastStorageExists
  <2> QED
    BY <2>2, <2>3
<1> QED
  BY <1>4, <1>5

(* The new commit is installed: it is the last one, built on the base. A   *)
(* second rename that fails leaves the old pointer or none.                *)
LEMMA PointersInstall ==
  ASSUME PointerInv, StartInv,
         \/ WriteCurrent /\ Installed /\ UNCHANGED <<faults, backup>>
         \/ InstallPrevious \/ InstallCurrent \/ InstallFails
  PROVE  PointerInv' /\ StartInv'
<1>1. CASE WriteCurrent /\ Installed /\ UNCHANGED <<faults, backup>>
  BY <1>1 DEF WriteCurrent, Installed, PointerInv, StartInv, Busy, Writing, FastStorageExists
<1>2. CASE InstallPrevious
  BY <1>2 DEF InstallPrevious, PointerInv, StartInv, Busy, Writing, FastStorageExists
<1>3. CASE InstallCurrent
  BY <1>3 DEF InstallCurrent, Installed, PointerInv, StartInv, Busy, Writing, FastStorageExists
<1>4. CASE InstallFails
  BY <1>4, FileAssumption DEF InstallFails, PointerInv, StartInv, Busy, Writing, FastStorageExists
<1> QED
  BY <1>1, <1>2, <1>3, <1>4

(* Every step of FSpec keeps both.                                         *)
LEMMA FNextPointers == PointerInv /\ StartInv /\ [FNext]_fvars => PointerInv' /\ StartInv'
<1> SUFFICES ASSUME PointerInv, StartInv, [FNext]_fvars PROVE PointerInv' /\ StartInv'
  OBVIOUS
<1>1. CASE (Load \/ LoadLegacyForUi) /\ Quiet
  BY <1>1, PointersRest DEF Load, LoadLegacyForUi, Quiet, disk, Busy, Writing
<1>2. CASE LoadOrInit /\ Quiet
  BY <1>2, PointersInitialise DEF LoadOrInit
<1>3. CASE \E s \in Snapshot : SaveInit(s) /\ Quiet
  BY <1>3, PointersInitialise DEF SaveInit
<1>4. CASE \E s \in Snapshot, pol \in Policies : BeginCommit(s, pol) /\ Quiet
  BY <1>4, PointersBegin
<1>5. CASE (Abort /\ backup = Missing /\ Quiet) \/ (Crash /\ backup' = Missing /\ UNCHANGED <<faults, last, before>>)
  BY <1>5, PointersRest DEF Abort, Crash, Quiet, disk, Busy, Writing
<1>6. CASE UNCHANGED fvars
  BY <1>6 DEF fvars, vars, PointerInv, StartInv, FastStorageExists
<1> QED
  BY <1>1, <1>2, <1>3, <1>4, <1>5, <1>6, PointersWork, PointersRot, PointersAside, PointersInstall DEF FNext

(* So they hold in every state, whatever fails.                            *)
LEMMA PointersHold == FSpec => [](PointerInv /\ StartInv)
BY FInitPointers, FNextPointers, PTL DEF FSpec

(* However many files are damaged or left behind, a load returns the       *)
(* commit installed last, the one that was built on, or an error.          *)
THEOREM NothingOlder == FSpec => []NothingOlderIsServed
<1>1. PointerInv => NothingOlderIsServed
  BY DEF PointerInv, NothingOlderIsServed, LoadResult, Usable, IsPointer
<1> QED
  BY <1>1, PointersHold, PTL

(* After one fault at most, of any kind, no start of the process           *)
(* initialises a directory that has held a commit.                         *)
THEOREM OneFaultNoReinitialising ==
  ASSUME MaxFaults <= 1
  PROVE  FSpec => StartupNeverReinitialises
<1>1. PointerInv /\ StartInv /\ [FNext]_fvars =>
        [pc = "down" /\ last # Missing => pc' # "full"]_fvars
  <2> SUFFICES ASSUME PointerInv, StartInv, [FNext]_fvars, pc = "down", last # Missing, pc' = "full"
               PROVE  FALSE
    OBVIOUS
  <2>1. FastStorageExists
    BY FaultAssumption DEF PointerInv, StartInv
  <2>2. ~FastStorageExists
    BY DEF FNext, fvars, vars, Load, LoadOrInit, LoadLegacyForUi, SaveInit, BeginCommit, Truncate,
       AppendRecord, SyncJournal, WriteFullJournal, WriteState, WritePrevious, Cleanup, Export,
       WriteCurrent, Abort, Crash, RotPointer, RotState, RotRecord, AsidePrevious, InstallPrevious,
       AsideCurrent, InstallCurrent, InstallFails
  <2> QED
    BY <2>1, <2>2
<1> QED
  BY <1>1, PointersHold, PTL DEF FSpec, StartupNeverReinitialises
-----------------------------------------------------------------------------
(* What one lost pointer file leaves.  Core is what CoverInv claims then.  *)
Core == FileTypes /\ HeldInv /\ ChosenInv /\ AppendInv /\ LaidInv /\ LossInv

(* A faulty step is the first one when one pointer at most is lost after it. *)
LEMMA FirstLoss ==
  ASSUME PointerInv, NEW k \in FaultKinds, Fault(k), OnePointerLost'
  PROVE  OnePointerLost /\ faults = <<>> /\ faults' # <<>> /\ k \in {"pointer", "aside"}
<1>1. /\ faults \in Seq(FaultKinds) /\ Len(faults) \in Nat /\ Len(faults') = Len(faults) + 1
      /\ faults' # <<>> /\ (Len(faults) <= 0 => faults = <<>>)
  BY OneMore DEF PointerInv
<1>2. Len(faults') <= 1 /\ \A i \in DOMAIN faults' : faults'[i] \in {"pointer", "aside"}
  BY DEF OnePointerLost
<1>3. faults = <<>>
  BY <1>1, <1>2
<1>4. faults' = Append(<<>>, k)
  BY <1>3 DEF Fault
<1>5. 1 \in DOMAIN faults' /\ faults'[1] = k
  BY <1>4
<1> QED
  BY <1>1, <1>2, <1>3, <1>5 DEF OnePointerLost

(* There are no files to be complete.                                      *)
LEMMA CoverInit == FInit => CoverInv
<1> SUFFICES ASSUME FInit PROVE Core
  BY DEF CoverInv, Core
<1> QED
  BY DEF FInit, Init, Core, FileTypes, HeldInv, Held, ChosenInv, AppendInv, LaidInv, LossInv, IsPointer, Busy,
         Writing

(* A pointer is a commit, and the commits that are needed are those the    *)
(* files and the base name.                                                *)
LEMMA HeldFacts ==
  ASSUME Core
  PROVE  /\ \A p \in Held : p \in Commit /\ Usable(p) /\ p # Missing
         /\ \A p \in {cur, prv, backup} : IsPointer(p) => p \in Held
         /\ pc \in Busy /\ base # Missing => base \in Held
<1>1. Missing \notin Commit /\ Unreadable \notin Commit
  BY FileAssumption
<1>2. \A p \in Held : p \in Commit /\ Usable(p) /\ p # Missing
  BY <1>1 DEF Core, HeldInv, Held, FileTypes, IsPointer
<1>3. \A p \in {cur, prv, backup} : IsPointer(p) => p \in Held
  BY DEF Held
<1>4. pc \in Busy /\ base # Missing => base \in Held
  BY <1>1 DEF Core, FileTypes, Held, IsPointer
<1> QED
  BY <1>2, <1>3, <1>4

(* When the writer has no base there is nothing yet to keep.               *)
LEMMA BusyHeld ==
  ASSUME PointerInv, Core, pc \in Busy, backup = Missing, NEW p \in Held
  PROVE  base # Missing /\ base \in Commit /\ base \in Held /\ Behind(p, base)
<1>1. base # Missing
  BY FileAssumption DEF PointerInv, Held, IsPointer
<1> QED
  BY <1>1, HeldFacts DEF Core, ChosenInv

(* A commit behind q keeps its files when the journal of q keeps the       *)
(* records of q.                                                           *)
LEMMA KeepsBehind ==
  ASSUME NEW p \in Commit, NEW q \in Commit, Usable(p), Usable(q), Behind(p, q),
         UNCHANGED states, NEW recs \in Seq(Tip \cup {Torn}),
         journal' = Put(journal, q.gen, recs),
         Len(recs) >= q.records,
         \A h \in 0..(q.records - 1) : recs[h + 1] = journal[q.gen][h + 1]
  PROVE  Usable(p)'
<1>1. CASE p.gen = q.gen
  <2>1. p.records <= q.records /\ p.records \in Nat /\ q.records \in Nat
    BY <1>1 DEF Behind, Commit
  <2> QED
    BY <1>1, <2>1 DEF Usable, StateHolds, JournalHolds, IsPointer, Put
<1>2. CASE p.gen # q.gen
  BY <1>2 DEF Usable, StateHolds, JournalHolds, IsPointer, Put
<1> QED
  BY <1>1, <1>2

(* Steps that touch the journal behind the base only, or no file.          *)
LEMMA HeldStays ==
  ASSUME Core, UNCHANGED <<cur, prv, backup, states>>, Held' \subseteq Held,
         \/ UNCHANGED journal
         \/ /\ pc \in {"truncate", "append"}
            /\ \E recs \in Seq(Tip \cup {Torn}) :
                 /\ journal' = Put(journal, base.gen, recs)
                 /\ Len(recs) >= base.records
                 /\ \A h \in 0..(base.records - 1) : recs[h + 1] = journal[base.gen][h + 1],
         pc' \notin {"install previous", "install current"},
         backup = Missing
  PROVE  HeldInv'
<1>1. ASSUME NEW p \in Held PROVE Usable(p)'
  <2>1. CASE UNCHANGED journal
    BY <2>1, HeldFacts DEF Usable, StateHolds, JournalHolds
  <2>2. CASE /\ pc \in {"truncate", "append"}
             /\ \E recs \in Seq(Tip \cup {Torn}) :
                 /\ journal' = Put(journal, base.gen, recs)
                 /\ Len(recs) >= base.records
                 /\ \A h \in 0..(base.records - 1) : recs[h + 1] = journal[base.gen][h + 1]
    <3>1. PICK recs \in Seq(Tip \cup {Torn}) :
                 /\ journal' = Put(journal, base.gen, recs)
                 /\ Len(recs) >= base.records
                 /\ \A h \in 0..(base.records - 1) : recs[h + 1] = journal[base.gen][h + 1]
      BY <2>2
    <3>2. pc \in Busy /\ base # Missing /\ Behind(p, base)
      BY <2>2 DEF Core, ChosenInv, Busy, Writing
    <3>3. base \in Held /\ p \in Commit /\ Usable(p) /\ base \in Commit /\ Usable(base)
      BY <3>2, HeldFacts
    <3> QED
      BY <3>1, <3>2, <3>3, KeepsBehind
  <2> QED
    BY <2>1, <2>2
<1>2. \A p \in Held' : Usable(p)'
  BY <1>1
<1> QED
  BY <1>2 DEF Core, HeldInv

(* The process comes up, or a commit ends without having installed.        *)
LEMMA CoverRests ==
  ASSUME Core,
         \/ (Load \/ LoadLegacyForUi) /\ Quiet
         \/ Abort /\ backup = Missing /\ Quiet
         \/ Crash /\ journal' = journal /\ backup' = Missing /\ UNCHANGED <<faults, last, before>>
         \/ Export /\ Quiet
  PROVE  Core'
<1>1. /\ UNCHANGED <<cur, prv, states, journal, faults, last, before>>
      /\ pc' \in {"down", "idle"} /\ (backup' = backup \/ backup' = Missing)
      /\ UNCHANGED <<base, new>> \/ (base' = Missing /\ new' = Missing)
      /\ legacy' \in {legacy, Snap(new)} /\ (legacy' # legacy => pc = "export")
      /\ backup' # Missing => pc \in {"down", "idle", "export"}
  BY DEF Load, LoadLegacyForUi, Abort, Crash, Export, Quiet, disk
<1>2. FileTypes'
  BY <1>1, SMTT(60) DEF Core, FileTypes, LaidInv, Snap, Snapshot, Commit
<1>3. Held' \subseteq Held
  BY <1>1 DEF Held, IsPointer, Busy, Writing
<1>4. \A p \in Held' : Usable(p)'
  BY <1>1, <1>3 DEF Core, HeldInv, Usable, StateHolds, JournalHolds
<1>5. HeldInv'
  BY <1>1, <1>4 DEF Core, HeldInv
<1>6. ChosenInv' /\ AppendInv' /\ LaidInv'
  BY <1>1 DEF ChosenInv, AppendInv, LaidInv, Busy, Writing
<1>7. LossInv'
  BY <1>1 DEF Core, LossInv
<1> QED
  BY <1>2, <1>5, <1>6, <1>7 DEF Core

(* The first commit begins: no commit is needed yet.                       *)
LEMMA CoverInitialise ==
  ASSUME Core, ~FastStorageExists, NEW s \in Snapshot, Initialise(s), Quiet, pc \in {"down", "idle"}
  PROVE  Core'
<1>1. PICK i \in StartGens : new' = NewCommit(i, 1, s)
  BY DEF Initialise
<1>2. /\ UNCHANGED <<cur, prv, states, journal, legacy, faults, backup, last, before>>
      /\ pc' = "full" /\ base' = Missing /\ cur = Missing /\ prv = Missing /\ backup = Missing
  BY DEF Initialise, Quiet, disk, FastStorageExists, Core, HeldInv
<1>3. new' \in Commit /\ new'.records = Height[new'.tip] + 1
  BY <1>1, ChainAssumption, ConfigAssumption DEF NewCommit, Commit, Snapshot
<1>4. FileTypes'
  BY <1>2, <1>3 DEF Core, FileTypes
<1>5. Held' = {}
  BY <1>2 DEF Held, IsPointer
<1>6. HeldInv'
  BY <1>2, <1>5 DEF HeldInv, IsPointer
<1>7. ChosenInv' /\ AppendInv' /\ LaidInv' /\ LossInv'
  BY <1>2, <1>3 DEF Core, ChosenInv, AppendInv, LaidInv, LossInv, Busy, Writing
<1> QED
  BY <1>4, <1>6, <1>7 DEF Core

(* A commit begins on CURRENT when that is there, on PREVIOUS otherwise.   *)
LEMMA CoverBegin ==
  ASSUME Core, NEW s \in Snapshot, NEW pol \in Policies, BeginCommit(s, pol), Quiet
  PROVE  Core'
<1>1. /\ UNCHANGED <<cur, prv, states, journal, legacy, faults, backup, last, before>>
      /\ base' = WriterBase /\ WriterBase # Missing
      /\ new' = NewCommit(NextGen(s.tip, WriterBase), NextRev(s.tip, WriterBase), s)
      /\ pc' = IF Extends(s.tip, WriterBase) THEN "truncate" ELSE "full"
      /\ backup = Missing /\ pc = "idle"
  BY DEF BeginCommit, Quiet, disk, Core, HeldInv
<1>2. \A p \in {cur, prv} : IsPointer(p) => p \in Commit /\ Usable(p)
  BY HeldFacts
<1>3. /\ IsPointer(cur) => WriterBase = cur
      /\ ~IsPointer(cur) => WriterBase = prv /\ IsPointer(prv)
  BY <1>1, <1>2 DEF WriterBase, Usable
<1>4. base' \in Commit /\ Usable(base') /\ base' \in {cur, prv} /\ IsPointer(base')
  BY <1>1, <1>2, <1>3
<1>5. NextGen(s.tip, base') \in Nat /\ NextRev(s.tip, base') \in Nat
  BY <1>4 DEF NextGen, NextRev, Commit
<1>6. /\ new' \in Commit /\ new'.records = Height[new'.tip] + 1 /\ new'.tip = s.tip
      /\ new'.gen = NextGen(s.tip, base') /\ new'.rev = NextRev(s.tip, base')
  BY <1>1, <1>5, ChainAssumption DEF NewCommit, Commit, Snapshot
<1>7. FileTypes'
  BY <1>1, <1>4, <1>6 DEF Core, FileTypes
<1>8. Held' \subseteq {p \in {cur, prv} : IsPointer(p)}
  BY <1>1, <1>4 DEF Held, IsPointer
<1>9. \A p \in Held' : Usable(p)'
  BY <1>1, <1>2, <1>8 DEF Usable, StateHolds, JournalHolds
<1>10. HeldInv'
  BY <1>1, <1>9 DEF Core, HeldInv
<1>11. \A p \in Held' : Behind(p, base')
  <2>1. Behind(base', base')
    BY <1>4 DEF Behind, Commit
  <2>2. CASE IsPointer(cur)
    BY <1>1, <1>3, <1>8, <2>1, <2>2 DEF Core, HeldInv
  <2>3. CASE ~IsPointer(cur)
    BY <1>1, <1>3, <1>8, <2>1, <2>3
  <2> QED
    BY <2>2, <2>3
<1>12. ChosenInv'
  BY <1>1, <1>3, <1>6, <1>11 DEF ChosenInv, Busy, Writing
<1>13. AppendInv' /\ LaidInv' /\ LossInv'
  BY <1>1 DEF Core, AppendInv, LaidInv, LossInv, Busy, Writing
<1> QED
  BY <1>7, <1>10, <1>12, <1>13 DEF Core

(* What is dropped is behind the records of the base.                      *)
LEMMA CoverTruncate ==
  ASSUME Core, Truncate, Quiet
  PROVE  Core'
<1> DEFINE recs == SubSeq(journal[base.gen], 1, base.records)
<1>1. /\ base \in Commit /\ Usable(base) /\ base # Missing /\ new \in Commit /\ Extends(new.tip, base)
      /\ new.gen = base.gen /\ new.records = Height[new.tip] + 1
  BY HeldFacts DEF Core, ChosenInv, Truncate, Busy, Writing, NextGen
<1>2. /\ base.gen \in DOMAIN journal
      /\ journal[base.gen] \in Seq(Tip \cup {Torn})
      /\ Len(journal[base.gen]) >= base.records
      /\ base.records \in Nat
      /\ base.records = Height[base.tip] + 1
      /\ \A h \in 0..(base.records - 1) : journal[base.gen][h + 1] = BlockAt[base.tip][h]
  BY <1>1 DEF Usable, JournalHolds, Core, FileTypes, Commit
<1>3. /\ recs \in Seq(Tip \cup {Torn})
      /\ Len(recs) = base.records
      /\ \A h \in 0..(base.records - 1) : recs[h + 1] = journal[base.gen][h + 1]
  BY <1>2
<1>4. /\ journal' = Put(journal, base.gen, recs) /\ pc = "truncate" /\ pc' = "append"
      /\ UNCHANGED <<cur, prv, states, legacy, base, new, faults, backup, last, before>>
  BY DEF Truncate, Quiet
<1> HIDE DEF recs
<1>5. backup = Missing
  BY <1>4 DEF Core, HeldInv
<1>6. Held' = Held
  BY <1>4 DEF Held, Busy, Writing
<1>7. HeldInv'
  BY <1>2, <1>3, <1>4, <1>5, <1>6, HeldStays
<1>8. FileTypes'
  BY <1>2, <1>3, <1>4 DEF Core, FileTypes, Put
<1>9. ChosenInv'
  BY <1>1, <1>4, <1>6 DEF Core, ChosenInv, Busy, Writing
<1>10. AppendInv'
  <2>1. \A h \in 0..(base.records - 1) : BlockAt[new.tip][h] = BlockAt[base.tip][h]
    BY <1>1, <1>2, BranchPoint DEF Commit
  <2>2. journal'[new.gen] = recs /\ new.gen \in DOMAIN journal'
    BY <1>1, <1>4 DEF Put
  <2>3. base.records <= new.records
    BY <1>1, <1>2, ChainAssumption, SMTT(60) DEF Extends, Commit
  <2> QED
    BY <1>1, <1>2, <1>3, <1>4, <2>1, <2>2, <2>3, SMTT(60) DEF AppendInv
<1>11. LaidInv' /\ LossInv'
  BY <1>4 DEF Core, LaidInv, LossInv, Busy, Writing
<1> QED
  BY <1>7, <1>8, <1>9, <1>10, <1>11 DEF Core

(* What is appended is behind the records of the base.                     *)
LEMMA CoverAppend ==
  ASSUME Core, AppendRecord, Quiet
  PROVE  Core'
<1> DEFINE old  == journal[new.gen]
           recs == Append(old, BlockAt[new.tip][Len(old)])
<1>1. /\ base \in Commit /\ base # Missing /\ new \in Commit /\ Extends(new.tip, base)
      /\ new.gen = base.gen /\ new.records = Height[new.tip] + 1
  BY HeldFacts DEF Core, ChosenInv, AppendRecord, Busy, Writing, NextGen
<1>2. /\ new.gen \in DOMAIN journal
      /\ old \in Seq(Tip \cup {Torn})
      /\ base.records \in Nat /\ new.records \in Nat
      /\ Len(old) \in Nat
      /\ base.records <= Len(old)
      /\ Len(old) < new.records
      /\ \A h \in 0..(Len(old) - 1) : old[h + 1] = BlockAt[new.tip][h]
  BY <1>1, SMTT(60) DEF AppendRecord, Core, FileTypes, AppendInv, Commit
<1>3. BlockAt[new.tip][Len(old)] \in Tip
  BY <1>1, <1>2, ChainAssumption, SMTT(60) DEF Commit
<1>4. /\ recs \in Seq(Tip \cup {Torn})
      /\ Len(recs) = Len(old) + 1
      /\ \A h \in 0..(Len(old) - 1) : recs[h + 1] = old[h + 1]
      /\ recs[Len(old) + 1] = BlockAt[new.tip][Len(old)]
  BY <1>2, <1>3
<1>5. /\ journal' = Put(journal, new.gen, recs) /\ pc = "append" /\ pc' = "append"
      /\ UNCHANGED <<cur, prv, states, legacy, base, new, faults, backup, last, before>>
  BY DEF AppendRecord, Quiet
<1> HIDE DEF recs
<1>6. backup = Missing
  BY <1>5 DEF Core, HeldInv
<1>7. Held' = Held
  BY <1>5 DEF Held
<1>8. HeldInv'
  BY <1>1, <1>2, <1>4, <1>5, <1>6, <1>7, HeldStays
<1>9. FileTypes'
  BY <1>2, <1>4, <1>5 DEF Core, FileTypes, Put
<1>10. ChosenInv' /\ LaidInv' /\ LossInv'
  BY <1>1, <1>5, <1>7 DEF Core, ChosenInv, LaidInv, LossInv, Busy, Writing
<1>11. AppendInv'
  <2>1. journal'[new.gen] = recs /\ new.gen \in DOMAIN journal'
    BY <1>5 DEF Put
  <2>2. \A h \in 0..(Len(recs) - 1) : recs[h + 1] = BlockAt[new.tip][h]
    BY <1>2, <1>4
  <2>3. base.records <= Len(recs) /\ Len(recs) <= new.records
    BY <1>2, <1>4
  <2> HIDE DEF old
  <2> QED
    BY <1>5, <2>1, <2>2, <2>3 DEF AppendInv
<1> QED
  BY <1>8, <1>9, <1>10, <1>11 DEF Core

(* The journal is complete.                                                *)
LEMMA CoverSync ==
  ASSUME Core, SyncJournal, Quiet
  PROVE  Core'
<1>1. /\ pc = "append" /\ pc' = "state" /\ Len(journal[new.gen]) = new.records
      /\ UNCHANGED <<cur, prv, states, journal, legacy, base, new, faults, backup, last, before>>
  BY DEF SyncJournal, Quiet, disk
<1>2. FileTypes' /\ LossInv' /\ AppendInv'
  BY <1>1 DEF Core, FileTypes, LossInv, AppendInv
<1>3. Held' = Held
  BY <1>1 DEF Held, Busy, Writing
<1>4. HeldInv'
  BY <1>1, <1>3, HeldStays DEF Core, HeldInv
<1>5. ChosenInv'
  BY <1>1, <1>3 DEF Core, ChosenInv, Busy, Writing
<1>6. LaidInv'
  BY <1>1 DEF Core, AppendInv, ChosenInv, LaidInv, JournalHolds, Busy, Writing
<1> QED
  BY <1>2, <1>4, <1>5, <1>6 DEF Core

(* A journal that is written whole has a generation no commit that is      *)
(* needed has.                                                             *)
LEMMA CoverFull ==
  ASSUME PointerInv, Core, WriteFullJournal, Quiet
  PROVE  Core'
<1> DEFINE recs == [i \in 1..new.records |-> BlockAt[new.tip][i - 1]]
<1>1. new \in Commit /\ new.records = Height[new.tip] + 1
  BY DEF Core, ChosenInv, WriteFullJournal, Busy, Writing
<1>2. recs \in Seq(Tip \cup {Torn}) /\ Len(recs) = new.records
  <2>1. \A i \in 1..new.records : i - 1 \in 0..Height[new.tip]
    BY <1>1, ChainAssumption DEF Commit
  <2>2. \A i \in 1..new.records : BlockAt[new.tip][i - 1] \in Tip
    BY <1>1, <2>1, ChainAssumption DEF Commit
  <2> QED
    BY <1>1, <2>2 DEF Commit
<1>3. \A h \in 0..(new.records - 1) : recs[h + 1] = BlockAt[new.tip][h]
  BY <1>1 DEF Commit
<1>4. /\ journal' = Put(journal, new.gen, recs) /\ pc = "full" /\ pc' = "state"
      /\ UNCHANGED <<cur, prv, states, legacy, base, new, faults, backup, last, before>>
  BY DEF WriteFullJournal, Quiet
<1> HIDE DEF recs
<1>5. FileTypes'
  BY <1>1, <1>2, <1>4 DEF Core, FileTypes, Put, Commit
<1>6. Held' = Held
  BY <1>4 DEF Held, Busy, Writing
<1>7. ASSUME NEW p \in Held PROVE Usable(p)'
  <2>1. p \in Commit /\ Usable(p)
    BY HeldFacts
  <2>2. pc \in Busy /\ backup = Missing
    BY <1>4 DEF Core, HeldInv, Busy, Writing
  <2>3. base # Missing /\ Behind(p, base) /\ base \in Commit
    BY <2>2, BusyHeld
  <2>5. new.gen = base.gen + 1
    BY <1>4, <2>2, <2>3 DEF Core, ChosenInv, NextGen
  <2>4. p.gen # new.gen
    BY <2>1, <2>3, <2>5 DEF Behind, Commit
  <2> QED
    BY <1>4, <2>1, <2>4 DEF Usable, StateHolds, JournalHolds, Put
<1>8. HeldInv'
  BY <1>4, <1>6, <1>7 DEF Core, HeldInv
<1>9. ChosenInv' /\ AppendInv' /\ LossInv'
  BY <1>4, <1>6 DEF Core, ChosenInv, AppendInv, LossInv, Busy, Writing
<1>10. LaidInv'
  BY <1>1, <1>2, <1>3, <1>4 DEF LaidInv, JournalHolds, Put, Commit
<1> QED
  BY <1>5, <1>8, <1>9, <1>10 DEF Core

(* The new state file has a name no commit that is needed has.             *)
LEMMA CoverState ==
  ASSUME PointerInv, Core, WriteState, Quiet
  PROVE  Core'
<1>1. /\ states' = Put(states, StateName(new), new) /\ pc = "state"
      /\ pc' = IF base = Missing THEN "current" ELSE "previous"
      /\ UNCHANGED <<cur, prv, journal, legacy, base, new, faults, backup, last, before>>
  BY DEF WriteState, Quiet
<1>2. pc \in Busy /\ backup = Missing /\ new \in Commit /\ JournalHolds(new)
  BY <1>1 DEF Core, HeldInv, ChosenInv, LaidInv, Busy, Writing
<1>3. FileTypes'
  BY <1>1, <1>2 DEF Core, FileTypes, Put, StateName, Commit
<1>4. Held' = Held
  BY <1>1 DEF Held, Busy, Writing
<1>5. ASSUME NEW p \in Held PROVE Usable(p)'
  <2>1. p \in Commit /\ Usable(p)
    BY HeldFacts
  <2>2. base # Missing /\ Behind(p, base) /\ base \in Commit
    BY <1>2, BusyHeld
  <2>3. \/ new.gen = base.gen /\ new.rev = base.rev + 1
        \/ new.gen = base.gen + 1
    BY <1>2, <2>2 DEF Core, ChosenInv, NextGen, NextRev
  <2>4. StateName(p) # StateName(new)
    BY <1>2, <2>1, <2>2, <2>3 DEF Behind, StateName, Commit
  <2> QED
    BY <1>1, <2>1, <2>4 DEF Usable, StateHolds, JournalHolds, Put
<1>6. HeldInv'
  BY <1>1, <1>2, <1>4, <1>5 DEF Core, HeldInv
<1>7. ChosenInv' /\ AppendInv'
  BY <1>1, <1>4 DEF Core, ChosenInv, AppendInv, Busy, Writing
<1>8. LaidInv'
  BY <1>1, <1>2 DEF LaidInv, JournalHolds, StateHolds, Put
<1>9. LossInv'
  BY <1>1 DEF Core, PointerInv, LossInv, Busy, Writing
<1> QED
  BY <1>3, <1>6, <1>7, <1>8, <1>9 DEF Core

(* PREVIOUS takes the base, in one rename or two.                          *)
LEMMA CoverPrevious ==
  ASSUME PointerInv, Core, (WritePrevious /\ Quiet) \/ InstallPrevious
  PROVE  Core'
<1>1. /\ prv' = base /\ pc \in {"previous", "install previous"} /\ pc' = "current"
      /\ UNCHANGED <<cur, states, journal, legacy, base, new, faults, last, before>>
      /\ backup' \in {backup, Missing}
      /\ pc = "previous" => backup' = backup
      /\ pc = "install previous" => backup' = Missing
  BY DEF WritePrevious, InstallPrevious, Quiet
<1>2. base # Missing /\ base \in Commit /\ Usable(base) /\ base \in Held /\ IsPointer(base)
  BY <1>1, HeldFacts DEF PointerInv, Busy, Writing, Held
<1>3. FileTypes'
  BY <1>1, <1>2 DEF Core, FileTypes
<1>4. Held' \subseteq Held
  BY <1>1, <1>2 DEF Held, Busy, Writing, IsPointer
<1>5. backup' = Missing
  BY <1>1 DEF Core, HeldInv
<1>6. \A p \in Held' : Usable(p)'
  BY <1>1, <1>4 DEF Core, HeldInv, Usable, StateHolds, JournalHolds
<1>7. IsPointer(cur) => cur = base
  BY <1>1, <1>2 DEF Core, ChosenInv, Busy, Writing
<1>8. Behind(base, base)
  BY <1>2 DEF Behind, Commit
<1>9. HeldInv'
  BY <1>1, <1>5, <1>6, <1>7, <1>8 DEF HeldInv
<1>10. ChosenInv' /\ AppendInv'
  BY <1>1, <1>4 DEF Core, ChosenInv, AppendInv, Busy, Writing
<1>11. LaidInv'
  BY <1>1 DEF Core, LaidInv, JournalHolds, StateHolds, Busy, Writing
<1>12. LossInv'
  BY <1>1, <1>2 DEF Core, LossInv
<1> QED
  BY <1>3, <1>9, <1>10, <1>11, <1>12 DEF Core

(* CURRENT takes the new commit, in one rename or two.                     *)
LEMMA CoverCurrent ==
  ASSUME PointerInv, Core,
         (WriteCurrent /\ Installed /\ UNCHANGED <<faults, backup>>) \/ InstallCurrent
  PROVE  Core'
<1>1. /\ cur' = new /\ pc \in {"current", "install current"} /\ pc' = "cleanup"
      /\ UNCHANGED <<prv, states, journal, legacy, base, new, faults>>
      /\ backup' \in {backup, Missing}
      /\ pc = "current" => backup' = backup
      /\ pc = "install current" => backup' = Missing
      /\ last' = new /\ before' = base
  BY DEF WriteCurrent, InstallCurrent, Installed
<1>2. /\ new \in Commit /\ new.records = Height[new.tip] + 1
      /\ JournalHolds(new) /\ StateHolds(new) /\ IsPointer(new)
  BY <1>1, FileAssumption DEF Core, ChosenInv, LaidInv, Busy, Writing, IsPointer
<1>3. backup' = Missing
  BY <1>1 DEF Core, HeldInv
<1>4. FileTypes'
  BY <1>1, <1>2, <1>3 DEF Core, FileTypes
<1>5. Held' \subseteq {p \in {new, prv} : IsPointer(p)}
  BY <1>1, <1>3 DEF Held, IsPointer, Busy, Writing
<1>6. \A p \in Held' : Usable(p)'
  <2>1. Usable(new) /\ (IsPointer(prv) => Usable(prv))
    BY <1>2, HeldFacts DEF Usable
  <2> QED
    BY <1>1, <1>5, <2>1 DEF Usable, StateHolds, JournalHolds
<1>7. ASSUME IsPointer(prv) PROVE Behind(prv, new)
  <2>1. prv = base /\ base # Missing /\ base \in Commit
    BY <1>1, <1>7, HeldFacts DEF PointerInv, IsPointer
  <2>2. /\ new.gen = NextGen(new.tip, base) /\ new.rev = NextRev(new.tip, base)
        /\ base.records = Height[base.tip] + 1
    BY <1>1, <1>7, <2>1, HeldFacts DEF Core, ChosenInv, Busy, Writing, Usable, JournalHolds
  <2>3. CASE Extends(new.tip, base)
    <3>1. base.records <= new.records
      BY <1>2, <2>1, <2>2, <2>3, ChainAssumption DEF Extends, Commit
    <3> QED
      BY <1>2, <2>1, <2>2, <2>3, <3>1 DEF Behind, NextGen, NextRev, Commit
  <2>4. CASE ~Extends(new.tip, base)
    BY <1>2, <2>1, <2>2, <2>4 DEF Behind, NextGen, Commit
  <2> QED
    BY <2>3, <2>4
<1>8. HeldInv'
  BY <1>1, <1>3, <1>6, <1>7 DEF HeldInv
<1>9. ChosenInv' /\ AppendInv' /\ LaidInv'
  BY <1>1, <1>2 DEF ChosenInv, AppendInv, LaidInv, Busy, Writing
<1>10. LossInv'
  <2>1. base # Missing => IsPointer(base)
    BY <1>1, HeldFacts DEF Busy, Writing, Held
  <2>2. CASE pc = "current"
    BY <1>1, <1>2, <2>1, <2>2 DEF Core, LossInv
  <2>3. CASE pc = "install current"
    BY <1>1, <1>2, <2>3 DEF Core, LossInv, PointerInv
  <2> QED
    BY <1>1, <2>2, <2>3
<1> QED
  BY <1>4, <1>8, <1>9, <1>10 DEF Core

(* Pruning keeps the files of the new commit and of PREVIOUS.              *)
LEMMA CoverCleanup ==
  ASSUME Core, Cleanup, Quiet
  PROVE  Core'
<1>1. PICK S \in SUBSET DOMAIN states, J \in SUBSET DOMAIN journal :
        /\ KeptStates \cap DOMAIN states \subseteq S
        /\ KeptJournals \cap DOMAIN journal \subseteq J
        /\ states' = Keep(states, S)
        /\ journal' = Keep(journal, J)
  BY DEF Cleanup
<1>2. /\ pc = "cleanup" /\ pc' = "export" /\ backup = Missing
      /\ UNCHANGED <<cur, prv, legacy, base, new, faults, backup, last, before>>
  BY DEF Cleanup, Quiet, Core, HeldInv
<1>3. new \in Commit /\ (IsPointer(cur) => cur = new)
  BY <1>2 DEF Core, LaidInv
<1>4. FileTypes'
  BY <1>1, <1>2 DEF Core, FileTypes, Keep
<1>5. Held' = Held /\ Held \subseteq {p \in {cur, prv} : IsPointer(p)}
  BY <1>2 DEF Held, IsPointer, Busy, Writing
<1>6. ASSUME NEW p \in Held PROVE Usable(p)'
  <2>1. p \in Commit /\ Usable(p) /\ (p = new \/ (p = prv /\ prv \notin {Missing, Unreadable}))
    BY <1>3, <1>5, HeldFacts DEF IsPointer
  <2>2. StateName(p) \in KeptStates /\ p.gen \in KeptJournals
    BY <2>1 DEF KeptStates, KeptJournals
  <2> QED
    BY <1>1, <2>1, <2>2 DEF Usable, StateHolds, JournalHolds, Keep
<1>7. HeldInv'
  BY <1>2, <1>5, <1>6 DEF Core, HeldInv
<1>8. ChosenInv' /\ AppendInv' /\ LaidInv' /\ LossInv'
  BY <1>2, <1>3 DEF Core, ChosenInv, AppendInv, LaidInv, LossInv, Busy, Writing
<1> QED
  BY <1>4, <1>7, <1>8 DEF Core

(* The first fault there is, and a pointer is lost: the other one stays.   *)
LEMMA CoverRot ==
  ASSUME PointerInv, Core, RotPointer, faults = <<>>, faults' # <<>>
  PROVE  Core'
<1>1. /\ UNCHANGED <<states, journal, legacy, pc, base, new, backup, last, before>>
      /\ \/ cur' = Unreadable /\ prv' = prv
         \/ prv' = Unreadable /\ cur' = cur
  BY DEF RotPointer
<1>2. \A p \in Held' : p \in Held
  BY <1>1 DEF Held, IsPointer
<1>3. HeldInv'
  BY <1>1, <1>2, ZenonT(60) DEF Core, HeldInv, Usable, StateHolds, JournalHolds, IsPointer
<1>4. FileTypes' /\ AppendInv'
  BY <1>1 DEF Core, FileTypes, AppendInv
<1>5. ChosenInv'
  BY <1>1, <1>2 DEF Core, ChosenInv, IsPointer
<1>6. LaidInv'
  BY <1>1 DEF Core, LaidInv, StateHolds, JournalHolds, IsPointer
<1>7. LossInv'
  BY <1>1 DEF Core, LossInv, IsPointer
<1> QED
  BY <1>3, <1>4, <1>5, <1>6, <1>7 DEF Core

(* The first fault there is, and a pointer is moved aside: the other one   *)
(* stays.                                                                  *)
LEMMA CoverAside ==
  ASSUME PointerInv, Core, AsidePrevious \/ AsideCurrent, faults = <<>>, faults' # <<>>
  PROVE  Core'
<1>1. /\ UNCHANGED <<states, journal, legacy, base, new, last, before>>
      /\ \/ /\ cur' = cur /\ prv' = Missing /\ backup' = prv /\ pc = "previous" /\ pc' = "install previous"
         \/ /\ prv' = prv /\ cur' = Missing /\ backup' = cur /\ pc = "current" /\ pc' = "install current"
  BY DEF AsidePrevious, AsideCurrent
<1>2. \A p \in Held' : p \in Held
  BY <1>1 DEF Held, IsPointer, Busy, Writing
<1>3. HeldInv'
  BY <1>1, <1>2, ZenonT(60) DEF Core, HeldInv, Usable, StateHolds, JournalHolds, IsPointer
<1>4. FileTypes' /\ AppendInv'
  BY <1>1 DEF Core, FileTypes, AppendInv
<1>5. ChosenInv'
  BY <1>1, <1>2 DEF Core, PointerInv, ChosenInv, IsPointer, Busy, Writing
<1>6. LaidInv'
  BY <1>1 DEF Core, LaidInv, StateHolds, JournalHolds, Busy, Writing
<1>7. LossInv'
  BY <1>1 DEF Core, LossInv, IsPointer
<1> QED
  BY <1>3, <1>4, <1>5, <1>6, <1>7 DEF Core

(* The old pointer is moved back, or that fails too.                       *)
LEMMA CoverFails ==
  ASSUME PointerInv, Core, InstallFails
  PROVE  Core'
<1>1. /\ UNCHANGED <<states, journal, legacy, faults, last, before>>
      /\ backup' = Missing /\ pc' = "idle" /\ base' = Missing /\ new' = Missing
      /\ \/ /\ pc = "install previous" /\ prv' \in {backup, Missing} /\ cur' = cur /\ prv = Missing
         \/ /\ pc = "install current" /\ cur' \in {backup, Missing} /\ prv' = prv /\ cur = Missing
      /\ faults # <<>>
  BY DEF InstallFails, PointerInv
<1>2. \A p \in Held' : p \in Held
  BY <1>1 DEF Held, IsPointer, Busy, Writing
<1>3. IsPointer(cur)' /\ IsPointer(prv)' => Behind(prv, cur)'
  <2>1. CASE pc = "install previous" /\ prv' \in {backup, Missing} /\ cur' = cur /\ prv = Missing
    <3> SUFFICES ASSUME IsPointer(cur), IsPointer(backup), prv' = backup PROVE Behind(backup, cur)
      BY <2>1 DEF IsPointer, Behind
    <3>1. base # Missing /\ cur = base /\ backup \in Held
      BY <2>1, HeldFacts DEF PointerInv, Core, ChosenInv, Busy, Writing
    <3> QED
      BY <2>1, <3>1 DEF Core, ChosenInv, Busy, Writing
  <2>2. CASE pc = "install current" /\ cur' \in {backup, Missing} /\ prv' = prv /\ cur = Missing
    <3> SUFFICES ASSUME IsPointer(prv), IsPointer(backup), cur' = backup PROVE Behind(prv, backup)
      BY <2>2 DEF IsPointer, Behind
    <3>1. base # Missing /\ backup = base /\ prv \in Held
      BY <2>2, HeldFacts DEF PointerInv, Core, ChosenInv, Busy, Writing
    <3> QED
      BY <2>2, <3>1 DEF Core, ChosenInv, Busy, Writing
  <2> QED
    BY <1>1, <2>1, <2>2
<1>4. HeldInv'
  BY <1>1, <1>2, <1>3 DEF Core, HeldInv, Usable, StateHolds, JournalHolds
<1>5. FileTypes' /\ AppendInv' /\ ChosenInv' /\ LaidInv'
  BY <1>1 DEF Core, FileTypes, AppendInv, ChosenInv, LaidInv, Busy, Writing
<1>6. LossInv'
  BY <1>1 DEF Core, LossInv, IsPointer
<1> QED
  BY <1>4, <1>5, <1>6 DEF Core

(* A torn record is behind every record that is needed.                    *)
LEMMA CoverTorn ==
  ASSUME PointerInv, Core, Crash, backup' = Missing, UNCHANGED <<faults, last, before>>, pc = "append",
         journal' = Put(journal, new.gen, Append(journal[new.gen], Torn))
  PROVE  Core'
<1> DEFINE old  == journal[new.gen]
           recs == Append(old, Torn)
<1>1. /\ base \in Commit /\ base # Missing /\ new.gen = base.gen
      /\ new.gen \in DOMAIN journal /\ old \in Seq(Tip \cup {Torn})
      /\ base.records <= Len(old) /\ base.records \in Nat /\ Len(old) \in Nat
  BY HeldFacts DEF Core, ChosenInv, AppendInv, FileTypes, NextGen, Busy, Writing, Commit
<1>2. /\ recs \in Seq(Tip \cup {Torn})
      /\ Len(recs) = Len(old) + 1
      /\ \A h \in 0..(Len(old) - 1) : recs[h + 1] = old[h + 1]
  BY <1>1
<1>3. /\ journal' = Put(journal, base.gen, recs) /\ pc' = "down" /\ base' = Missing /\ new' = Missing
      /\ UNCHANGED <<cur, prv, states, legacy, faults, last, before>>
      /\ backup = Missing
  BY <1>1 DEF Crash, Core, HeldInv
<1> HIDE DEF recs
<1>4. Held' \subseteq Held
  BY <1>3 DEF Held, IsPointer, Busy, Writing
<1>5. HeldInv'
  BY <1>1, <1>2, <1>3, <1>4, HeldStays
<1>6. FileTypes'
  BY <1>1, <1>2, <1>3 DEF Core, FileTypes, Put
<1>7. ChosenInv' /\ AppendInv' /\ LaidInv' /\ LossInv'
  BY <1>3 DEF Core, ChosenInv, AppendInv, LaidInv, LossInv, Busy, Writing
<1> QED
  BY <1>5, <1>6, <1>7 DEF Core

(* Every step keeps what one lost pointer leaves.                          *)
LEMMA FNextCover ==
  PointerInv /\ StartInv /\ CoverInv /\ [FNext]_fvars => CoverInv'
<1> SUFFICES ASSUME PointerInv, CoverInv, [FNext]_fvars, OnePointerLost'
             PROVE  Core'
  BY DEF CoverInv, Core
<1>1. OnePointerLost /\ UNCHANGED faults => Core
  BY DEF CoverInv, Core
<1>2. UNCHANGED faults => OnePointerLost
  BY DEF OnePointerLost
<1>3. ASSUME NEW k \in FaultKinds, Fault(k)
      PROVE  Core /\ faults = <<>> /\ faults' # <<>> /\ k \in {"pointer", "aside"}
  BY <1>3, FirstLoss DEF CoverInv, Core
<1>4. CASE (Load \/ LoadLegacyForUi) /\ Quiet
  BY <1>1, <1>2, <1>4, CoverRests DEF Quiet
<1>5. CASE LoadOrInit /\ Quiet
  <2>1. Core /\ pc = "down" /\ ~FastStorageExists
    BY <1>1, <1>2, <1>5 DEF Quiet, LoadOrInit
  <2>2. PICK m \in Mempool :
          Initialise(IF legacy # Missing THEN legacy ELSE [tip |-> Genesis, mem |-> m])
    BY <1>5 DEF LoadOrInit
  <2>3. (IF legacy # Missing THEN legacy ELSE [tip |-> Genesis, mem |-> m]) \in Snapshot
    BY <2>1, ChainAssumption DEF Core, FileTypes, Snapshot
  <2> QED
    BY <1>5, <2>1, <2>2, <2>3, CoverInitialise
<1>6. ASSUME NEW s \in Snapshot, SaveInit(s), Quiet PROVE Core'
  BY <1>1, <1>2, <1>6, CoverInitialise DEF SaveInit, Quiet
<1>7. ASSUME NEW s \in Snapshot, NEW pol \in Policies, BeginCommit(s, pol), Quiet PROVE Core'
  BY <1>1, <1>2, <1>7, CoverBegin DEF Quiet
<1>8. CASE (Truncate \/ AppendRecord \/ SyncJournal \/ WriteFullJournal \/ WriteState
              \/ WritePrevious \/ Cleanup \/ Export) /\ Quiet
  BY <1>1, <1>2, <1>8, CoverTruncate, CoverAppend, CoverSync, CoverFull, CoverState, CoverPrevious,
     CoverCleanup, CoverRests DEF Quiet
<1>9. CASE WriteCurrent /\ Installed /\ UNCHANGED <<faults, backup>>
  BY <1>1, <1>2, <1>9, CoverCurrent
<1>10. CASE Abort /\ backup = Missing /\ Quiet
  BY <1>1, <1>2, <1>10, CoverRests DEF Quiet
<1>11. CASE Crash /\ backup' = Missing /\ UNCHANGED <<faults, last, before>>
  <2>1. Core
    BY <1>1, <1>2, <1>11
  <2>2. CASE journal' = journal
    BY <1>11, <2>1, <2>2, CoverRests
  <2>3. CASE pc = "append" /\ journal' = Put(journal, new.gen, Append(journal[new.gen], Torn))
    BY <1>11, <2>1, <2>3, CoverTorn
  <2> QED
    BY <1>11, <2>2, <2>3 DEF Crash
<1>12. CASE RotPointer
  BY <1>3, <1>12, CoverRot DEF RotPointer, FaultKinds
<1>13. CASE RotState \/ RotRecord
  BY <1>3, <1>13 DEF RotState, RotRecord, FaultKinds
<1>14. CASE AsidePrevious \/ AsideCurrent
  BY <1>3, <1>14, CoverAside DEF AsidePrevious, AsideCurrent, FaultKinds
<1>15. CASE InstallPrevious \/ InstallCurrent \/ InstallFails
  BY <1>1, <1>2, <1>15, CoverPrevious, CoverCurrent, CoverFails DEF InstallPrevious, InstallCurrent, InstallFails
<1>16. CASE UNCHANGED fvars
  <2>1. Core
    BY <1>1, <1>2, <1>16 DEF fvars
  <2>2. Held' = Held
    BY <1>16 DEF fvars, vars, Held
  <2>3. FileTypes' /\ AppendInv' /\ LossInv'
    BY <1>16, <2>1 DEF fvars, vars, Core, FileTypes, AppendInv, LossInv
  <2>4. HeldInv' /\ LaidInv'
    BY <1>16, <2>1, <2>2 DEF fvars, vars, Core, HeldInv, LaidInv, Usable, StateHolds, JournalHolds
  <2>5. ChosenInv'
    BY <1>16, <2>1, <2>2 DEF fvars, vars, Core, ChosenInv
  <2> QED
    BY <2>3, <2>4, <2>5 DEF Core
<1> QED
  BY <1>4, <1>5, <1>6, <1>7, <1>8, <1>9, <1>10, <1>11, <1>12, <1>13, <1>14, <1>15, <1>16 DEF FNext

(* When one pointer file at most was lost, a load returns the commit       *)
(* installed last or the one that was built on, from the second commit on. *)
THEOREM OneLossIsCovered == FSpec => []PointerLossIsCovered
<1>1. PointerInv /\ CoverInv => PointerLossIsCovered
  <2> SUFFICES ASSUME PointerInv, CoverInv, before # Missing, OnePointerLost
               PROVE  LoadResult \in {last, before} \ {Missing}
    BY DEF PointerLossIsCovered
  <2>1. Core
    BY DEF CoverInv, Core
  <2>2. /\ IsPointer(cur) \/ IsPointer(prv)
        /\ IsPointer(cur) => Usable(cur)
        /\ IsPointer(prv) => Usable(prv)
    BY <2>1, HeldFacts DEF Core, LossInv
  <2> QED
    BY <2>2 DEF LoadResult, Usable, IsPointer, PointerInv
<1> QED
  BY <1>1, PointersHold, FInitPointers, FNextPointers, CoverInit, FNextCover, PTL DEF FSpec
=============================================================================

----------------------------- MODULE FastStorage -----------------------------
(***************************************************************************)
(* The Fast Chain Engine (QUB-FCE-1) of src/fast_storage.rs: how one data  *)
(* directory keeps the canonical chain across crashes.  A commit truncates *)
(* and extends a block journal (or writes a journal of a new generation),  *)
(* writes an immutable state file, then PREVIOUS.json, then CURRENT.json,  *)
(* and prunes files nothing refers to.  A load takes the commit CURRENT    *)
(* names when its pointer, state file and journal all verify, and the one  *)
(* PREVIOUS names otherwise.                                               *)
(*                                                                         *)
(* This module is the writer that holds the process-local storage mutex    *)
(* and the on-disk lease (WriterLease models that lease), on a platform    *)
(* where a rename replaces its target atomically, with crashes and I/O     *)
(* errors between any two steps.  FastStorageFaults adds the two-rename    *)
(* fallback and damaged files; a reader that takes no lock is not modelled.*)
(***************************************************************************)
EXTENDS Integers, Sequences

CONSTANTS
  Tip,        \* block hashes; a block stands for the chain it ends
  Genesis,    \* the block every chain starts with
  Height,     \* Height[t]     : height of t
  Work,       \* Work[t]       : cumulative work of the chain ending in t
  BlockAt,    \* BlockAt[t][h] : the ancestor of t at height h
  Mempool,    \* mempool contents persisted next to a chain
  Mainnet,    \* network.name = "mainnet"
  StartGens,  \* values the nanosecond clock may give the first generation
  MaxGen,     \* bound on generations
  MaxRev,     \* bound on state revisions of a generation
  Missing,    \* a file that is not there; also "no commit"
  Unreadable, \* a file whose content does not parse
  Torn        \* a journal record that is not a whole block

ASSUME ChainAssumption ==
  /\ Genesis \in Tip
  /\ Height \in [Tip -> Nat]
  /\ Work \in [Tip -> Nat]
  /\ \A t \in Tip :
       /\ BlockAt[t] \in [0..Height[t] -> Tip]
       /\ BlockAt[t][Height[t]] = t
       /\ \A h \in 0..Height[t] :
            /\ Height[BlockAt[t][h]] = h
            /\ \A k \in 0..h : BlockAt[BlockAt[t][h]][k] = BlockAt[t][k]

ASSUME ConfigAssumption ==
  /\ Mainnet \in BOOLEAN
  /\ StartGens \subseteq Nat
  /\ MaxGen \in Nat
  /\ MaxRev \in Nat

(* A state file holds the snapshot itself; a pointer holds its name, its   *)
(* checksum and the same header fields.  Both are this record: comparing a *)
(* state file with a pointer is the checksum and field comparison.         *)
Commit == [gen : Nat, rev : Nat, records : Nat, tip : Tip, mem : Mempool]
Snapshot == [tip : Tip, mem : Mempool]

ASSUME FileAssumption ==
  /\ Missing \notin Commit \cup Snapshot
  /\ Unreadable \notin Commit
  /\ Missing # Unreadable
  /\ Torn \notin Tip

VARIABLES
  cur,      \* CURRENT.json
  prv,      \* PREVIOUS.json
  states,   \* state-<gen>-<rev>.json, by <<gen, rev>>
  journal,  \* blocks-<gen>.jsonl, by generation: a sequence of records
  legacy,   \* chain.json, the compatibility export: a snapshot or Missing
  pc,       \* where the writer is in its commit; "down" when no process runs
  base,     \* the commit the writer replaces, Missing when it initialises
  new,      \* the commit it is writing
  policy    \* the FastCommitPolicy of that commit

disk == <<cur, prv, states, journal, legacy>>
vars == <<cur, prv, states, journal, legacy, pc, base, new, policy>>

Snap(c) == [tip |-> c.tip, mem |-> c.mem]
StateName(c) == <<c.gen, c.rev>>
Policies == {"Normal", "VerifiedEqualWorkReanchor"}

(* Writing a file by name; the other files are as they were. *)
Put(files, name, body) ==
  [n \in DOMAIN files \cup {name} |-> IF n = name THEN body ELSE files[n]]
Keep(files, names) == [n \in names |-> files[n]]

-----------------------------------------------------------------------------
(* Reading a commit back. *)

IsPointer(p) == p \notin {Missing, Unreadable}

StateHolds(p) ==
  /\ StateName(p) \in DOMAIN states
  /\ states[StateName(p)] = p

(* The first p.records records are the hash-linked chain that ends in the  *)
(* committed tip; what follows them is not read.                           *)
JournalHolds(p) ==
  /\ p.gen \in DOMAIN journal
  /\ Len(journal[p.gen]) >= p.records
  /\ p.records = Height[p.tip] + 1
  /\ \A h \in 0..(p.records - 1) : journal[p.gen][h + 1] = BlockAt[p.tip][h]

Usable(p) == IsPointer(p) /\ StateHolds(p) /\ JournalHolds(p)

(* What a load of the directory returns when nobody is writing. *)
LoadResult ==
  IF Usable(cur) THEN cur ELSE IF Usable(prv) THEN prv ELSE Missing

(* The writer's own look at the directory: pointer and state file, not the *)
(* journal.                                                                *)
WriterBase ==
  IF IsPointer(cur) /\ StateHolds(cur) THEN cur
  ELSE IF IsPointer(prv) /\ StateHolds(prv) THEN prv
  ELSE Missing

(* Faulty: a pointer that cannot be read does not count. *)
ReadablePointerExists == IsPointer(cur) \/ IsPointer(prv)

(* NodePaths::fast_storage_exists. *)
FastStorageExists == cur # Missing \/ prv # Missing

-----------------------------------------------------------------------------
(* Which candidates may replace the commit c. *)

EqualWorkSibling(t, c) ==
  /\ Mainnet
  /\ Work[t] = Work[c.tip]
  /\ Height[t] = c.records - 1
  /\ t # c.tip

(* Two faulty forms of the comparison: with the sibling rule of HF126      *)
(* alone, and without it.                                                  *)
StaleSiblingOnly(t, c, pol) ==
  EqualWorkSibling(t, c) /\ pol # "VerifiedEqualWorkReanchor"
StaleWithoutSiblingRule(t, c, pol) ==
  \/ Work[t] < Work[c.tip]
  \/ Work[t] = Work[c.tip] /\ Height[t] < c.records - 1

Stale(t, c, pol) ==
  \/ Work[t] < Work[c.tip]
  \/ Work[t] = Work[c.tip] /\ Height[t] < c.records - 1
  \/ EqualWorkSibling(t, c) /\ pol # "VerifiedEqualWorkReanchor"

NotBehindCommitted(t, c, pol) ==
  /\ ~Stale(t, c, pol)
  /\ pol = "VerifiedEqualWorkReanchor" => EqualWorkSibling(t, c)

(* The candidate has the committed tip as its block at that height. *)
Extends(t, c) ==
  /\ Height[t] >= c.records - 1
  /\ BlockAt[t][c.records - 1] = c.tip

(* Faulty: a reorganisation rewrites the journal in place. *)
SameGen(t, c) == c.gen

NextGen(t, c) == IF Extends(t, c) THEN c.gen ELSE c.gen + 1
NextRev(t, c) == IF Extends(t, c) THEN c.rev + 1 ELSE 1

(* Faulty: the record count is one off from the height and falls below it. *)
NewCommitOffByOne(g, r, s) ==
  [gen |-> g, rev |-> r, records |-> Height[s.tip] - 1,
   tip |-> s.tip, mem |-> s.mem]

NewCommit(g, r, s) ==
  [gen |-> g, rev |-> r, records |-> Height[s.tip] + 1,
   tip |-> s.tip, mem |-> s.mem]

-----------------------------------------------------------------------------
Init ==
  /\ cur = Missing
  /\ prv = Missing
  /\ states = <<>>
  /\ journal = <<>>
  /\ legacy \in Snapshot \cup {Missing}
  /\ pc = "down"
  /\ base = Missing
  /\ new = Missing
  /\ policy = "Normal"

(* load_or_init_chain of a starting process on an initialised directory:   *)
(* when neither commit verifies it fails closed, and the process is down.  *)
Load ==
  /\ pc = "down"
  /\ FastStorageExists
  /\ LoadResult # Missing
  /\ pc' = "idle"
  /\ UNCHANGED <<disk, base, new, policy>>

(* initialize_fast_storage: the first generation takes its number from the *)
(* clock and there is no previous pointer to save.                         *)
Initialise(s) ==
  \E g \in StartGens :
    /\ g <= MaxGen
    /\ base' = Missing
    /\ new' = NewCommit(g, 1, s)
    /\ policy' = "Normal"
    /\ pc' = "full"
    /\ UNCHANGED disk

(* load_or_init_chain on a directory without the engine: migrate the       *)
(* legacy chain, or start from genesis.                                    *)
LoadOrInit ==
  /\ pc = "down"
  /\ ~FastStorageExists
  /\ \E m \in Mempool :
       Initialise(IF legacy # Missing THEN legacy
                  ELSE [tip |-> Genesis, mem |-> m])

(* load_or_init_chain_for_ui_fast paints a legacy chain without migrating  *)
(* it: the one way a process runs on a directory without the engine.       *)
LoadLegacyForUi ==
  /\ pc = "down"
  /\ ~FastStorageExists
  /\ legacy # Missing
  /\ pc' = "idle"
  /\ UNCHANGED <<disk, base, new, policy>>

(* save_chain on a directory without the engine. *)
SaveInit(s) ==
  /\ pc = "idle"
  /\ ~FastStorageExists
  /\ Initialise(s)

(* commit_chain_with_policy up to the choice of generation and revision. *)
BeginCommit(s, pol) ==
  /\ pc = "idle"
  /\ FastStorageExists
  /\ WriterBase # Missing
  /\ NotBehindCommitted(s.tip, WriterBase, pol)
  /\ NextGen(s.tip, WriterBase) <= MaxGen
  /\ NextRev(s.tip, WriterBase) <= MaxRev
  /\ base' = WriterBase
  /\ new' = NewCommit(NextGen(s.tip, WriterBase), NextRev(s.tip, WriterBase), s)
  /\ policy' = pol
  /\ pc' = IF Extends(s.tip, WriterBase) THEN "truncate" ELSE "full"
  /\ UNCHANGED disk

(* Faulty: the leftover of an interrupted append stays. *)
KeepLeftover ==
  /\ pc = "truncate"
  /\ base.gen \in DOMAIN journal
  /\ pc' = "append"
  /\ UNCHANGED <<disk, base, new, policy>>

(* append_journal drops whatever an interrupted commit left behind the     *)
(* committed prefix ...                                                    *)
Truncate ==
  /\ pc = "truncate"
  /\ base.gen \in DOMAIN journal
  /\ Len(journal[base.gen]) >= base.records
  /\ journal' = Put(journal, base.gen,
                    SubSeq(journal[base.gen], 1, base.records))
  /\ pc' = "append"
  /\ UNCHANGED <<cur, prv, states, legacy, base, new, policy>>

(* ... writes the newly connected blocks ... *)
AppendRecord ==
  /\ pc = "append"
  /\ Len(journal[new.gen]) < new.records
  /\ journal' = Put(journal, new.gen,
                    Append(journal[new.gen],
                           BlockAt[new.tip][Len(journal[new.gen])]))
  /\ UNCHANGED <<cur, prv, states, legacy, pc, base, new, policy>>

(* ... and synchronizes the file. *)
SyncJournal ==
  /\ pc = "append"
  /\ Len(journal[new.gen]) = new.records
  /\ pc' = "state"
  /\ UNCHANGED <<disk, base, new, policy>>

(* write_full_journal: a temporary file renamed over the target. *)
WriteFullJournal ==
  /\ pc = "full"
  /\ journal' = Put(journal, new.gen,
                    [i \in 1..new.records |-> BlockAt[new.tip][i - 1]])
  /\ pc' = "state"
  /\ UNCHANGED <<cur, prv, states, legacy, base, new, policy>>

WriteState ==
  /\ pc = "state"
  /\ states' = Put(states, StateName(new), new)
  /\ pc' = IF base = Missing THEN "current" ELSE "previous"
  /\ UNCHANGED <<cur, prv, journal, legacy, base, new, policy>>

(* Faulty: PREVIOUS.json is written once and then stays. *)
WriteFirstPrevious ==
  /\ pc = "previous"
  /\ prv' = IF prv = Missing THEN base ELSE prv
  /\ pc' = "current"
  /\ UNCHANGED <<cur, states, journal, legacy, base, new, policy>>

WritePrevious ==
  /\ pc = "previous"
  /\ prv' = base
  /\ pc' = "current"
  /\ UNCHANGED <<cur, states, journal, legacy, base, new, policy>>

WriteCurrent ==
  /\ pc = "current"
  /\ cur' = new
  /\ pc' = "cleanup"
  /\ UNCHANGED <<prv, states, journal, legacy, base, new, policy>>

(* The files the pruning always keeps.  It also keeps the most recently    *)
(* modified ones (four states, three journals): file times are not         *)
(* modelled, so any set of the other files may be the one that goes.       *)
KeptStates == {StateName(new)} \cup {StateName(p) : p \in {prv} \ {Missing, Unreadable}}

(* Faulty: the journal PREVIOUS.json refers to is not kept. *)
KeptJournalOfCurrent == {new.gen}

KeptJournals == {new.gen} \cup {p.gen : p \in {prv} \ {Missing, Unreadable}}

Cleanup ==
  /\ pc = "cleanup"
  /\ \E S \in SUBSET DOMAIN states, J \in SUBSET DOMAIN journal :
       /\ KeptStates \cap DOMAIN states \subseteq S
       /\ KeptJournals \cap DOMAIN journal \subseteq J
       /\ states' = Keep(states, S)
       /\ journal' = Keep(journal, J)
  /\ pc' = "export"
  /\ UNCHANGED <<cur, prv, legacy, base, new, policy>>

(* Refreshing chain.json; the interval that decides whether it is due is   *)
(* not modelled.                                                           *)
Export ==
  /\ pc = "export"
  /\ legacy' \in {legacy, Snap(new)}
  /\ pc' = "idle"
  /\ base' = Missing
  /\ new' = Missing
  /\ policy' = "Normal"
  /\ UNCHANGED <<cur, prv, states, journal>>

(* An I/O error: the lease is dropped, the files stay as they are.  When   *)
(* it hits the initialisation, load_or_init_chain returns it and the       *)
(* process does not come up; save_chain of a UI process may try again.     *)
Abort ==
  /\ pc \notin {"down", "idle"}
  /\ pc' \in (IF base = Missing THEN {"down"} ELSE {})
             \cup (IF base = Missing /\ legacy = Missing THEN {} ELSE {"idle"})
  /\ base' = Missing
  /\ new' = Missing
  /\ policy' = "Normal"
  /\ UNCHANGED disk

(* A crash loses the process; one in the middle of an append may leave     *)
(* part of a record at the end of the journal.                             *)
Crash ==
  /\ pc # "down"
  /\ journal' \in {journal} \cup
       (IF pc = "append"
        THEN {Put(journal, new.gen, Append(journal[new.gen], Torn))}
        ELSE {})
  /\ pc' = "down"
  /\ base' = Missing
  /\ new' = Missing
  /\ policy' = "Normal"
  /\ UNCHANGED <<cur, prv, states, legacy>>

Step ==
  \/ Truncate \/ AppendRecord \/ SyncJournal \/ WriteFullJournal
  \/ WriteState \/ WritePrevious \/ WriteCurrent \/ Cleanup \/ Export

Next ==
  \/ Load
  \/ LoadOrInit
  \/ LoadLegacyForUi
  \/ \E s \in Snapshot : SaveInit(s)
  \/ \E s \in Snapshot, pol \in Policies : BeginCommit(s, pol)
  \/ Step
  \/ Abort
  \/ Crash

Spec == Init /\ [][Next]_vars

(* A commit that has begun runs to its end unless it fails: the writer     *)
(* thread is scheduled, and a process that is down is started again.       *)
Fairness == WF_vars(Step) /\ WF_vars(Load) /\ WF_vars(LoadOrInit)
-----------------------------------------------------------------------------
(* The shape of the files and of the writer's registers. *)
TypeOK ==
  /\ cur \in Commit \cup {Missing, Unreadable}
  /\ prv \in Commit \cup {Missing, Unreadable}
  /\ DOMAIN states \subseteq Nat \X Nat
  /\ \A n \in DOMAIN states : states[n] \in Commit
  /\ DOMAIN journal \subseteq Nat
  /\ \A g \in DOMAIN journal : journal[g] \in Seq(Tip \cup {Torn})
  /\ legacy \in Snapshot \cup {Missing}
  /\ pc \in {"down", "idle", "truncate", "append", "full", "state",
             "previous", "current", "cleanup", "export"}
  /\ base \in Commit \cup {Missing}
  /\ new \in Commit \cup {Missing}
  /\ policy \in Policies

(* A crash at any point of a commit, with any number of interrupted        *)
(* commits before it, leaves a directory that loads exactly the commit     *)
(* CURRENT.json names: the journal prefix it needs has not been truncated  *)
(* or overwritten, its state file not replaced or pruned.                  *)
Recoverable == cur # Missing => LoadResult = cur

(* PREVIOUS.json names a commit that would load too, so that CURRENT has a *)
(* fallback while the next commit rewrites the files around both.          *)
FallbackUsable == prv # Missing => Usable(prv)

(* Falling back from CURRENT to PREVIOUS never moves the chain forward:    *)
(* PREVIOUS is not ahead of CURRENT.                                       *)
FallbackNotAhead ==
  prv # Missing => /\ cur # Missing
                   /\ Work[prv.tip] <= Work[cur.tip]
                   /\ prv.gen <= cur.gen

(* On mainnet the committed tip gives way to a sibling of the same height  *)
(* and work in a verified re-anchor only, however the commits, crashes and *)
(* restarts interleave.                                                    *)
SiblingOnlyByReanchor ==
  [][ cur # Missing /\ cur' # cur /\ EqualWorkSibling(cur'.tip, cur)
        => policy = "VerifiedEqualWorkReanchor" ]_vars

(* What a load returns, as the caller of the engine sees it: the files     *)
(* implement the register of CommittedStore.                               *)
Committed == IF LoadResult = Missing THEN Missing ELSE Snap(LoadResult)
Abs == INSTANCE CommittedStore WITH store <- Committed, None <- Missing
ImplementsStore == Abs!StoreSpec

(* Once crashes and I/O errors stop, a process that is down or in the      *)
(* middle of a commit comes to rest with a chain it can serve: no leftover *)
(* of an interrupted commit makes start-up fail for good.                  *)
ComesToRest ==
  <>[][~(Crash \/ Abort)]_vars => (pc # "idle" ~> pc = "idle")
=============================================================================

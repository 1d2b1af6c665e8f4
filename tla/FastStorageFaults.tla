-------------------------- MODULE FastStorageFaults --------------------------
(***************************************************************************)
(* FastStorage on a disk that fails.  A file can be damaged at any time,   *)
(* and on a platform where a rename does not replace an existing target    *)
(* (replace_file_atomic after a failed first rename) a pointer file is     *)
(* moved aside before the new one is moved in, so that for a moment, and   *)
(* for good if the process dies there, there is none of that name.         *)
(***************************************************************************)
EXTENDS FastStorage

CONSTANT MaxFaults   \* bound on damaged files and moves aside

ASSUME FaultAssumption == MaxFaults \in Nat

VARIABLES
  faults,   \* history: the kinds of fault there have been, in order
  backup,   \* the pointer that is moved aside while its name is vacant
  last,     \* history: the commit installed last as CURRENT.json
  before    \* history: the commit that one was built on, Missing for a first

fvars == <<vars, faults, backup, last, before>>

FaultKinds == {"pointer", "state", "record", "aside"}

(* A fault of kind k, which is within the bound. *)
Fault(k) == Len(faults) < MaxFaults /\ faults' = Append(faults, k)

FInit ==
  /\ Init
  /\ faults = <<>>
  /\ backup = Missing
  /\ last = Missing
  /\ before = Missing

Installed == last' = new /\ before' = base

-----------------------------------------------------------------------------
(* Damage. *)

RotPointer ==
  /\ \/ IsPointer(cur) /\ cur' = Unreadable /\ UNCHANGED prv
     \/ IsPointer(prv) /\ prv' = Unreadable /\ UNCHANGED cur
  /\ Fault("pointer")
  /\ UNCHANGED <<states, journal, legacy, pc, base, new, policy, backup, last, before>>

(* A state file whose checksum no longer matches is as good as gone. *)
RotState ==
  /\ \E n \in DOMAIN states : states' = Keep(states, DOMAIN states \ {n})
  /\ Fault("state")
  /\ UNCHANGED <<cur, prv, journal, legacy, pc, base, new, policy, backup, last, before>>

RotRecord ==
  /\ \E j \in DOMAIN journal : \E i \in DOMAIN journal[j] :
       /\ journal[j][i] # Torn
       /\ journal' = [journal EXCEPT ![j][i] = Torn]
  /\ Fault("record")
  /\ UNCHANGED <<cur, prv, states, legacy, pc, base, new, policy, backup, last, before>>

-----------------------------------------------------------------------------
(* The fallback of replace_file_atomic, for each of the pointer files. *)

AsidePrevious ==
  /\ pc = "previous"
  /\ prv # Missing
  /\ prv' = Missing
  /\ backup' = prv
  /\ pc' = "install previous"
  /\ Fault("aside")
  /\ UNCHANGED <<cur, states, journal, legacy, base, new, policy, last, before>>

InstallPrevious ==
  /\ pc = "install previous"
  /\ prv' = base
  /\ backup' = Missing
  /\ pc' = "current"
  /\ UNCHANGED <<cur, states, journal, legacy, base, new, policy, faults, last, before>>

AsideCurrent ==
  /\ pc = "current"
  /\ cur # Missing
  /\ cur' = Missing
  /\ backup' = cur
  /\ pc' = "install current"
  /\ Fault("aside")
  /\ UNCHANGED <<prv, states, journal, legacy, base, new, policy, last, before>>

InstallCurrent ==
  /\ pc = "install current"
  /\ cur' = new
  /\ backup' = Missing
  /\ pc' = "cleanup"
  /\ Installed
  /\ UNCHANGED <<prv, states, journal, legacy, base, new, policy, faults>>

(* The second rename fails too: the old file is moved back, and an error   *)
(* of that move is ignored.                                                *)
InstallFails ==
  /\ \/ pc = "install previous" /\ prv' \in {backup, Missing} /\ UNCHANGED cur
     \/ pc = "install current" /\ cur' \in {backup, Missing} /\ UNCHANGED prv
  /\ backup' = Missing
  /\ pc' = "idle"
  /\ base' = Missing
  /\ new' = Missing
  /\ policy' = "Normal"
  /\ UNCHANGED <<states, journal, legacy, faults, last, before>>

-----------------------------------------------------------------------------
Quiet == UNCHANGED <<faults, backup, last, before>>

FNext ==
  \/ (Load \/ LoadOrInit \/ LoadLegacyForUi) /\ Quiet
  \/ \E s \in Snapshot : SaveInit(s) /\ Quiet
  \/ \E s \in Snapshot, pol \in Policies : BeginCommit(s, pol) /\ Quiet
  \/ (Truncate \/ AppendRecord \/ SyncJournal \/ WriteFullJournal \/ WriteState
        \/ WritePrevious \/ Cleanup \/ Export) /\ Quiet
  \/ WriteCurrent /\ Installed /\ UNCHANGED <<faults, backup>>
  \/ Abort /\ backup = Missing /\ Quiet
  \/ Crash /\ backup' = Missing /\ UNCHANGED <<faults, last, before>>
  \/ RotPointer \/ RotState \/ RotRecord
  \/ AsidePrevious \/ InstallPrevious \/ AsideCurrent \/ InstallCurrent \/ InstallFails

FSpec == FInit /\ [][FNext]_fvars

-----------------------------------------------------------------------------
(* Whatever is damaged, and however often, a load returns the commit       *)
(* installed last, the one that was built on, or an error: never another   *)
(* commit that some leftover file still spells out, and never a mixture.   *)
NothingOlderIsServed == LoadResult \in {Missing, last, before}

(* At most one pointer file was lost, and nothing else damaged. *)
OnePointerLost ==
  /\ Len(faults) <= 1
  /\ \A i \in DOMAIN faults : faults[i] \in {"pointer", "aside"}

(* From the second commit on, losing one pointer file, to damage or in the *)
(* vacant moment of a move aside, costs one commit at most.                *)
PointerLossIsCovered ==
  before # Missing /\ OnePointerLost => LoadResult \in {last, before} \ {Missing}

(* README-FAST-CHAIN-ENGINE.md: "If both Fast Chain Engine commits are     *)
(* unusable, startup fails closed.  QUB Core never silently replaces them  *)
(* from a potentially stale compatibility export": once a commit has been  *)
(* installed, no start of the process initialises the directory again.     *)
StartupNeverReinitialises ==
  [][pc = "down" /\ last # Missing => pc' # "full"]_fvars

(* README-FAST-CHAIN-ENGINE.md: "If the complete CURRENT.json commit       *)
(* cannot be read or verified, including its referenced state or journal,  *)
(* QUB Core attempts PREVIOUS.json": a commit builds on the one a load     *)
(* would return.                                                           *)
CommitsBuildOnWhatLoads ==
  [][pc = "idle" /\ pc' \in {"truncate", "full"} /\ LoadResult # Missing
       => base' = LoadResult]_fvars
=============================================================================

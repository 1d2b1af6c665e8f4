----------------------------- MODULE WriterLease -----------------------------
(***************************************************************************)
(* The writer lease of a data directory, acquire_lease of                  *)
(* src/fast_storage.rs: a lock file made with create_new that holds its    *)
(* owner's process id.  A process that finds the file refuses to write,    *)
(* unless the file is at least HF123_STORAGE_LOCK_STALE_SECS old and no    *)
(* process with that id runs; then it removes the file and tries once      *)
(* more.  A process is here its one writer thread (the storage mutex       *)
(* admits one at a time), and every file operation is a step of its own.   *)
(***************************************************************************)
EXTENDS Naturals, FiniteSets

CONSTANTS
  Proc,       \* programs that share the directory (node, GUI, command line)
  Pid,        \* process ids
  ReusePids,  \* a process may start with the id of one that is gone
  MaxCrash,   \* bound on crashes
  NoPid,      \* the process does not run; also a lock file without an id
  NoLock      \* the lock file is absent

ASSUME LeaseAssumption ==
  /\ ReusePids \in BOOLEAN
  /\ MaxCrash \in Nat
  /\ NoPid \notin Pid
  /\ NoLock \notin [pid : Pid \cup {NoPid}, old : BOOLEAN, by : Proc]

VARIABLES
  lock,    \* the lock file: the id in it, whether it is past the stale age,
           \* and (history) the program that created it
  at,      \* where each program is in acquire_lease
  pid,     \* its process id while it runs
  tries,   \* rounds left of the loop of acquire_lease
  used,    \* ids that have been given to a process
  crashes, \* how many crashes there have been
  seen,    \* history: the file p judged is still the one on disk
  raced    \* history: a process removed a file other than the one it judged

leaseVars == <<lock, at, pid, tries, used, crashes, seen, raced>>

LockFile == [pid : Pid \cup {NoPid}, old : BOOLEAN, by : Proc]

Running == {pid[p] : p \in Proc} \ {NoPid}

LeaseInit ==
  /\ lock = NoLock
  /\ at = [p \in Proc |-> "down"]
  /\ pid = [p \in Proc |-> NoPid]
  /\ tries = [p \in Proc |-> 0]
  /\ used = {}
  /\ crashes = 0
  /\ seen = [p \in Proc |-> FALSE]
  /\ raced = FALSE

Reaches(p, l) == at' = [at EXCEPT ![p] = l]

Start(p) ==
  /\ at[p] = "down"
  /\ \E i \in Pid \ (IF ReusePids THEN Running ELSE used) :
       /\ pid' = [pid EXCEPT ![p] = i]
       /\ used' = used \cup {i}
  /\ Reaches(p, "out")
  /\ UNCHANGED <<lock, tries, crashes, seen, raced>>

(* Faulty: one round more than the loop of the code. *)
ThreeRounds(p) ==
  /\ at[p] = "out"
  /\ tries' = [tries EXCEPT ![p] = 3]
  /\ Reaches(p, "create")
  /\ UNCHANGED <<lock, pid, used, crashes, seen, raced>>

BeginAcquire(p) ==
  /\ at[p] = "out"
  /\ tries' = [tries EXCEPT ![p] = 2]
  /\ Reaches(p, "create")
  /\ UNCHANGED <<lock, pid, used, crashes, seen, raced>>

(* create_new succeeds only if there is no file; the loop has two rounds. *)
Create(p) ==
  /\ at[p] = "create"
  /\ IF tries[p] = 0
     THEN Reaches(p, "out") /\ UNCHANGED <<lock, tries>>
     ELSE /\ tries' = [tries EXCEPT ![p] = @ - 1]
          /\ IF lock = NoLock
             THEN /\ lock' = [pid |-> NoPid, old |-> FALSE, by |-> p]
                  /\ Reaches(p, "write")
             ELSE Reaches(p, "stat") /\ UNCHANGED lock
  /\ UNCHANGED <<pid, used, crashes, seen, raced>>

(* The process id is written into the file by the handle that created it. *)
WritePid(p) ==
  /\ at[p] = "write"
  /\ lock' = IF lock # NoLock /\ lock.by = p THEN [lock EXCEPT !.pid = pid[p]] ELSE lock
  /\ Reaches(p, "held")
  /\ UNCHANGED <<pid, tries, used, crashes, seen, raced>>

(* When that write fails the file stays: there is no guard yet to drop. *)
WriteFails(p) ==
  /\ at[p] = "write"
  /\ Reaches(p, "out")
  /\ UNCHANGED <<lock, pid, tries, used, crashes, seen, raced>>

(* Faulty: the age of the file is not looked at. *)
StatAnyAge(p) ==
  /\ at[p] = "stat"
  /\ Reaches(p, "read")
  /\ seen' = [seen EXCEPT ![p] = TRUE]
  /\ UNCHANGED <<lock, pid, tries, used, crashes, raced>>

(* The age of the file; a file that is gone or young is not stale. *)
Stat(p) ==
  /\ at[p] = "stat"
  /\ IF lock # NoLock /\ lock.old
     THEN Reaches(p, "read") /\ seen' = [seen EXCEPT ![p] = TRUE]
     ELSE Reaches(p, "out") /\ UNCHANGED seen
  /\ UNCHANGED <<lock, pid, tries, used, crashes, raced>>

(* Two faulty forms: an old lock is dead, and its owner is always alive    *)
(* (what builds for other systems than Unix and Windows do).               *)
OldLockIsDead == FALSE
AnyLockIsAlive == lock # NoLock

(* lock_owner_alive: a file that cannot be read, or has no id in it, has no *)
(* living owner.                                                            *)
OwnerAlive == lock # NoLock /\ lock.pid \in Running

ReadOwner(p) ==
  /\ at[p] = "read"
  /\ Reaches(p, IF OwnerAlive THEN "out" ELSE "remove")
  /\ UNCHANGED <<lock, pid, tries, used, crashes, seen, raced>>

(* remove_file takes whatever file has the name now. *)
RemoveStale(p) ==
  /\ at[p] = "remove"
  /\ raced' = (raced \/ (lock # NoLock /\ ~seen[p]))
  /\ lock' = NoLock
  /\ seen' = [q \in Proc |-> FALSE]
  /\ Reaches(p, "create")
  /\ UNCHANGED <<pid, tries, used, crashes>>

(* Drop of FastStorageLease, at the end of a commit however it ends. *)
Release(p) ==
  /\ at[p] = "held"
  /\ lock' = NoLock
  /\ seen' = [q \in Proc |-> FALSE]
  /\ Reaches(p, "out")
  /\ UNCHANGED <<pid, tries, used, crashes, raced>>

Dies(p) ==
  /\ at[p] # "down"
  /\ crashes < MaxCrash
  /\ crashes' = crashes + 1
  /\ Reaches(p, "down")
  /\ pid' = [pid EXCEPT ![p] = NoPid]
  /\ tries' = [tries EXCEPT ![p] = 0]
  /\ UNCHANGED <<lock, used, seen, raced>>

(* The file passes the stale age.  A process that has created it writes    *)
(* its id sooner than that.                                                *)
Age ==
  /\ lock # NoLock
  /\ ~lock.old
  /\ \A p \in Proc : at[p] # "write"
  /\ lock' = [lock EXCEPT !.old = TRUE]
  /\ UNCHANGED <<at, pid, tries, used, crashes, seen, raced>>

ProcStep(p) ==
  \/ Start(p) \/ BeginAcquire(p) \/ Create(p) \/ WritePid(p) \/ WriteFails(p)
  \/ Stat(p) \/ ReadOwner(p) \/ RemoveStale(p) \/ Release(p)

LeaseNext == Age \/ \E p \in Proc : ProcStep(p) \/ Dies(p)

LeaseSpec == LeaseInit /\ [][LeaseNext]_leaseVars

(* Processes are scheduled, commits end and are attempted again (the       *)
(* persistence timer of the node), and time passes.                        *)
LeaseFairness == WF_leaseVars(Age) /\ \A p \in Proc : WF_leaseVars(ProcStep(p))

-----------------------------------------------------------------------------
LeaseTypeOK ==
  /\ lock \in LockFile \cup {NoLock}
  /\ at \in [Proc -> {"down", "out", "create", "write", "stat", "read", "remove", "held"}]
  /\ pid \in [Proc -> Pid \cup {NoPid}]
  /\ tries \in [Proc -> 0..2]
  /\ used \subseteq Pid
  /\ crashes \in 0..MaxCrash
  /\ seen \in [Proc -> BOOLEAN]
  /\ raced \in BOOLEAN

(* README-FAST-CHAIN-ENGINE.md: "Only one state-changing QUB process may   *)
(* own a data directory."                                                  *)
OneWriter ==
  \A p, q \in Proc : at[p] = "held" /\ at[q] = "held" => p = q

(* The one way to two writers is a removal that hits another file than the *)
(* one that was judged stale: crashes, restarts, reused process ids, slow  *)
(* commits and failed writes of the lock file do not lead there.           *)
OneWriterUnlessRaced == ~raced => OneWriter

(* Without such a removal, the file a writer relies on stays its own: no   *)
(* other process can get past the lock until the writer releases it.       *)
HolderKeepsLock ==
  ~raced => \A p \in Proc : at[p] = "held" => lock # NoLock /\ lock.pid = pid[p]

(* The lock of a writer that is gone does not stop the others for good,    *)
(* once crashes stop.                                                      *)
Orphaned == lock # NoLock /\ \A p \in Proc : at[p] \notin {"write", "held"}

OrphanGoes == <>[][\A p \in Proc : ~Dies(p)]_leaseVars => (Orphaned ~> ~Orphaned)
=============================================================================

-------------------------- MODULE WriterLeaseProofs --------------------------
(***************************************************************************)
(* For any number of processes, with process ids reused or not: two        *)
(* writers need a removal that hits another lock file than the one its     *)
(* process judged.  The invariant says whose file the lock is, and that a  *)
(* process about to remove the file it judged removes nobody's.            *)
(***************************************************************************)
EXTENDS WriterLease, TLAPS

Owning == {"write", "held"}

OwnInv ==
  \A p \in Proc : at[p] \in Owning =>
    /\ lock # NoLock
    /\ lock.by = p
    /\ at[p] = "held" => lock.pid = pid[p]
    /\ at[p] = "write" => ~lock.old

JudgedInv ==
  \A q \in Proc :
    /\ at[q] = "read" /\ seen[q] => lock # NoLock /\ lock.old
    /\ at[q] = "remove" /\ seen[q] =>
         lock # NoLock /\ \A p \in Proc : at[p] \notin Owning

Inv ==
  /\ LeaseTypeOK
  /\ \A p \in Proc : at[p] # "down" => pid[p] \in Pid
  /\ ~raced => OwnInv /\ JudgedInv

(* The lock file as it is created. *)
LEMMA FreshLock ==
  ASSUME NEW p \in Proc
  PROVE  /\ [pid |-> NoPid, old |-> FALSE, by |-> p] \in LockFile
         /\ [pid |-> NoPid, old |-> FALSE, by |-> p] # NoLock
<1>1. [pid |-> NoPid, old |-> FALSE, by |-> p] \in LockFile
  BY DEF LockFile
<1> QED
  BY <1>1, LeaseAssumption DEF LockFile

LEMMA InitInv == LeaseInit => Inv
<1> SUFFICES ASSUME LeaseInit PROVE Inv
  OBVIOUS
<1>1. LeaseTypeOK
  <2>1. 0 \in 0..MaxCrash /\ 0 \in 0..2
    BY LeaseAssumption
  <2> QED
    BY <2>1, Zenon DEF LeaseInit, LeaseTypeOK
<1>2. \A p \in Proc : at[p] = "down"
  BY DEF LeaseInit
<1> QED
  BY <1>1, <1>2 DEF Inv, OwnInv, JudgedInv, Owning

LEMMA TypeNext == LeaseTypeOK /\ [LeaseNext]_leaseVars => LeaseTypeOK'
<1> SUFFICES ASSUME LeaseTypeOK, [LeaseNext]_leaseVars PROVE LeaseTypeOK'
  OBVIOUS
<1> USE DEF LeaseTypeOK, LockFile, Reaches
<1>1. CASE Age
  BY <1>1 DEF Age
<1>2. ASSUME NEW p \in Proc, ProcStep(p) PROVE LeaseTypeOK'
  <2>1. CASE Start(p)
    BY <2>1 DEF Start
  <2>2. CASE BeginAcquire(p)
    BY <2>2 DEF BeginAcquire
  <2>3. CASE Create(p)
    <3>1. tries[p] # 0 => tries[p] - 1 \in 0..2
      OBVIOUS
    <3>2. tries' \in [Proc -> 0..2]
      BY <2>3, <3>1 DEF Create
    <3>4. lock' \in LockFile \cup {NoLock}
      <4>1. lock' = lock \/ lock' = [pid |-> NoPid, old |-> FALSE, by |-> p]
        BY <2>3, Zenon DEF Create
      <4> QED
        BY <4>1, FreshLock
    <3>3. at' \in [Proc -> {"down", "out", "create", "write", "stat", "read", "remove", "held"}]
      BY <2>3 DEF Create
    <3> QED
      BY <2>3, <3>2, <3>3, <3>4 DEF Create
  <2>4. CASE WritePid(p)
    BY <2>4 DEF WritePid
  <2>5. CASE WriteFails(p) \/ Stat(p) \/ ReadOwner(p)
    BY <2>5 DEF WriteFails, Stat, ReadOwner
  <2>6. CASE RemoveStale(p) \/ Release(p)
    BY <2>6 DEF RemoveStale, Release
  <2> QED
    BY <1>2, <2>1, <2>2, <2>3, <2>4, <2>5, <2>6 DEF ProcStep
<1>3. ASSUME NEW p \in Proc, Dies(p) PROVE LeaseTypeOK'
  BY <1>3, LeaseAssumption DEF Dies
<1>4. CASE UNCHANGED leaseVars
  BY <1>4 DEF leaseVars
<1> QED
  BY <1>1, <1>2, <1>3, <1>4 DEF LeaseNext

LEMMA InvKept == Inv /\ [LeaseNext]_leaseVars => Inv'
<1> SUFFICES ASSUME Inv, [LeaseNext]_leaseVars PROVE Inv'
  OBVIOUS
<1>1. LeaseTypeOK'
  BY TypeNext DEF Inv
<1>2. ASSUME NEW p \in Proc, at'[p] # "down" PROVE pid'[p] \in Pid
  <2> USE <1>2 DEF Inv, LeaseTypeOK, Reaches
  <2>1. CASE Age \/ UNCHANGED leaseVars
    BY <2>1 DEF Age, leaseVars
  <2>2. ASSUME NEW q \in Proc, Start(q) PROVE pid'[p] \in Pid
    BY <2>2 DEF Start
  <2>3. ASSUME NEW q \in Proc, Dies(q) PROVE pid'[p] \in Pid
    BY <2>3 DEF Dies
  <2>4. ASSUME NEW q \in Proc, ProcStep(q), ~Start(q) PROVE pid'[p] \in Pid
    <3>1. pid' = pid /\ at[q] # "down" /\ \A r \in Proc \ {q} : at'[r] = at[r]
      BY <2>4 DEF ProcStep, BeginAcquire, Create, WritePid, WriteFails, Stat, ReadOwner,
         RemoveStale, Release
    <3> QED
      BY <3>1
  <2> QED
    BY <2>1, <2>2, <2>3, <2>4 DEF LeaseNext
<1>3. SUFFICES ASSUME ~raced' PROVE OwnInv' /\ JudgedInv'
  BY <1>1, <1>2 DEF Inv
<1>4. ~raced /\ OwnInv /\ JudgedInv /\ LeaseTypeOK
  <2>1. raced => raced'
    <3>1. ASSUME NEW p \in Proc, ProcStep(p) PROVE raced => raced'
      BY <3>1 DEF ProcStep, Start, BeginAcquire, Create, WritePid, WriteFails, Stat, ReadOwner,
         RemoveStale, Release
    <3> QED
      BY <3>1 DEF LeaseNext, Age, Dies, leaseVars
  <2> QED
    BY <1>3, <2>1 DEF Inv
<1> USE <1>4 DEF OwnInv, JudgedInv, Owning, LeaseTypeOK, LockFile, Reaches
<1>5. CASE Age
  <2>1. /\ lock' = [lock EXCEPT !.old = TRUE] /\ lock # NoLock /\ lock \in LockFile
        /\ \A p \in Proc : at[p] # "write"
        /\ UNCHANGED <<at, pid, seen>>
    BY <1>5 DEF Age
  <2>2. lock' \in LockFile /\ lock'.old /\ lock'.by = lock.by /\ lock'.pid = lock.pid
    BY <2>1
  <2>3. lock' # NoLock
    BY <2>2, LeaseAssumption
  <2> QED
    BY <2>1, <2>2, <2>3
<1>6. ASSUME NEW p \in Proc, ProcStep(p) PROVE OwnInv' /\ JudgedInv'
  <2>1. CASE Start(p)
    BY <2>1 DEF Start
  <2>2. CASE BeginAcquire(p)
    BY <2>2 DEF BeginAcquire
  <2>3. CASE Create(p)
    <3>1. CASE at'[p] # "write"
      BY <2>3, <3>1, LeaseAssumption DEF Create
    <3>2. CASE at'[p] = "write"
      <4>1. /\ lock = NoLock /\ lock' = [pid |-> NoPid, old |-> FALSE, by |-> p]
            /\ \A q \in Proc \ {p} : at'[q] = at[q]
            /\ seen' = seen
        BY <2>3, <3>2 DEF Create
      <4>2. \A q \in Proc \ {p} : at[q] \notin Owning
        BY <4>1
      <4>3. lock' # NoLock /\ lock'.by = p /\ ~lock'.old
        BY <4>1, FreshLock
      <4>4. OwnInv'
        BY <3>2, <4>1, <4>2, <4>3
      <4>5. JudgedInv'
        BY <3>2, <4>1
      <4> QED
        BY <4>4, <4>5
    <3> QED
      BY <3>1, <3>2
  <2>4. CASE WritePid(p)
    BY <2>4, LeaseAssumption DEF WritePid
  <2>5. CASE WriteFails(p)
    BY <2>5 DEF WriteFails
  <2>6. CASE Stat(p)
    BY <2>6 DEF Stat
  <2>7. CASE ReadOwner(p)
    <3>1. ASSUME ~OwnerAlive, seen[p] PROVE \A q \in Proc : at[q] \notin Owning
      <4>1. lock # NoLock /\ lock.old /\ lock.pid \notin Running
        BY <2>7, <3>1 DEF OwnerAlive, ReadOwner
      <4>2. ASSUME NEW q \in Proc, at[q] \in Owning PROVE FALSE
        <5>1. at[q] = "held" /\ lock.pid = pid[q]
          BY <4>1, <4>2
        <5>2. pid[q] \in Pid
          BY <5>1 DEF Inv
        <5> QED
          BY <4>1, <5>1, <5>2, LeaseAssumption DEF Running
      <4> QED
        BY <4>2
    <3> QED
      BY <2>7, <3>1 DEF ReadOwner
  <2>8. CASE RemoveStale(p)
    <3>1. \A q \in Proc : at[q] \notin Owning
      BY <1>3, <2>8 DEF RemoveStale
    <3> QED
      BY <2>8, <3>1 DEF RemoveStale
  <2>9. CASE Release(p)
    <3>1. \A q \in Proc : at[q] \in Owning => q = p
      BY <2>9 DEF Release
    <3> QED
      BY <2>9, <3>1 DEF Release
  <2> QED
    BY <1>6, <2>1, <2>2, <2>3, <2>4, <2>5, <2>6, <2>7, <2>8, <2>9 DEF ProcStep
<1>7. ASSUME NEW p \in Proc, Dies(p) PROVE OwnInv' /\ JudgedInv'
  BY <1>7 DEF Dies
<1>8. CASE UNCHANGED leaseVars
  BY <1>8 DEF leaseVars
<1> QED
  BY <1>5, <1>6, <1>7, <1>8 DEF LeaseNext

LEMMA Invariance == LeaseSpec => []Inv
BY InitInv, InvKept, PTL DEF LeaseSpec

(* The lock file and the programs always have their type. *)
THEOREM LeaseTypeCorrect == LeaseSpec => []LeaseTypeOK
<1>1. Inv => LeaseTypeOK
  BY DEF Inv
<1> QED
  BY <1>1, Invariance, PTL

(* Two programs write the directory at once only after a removal that hit  *)
(* another lock file than the one that was judged stale.                   *)
THEOREM AtMostOneWriter == LeaseSpec => []OneWriterUnlessRaced
<1>1. Inv => OneWriterUnlessRaced
  BY DEF Inv, OwnInv, Owning, OneWriterUnlessRaced, OneWriter
<1> QED
  BY <1>1, Invariance, PTL

(* Until then a writer's lock file is its own as long as it writes. *)
THEOREM WriterKeepsLock == LeaseSpec => []HolderKeepsLock
<1>1. Inv => HolderKeepsLock
  BY DEF Inv, OwnInv, Owning, HolderKeepsLock
<1> QED
  BY <1>1, Invariance, PTL
=============================================================================

--------------------------- MODULE LiveChainProofs ---------------------------
(***************************************************************************)
(* For any number of threads, blocks and failing saves: the chain in       *)
(* memory has no more work than the committed one.  The invariant says the *)
(* same of everything that can reach the memory: what a thread has saved   *)
(* or loaded, what waits for the worker and what the worker holds.         *)
(***************************************************************************)
EXTENDS LiveChain, TLAPS

(* Chain c is on disk, or d, which is on disk, has as much work. *)
Durable(c, d) == c \in Chain /\ Work[c.tip] <= Work[d.tip]

TaskOk(t, d) ==
  /\ t.at = "commit" => t.cand \in Chain
  /\ t.at \in {"publish", "republish", "saved"} => Durable(t.cand, d)
  /\ t.at = "merge" => Durable(t.base, d)

SaversInv == \A p \in Thread : TaskOk(thr[p], committed)

QueueInv ==
  /\ deferred # None => Durable(deferred, committed)
  /\ popped # None => Durable(popped, committed)
  /\ worker = "apply" => popped # None

Inv == TypeOK /\ MemoryNotAhead /\ SaversInv /\ QueueInv

-----------------------------------------------------------------------------
(* Chains. *)

LEMMA NoneIsNoChain == None \notin Chain
BY ThreadAssumption DEF Chain

LEMMA ConfirmedType ==
  ASSUME NEW t \in Block
  PROVE  Confirmed(t) \in SUBSET Tx
<1>1. \A h \in 0..Height[t] : Mined[BlockAt[t][h]] \subseteq Tx
  BY ChainAssumption
<1> QED
  BY <1>1 DEF Confirmed

LEMMA OntoType ==
  ASSUME NEW c \in Chain, NEW t \in Block, NEW o \in SUBSET Tx
  PROVE  Onto(c, t, o) \in Chain /\ Onto(c, t, o).tip = t
<1>1. c.tip \in Block /\ c.mem \in SUBSET Tx
  BY DEF Chain
<1>2. Confirmed(c.tip) \in SUBSET Tx
  BY <1>1, ConfirmedType
<1> QED
  BY <1>1, <1>2 DEF Onto, Chain

LEMMA WithType ==
  ASSUME NEW c \in Chain, NEW o \in SUBSET Tx
  PROVE  With(c, o) \in Chain /\ With(c, o).tip = c.tip
BY DEF With, Chain

LEMMA AppliedType ==
  ASSUME NEW c \in Chain, NEW d \in Chain
  PROVE  Applied(c, d) \in Chain /\ Applied(c, d).tip \in {c.tip, d.tip}
<1>1. d.mem \in SUBSET Tx
  BY DEF Chain
<1>2. With(c, d.mem) \in Chain /\ With(c, d.mem).tip = c.tip
  BY <1>1, WithType
<1> QED
  BY <1>2 DEF Applied

LEMMA ReanchoredType ==
  ASSUME NEW c \in Chain, NEW d \in Chain
  PROVE  Reanchored(c, d) \in Chain /\ Reanchored(c, d).tip \in {c.tip, d.tip}
BY AppliedType DEF Reanchored

LEMMA MergedType ==
  ASSUME NEW c \in Chain, NEW d \in Chain
  PROVE  Merged(c, d) \in Chain /\ Merged(c, d).tip \in {c.tip, d.tip}
<1> DEFINE m == With(c, d.mem)
<1>1. d.mem \in SUBSET Tx /\ d.tip \in Block
  BY DEF Chain
<1>2. m \in Chain /\ m.tip = c.tip
  BY <1>1, WithType
<1>3. Onto(m, d.tip, d.mem) \in Chain /\ Onto(m, d.tip, d.mem).tip = d.tip
  BY <1>1, <1>2, OntoType
<1> QED
  BY <1>2, <1>3 DEF Merged

(* What may be committed has as much work as what is. *)
LEMMA AllowedWork ==
  ASSUME TypeOK, NEW c \in Chain, NEW job, Allowed(c, job)
  PROVE  Work[committed.tip] <= Work[c.tip]
<1>1. c.tip \in Block /\ committed.tip \in Block
  BY DEF TypeOK, Chain
<1>2. Work[c.tip] \in Nat /\ Work[committed.tip] \in Nat
  BY <1>1, ChainAssumption
<1> QED
  BY <1>2 DEF Allowed, Better, Sibling

LEMMA WorkType ==
  ASSUME NEW c \in Chain
  PROVE  c.tip \in Block /\ c.mem \in SUBSET Tx /\ Work[c.tip] \in Nat
BY ChainAssumption DEF Chain

-----------------------------------------------------------------------------
LEMMA InitInv == Init => Inv
<1> SUFFICES ASSUME Init PROVE Inv
  OBVIOUS
<1>1. committed \in Chain /\ live = committed
  BY ChainAssumption DEF Init, Chain
<1>2. Work[committed.tip] \in Nat
  BY <1>1, WorkType
<1>3. Idle \in TaskType /\ TaskOk(Idle, committed)
  BY DEF Idle, Task, TaskType, TaskOk
<1>4. 0 \in 0..MaxInput
  BY ThreadAssumption
<1>5. TypeOK
  BY <1>1, <1>3, <1>4 DEF Init, TypeOK
<1> QED
  BY <1>1, <1>2, <1>3, <1>5 DEF Init, Inv, MemoryNotAhead, SaversInv, QueueInv

(* A step of thread p that commits nothing and queues nothing. *)
LEMMA Acts ==
  ASSUME Inv, inputs' \in 0..MaxInput,
         NEW p \in Thread, NEW t \in TaskType, TaskOk(t, committed),
         thr' = [thr EXCEPT ![p] = t],
         live' \in Chain, Work[live'.tip] <= Work[committed.tip],
         owner' \in Handler \cup {None}, storing' \in Thread \cup {None},
         dirty' \in BOOLEAN, outbox' \in SUBSET Own,
         UNCHANGED <<committed, publication>>
  PROVE  Inv'
<1>1. TypeOK'
  BY DEF Inv, TypeOK, publication
<1>2. SaversInv'
  BY DEF Inv, SaversInv, TypeOK
<1>3. QueueInv' /\ MemoryNotAhead'
  BY DEF Inv, QueueInv, MemoryNotAhead, publication
<1> QED
  BY <1>1, <1>2, <1>3 DEF Inv

(* A step of thread p that leaves the memory alone, too. *)
LEMMA ActsAside ==
  ASSUME Inv, inputs' \in 0..MaxInput,
         NEW p \in Thread, NEW t \in TaskType, TaskOk(t, committed),
         thr' = [thr EXCEPT ![p] = t],
         owner' \in Handler \cup {None}, storing' \in Thread \cup {None},
         dirty' \in BOOLEAN, outbox' \in SUBSET Own,
         UNCHANGED <<committed, live, publication>>
  PROVE  Inv'
<1>1. live' \in Chain /\ Work[live'.tip] <= Work[committed.tip]
  BY DEF Inv, TypeOK, MemoryNotAhead
<1> QED
  BY <1>1, Acts

LEMMA IdleOk == Idle \in TaskType /\ TaskOk(Idle, committed)
BY DEF Idle, Task, TaskType, TaskOk

(* A task that goes on to save chain c. *)
LEMMA CommitTask ==
  ASSUME NEW c \in Chain, NEW base \in Chain \cup {None},
         NEW job \in {"block", "tx", "chain", "copy", "anchor", "persist"}
  PROVE  Task("commit", job, base, c) \in TaskType /\ TaskOk(Task("commit", job, base, c), committed)
BY DEF Task, TaskType, TaskOk

LEMMA TaskTypes ==
  ASSUME Inv, NEW p \in Thread
  PROVE  /\ thr[p] \in TaskType /\ TaskOk(thr[p], committed)
         /\ \A a \in {"mark", "snapshot", "publish", "republish", "saved"} :
              [thr[p] EXCEPT !.at = a] \in TaskType
BY DEF Inv, TypeOK, SaversInv, TaskType

LEMMA HandlerArrives ==
  ASSUME Inv, inputs' \in 0..MaxInput, NEW h \in Handler,
         (\E x \in Tx : TakeTx(h, x) \/ SubmitTx(h, x))
           \/ (\E t \in Block : TakeBlock(h, t) \/ TakeChain(h, t))
  PROVE  Inv'
<1>0. TypeOK /\ h \in Thread /\ live \in Chain /\ Work[live.tip] <= Work[committed.tip]
  BY DEF Inv, TypeOK, MemoryNotAhead, Thread
<1>1. ASSUME NEW x \in Tx, TakeTx(h, x) PROVE Inv'
  <2>1. With(live, {x}) \in Chain /\ With(live, {x}).tip = live.tip
    BY <1>0, WithType
  <2> DEFINE t == [thr[h] EXCEPT !.at = "mark"]
  <2>2. t \in TaskType /\ TaskOk(t, committed)
    <3>1. t = Task("mark", None, None, None)
      BY <1>1 DEF TakeTx, Ready, Idle, Task
    <3> QED
      BY <3>1 DEF Task, TaskType, TaskOk
  <2> HIDE DEF t
  <2>3. thr' = [thr EXCEPT ![h] = t]
    BY <1>0, <1>1 DEF TakeTx, Goto, TypeOK, t
  <2>4. live' \in Chain /\ Work[live'.tip] <= Work[committed.tip]
    BY <1>0, <1>1, <2>1 DEF TakeTx
  <2> QED
    BY <1>0, <1>1, <2>2, <2>3, <2>4, Acts DEF TakeTx, TypeOK
<1>2. ASSUME NEW x \in Tx, SubmitTx(h, x) PROVE Inv'
  <2>1. With(live, {x}) \in Chain /\ With(live, {x}).tip = live.tip
    BY <1>0, WithType
  <2> DEFINE t == Task("commit", "tx", None, With(live, {x}))
  <2>2. t \in TaskType /\ TaskOk(t, committed)
    BY <2>1, CommitTask
  <2> HIDE DEF t
  <2>3. thr' = [thr EXCEPT ![h] = t]
    BY <1>2 DEF SubmitTx, Becomes, t
  <2>4. live' \in Chain /\ Work[live'.tip] <= Work[committed.tip]
    BY <1>0, <1>2, <2>1 DEF SubmitTx
  <2> QED
    BY <1>0, <1>2, <2>2, <2>3, <2>4, Acts DEF SubmitTx, TypeOK
<1>3. ASSUME NEW b \in Block, TakeBlock(h, b) PROVE Inv'
  <2>1. Onto(live, b, {}) \in Chain
    BY <1>0, OntoType
  <2> DEFINE t == Task("commit", "block", None, Onto(live, b, {}))
  <2>2. t \in TaskType /\ TaskOk(t, committed)
    BY <2>1, CommitTask
  <2> HIDE DEF t
  <2>3. thr' = [thr EXCEPT ![h] = t]
    BY <1>3 DEF TakeBlock, Becomes, t
  <2> QED
    BY <1>0, <1>3, <2>2, <2>3, ActsAside DEF TakeBlock, TypeOK
<1>4. ASSUME NEW b \in Block, TakeChain(h, b) PROVE Inv'
  <2>1. Onto(live, b, {}) \in Chain
    BY <1>0, OntoType
  <2> DEFINE t == Task("commit", "chain", live, Onto(live, b, {}))
  <2>2. t \in TaskType /\ TaskOk(t, committed)
    BY <1>0, <2>1, CommitTask
  <2> HIDE DEF t
  <2>3. thr' = [thr EXCEPT ![h] = t]
    BY <1>4 DEF TakeChain, Becomes, t
  <2> QED
    BY <1>0, <1>4, <2>2, <2>3, ActsAside DEF TakeChain, TypeOK
<1> QED
  BY <1>1, <1>2, <1>3, <1>4

LEMMA WriterArrives ==
  ASSUME Inv, inputs' \in 0..MaxInput, NEW w \in Writer,
         (\E x \in Tx : Pay(w, x) \/ FetchTx(w, x))
           \/ (\E t \in Block : Advance(w, t) \/ Reanchor(w, t))
  PROVE  Inv'
<1>0. TypeOK /\ w \in Thread /\ live \in Chain
  BY DEF Inv, TypeOK, Thread
<1>1. PICK c \in Chain, job \in {"copy", "anchor"} : Save(w, c, job)
  <2>1. ASSUME NEW x \in Tx, Pay(w, x) \/ FetchTx(w, x)
        PROVE  \E c \in Chain, job \in {"copy", "anchor"} : Save(w, c, job)
    <3>1. With(live, {x}) \in Chain
      BY <1>0, WithType
    <3> QED
      BY <2>1, <3>1 DEF Pay, FetchTx
  <2>2. ASSUME NEW t \in Block, Advance(w, t) \/ Reanchor(w, t)
        PROVE  \E c \in Chain, job \in {"copy", "anchor"} : Save(w, c, job)
    <3>1. Onto(live, t, {}) \in Chain
      BY <1>0, OntoType
    <3> QED
      BY <2>2, <3>1 DEF Advance, Reanchor
  <2> QED
    BY <2>1, <2>2
<1>2. /\ UNCHANGED <<committed, live, owner, storing, dirty, publication>>
      /\ outbox' \in SUBSET Own
  BY <1>0 DEF Pay, FetchTx, Advance, Reanchor, TypeOK, publication
<1> DEFINE t == Task("commit", job, None, c)
<1>3. t \in TaskType /\ TaskOk(t, committed)
  BY CommitTask
<1> HIDE DEF t
<1>4. thr' = [thr EXCEPT ![w] = t]
  BY <1>1 DEF Save, Becomes, t
<1> QED
  BY <1>0, <1>2, <1>3, <1>4, ActsAside DEF TypeOK

-----------------------------------------------------------------------------
(* Saves. *)

LEMMA CommitStep ==
  ASSUME Inv, inputs' \in 0..MaxInput, NEW p \in Thread, Commit(p)
  PROVE  Inv'
<1>0. TypeOK /\ thr[p] \in TaskType /\ thr[p].cand \in Chain
  BY TaskTypes DEF Inv, Commit, TaskOk
<1>1. /\ committed' = thr[p].cand
      /\ UNCHANGED <<live, owner, dirty, publication, outbox>>
      /\ storing' \in Thread \cup {None}
  BY <1>0 DEF Commit, TypeOK
<1>2. PICK a \in {"publish", "republish"} : thr' = [thr EXCEPT ![p].at = a]
  BY DEF Commit, Goto
<1>3. Work[committed.tip] <= Work[committed'.tip]
  BY <1>0, <1>1, AllowedWork DEF Commit
<1>4. ASSUME NEW c, Durable(c, committed) PROVE Durable(c, committed')
  <2>1. Work[c.tip] \in Nat /\ Work[committed.tip] \in Nat /\ Work[committed'.tip] \in Nat
    BY <1>0, <1>1, <1>4, WorkType DEF Durable, TypeOK
  <2> QED
    BY <1>3, <1>4, <2>1 DEF Durable
<1>5. [thr[p] EXCEPT !.at = a] \in TaskType
  BY <1>0 DEF TaskType
<1>6. TypeOK'
  BY <1>0, <1>1, <1>2, <1>5 DEF TypeOK, publication
<1>7. SaversInv'
  <2>1. Durable(committed', committed')
    BY <1>0, <1>1, WorkType DEF Durable
  <2>2. TaskOk(thr'[p], committed')
    BY <1>0, <1>1, <1>2, <2>1 DEF TaskOk, TypeOK, TaskType
  <2>3. ASSUME NEW q \in Thread, q # p PROVE TaskOk(thr'[q], committed')
    <3>1. thr'[q] = thr[q] /\ TaskOk(thr[q], committed)
      BY <1>0, <1>2, <2>3 DEF TypeOK, Inv, SaversInv
    <3> QED
      BY <1>4, <3>1 DEF TaskOk
  <2> QED
    BY <2>2, <2>3 DEF SaversInv
<1>8. QueueInv'
  BY <1>1, <1>4 DEF Inv, QueueInv, publication
<1>9. MemoryNotAhead'
  <2>1. Durable(live, committed)
    BY DEF Inv, TypeOK, MemoryNotAhead, Durable
  <2> QED
    BY <1>1, <1>4, <2>1 DEF MemoryNotAhead, Durable
<1> QED
  BY <1>6, <1>7, <1>8, <1>9 DEF Inv

LEMMA FailsStep ==
  ASSUME Inv, inputs' \in 0..MaxInput, NEW p \in Thread, Fails(p)
  PROVE  Inv'
<1>0. TypeOK
  BY DEF Inv
<1>1. thr' = [thr EXCEPT ![p] = Idle]
  BY DEF Fails, Becomes
<1>2. dirty' \in BOOLEAN
  BY <1>0 DEF Fails, TypeOK
<1>3. owner' \in Handler \cup {None}
  BY <1>0 DEF Fails, TypeOK
<1> QED
  BY <1>0, <1>1, <1>2, <1>3, IdleOk, ActsAside DEF Fails, TypeOK

(* The chain in memory after one of two chains it does not exceed. *)
LEMMA OneOfBoth ==
  ASSUME Inv, NEW d, Durable(d, committed), NEW c \in Chain, c.tip \in {live.tip, d.tip}
  PROVE  Durable(c, committed)
BY DEF Inv, MemoryNotAhead, Durable

LEMMA PublishStep ==
  ASSUME Inv, inputs' \in 0..MaxInput, NEW p \in Thread, Publish(p)
  PROVE  Inv'
<1> DEFINE d == thr[p].cand
<1>0. TypeOK /\ thr[p] \in TaskType /\ Durable(d, committed) /\ d \in Chain
  BY TaskTypes DEF Inv, Publish, TaskOk, Durable
<1> DEFINE t == Saved(p)
<1>1. t \in TaskType /\ TaskOk(t, committed)
  BY <1>0, IdleOk, TaskTypes DEF Saved, TaskOk, TaskType
<1> HIDE DEF t
<1>2. thr' = [thr EXCEPT ![p] = t]
  BY DEF Publish, Becomes, t
<1>3. storing' = None /\ UNCHANGED <<committed, owner, dirty, outbox>>
  BY DEF Publish
<1>4. CASE Free
  <2>1. Applied(live, d) \in Chain /\ Applied(live, d).tip \in {live.tip, d.tip}
    BY <1>0, AppliedType DEF TypeOK
  <2>2. live' = Applied(live, d) /\ UNCHANGED publication
    BY <1>4 DEF Publish
  <2>3. Durable(live', committed)
    BY <1>0, <2>1, <2>2, OneOfBoth
  <2> QED
    BY <1>0, <1>1, <1>2, <1>3, <2>2, <2>3, Acts DEF TypeOK, Durable
<1>5. CASE ~Free
  <2>1. /\ deferred' = Deferred(d) /\ UNCHANGED <<live, popped, rechecks>>
        /\ worker' = IF worker = "off" THEN "look" ELSE worker
    BY <1>5 DEF Publish
  <2>2. Durable(deferred', committed)
    <3>1. CASE deferred = None
      BY <1>0, <2>1, <3>1 DEF Deferred
    <3>2. CASE deferred # None
      <4>1. deferred \in Chain /\ Durable(deferred, committed)
        BY <1>0, <3>2 DEF TypeOK, Inv, QueueInv
      <4>2. Applied(deferred, d) \in Chain /\ Applied(deferred, d).tip \in {deferred.tip, d.tip}
        BY <1>0, <4>1, AppliedType
      <4> QED
        BY <1>0, <2>1, <3>2, <4>1, <4>2 DEF Deferred, Durable
    <3> QED
      BY <3>1, <3>2
  <2>3. TypeOK'
    <3>1. thr' \in [Thread -> TaskType]
      BY <1>0, <1>1, <1>2 DEF TypeOK
    <3>2. worker' \in {"off", "look", "apply", "leave"}
      BY <1>0, <2>1 DEF TypeOK
    <3> QED
      BY <1>0, <1>3, <2>1, <2>2, <3>1, <3>2 DEF TypeOK, Durable
  <2>4. SaversInv'
    BY <1>0, <1>1, <1>2, <1>3 DEF Inv, SaversInv, TypeOK
  <2>5. QueueInv' /\ MemoryNotAhead'
    BY <1>3, <2>1, <2>2 DEF Inv, QueueInv, MemoryNotAhead
  <2> QED
    BY <2>3, <2>4, <2>5 DEF Inv
<1> QED
  BY <1>4, <1>5

LEMMA RepublishStep ==
  ASSUME Inv, inputs' \in 0..MaxInput, NEW p \in Thread, Republish(p)
  PROVE  Inv'
<1> DEFINE d == thr[p].cand
<1>0. TypeOK /\ Durable(d, committed) /\ d \in Chain
  BY TaskTypes DEF Inv, Republish, TaskOk, Durable
<1>1. Reanchored(live, d) \in Chain /\ Reanchored(live, d).tip \in {live.tip, d.tip}
  BY <1>0, ReanchoredType DEF TypeOK
<1>2. Durable(live', committed)
  BY <1>0, <1>1, OneOfBoth DEF Republish
<1>3. thr' = [thr EXCEPT ![p] = Idle]
  BY DEF Republish, Becomes
<1> QED
  BY <1>0, <1>2, <1>3, IdleOk, Acts DEF Republish, TypeOK, Durable

LEMMA HandlerStep ==
  ASSUME Inv, inputs' \in 0..MaxInput, NEW h \in Handler,
         MarkDirty(h) \/ InstallBlock(h) \/ InstallChain(h) \/ Unlock(h)
  PROVE  Inv'
<1> DEFINE d == thr[h].cand
<1>0. TypeOK /\ h \in Thread /\ Durable(live, committed)
  BY DEF Inv, TypeOK, MemoryNotAhead, Thread, Durable
<1>1. thr' = [thr EXCEPT ![h] = Idle]
  BY DEF MarkDirty, InstallBlock, InstallChain, Unlock, Ends, Becomes
<1>2. CASE MarkDirty(h) \/ Unlock(h)
  <2>1. /\ owner' \in Handler \cup {None} /\ dirty' \in BOOLEAN
        /\ UNCHANGED <<committed, live, storing, publication, outbox>>
    BY <1>0, <1>2 DEF MarkDirty, Unlock, TypeOK
  <2> QED
    BY <1>0, <1>1, <2>1, IdleOk, ActsAside DEF TypeOK
<1>3. CASE InstallBlock(h)
  <2>1. Durable(d, committed)
    BY <1>0, <1>3, TaskTypes DEF InstallBlock, Ends, TaskOk
  <2>2. /\ live' = d /\ owner' = None /\ dirty' \in BOOLEAN
        /\ UNCHANGED <<committed, storing, publication, outbox>>
    BY <1>0, <1>3 DEF InstallBlock, TypeOK
  <2> QED
    BY <1>0, <1>1, <2>1, <2>2, IdleOk, Acts DEF TypeOK, Durable
<1>4. CASE InstallChain(h)
  <2>1. Durable(d, committed)
    BY <1>0, <1>4, TaskTypes DEF InstallChain, Ends, TaskOk
  <2>2. d.tip \in Block /\ live \in Chain
    BY <1>0, <2>1, WorkType DEF Durable
  <2>3. Onto(live, d.tip, {}) \in Chain /\ Onto(live, d.tip, {}).tip = d.tip
    BY <2>2, OntoType
  <2>4. live' \in {d, live, Onto(live, d.tip, {})} /\ dirty' \in BOOLEAN
    BY <1>0, <1>4 DEF InstallChain, TypeOK
  <2>5. Durable(live', committed)
    BY <1>0, <2>1, <2>3, <2>4 DEF Durable
  <2>6. UNCHANGED <<committed, owner, storing, publication, outbox>>
    BY <1>4 DEF InstallChain
  <2> QED
    BY <1>0, <1>1, <2>4, <2>5, <2>6, IdleOk, Acts DEF TypeOK, Durable
<1> QED
  BY <1>2, <1>3, <1>4

-----------------------------------------------------------------------------
(* The loop of run_node. *)

LEMMA LoopStep ==
  ASSUME Inv, inputs' \in 0..MaxInput, LoadCommitted \/ Merge \/ TakeDirty \/ TakeSnapshot \/ Persisted
  PROVE  Inv'
<1>0. TypeOK /\ Main \in Thread /\ committed \in Chain /\ live \in Chain
  BY DEF Inv, TypeOK, Thread
<1>1. CASE LoadCommitted
  <2> DEFINE t == Task("merge", None, committed, None)
  <2>1. t \in TaskType /\ TaskOk(t, committed)
    BY <1>0, WorkType DEF Task, TaskType, TaskOk, Durable
  <2> HIDE DEF t
  <2>2. thr' = [thr EXCEPT ![Main] = t]
    BY <1>1 DEF LoadCommitted, Becomes, t
  <2> QED
    BY <1>0, <1>1, <2>1, <2>2, ActsAside DEF LoadCommitted, TypeOK
<1>2. CASE Merge
  <2> DEFINE d == thr[Main].base
  <2>1. Durable(d, committed) /\ d \in Chain
    BY <1>0, <1>2, TaskTypes DEF Merge, TaskOk, Durable
  <2>2. Merged(live, d) \in Chain /\ Merged(live, d).tip \in {live.tip, d.tip}
    BY <1>0, <2>1, MergedType
  <2>3. Durable(live', committed)
    BY <1>2, <2>1, <2>2, OneOfBoth DEF Merge
  <2>4. thr' = [thr EXCEPT ![Main] = Idle] /\ dirty' \in BOOLEAN
    BY <1>0, <1>2 DEF Merge, Becomes, TypeOK
  <2> QED
    BY <1>0, <1>2, <2>3, <2>4, IdleOk, Acts DEF Merge, TypeOK, Durable
<1>3. CASE TakeDirty
  <2> DEFINE t == [thr[Main] EXCEPT !.at = "snapshot"]
  <2>1. t \in TaskType /\ TaskOk(t, committed)
    <3>1. t \in TaskType /\ t.at = "snapshot"
      BY <1>0, TaskTypes, ZenonT(60) DEF TaskType
    <3> QED
      BY <3>1 DEF TaskOk
  <2> HIDE DEF t
  <2>2. thr' = [thr EXCEPT ![Main] = t]
    BY <1>0, <1>3 DEF TakeDirty, Goto, TypeOK, t
  <2> QED
    BY <1>0, <1>3, <2>1, <2>2, ActsAside DEF TakeDirty, TypeOK
<1>4. CASE TakeSnapshot
  <2>1. PICK t \in TaskType : TaskOk(t, committed) /\ thr' = [thr EXCEPT ![Main] = t]
    <3>1. Task("commit", "persist", None, live) \in TaskType
          /\ TaskOk(Task("commit", "persist", None, live), committed)
      BY <1>0, CommitTask
    <3> QED
      BY <1>4, <3>1, IdleOk DEF TakeSnapshot, Becomes
  <2>2. dirty' \in BOOLEAN
    BY <1>0, <1>4 DEF TakeSnapshot, TypeOK
  <2> QED
    BY <1>0, <1>4, <2>1, <2>2, ActsAside DEF TakeSnapshot, TypeOK
<1>5. CASE Persisted
  <2>1. thr' = [thr EXCEPT ![Main] = Idle]
    BY <1>5 DEF Persisted, Ends, Becomes
  <2>2. dirty' \in BOOLEAN
    BY <1>0, <1>5 DEF Persisted, TypeOK
  <2> QED
    BY <1>0, <1>5, <2>1, <2>2, IdleOk, ActsAside DEF Persisted, TypeOK
<1> QED
  BY <1>1, <1>2, <1>3, <1>4, <1>5

LEMMA HeartbeatStep ==
  ASSUME Inv, inputs' \in 0..MaxInput, Heartbeat
  PROVE  Inv'
<1>0. TypeOK /\ live \in Chain /\ Work[live.tip] <= Work[committed.tip]
  BY DEF Inv, TypeOK, MemoryNotAhead
<1>1. outbox \in SUBSET Tx
  BY <1>0, ChainAssumption DEF TypeOK
<1>2. With(live, outbox) \in Chain /\ With(live, outbox).tip = live.tip
  BY <1>0, <1>1, WithType
<1>3. live' \in Chain /\ live'.tip = live.tip
  BY <1>2 DEF Heartbeat
<1>4. dirty' \in BOOLEAN /\ outbox' \subseteq Own
  BY <1>0 DEF Heartbeat, TypeOK
<1>5. UNCHANGED <<committed, owner, storing, thr, publication>>
  BY DEF Heartbeat
<1>6. TypeOK'
  BY <1>0, <1>3, <1>4, <1>5 DEF TypeOK, publication
<1>7. SaversInv' /\ QueueInv' /\ MemoryNotAhead'
  BY <1>0, <1>3, <1>5 DEF Inv, SaversInv, QueueInv, MemoryNotAhead, publication
<1> QED
  BY <1>6, <1>7 DEF Inv

-----------------------------------------------------------------------------
LEMMA WorkerStep ==
  ASSUME Inv, inputs' \in 0..MaxInput, Look \/ Apply \/ Leave \/ Recheck
  PROVE  Inv'
<1>0. TypeOK /\ Durable(live, committed)
  BY DEF Inv, TypeOK, MemoryNotAhead, Durable
<1>1. UNCHANGED <<committed, owner, storing, thr, dirty, outbox>>
  BY DEF Look, Apply, Leave, Recheck
<1>2. QueueInv' /\ Durable(live', committed) /\ deferred' \in Chain \cup {None} /\ popped' \in Chain \cup {None}
  <2>1. CASE Look
    BY <1>0, <1>1, <2>1 DEF Look, Inv, QueueInv, TypeOK
  <2>2. CASE Apply
    <3>1. Durable(popped, committed) /\ popped \in Chain
      BY <2>2 DEF Apply, Inv, QueueInv, Durable
    <3>2. Applied(live, popped) \in Chain /\ Applied(live, popped).tip \in {live.tip, popped.tip}
      BY <1>0, <3>1, AppliedType DEF TypeOK
    <3>3. Durable(live', committed)
      BY <2>2, <3>1, <3>2, OneOfBoth DEF Apply
    <3> QED
      BY <1>0, <1>1, <2>2, <3>3 DEF Apply, Inv, QueueInv, TypeOK
  <2>3. CASE Leave \/ Recheck
    BY <1>0, <1>1, <2>3 DEF Leave, Recheck, Inv, QueueInv, TypeOK
  <2> QED
    BY <2>1, <2>2, <2>3
<1>3. worker' \in {"off", "look", "apply", "leave"} /\ rechecks' \in BOOLEAN
  BY <1>0 DEF Look, Apply, Leave, Recheck, TypeOK
<1>4. TypeOK'
  BY <1>0, <1>1, <1>2, <1>3 DEF TypeOK, Durable
<1>5. SaversInv' /\ MemoryNotAhead'
  BY <1>1, <1>2 DEF Inv, SaversInv, MemoryNotAhead, Durable
<1> QED
  BY <1>2, <1>4, <1>5 DEF Inv

LEMMA OtherStep ==
  ASSUME Inv, inputs' \in 0..MaxInput, NEW t \in Block, NEW m \in SUBSET Tx, OtherProcess(t, m)
  PROVE  Inv'
<1> DEFINE c == [tip |-> t, mem |-> m]
<1>0. TypeOK /\ c \in Chain
  BY DEF Inv, Chain
<1>1. Work[committed.tip] <= Work[t]
  BY <1>0, AllowedWork DEF OtherProcess
<1>2. committed' \in Chain /\ committed'.tip = t
  BY DEF OtherProcess, Chain
<1>3. UNCHANGED <<live, owner, storing, thr, dirty, publication, outbox>>
  BY DEF OtherProcess
<1>4. ASSUME NEW d, Durable(d, committed) PROVE Durable(d, committed')
  <2>1. Work[d.tip] \in Nat /\ Work[committed.tip] \in Nat /\ Work[t] \in Nat
    BY <1>0, <1>4, WorkType, ChainAssumption DEF Durable, TypeOK
  <2> QED
    BY <1>1, <1>2, <1>4, <2>1 DEF Durable
<1>5. TypeOK'
  BY <1>0, <1>2, <1>3 DEF TypeOK, publication
<1>6. SaversInv' /\ QueueInv'
  BY <1>3, <1>4 DEF Inv, SaversInv, QueueInv, TaskOk, publication
<1>7. MemoryNotAhead'
  <2>1. Durable(live, committed)
    BY DEF Inv, TypeOK, MemoryNotAhead, Durable
  <2> QED
    BY <1>3, <1>4, <2>1 DEF MemoryNotAhead, Durable
<1> QED
  BY <1>5, <1>6, <1>7 DEF Inv

LEMMA CrashStep ==
  ASSUME Inv, inputs' \in 0..MaxInput, Crash
  PROVE  Inv'
<1>0. TypeOK /\ Work[committed.tip] \in Nat
  BY WorkType DEF Inv, TypeOK
<1>1. TypeOK'
  BY <1>0, IdleOk DEF Crash, TypeOK
<1>2. SaversInv'
  BY IdleOk DEF Crash, SaversInv
<1>3. QueueInv' /\ MemoryNotAhead'
  BY <1>0 DEF Crash, QueueInv, MemoryNotAhead
<1> QED
  BY <1>1, <1>2, <1>3 DEF Inv

LEMMA InvNext == Inv /\ [Next]_vars => Inv'
<1> SUFFICES ASSUME Inv, [Next]_vars PROVE Inv'
  OBVIOUS
<1>0. inputs \in 0..MaxInput /\ MaxInput \in Nat
  BY ThreadAssumption DEF Inv, TypeOK
<1>1. CASE UNCHANGED vars
  BY <1>1 DEF vars, publication, Inv, TypeOK, MemoryNotAhead, SaversInv, QueueInv
<1>2. CASE Input
  <2>1. inputs' \in 0..MaxInput /\ Arrives
    BY <1>0, <1>2 DEF Input
  <2> QED
    BY <2>1, HandlerArrives, WriterArrives, FailsStep, OtherStep, CrashStep DEF Arrives, WriteError
<1>3. ASSUME NEW p \in Thread, Proceed(p) PROVE Inv'
  <2>1. inputs' \in 0..MaxInput
    BY <1>0, <1>3 DEF Proceed
  <2> QED
    BY <1>3, <2>1, CommitStep, FailsStep, PublishStep, RepublishStep, HandlerStep, LoopStep
       DEF Proceed, Refused
<1>4. CASE CheckCommitted \/ KeepWallet \/ StartPersist
  <2>1. inputs' \in 0..MaxInput
    BY <1>0, <1>4 DEF CheckCommitted, KeepWallet, StartPersist
  <2> QED
    BY <1>4, <2>1, LoopStep, HeartbeatStep DEF CheckCommitted, KeepWallet, StartPersist
<1>5. CASE Worker
  BY <1>0, <1>5, WorkerStep DEF Worker
<1> QED
  BY <1>1, <1>2, <1>3, <1>4, <1>5 DEF Next

LEMMA Invariance == Spec => []Inv
BY InitInv, InvNext, PTL DEF Spec

(* The chains, the queue and every thread's task always have their type;   *)
(* in particular only handlers keep the chain's mutex across steps.        *)
THEOREM LiveTypeCorrect == Spec => []TypeOK
<1>1. Inv => TypeOK
  BY DEF Inv
<1> QED
  BY <1>1, Invariance, PTL

(* Memory is never ahead of durable storage, for any number of threads and *)
(* any chains: connect_block_persist_atomic, the adoption of a peer chain, *)
(* the worker and the loop put nothing into it that was not committed.     *)
THEOREM DiskFirst == Spec => []MemoryNotAhead
<1>1. Inv => MemoryNotAhead
  BY DEF Inv
<1> QED
  BY <1>1, Invariance, PTL
=============================================================================

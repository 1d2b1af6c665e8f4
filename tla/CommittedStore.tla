--------------------------- MODULE CommittedStore ---------------------------
(***************************************************************************)
(* What the Fast Chain Engine promises its callers, with no files in it:   *)
(* one durable snapshot of the canonical chain, absent until the engine is *)
(* initialised, that is only ever replaced by a snapshot that is not       *)
(* behind it.  FastStorage implements this register with journals, state   *)
(* files and two pointer files.                                            *)
(***************************************************************************)
EXTENDS Naturals

CONSTANTS
  Tip,       \* tip hashes; a hash-linked chain is identified with its tip
  Mempool,   \* contents of the mempool that is persisted with a chain
  Height,    \* Height[t] : the height of the chain ending in t
  Work,      \* Work[t]   : its cumulative work
  None       \* the engine has never been initialised

VARIABLE store

Snapshot == [tip : Tip, mem : Mempool]

StoreTypeOK == store \in Snapshot \cup {None}

(* The order a commit has to respect: more work, or as much work and no    *)
(* less height.                                                            *)
NotBehind(t, u) ==
  \/ Work[t] > Work[u]
  \/ Work[t] = Work[u] /\ Height[t] >= Height[u]

StoreInit == store = None

Initialise(s) == store = None /\ store' = s

Replace(s) ==
  /\ store # None
  /\ NotBehind(s.tip, store.tip)
  /\ store' = s

StoreNext == \E s \in Snapshot : Initialise(s) \/ Replace(s)

StoreSpec == StoreInit /\ [][StoreNext]_store
=============================================================================

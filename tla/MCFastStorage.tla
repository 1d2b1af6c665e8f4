--------------------------- MODULE MCFastStorage ---------------------------
(***************************************************************************)
(* One data directory: the writer of its files on a small block tree,      *)
(*                                                                         *)
(*     g --- a1                 a1 and b1 have the same work               *)
(*       \-- b1 --- b2                                                     *)
(*                                                                         *)
(* and the programs that contend for its lock file, each of which may      *)
(* crash.  The two models share no state, so that a behaviour is one of    *)
(* one of them, as `part' says.                                            *)
(***************************************************************************)
EXTENDS FastStorage, WriterLease, TLC

CONSTANTS g, a1, b1, b2

VARIABLE part

bothVars == <<part, vars, leaseVars>>

MCTip == {g, a1, b1, b2}
MCParent == (a1 :> g) @@ (b1 :> g) @@ (b2 :> b1)
MCWork == (g :> 1) @@ (a1 :> 2) @@ (b1 :> 2) @@ (b2 :> 3)

Branch[t \in MCTip] == IF t = g THEN <<g>> ELSE Append(Branch[MCParent[t]], t)
MCHeight == [t \in MCTip |-> Len(Branch[t]) - 1]
MCBlockAt == [t \in MCTip |-> [h \in 0..MCHeight[t] |-> Branch[t][h + 1]]]

BothInit == part = "writer" /\ Init /\ LeaseInit

(* The programs have a behaviour of their own, with the writer at rest on  *)
(* a directory that is still empty.                                        *)
TurnToPrograms ==
  /\ pc = "idle" /\ states = <<>> /\ journal = <<>> /\ legacy = [tip |-> g, mem |-> "m1"]
  /\ part' = "programs"
  /\ UNCHANGED <<vars, leaseVars>>

BothNext ==
  \/ part = "writer" /\ Next /\ UNCHANGED <<part, leaseVars>>
  \/ part = "writer" /\ TurnToPrograms
  \/ part = "programs" /\ LeaseNext /\ UNCHANGED <<part, vars>>

(* The writer's fairness asks nothing of one at rest; the programs are     *)
(* only scheduled in their part.                                           *)
BothSpec ==
  /\ BothInit /\ [][BothNext]_bothVars
  /\ Fairness
  /\ WF_leaseVars(part = "programs" /\ Age)
  /\ \A p \in Proc : WF_leaseVars(part = "programs" /\ ProcStep(p))
=============================================================================

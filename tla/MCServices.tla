------------------------------ MODULE MCServices ------------------------------
(***************************************************************************)
(* One instance of each service around the chain, and the storage engine   *)
(* on a disk that fails.  They share no state in these models, so that a   *)
(* behaviour is one of one service, and `service' says of which.  The      *)
(* storage has this block tree:                                            *)
(*                                                                         *)
(*     g --- a1                 a1 and b1 have the same work               *)
(*       \-- b1 --- b2                                                     *)
(***************************************************************************)
EXTENDS Outbox, MiningJobs, MinerRounds, Difficulty, PeerSessions, FastStorageFaults

CONSTANTS g, a1, b1, b2

VARIABLE service

serviceVars == <<outboxVars, jobsVars, roundsVars, headers, sessionsVars>>
allVars == <<service, serviceVars, fvars>>

MCTip == {g, a1, b1, b2}
MCHeight == (g :> 0) @@ (a1 :> 1) @@ (b1 :> 1) @@ (b2 :> 2)
MCWork == (g :> 1) @@ (a1 :> 2) @@ (b1 :> 2) @@ (b2 :> 3)
MCBlockAt ==
  (g :> (0 :> g)) @@ (a1 :> (0 :> g @@ 1 :> a1)) @@ (b1 :> (0 :> g @@ 1 :> b1))
    @@ (b2 :> (0 :> g @@ 1 :> b1 @@ 2 :> b2))

\* One graphics device, with extra nonces the threads never reach.
MCGpus == {0}
MCGpuLane == [d \in MCGpus |-> 10 * (d + 1)]

MCPowBits == <<4, 25>>

AllInit ==
    /\ service \in {"outbox", "jobs", "rounds", "difficulty", "sessions", "storage"}
    /\ OutboxInit /\ JobsInit /\ RoundsInit /\ DifficultyInit /\ SessionsInit /\ FInit
    /\ service = "storage" \/ legacy = Missing   \* else each behaviour would be there five times

AllNext ==
    \/ /\ service = "outbox" /\ OutboxNext
       /\ UNCHANGED <<service, jobsVars, roundsVars, headers, sessionsVars, fvars>>
    \/ /\ service = "jobs" /\ JobsNext
       /\ UNCHANGED <<service, outboxVars, roundsVars, headers, sessionsVars, fvars>>
    \/ /\ service = "rounds" /\ RoundsNext
       /\ UNCHANGED <<service, outboxVars, jobsVars, headers, sessionsVars, fvars>>
    \/ /\ service = "difficulty" /\ ConnectHeader
       /\ UNCHANGED <<service, outboxVars, jobsVars, roundsVars, sessionsVars, fvars>>
    \/ /\ service = "sessions" /\ SessionsNext
       /\ UNCHANGED <<service, outboxVars, jobsVars, roundsVars, headers, fvars>>
    \/ service = "storage" /\ FNext /\ UNCHANGED <<service, serviceVars>>

AllSpec == AllInit /\ [][AllNext]_allVars

===============================================================================

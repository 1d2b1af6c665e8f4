----------------------------- MODULE PeerSessions -----------------------------
(***************************************************************************)
(* The connections of a node (HF125): the acceptor with its cap and the    *)
(* reserve above it for sessions that only deliver a block, the dialler,   *)
(* and a session's life, from its entry in the set of active peers to the  *)
(* last read.  One thread accepts, one dials, every session has its own.   *)
(***************************************************************************)
EXTENDS Integers, FiniteSets

CONSTANTS Peers,             \* normalised addresses
          Connections,       \* sockets, used again and again
          NormalLimit,       \* p2p.max_inbound_peers
          Reserve,           \* HF125_PRIORITY_INBOUND_RESERVE
          MaxMessages,       \* HF125_PRIORITY_MAX_MESSAGES
          MaxSubmissions,    \* HF125_PRIORITY_MAX_SUBMISSIONS
          Patience,          \* read timeouts within the 30 seconds of the reserve
          MaxPeerErrors      \* p2p.max_peer_errors

ASSUME SessionsAssumption ==
    /\ {NormalLimit, Reserve, MaxMessages, MaxSubmissions, Patience, MaxPeerErrors} \subseteq Nat
    /\ MaxPeerErrors > 0
    /\ IsFiniteSet(Connections)

VARIABLES inbound,     \* inbound_count
          active,      \* the set of active peers
          session      \* what runs on every socket

sessionsVars == <<inbound, active, session>>

Closed == [at |-> "closed", peer |-> {}, dialled |-> FALSE, priority |-> FALSE,
           verified |-> FALSE, messages |-> 0, submissions |-> 0, waited |-> 0, errors |-> 0]

SessionsInit ==
    /\ inbound = 0 /\ active = {}
    /\ session = [c \in Connections |-> Closed]

Opened(c, p, dialled, priority) ==
    session' = [session EXCEPT ![c] =
        [Closed EXCEPT !.at = "enters", !.peer = {p}, !.dialled = dialled,
                       !.priority = priority, !.verified = ~priority]]

\* The acceptor: a socket beyond the cap and the reserve is dropped; one beyond
\* the cap may only deliver blocks.
AcceptPeer(c, p) ==
    /\ session[c].at = "closed"
    /\ inbound < NormalLimit + Reserve
    /\ inbound' = inbound + 1
    /\ Opened(c, p, FALSE, inbound >= NormalLimit)
    /\ UNCHANGED active

\* The dialler: a peer that is not active when it is looked at.
DialPeer(c, p) ==
    /\ session[c].at = "closed"
    /\ p \notin active
    /\ Opened(c, p, TRUE, FALSE)
    /\ UNCHANGED <<inbound, active>>

\* handle_peer begins.
Enters(c) ==
    /\ session[c].at = "enters" /\ session[c].peer \cap active = {}
    /\ session' = [session EXCEPT ![c].at = "reads"]
    /\ active' = active \cup session[c].peer
    /\ UNCHANGED inbound

\* A refused session that goes through the way out of the others.
TurnsBackThroughExit(c) ==
    /\ session[c].at = "enters"
    /\ session' = [session EXCEPT ![c].at = "leaves"]
    /\ UNCHANGED <<inbound, active>>

\* The second session of a peer ends at once, and leaves the set as it is; so
\* does one whose socket takes no timeouts.
TurnsBack(c) ==
    /\ session[c].at = "enters"
    /\ session' = [session EXCEPT ![c].at = "ends"]
    /\ UNCHANGED <<inbound, active>>

\* A session of the reserve counts what it reads, wants the Version of a
\* block-submit client first, and counts submissions.
WithinBudget(s, kind) ==
    /\ s.messages < MaxMessages
    /\ s.verified \/ kind = "version"
    /\ kind = "submit" => s.submissions < MaxSubmissions

Counted(s, kind) ==
    IF ~s.priority THEN s
    ELSE [s EXCEPT !.messages = @ + 1, !.verified = TRUE,
                   !.submissions = IF kind = "submit" THEN @ + 1 ELSE @]

\* One message: over the budget the session breaks off; a message that cannot
\* be processed is an error of the peer; sending to it may fail.
ReadMessage(c, kind) ==
    LET s == session[c]
    IN  /\ s.at = "reads"
        /\ \/ /\ s.priority => WithinBudget(s, kind)
              /\ session' = [session EXCEPT ![c] = Counted(s, kind)]
           \/ /\ s.priority => WithinBudget(s, kind)
              /\ session' = [session EXCEPT ![c] =
                    [Counted(s, kind) EXCEPT !.errors = @ + 1,
                        !.at = IF s.errors + 1 >= MaxPeerErrors THEN "leaves" ELSE @]]
           \/ session' = [session EXCEPT ![c].at = "leaves"]
        /\ UNCHANGED <<inbound, active>>

\* Three seconds without a message: a session of the reserve has a deadline;
\* every session sends its heartbeat now and then, which may fail.
ReadTimeout(c) ==
    LET s == session[c]
    IN  /\ s.at = "reads"
        /\ \/ /\ s.priority /\ s.waited < Patience
              /\ session' = [session EXCEPT ![c].waited = @ + 1]
           \/ session' = [session EXCEPT ![c].at = "leaves"]
        /\ UNCHANGED <<inbound, active>>

\* handle_peer ends: the peer is not active any more.
LeavePeer(c) ==
    /\ session[c].at = "leaves"
    /\ active' = active \ session[c].peer
    /\ session' = [session EXCEPT ![c].at = "ends"]
    /\ UNCHANGED inbound

\* The session's thread ends.
EndPeer(c) ==
    /\ session[c].at = "ends"
    /\ inbound' = IF session[c].dialled THEN inbound ELSE inbound - 1
    /\ session' = [session EXCEPT ![c] = Closed]
    /\ UNCHANGED active

SessionsNext ==
    \E c \in Connections :
        \/ \E p \in Peers : AcceptPeer(c, p) \/ DialPeer(c, p)
        \/ Enters(c) \/ TurnsBack(c) \/ ReadTimeout(c) \/ LeavePeer(c) \/ EndPeer(c)
        \/ \E kind \in {"version", "submit", "other"} : ReadMessage(c, kind)

SessionsSpec == SessionsInit /\ [][SessionsNext]_sessionsVars

\* The sessions keep their books.  The count is that of the accepted sockets,
\* so that the cap never closes for good; ordinary sessions never take the
\* reserve, whatever comes and goes while it is in use (p2p.rs run_node: "a valid
\* found block could never reach a seed"); a session of the reserve is
\* short-lived: it has read at most MaxMessages times and waited at most for
\* Patience timeouts, and reads nothing before the Version it is there for.
\* And a peer is active exactly while one session of it, and only one, runs.
Running(c) == session[c].at \in {"reads", "leaves"}

LanesHonoured ==
    /\ inbound = Cardinality({c \in Connections :
                                 session[c].at # "closed" /\ ~session[c].dialled})
    /\ inbound <= NormalLimit + Reserve
    /\ Cardinality({c \in Connections : /\ session[c].at # "closed"
                                        /\ ~session[c].dialled /\ ~session[c].priority})
          <= NormalLimit
    /\ \A c \in Connections : session[c].priority =>
          /\ session[c].messages <= MaxMessages /\ session[c].waited <= Patience
          /\ session[c].submissions <= MaxSubmissions
          /\ session[c].messages > 0 => session[c].verified
    /\ active = UNION {session[c].peer : c \in {d \in Connections : Running(d)}}
    /\ \A c, d \in Connections : Running(c) /\ Running(d) /\ session[c].peer = session[d].peer
                                    => c = d

=============================================================================

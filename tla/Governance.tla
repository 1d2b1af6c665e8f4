------------------------------ MODULE Governance ------------------------------
(***************************************************************************)
(* Verified governance (the verified_governance functions of               *)
(* src/src/lib.rs): wallets and pools apply for verification, anyone       *)
(* reports, candidates become moderators when two voters with enough power *)
(* support them, and active moderators decide reports. Every action locks  *)
(* JIN of the address that signs it; the JIN ledger is what is left.       *)
(***************************************************************************)
EXTENDS Sale

CONSTANT Gov  \* the governance settings, a record

ASSUME GovernanceAssumption ==
  /\ Gov.active \in Nat \ {0} /\ Gov.marker \in Nat \ {0}
  /\ {Gov.wallet_bond, Gov.pool_bond, Gov.report_bond, Gov.moderator_bond} \subseteq Nat
  /\ Gov.min_lock \in Nat /\ Gov.appeal \in Nat
  /\ Gov.max_reports \in Nat /\ Gov.max_slash \in Nat

\* good: the avatar, evidence or statement the marker refers to is well formed
WalletApply(address, bond, until, good) ==
  [k |-> "gov_wallet", by |-> address, target |-> address, bond |-> bond, until |-> until, good |-> good]
PoolApply(pool, owner, bond, until, good) ==
  [k |-> "gov_pool", by |-> owner, target |-> pool, bond |-> bond, until |-> until, good |-> good]
Report(reporter, target, bond, good) ==
  [k |-> "gov_report", by |-> reporter, target |-> target, bond |-> bond, until |-> 0, good |-> good]
ModeratorApply(candidate, bond, until, good) ==
  [k |-> "gov_moderator", by |-> candidate, target |-> candidate, bond |-> bond, until |-> until, good |-> good]
Vote(voter, topic, target, yes, units, conviction, until) ==
  [k |-> "gov_vote", by |-> voter, topic |-> topic, target |-> target, yes |-> yes, bond |-> units,
   conviction |-> conviction, until |-> until, good |-> TRUE]
Decision(moderator, report, decision, slash) ==
  [k |-> "gov_decision", by |-> moderator, target |-> report, decision |-> decision,
   slash |-> slash, good |-> TRUE]
GovKinds == {"gov_wallet", "gov_pool", "gov_report", "gov_moderator", "gov_vote", "gov_decision"}
GovMarkers(tx) == Markers(tx, GovKinds)

NoGovernance == [wallets |-> <<>>, pools |-> <<>>, moderators |-> <<>>, reports |-> <<>>,
                 votes |-> {}, locks |-> <<>>, slashes |-> <<>>]

Conviction == <<1, 2, 3, 4, 6>>  \* conviction_multiplier, of 0..4
Power(k) == k.bond * (IF k.conviction \in 0..4 THEN Conviction[k.conviction + 1] ELSE 1)

\* verified_governance_refresh_moderators, after every vote
Standing(m, h) ==
  IF m.until <= h /\ m.status # "revoked" THEN [m EXCEPT !.status = "expired"]
  ELSE IF m.status = "pending" /\ m.until > h /\ m.voters >= 2 /\ m.power >= 2 * Gov.moderator_bond
  THEN [m EXCEPT !.status = "active", !.elected = h] ELSE m
RefreshModerators(G, h) ==
  LET Yes(c) == {v \in G.votes : v.topic = "moderator" /\ v.target = c /\ v.yes}
      Counted(m, yes) ==
        [m EXCEPT !.power = MapThenSumSet(LAMBDA v : v.power, yes), !.voters = Cardinality(yes)]
  IN [G EXCEPT !.moderators = [c \in DOMAIN @ |-> Standing(Counted(@[c], Yes(c)), h)]]

LockOf(k, h) ==
  [owner |-> k.by, units |-> k.bond,
   until |-> IF k.k = "gov_report" THEN h + Gov.appeal ELSE k.until]

\* What an accepted action records; the lock goes with it.
Enter(G0, k, rid, h) ==
  LET G == [G0 EXCEPT !.locks = Append(@, LockOf(k, h))]
      profile == [owner |-> k.by, status |-> "pending", bond |-> k.bond, until |-> k.until, review |-> h]
  IN CASE k.k = "gov_wallet" -> [G EXCEPT !.wallets = Set(@, k.target, profile)]
       [] k.k = "gov_pool" -> [G EXCEPT !.pools = Set(@, k.target, profile)]
       [] k.k = "gov_report" ->
            [G EXCEPT !.reports = Set(@, rid, [target |-> k.target, reporter |-> k.by,
                                               status |-> "open", opened |-> h, decided |-> 0])]
       [] k.k = "gov_moderator" ->
            [G EXCEPT !.moderators = Set(@, k.target, [status |-> "pending", bond |-> k.bond,
               until |-> k.until, elected |-> 0, power |-> 0, voters |-> 0])]
       [] k.k = "gov_vote" ->
            RefreshModerators([G EXCEPT !.votes = @ \cup
              {[topic |-> k.topic, target |-> k.target, voter |-> k.by,
                power |-> Power(k), yes |-> k.yes]}], h)
Decide(G, k, status, h) ==
  [G EXCEPT !.reports[k.target] = [@ EXCEPT !.status = status, !.decided = h],
            !.slashes = IF k.slash > 0 /\ status # "rejected" THEN Set(@, k.target, k.slash) ELSE @]

\* verified_governance_state_from_blocks: the markers again, unchecked; a
\* "reject" is replayed under its own name, and with the slash it may carry
ReplayGovMarker(G, k, rid, h) ==
  IF k.k = "gov_decision"
  THEN {IF k.target \in DOMAIN G.reports THEN Decide(G, k, k.decision, h) ELSE G}
  ELSE IF k.k \in {"gov_wallet", "gov_pool"} /\ ~k.good THEN {} ELSE {Enter(G, k, rid, h)}
ReplayGovOut(Gs, o, rid, h) ==
  IF o.s.k \notin GovKinds THEN Gs
  ELSE IF o.v # Gov.marker THEN {}
  ELSE UNION {ReplayGovMarker(G, o.s, rid, h) : G \in Gs}
ReplayGovTx(Gs, p) ==
  Folded(LAMBDA S, i : ReplayGovOut(S, p.tx.outs[i], <<p.tx.id, i>>, p.h), Gs, [i \in DOMAIN p.tx.outs |-> i])
GovernanceFrom(blocks) == Folded(ReplayGovTx, {NoGovernance}, Placed(blocks, Gov.active))

-----------------------------------------------------------------------------
(* The ledger others spend from. *)

\* verified_governance_active_locks_from_state
Locked(G, a, height) ==
  Folded(LAMBDA n, l : IF l.owner = a /\ l.until > height THEN n + l.units ELSE n, 0, G.locks)

\* apply_verified_governance_locks_to_jin_ledger and the end of
\* jin_ledger_from_blocks: a lock above the balance is an error
WithLocks(r, G, height) ==
  LET owners == {l.owner : l \in ToSet(G.locks)}
  IN IF \E a \in owners : Balance(r.m, a) < Locked(G, a, height) THEN [r EXCEPT !.ok = FALSE]
     ELSE [r EXCEPT !.m = [a \in DOMAIN @ \cup owners |-> Balance(@, a) - Locked(G, a, height)]]
LockedLedger(r, governed, height) ==
  IF ~r.ok \/ height < Jin.active \/ height < Gov.active THEN r
  ELSE IF governed = {} THEN [r EXCEPT !.ok = FALSE]
  ELSE WithLocks(r, CHOOSE G \in governed : TRUE, height)
JinLedgerFrom(blocks) == LockedLedger(JinReplay(blocks), GovernanceFrom(blocks), Len(blocks))

\* A ledger with the infusion state that is replayed on its own: what every
\* check against a chain starts from.
WithInfusion(ledger, infusion) ==
  IF infusion = {} THEN [ledger EXCEPT !.ok = FALSE]
  ELSE [ledger EXCEPT !.i = CHOOSE i \in infusion : TRUE]
JinStart(ledger, blocks) == WithInfusion(ledger, InfusionFrom(blocks))

-----------------------------------------------------------------------------
(* Validation. *)

\* Mutant: what an address locks is not compared with what it has.
LockAnyway(k, m, h) == k.bond > 0 /\ LockOf(k, h).until >= h + Gov.min_lock
\* require_verified_governance_lock
LockOK(k, m, h) ==
  /\ k.bond > 0
  /\ LockOf(k, h).until >= h + Gov.min_lock
  /\ Balance(m, k.by) >= k.bond
NotStanding(f, x) == x \in DOMAIN f => f[x].status \in {"revoked", "expired"}

\* validate_verified_governance_marker_with_state, the actions that lock: the
\* profiles, the report and the candidate, the vote
ProfileAllowed(G, k, prior) ==
  \/ k.k = "gov_wallet" /\ k.bond >= Gov.wallet_bond /\ NotStanding(G.wallets, k.target)
  \/ /\ k.k = "gov_pool"
     /\ \E pool \in EntryOf(PoolRegistryFrom(prior), k.target) : pool.mgr = k.by
     /\ k.bond >= Gov.pool_bond
     /\ NotStanding(G.pools, k.target)
ReportOrCandidateAllowed(G, k) ==
  \/ k.k = "gov_report" /\ Cardinality(DOMAIN G.reports) < Gov.max_reports /\ k.bond >= Gov.report_bond
  \/ k.k = "gov_moderator" /\ k.bond >= Gov.moderator_bond /\ NotStanding(G.moderators, k.target)
VoteAllowed(G, k) ==
  /\ k.k = "gov_vote"
  /\ k.topic = "moderator" => k.target \in DOMAIN G.moderators
  /\ k.conviction \in 0..4
  /\ ~\E v \in G.votes : v.topic = k.topic /\ v.target = k.target /\ v.voter = k.by
ActionAllowed(G, k, prior) ==
  ProfileAllowed(G, k, prior) \/ ReportOrCandidateAllowed(G, k) \/ VoteAllowed(G, k)

\* the same function, a moderator's decision
DecisionAllowed(G, k, h) ==
  /\ k.by \in DOMAIN G.moderators
  /\ G.moderators[k.by].status = "active" /\ G.moderators[k.by].until > h
  /\ k.slash <= Gov.max_slash
  /\ k.target \in DOMAIN G.reports
  /\ G.reports[k.target].status \in {"open", "under_review"}
  /\ k.decision \in {"reject", "warning", "minor", "major", "suspend", "revoke"}

\* validate_verified_governance_transaction_with_state: state and balances after
GovSigned(tx, ks, U, h) ==
  /\ h >= Gov.active
  /\ ~IsCoinbase(tx)
  /\ Len(ks) = 1
  /\ ks[1].v = Gov.marker
  /\ SpendsFrom(tx, U, ks[1].s.by)
GovTx(tx, G, m, U, prior, h) ==
  LET ks == GovMarkers(tx)
      k == ks[1].s
      index == CHOOSE i \in DOMAIN tx.outs : tx.outs[i] = ks[1]
      decided == IF k.decision = "reject" THEN "rejected" ELSE k.decision
  IN IF ks = <<>> THEN {[G |-> G, m |-> m]}
     ELSE IF ~GovSigned(tx, ks, U, h) THEN {}
     ELSE IF k.k = "gov_decision"
     THEN IF DecisionAllowed(G, k, h) THEN {[G |-> Decide(G, k, decided, h), m |-> m]} ELSE {}
     ELSE IF k.good /\ ActionAllowed(G, k, prior) /\ LockOK(k, m, h)
     THEN {[G |-> Enter(G, k, <<tx.id, index>>, h), m |-> Set(m, k.by, Balance(m, k.by) - k.bond)]}
     ELSE {}

\* validate_verified_governance_transaction_against_chain: the mempool is not looked at
GovAgainst(tx, c, ledger, h) ==
  GovMarkers(tx) # <<>> =>
    /\ ledger.ok
    /\ \E G \in GovernanceFrom(c.blocks) : GovTx(tx, G, ledger.m, c.utxos, c.blocks, h) # {}

\* validate_verified_governance_block: its own ledger sees the block's JIN
\* transfers, but neither its infusions nor the bootstrap
GovAfter(s, tx, r, prior, h) ==
  {[G |-> t.G, m |-> t.m, U |-> U] :
     t \in IF r.ok THEN GovTx(tx, s.G, r.m, s.U, prior, h) ELSE {}, U \in ConnectValid(tx, s.U, h)}
GovBlockOK(block, prior, U0, ledger, h) ==
  LET Before(m) == [ok |-> TRUE, m |-> m, i |-> NoInfusion, due |-> 0]
  IN (\E tx \in ToSet(block.txs) : GovMarkers(tx) # <<>>) =>
       /\ ledger.ok
       /\ Folded(LAMBDA S, tx :
                     UNION {GovAfter(s, tx, JinTx(Before(s.m), tx, s.U, h, MinerOf(block)), prior, h) : s \in S},
                   {[G |-> G, m |-> ledger.m, U |-> U0] : G \in GovernanceFrom(prior)},
                   block.txs) # {}
=============================================================================

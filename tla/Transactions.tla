---------------------------- MODULE Transactions ----------------------------
(***************************************************************************)
(* Transactions, coins and the rules every transaction obeys whatever it  *)
(* carries (src/src/lib.rs: validate_tx_stateless, validate_tx_contextual,*)
(* connect_tx_utxos, block_subsidy and the BLAST vault rules).            *)
(*                                                                         *)
(* A transaction is a record                                               *)
(*   id   - its txid                                                       *)
(*   ins  - the sequence of outpoints <<txid, vout>> it spends             *)
(*   outs - the sequence of outputs [v |-> atoms, s |-> script]            *)
(*   by   - the addresses whose keys signed it                             *)
(*   data - what its one special input carries: [k |-> "none"], a coinbase,*)
(*          a pool share or a BLAST claim                                  *)
(* A script is a record whose field k says how it is parsed: "addr" is     *)
(* P2PKH, every other k is a protocol marker (module of that protocol).    *)
(*                                                                         *)
(* The checks of the code that can fail return a SET of results: {} is     *)
(* bail!, {x} is Ok(x).                                                    *)
(***************************************************************************)
EXTENDS Lists

CONSTANT Consensus  \* the consensus settings, a record

\* Settings::validate, the consensus
ConsensusSettings ==
  /\ {Consensus.subsidy, Consensus.maturity, Consensus.max_money, Consensus.blast_active} \subseteq Nat
  /\ {Consensus.halving, Consensus.max_txs, Consensus.max_entries} \subseteq Nat \ {0}
ASSUME ConsensusAssumption == ConsensusSettings

NoData == [k |-> "none"]
PayTo(a) == [k |-> "addr", to |-> a]
Out(v, s) == [v |-> v, s |-> s]
ValueOf(outs) == Folded(LAMBDA n, o : n + o.v, 0, outs)
PaidTo(tx, a) == ValueOf(SelectSeq(tx.outs, LAMBDA o : o.s = PayTo(a)))

IsCoinbase(tx) == tx.data.k = "coinbase"
IsShare(tx) == tx.data.k = "share" /\ tx.outs = <<>>
IsClaim(tx) == Len(tx.ins) = 1 /\ tx.data.k = "claim"

\* The markers of one protocol a transaction carries, in output order.
Markers(tx, kinds) == SelectSeq(tx.outs, LAMBDA o : o.s.k \in kinds)

\* The confirmed transactions with their heights, from height first on.
Placed(blocks, first) ==
  LET At(h) == IF h < first THEN <<>>
               ELSE [i \in DOMAIN blocks[h].txs |-> [tx |-> blocks[h].txs[i], h |-> h]]
  IN Folded(LAMBDA ps, h : ps \o At(h), <<>>, [h \in DOMAIN blocks |-> h])

\* Some input spends a coin of address a: the authorisation rule of the
\* Library, of the pools, of JIN and of the governance.
SpendsFrom(tx, U, a) == \E p \in ToSet(tx.ins) : p \in DOMAIN U /\ U[p].s = PayTo(a)

Subsidy(h) == IF h = 0 THEN 0 ELSE
  LET halvings == (h - 1) \div Consensus.halving
  IN IF halvings >= 64 THEN 0
     ELSE Folded(LAMBDA v, i : v \div 2, Consensus.subsidy, [i \in 1..halvings |-> i])

Immature(coin, height) ==
  coin.cb /\ (IF height > coin.h THEN height - coin.h ELSE 0) < Consensus.maturity

\* validate_tx_stateless
StatelessOK(tx) ==
  \/ IsShare(tx)
  \/ IsCoinbase(tx) /\ tx.outs = <<>>
  \/ /\ IsList(tx.ins) /\ IsList(tx.outs)
     /\ tx.ins # <<>> \/ IsCoinbase(tx)
     /\ tx.outs # <<>>
     /\ IsCoinbase(tx) \/ Len(tx.outs) <= Consensus.max_entries + 4
     /\ IsInjective(tx.ins)
     /\ \A o \in ToSet(tx.outs) : o.v \in 1..Consensus.max_money
     /\ ValueOf(tx.outs) <= Consensus.max_money

\* connect_tx_utxos: the unspent outputs after tx, which removes what it spends
\* and must not create an outpoint twice.
Created(tx) == {<<tx.id, i>> : i \in DOMAIN tx.outs}
ConnectTx(tx, U, h) ==
  LET spent == IF IsCoinbase(tx) THEN {} ELSE ToSet(tx.ins)
      kept == DOMAIN U \ spent
  IN IF IsShare(tx) THEN {U}
     ELSE IF ~(spent \subseteq DOMAIN U) \/ Created(tx) \cap kept # {} THEN {}
     ELSE {[p \in kept \cup Created(tx) |->
              IF p \in kept THEN U[p]
              ELSE [v |-> tx.outs[p[2]].v, s |-> tx.outs[p[2]].s,
                    h |-> h, cb |-> IsCoinbase(tx)]]}

-----------------------------------------------------------------------------
(* BLAST vaults: an output anybody who knows a code claims share by share. *)

\* The hash of a campaign's code; nothing tells two codes' hashes together.
CodeHash(code) == <<"sha256", code>>

Vault(asset, mgr, hash, per, left) ==
  [k |-> "vault", asset |-> asset, mgr |-> mgr, hash |-> hash, per |-> per, left |-> left]

\* parse_blast_vault_script
IsVault(s) == s.k = "vault" /\ s.asset \in {"QUB", "JIN"} /\ s.per > 0 /\ s.left > 0

\* validate_blast_create_outputs; a claim's own remaining vault passes it too
BlastCreatesOK(tx, h) ==
  \A i \in DOMAIN tx.outs : IsVault(tx.outs[i].s) =>
    /\ h >= Consensus.blast_active
    /\ \A j \in DOMAIN tx.outs : IsVault(tx.outs[j].s) => j = i
    /\ tx.outs[i].s.left <= Consensus.max_entries
    /\ tx.outs[i].s.asset = "QUB" => tx.outs[i].v = tx.outs[i].s.per * tx.outs[i].s.left

\* validate_blast_claim_contextual: the claimer gets one share of a vault worth
\* value, and the rest stays a vault; the fee of a valid claim is zero
Claimed(tx, value, vault) ==
  /\ Len(tx.outs) \in {1, 2}
  /\ IsVault(vault)
  /\ vault.asset = "QUB"
  /\ CodeHash(tx.data.code) = vault.hash
  /\ value >= vault.per
  /\ tx.outs[1] = Out(vault.per, PayTo(tx.data.to))
  /\ IF value = vault.per \/ vault.left = 1 THEN Len(tx.outs) = 1
     ELSE Len(tx.outs) = 2 /\ tx.outs[2] = Out(value - vault.per, [vault EXCEPT !.left = @ - 1])
BlastClaimFee(tx, U, h) ==
  IF tx.ins[1] \in DOMAIN U /\ h >= Consensus.blast_active /\ Claimed(tx, U[tx.ins[1]].v, U[tx.ins[1]].s)
  THEN {0} ELSE {}

\* validate_tx_contextual: the fee, when the transaction may spend what it spends
MaySpend(tx, U, h) ==
  \A p \in ToSet(tx.ins) :
    /\ p \in DOMAIN U
    /\ ~Immature(U[p], h)
    /\ U[p].s.k = "addr" /\ U[p].s.to \in tx.by
ContextualFee(tx, U, h) ==
  IF ~StatelessOK(tx) THEN {}
  ELSE IF IsCoinbase(tx) \/ IsShare(tx) THEN {0}
  ELSE IF ~BlastCreatesOK(tx, h) THEN {}
  ELSE IF IsClaim(tx) THEN BlastClaimFee(tx, U, h)
  ELSE IF ~MaySpend(tx, U, h) THEN {}
  ELSE {fee \in {Folded(LAMBDA n, p : n + U[p].v, -ValueOf(tx.outs), tx.ins)} : fee >= 0}
\* The outputs after a transaction that is checked before it is connected.
ConnectValid(tx, U, h) == IF ContextualFee(tx, U, h) = {} THEN {} ELSE ConnectTx(tx, U, h)
=============================================================================

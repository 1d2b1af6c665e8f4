-------------------------------- MODULE Names --------------------------------
(***************************************************************************)
(* QNS, the name registry (the qns functions of src/src/lib.rs): a transaction *)
(* carries one marker that names an address, pays half the price to the    *)
(* protocol and the other half as block fee, and the first registration in *)
(* the chain owns the name. The registry is recomputed from the blocks.    *)
(***************************************************************************)
EXTENDS Transactions

CONSTANTS
  Qns,         \* the QNS settings, a record
  QnsLabel     \* raw name |-> [name |-> its normal form, len |-> label length];
               \* a name outside the domain does not normalise

\* Settings::validate, the name service
QnsSettings ==
  /\ {Qns.active, Qns.split, Qns.base, Qns.coefficient} \subseteq Nat
  /\ Qns.marker \in Nat \ {0} /\ Qns.max_label \in 1..64
ASSUME QnsAssumption ==
  /\ QnsSettings
  /\ \A raw \in DOMAIN QnsLabel : QnsLabel[raw].len \in 1..Qns.max_label

QnsMarker(raw, a) == [k |-> "qns", raw |-> raw, to |-> a]

\* qns_registrations_in_tx: parse_qns_marker_script normalises the name
Registrations(tx) ==
  SelectSeq(tx.outs, LAMBDA o : o.s.k = "qns" /\ o.s.raw \in DOMAIN QnsLabel)
\* Mutant: names are compared as they were typed.
NameAsTyped(o) == o.s.raw
NameOf(o) == QnsLabel[o.s.raw].name

QnsPrice(raw) ==
  LET weight == Qns.max_label - QnsLabel[raw].len + 1
  IN Qns.base + Qns.coefficient * weight * weight

\* Before the split height the whole price goes to the protocol.
QnsProtocolShare(h, price) == IF h >= Qns.split THEN price \div 2 ELSE price
QnsMinerShare(h, price) == price - QnsProtocolShare(h, price)

\* qns_miner_fee_required_in_tx
QnsMinerFee(tx, h) ==
  Folded(LAMBDA n, o : n + QnsMinerShare(h, QnsPrice(o.s.raw)), 0, Registrations(tx))

\* qns_registry_from_blocks: reserved names, then the first registration of
\* each other name; payment is not looked at again.
ReservedNames ==
  [n \in {Qns.protocol_name, Qns.pools_name} |->
     [to |-> IF n = Qns.protocol_name THEN Qns.protocol ELSE Qns.pools_protocol,
      h |-> 0, id |-> 0]]
Register(reg, name, owner) ==
  [n \in DOMAIN reg \cup {name} |-> IF n \in DOMAIN reg THEN reg[n] ELSE owner]
RegisterAll(reg, p) ==
  Folded(LAMBDA r, o : Register(r, NameOf(o), [to |-> o.s.to, h |-> p.h, id |-> p.tx.id]),
           reg, Registrations(p.tx))
RegistryFrom(blocks) == Folded(RegisterAll, ReservedNames, Placed(blocks, Qns.active))

\* validate_qns_transaction_with_registry: seen are the names of the block so far;
\* the result is the names after this transaction
QnsValidate(tx, h, reg, seen) ==
  LET regs == Registrations(tx)
      o == regs[1]
  IN IF regs = <<>> THEN {seen}
     ELSE {seen \cup {name} :
             name \in {n \in {NameOf(o)} :
               /\ h >= Qns.active
               /\ ~IsCoinbase(tx)
               /\ regs = <<o>>
               /\ o.v = Qns.marker
               /\ n \notin DOMAIN reg \cup seen
               /\ PaidTo(tx, Qns.protocol) >= QnsProtocolShare(h, QnsPrice(o.s.raw))}}
=============================================================================

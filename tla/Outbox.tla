-------------------------------- MODULE Outbox --------------------------------
(***************************************************************************)
(* The pending-transaction outbox (HF117): wallet-pending-txs.json, the    *)
(* payments a wallet has sent and that are not yet buried.  Everybody who  *)
(* changes it loads the whole file, edits the copy and writes the whole    *)
(* copy back: the commands that send (remember_pending_tx), the node's six *)
(* second heartbeat and the graphical wallet (reconcile_pending_txs).  The *)
(* storage lock is taken by the load and by the save, each for itself, so  *)
(* that between the two anybody else may write.                            *)
(*                                                                         *)
(* The chain is what the outbox can tell of it: which payments a block     *)
(* holds, how deep, and which are in the mempool.  Senders work on a clone *)
(* of it (`view'); the heartbeat holds the chain's mutex, so its clone is  *)
(* the chain.                                                              *)
(***************************************************************************)
EXTENDS Lists

CONSTANTS Payments,                \* the payments the wallet may send
          Senders,                 \* commands and windows of the wallet
          Heartbeat,               \* the node's worker
          Confirmations,           \* HF117_PENDING_TX_CONFIRMATIONS
          MaxRecords,              \* HF117_PENDING_TX_MAX_RECORDS
          MaxAge,                  \* HF117_PENDING_TX_MAX_AGE_SECS
          LedgerBound, ClockBound  \* bounds of the model

ASSUME OutboxAssumption ==
    /\ Heartbeat \notin Senders
    /\ Confirmations \in Nat \ {0} /\ MaxRecords \in Nat \ {0} /\ MaxAge \in Nat
    /\ LedgerBound \in Nat /\ ClockBound \in Nat

VARIABLES outbox,     \* the file: records [tx, created], oldest first
          ledger,     \* the node's chain: the payments of every block
          waiting,    \* the node's mempool
          clock,
          hand        \* what every worker is doing, and its copies

outboxVars == <<outbox, ledger, waiting, clock, hand>>

Workers == Senders \cup {Heartbeat}
AtRest == [doing |-> "nothing", copy |-> <<>>, blocks |-> <<>>, mempool |-> {}, tx |-> {}]

-----------------------------------------------------------------------------
(* What the chain says of a payment. *)

\* ChainState::tx_confirmations: 0 stands for None.
TxConfirmations(blocks, p) ==
    LET heights == {h \in DOMAIN blocks : p \in blocks[h]}
    IN  IF heights = {} THEN 0 ELSE Len(blocks) - Min(heights) + 1

Confirmed(blocks, p) == TxConfirmations(blocks, p) >= Confirmations

TxsOf(file) == {file[i].tx : i \in DOMAIN file}

\* load_pending_txs(..).unwrap_or_else(new): a file that cannot be read or
\* parsed is taken for an empty one.
Loads == {outbox, <<>>}

\* A reconciliation that forgets what its mempool refuses.
KeptIfAdmitted(r, blocks, mempool, now) ==
    IF TxConfirmations(blocks, r.tx) > 0 THEN ~Confirmed(blocks, r.tx)
    ELSE r.tx \in mempool

\* remember_pending_tx: the record replaces an older one of the payment, goes
\* to the end, and the oldest make room.
Remembered(copy, p, now) ==
    LET others == Where(copy, LAMBDA r : r.tx # p)
        all    == Append(others, [tx |-> p, created |-> now])
    IN  SubSeq(all, 1 + Max({0, Len(all) - MaxRecords}), Len(all))

\* reconcile_pending_txs: the records that stay.  A recent payment stays whether
\* the mempool admits it again or not: the view may be stale.
Kept(r, blocks, mempool, now) ==
    IF TxConfirmations(blocks, r.tx) > 0 THEN ~Confirmed(blocks, r.tx)
    ELSE r.tx \in mempool \/ now - r.created <= MaxAge

Reconciled(copy, blocks, mempool, now) ==
    Where(copy, LAMBDA r : Kept(r, blocks, mempool, now))

\* The payments a reconciliation offers to the mempool.
Offered(copy, blocks, mempool, now) ==
    {copy[i].tx : i \in {k \in DOMAIN copy :
        /\ TxConfirmations(blocks, copy[k].tx) = 0
        /\ copy[k].tx \notin mempool
        /\ now - copy[k].created <= MaxAge}}

-----------------------------------------------------------------------------
OutboxInit ==
    /\ outbox = <<>> /\ ledger = <<>> /\ waiting = {} /\ clock = 0
    /\ hand = [w \in Workers |-> AtRest]

\* The heartbeat holds the chain's mutex from its load to its save.
ChainFree == hand[Heartbeat].doing = "nothing"

(* The chain moves by itself. *)

\* A block is connected, with any payments that are not on the chain yet.
BlockArrives ==
    \E S \in SUBSET {p \in Payments : TxConfirmations(ledger, p) = 0} :
        /\ ChainFree /\ Len(ledger) < LedgerBound
        /\ ledger' = Append(ledger, S)
        /\ waiting' = waiting \ S
        /\ UNCHANGED <<outbox, clock, hand>>

\* A longer chain replaces the last block by two; the payments of the lost
\* block come back to the mempool as far as they are admitted.
ChainReorganises ==
    \E first \in SUBSET Payments, admitted \in SUBSET Payments :
        /\ ChainFree /\ ledger # <<>> /\ Len(ledger) < LedgerBound
        /\ first \cap UNION {ledger[h] : h \in 1..Len(ledger) - 1} = {}
        /\ admitted \subseteq (waiting \cup Last(ledger)) \ first
        /\ ledger' = Append(Front(ledger) \o <<first>>, {})
        /\ waiting' = admitted
        /\ UNCHANGED <<outbox, clock, hand>>

TimePasses ==
    /\ clock < ClockBound /\ clock' = clock + 1
    /\ UNCHANGED <<outbox, ledger, waiting, hand>>

(* A payment is sent: cmd_send and its like, execute_gui_send_transaction. *)

\* The payment is built and admitted to the mempool of a clone of the chain.
Send(w, p) ==
    /\ hand[w].doing = "nothing"
    /\ TxConfirmations(ledger, p) = 0 /\ p \notin waiting
    /\ hand' = [hand EXCEPT ![w] = [AtRest EXCEPT !.doing = "sends", !.tx = {p},
                                      !.blocks = ledger, !.mempool = waiting \cup {p}]]
    /\ UNCHANGED <<outbox, ledger, waiting, clock>>

\* remember_pending_tx loads.
LoadToRemember(w) ==
    /\ hand[w].doing = "sends"
    /\ \E copy \in Loads :
          hand' = [hand EXCEPT ![w].doing = "remembers", ![w].copy = copy]
    /\ UNCHANGED <<outbox, ledger, waiting, clock>>

\* remember_pending_tx edits its copy and saves it.
SaveRemembered(w) ==
    /\ hand[w].doing = "remembers"
    /\ \E p \in hand[w].tx : outbox' = Remembered(hand[w].copy, p, clock)
    /\ hand' = [hand EXCEPT ![w].doing = "publishes"]
    /\ UNCHANGED <<ledger, waiting, clock>>

\* The save fails: a window gives up (`?'), a command goes on (`let _ =').
RememberFails(w) ==
    /\ hand[w].doing = "remembers"
    /\ hand' \in {[hand EXCEPT ![w] = AtRest], [hand EXCEPT ![w].doing = "publishes"]}
    /\ UNCHANGED <<outbox, ledger, waiting, clock>>

\* save_chain hands the clone's mempool to the node, or fails, or is refused
\* because the node's chain has moved on.
Publish(w) ==
    /\ hand[w].doing = "publishes" /\ ChainFree
    /\ waiting' \in {waiting, waiting \cup {p \in hand[w].tx : TxConfirmations(ledger, p) = 0}}
    /\ hand' = [hand EXCEPT ![w] = AtRest]
    /\ UNCHANGED <<outbox, ledger, clock>>

(* The heartbeat, relay_mempool and every status query reconcile. *)

\* reconcile_pending_txs loads.
LoadToReconcile(w) ==
    /\ hand[w].doing = "nothing"
    /\ \E copy \in Loads :
          hand' = [hand EXCEPT ![w] = [AtRest EXCEPT !.doing = "reconciles", !.copy = copy,
                                          !.blocks = ledger, !.mempool = waiting]]
    /\ UNCHANGED <<outbox, ledger, waiting, clock>>

\* reconcile_pending_txs goes through its copy, and saves what stays.  The
\* payments admitted again are in the node's mempool at once; a sender's clone
\* is published by a save_chain of its own, when there are any.
SaveReconciled(w) ==
    LET h == hand[w]
    IN  /\ h.doing = "reconciles"
        /\ \E back \in SUBSET Offered(h.copy, h.blocks, h.mempool, clock) :
              /\ outbox' = Reconciled(h.copy, h.blocks, h.mempool, clock)
              /\ IF w = Heartbeat
                 THEN /\ waiting' = waiting \cup back
                      /\ hand' = [hand EXCEPT ![w] = AtRest]
                 ELSE /\ hand' = [hand EXCEPT ![w] =
                            IF back = {} THEN AtRest
                            ELSE [AtRest EXCEPT !.doing = "publishes", !.tx = back]]
                      /\ UNCHANGED waiting
        /\ UNCHANGED <<ledger, clock>>

\* The save fails; what the heartbeat has put into the mempool stays there.
ReconcileFails(w) ==
    LET h == hand[w]
    IN  /\ h.doing = "reconciles"
        /\ \E back \in SUBSET Offered(h.copy, h.blocks, h.mempool, clock) :
              waiting' = IF w = Heartbeat THEN waiting \cup back ELSE waiting
        /\ hand' = [hand EXCEPT ![w] = AtRest]
        /\ UNCHANGED <<outbox, ledger, clock>>

OutboxNext ==
    \/ BlockArrives \/ ChainReorganises \/ TimePasses
    \/ \E w \in Senders :
          \/ \E p \in Payments : Send(w, p)
          \/ LoadToRemember(w) \/ SaveRemembered(w) \/ RememberFails(w) \/ Publish(w)
    \/ \E w \in Workers : LoadToReconcile(w) \/ SaveReconciled(w) \/ ReconcileFails(w)

\* A recorded payment is forgotten only for a reason: whoever wrote the file
\* saw it buried `Confirmations' deep, or saw it neither on the chain nor in the
\* mempool after MaxAge, or recorded it anew, or needed its room for another
\* while it was the oldest; or had not seen the record at all, because his load
\* failed or came before the record was written (lib.rs, reconcile_pending_txs:
\* "it should not be forgotten until it is confirmed, reaccepted after
\* catch-up, or ages out").  And no payment is ever recorded twice.
Forgettable(r, w) ==
    LET h == hand[w]
    IN  \/ r \notin Range(h.copy)
        \/ /\ h.doing = "reconciles"
           /\ \/ TxConfirmations(h.blocks, r.tx) >= Confirmations
              \/ /\ clock > r.created + MaxAge
                 /\ r.tx \notin (UNION Range(h.blocks)) \cup h.mempool
        \/ /\ h.doing = "remembers"
           /\ \/ r.tx \in h.tx
              \/ r = Head(h.copy) /\ Len(h.copy) = MaxRecords

OutboxKept ==
    /\ [][\A r \in Range(outbox) : r \notin Range(outbox') =>
            \E w \in Workers : hand'[w] # hand[w] /\ Forgettable(r, w)]_outboxVars
    /\ [](Len(outbox) <= MaxRecords /\ Len(outbox) = Cardinality(TxsOf(outbox)))

OutboxSpec == OutboxInit /\ [][OutboxNext]_outboxVars

=============================================================================

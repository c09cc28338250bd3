--------------------------- MODULE ResourceReplay ---------------------------
(***************************************************************************)
(* Two nodes with the tables of ResourceLimits: one produces blocks, the   *)
(* other applies them (controller_impl::apply_block).  A block holds a     *)
(* receipt for every transaction with what was billed; the second node     *)
(* runs the transactions again, bills what the receipts say and rejects    *)
(* the block if one of them fails.  Both read the same clock, the second   *)
(* node at the time it applies the block.                                  *)
(***************************************************************************)
EXTENDS ResourceLimits

NoBlock == [receipts |-> <<>>, slot |-> 0, num |-> 0]

VARIABLES
    receipts,  \* of the block the producer is building
    block,     \* a block on its way to the other node
    replica,   \* that node's tables
    verdict    \* what it made of the last block

replayVars == <<vars, receipts, block, replica, verdict>>

----------------------------------------------------------------------------
(* The producer *)

ReplayInit ==
    /\ Init
    /\ receipts = <<>>
    /\ block = NoBlock
    /\ replica = db
    /\ verdict = "none"

\* push_receipt
push_receipt(status, bill, ops, use) ==
    receipts' = IF outcome' = "applied"
                THEN Append(receipts, [status |-> status, bill |-> bill,
                                       ops |-> ops, use |-> use])
                ELSE receipts

Produce(bill, ops, use) ==
    /\ Transaction(bill, ops, use)
    /\ push_receipt("executed", bill, ops, use)
    /\ UNCHANGED <<block, replica, verdict>>

ProduceHardFail(bill, spent) ==
    /\ HardFail(bill, spent)
    /\ push_receipt("hard_fail", bill, <<>>,
                    hard_fail_use(db, bill, spent, slot))
    /\ UNCHANGED <<block, replica, verdict>>

\* The block leaves when the one before it has been applied: a bound on the
\* blocks that are on their way.
CommitBlock ==
    /\ block = NoBlock
    /\ EndBlock(slot + 1)
    /\ block' = [receipts |-> receipts, slot |-> slot, num |-> block_num]
    /\ receipts' = <<>>
    /\ UNCHANGED <<replica, verdict>>

----------------------------------------------------------------------------
(* The other node *)

\* One receipt of a block in slot s; st.time is the clock.
apply_receipt(st, rec, s) ==
    LET t == st.time + 1
        result == IF rec.status = "executed"
                  THEN transact(st.db, rec.bill, rec.ops, rec.use, s, t, FALSE)
                  ELSE hard_fail(st.db, rec.bill, rec.use, s, t)
    IN  [ok |-> st.ok /\ result.outcome = "applied", db |-> result.db, time |-> t]

apply_block(d, b, t) ==
    FoldLeft(LAMBDA st, rec : apply_receipt(st, rec, b.slot),
             [ok |-> TRUE, db |-> d, time |-> t], b.receipts)

ApplyBlock ==
    LET result == apply_block(replica, block, now)
    IN  /\ block # NoBlock
        /\ now' = result.time
        /\ block' = NoBlock
        /\ verdict' = IF result.ok THEN "accepted" ELSE "rejected"
        /\ replica' = IF result.ok THEN finalize_block(result.db, block.num)
                      ELSE replica
        /\ UNCHANGED <<db, slot, block_num, corrections, outcome, receipts>>

Wait == Tick /\ UNCHANGED <<receipts, block, replica, verdict>>

ReplayNext ==
    \/ \E bill \in Bills, ops \in SeqOf(Ops, MaxOps), use \in [Resources -> Uses] :
          Produce(bill, ops, use)
    \/ \E bill \in Bills, spent \in Uses : ProduceHardFail(bill, spent)
    \/ CommitBlock
    \/ ApplyBlock
    \/ Wait

ReplaySpec == ReplayInit /\ [][ReplayNext]_replayVars

----------------------------------------------------------------------------
(* Properties *)

\* What the producer allowed, with limits of its own for greylisted accounts,
\* every other node allows: no block it makes is rejected
\* (transaction_context::finalize, apply_block).
BlockAccepted == verdict # "rejected"

\* A node that has applied the producer's last block has the same limits,
\* usage and totals; only the clock readings of the billing differ.
SameTables ==
    block = NoBlock /\ receipts = <<>> /\ verdict = "accepted" =>
       LET consensus(d) == [d EXCEPT !.tx_usage =
                              [x \in DOMAIN d.tx_usage |->
                                 d.tx_usage[x].usage_per_day]]
       IN  consensus(replica) = consensus(db)
=============================================================================

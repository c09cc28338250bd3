----------------------------- MODULE HeaderChain -----------------------------
(***************************************************************************)
(* One chain growing block by block, as one node sees it.  The controller  *)
(* builds a pending block on the head (controller_impl::start_block),      *)
(* transactions of the block may propose a new producer schedule           *)
(* (controller::set_proposed_producers) and the block is committed or      *)
(* aborted.  Local producers run producer_plugin, whose watermarks decide  *)
(* how many earlier blocks a new block confirms; a restart loses them.     *)
(* Blocks of the other producers arrive from the network and are validated *)
(* by block_header_state::next.                                            *)
(*                                                                         *)
(* Slots may be skipped (a producer that is offline or late), so any       *)
(* producer of the schedule may come next.                                 *)
(***************************************************************************)
EXTENDS BlockHeaderState

CONSTANTS
    eosio,        \* config::system_account_name, the genesis producer
    Local,        \* producers that run this code's producer_plugin
    Proposals,    \* the schedules that transactions may propose
    MaxConfirmed, \* largest value of the uint16_t confirmed: 65535
    MaxBlockNum,  \* bound: height of the chain
    MaxMissed,    \* bound: slots without a block, over the whole chain
    MaxRestarts   \* bound: restarts of producer nodes

(* The intrinsic set_proposed_producers refuses longer schedules.          *)
max_producers == 125

ASSUME ChainAssumption ==
    /\ eosio \in Producer /\ Local \subseteq Producer
    /\ Proposals \subseteq Schedule
    /\ \A s \in Proposals : Len(s.producers) <= max_producers
    /\ MaxConfirmed \in Nat
    /\ MaxBlockNum \in Nat /\ MaxMissed \in Nat /\ MaxRestarts \in Nat

VARIABLES
    head,       \* header state of the head block
    pending,    \* the pending block: <<>> or <<[hs, confirmed, gpo]>>
    gpo,        \* global_property_object: the proposed schedule, if any
    watermark,  \* _producer_watermarks of the producers' nodes
    restarts,   \* restarts so far
    votes,      \* history: per block, confirmations needed and given
    past        \* history: what else the head's chain has been through
                \*   overlong:   a block confirmed more blocks than there are
                \*   voters:     the producers whose implied irreversible
                \*               blocks gave the head its last irreversible one
                \*   unforeseen: the producers whose schedule became active in
                \*               a block for which on_block had not prepared

vars == <<head, pending, gpo, watermark, restarts, votes, past>>

NoProposal == [valid |-> FALSE, block_num |-> 0,
               schedule |-> [version |-> 0, producers |-> <<>>]]

Init ==
    /\ head = GenesisState(eosio)
    /\ pending = <<>>
    /\ gpo = NoProposal
    /\ watermark = EmptyMap
    /\ restarts = 0
    /\ votes = [n \in 1..1 |-> [needed |-> 1, by |-> {}]]
    /\ past = [overlong |-> FALSE, voters |-> {}, unforeseen |-> {}]
-----------------------------------------------------------------------------
(* producer_plugin_impl::start_block: the number of blocks before the new  *)
(* one that it confirms.  Without a watermark it confirms none.            *)
watermark_allows(p) ==
    watermark[p] = absent \/ watermark[p] < head.block_num + 1

(* Mutant: the block at the watermark is confirmed again.                  *)
blocks_to_confirm_inclusive(p) ==
    IF watermark[p] # absent /\ watermark[p] < head.block_num
    THEN head.block_num - watermark[p] + 1
    ELSE 0

blocks_to_confirm(p) ==
    IF watermark[p] # absent /\ watermark[p] < head.block_num
    THEN (head.block_num - watermark[p]) % 65536
    ELSE 0

(* A proposed schedule moves to pending once the block that proposed it is *)
(* irreversible and there is room.  hs is the pending block's state after  *)
(* maybe_promote_pending.                                                  *)
proposal_ready(hs, was_pending_promoted) ==
    /\ gpo.valid
    /\ gpo.block_num <= hs.dpos_irreversible_blocknum
    /\ hs.pending_schedule.producers = <<>>
    /\ ~was_pending_promoted

(* The header part of controller_impl::start_block: the state of the block *)
(* in slot "when" that confirms conf earlier blocks, and what is left of   *)
(* the proposal.                                                           *)
BlockState(when, conf) ==
    LET next  == set_confirmed(generate_next(head, when), conf)
        state == maybe_promote_pending(next)
        ready == proposal_ready(state, promotes(next))
    IN  [hs        |-> IF ready THEN set_new_producers(state, gpo.schedule) ELSE state,
         gpo       |-> IF ready THEN NoProposal ELSE gpo,
         confirmed |-> conf,
         throws    |-> ready /\ ~may_set_new_producers(state, gpo.schedule)]

(* Genesis is block 1 in slot 0: the block that follows the head in slot   *)
(* "when" leaves when - head.block_num slots of the chain without a block. *)
Slots == (head.timestamp + 1)..(head.block_num + MaxMissed)

start_block(when, confirmed) ==
    LET bs == BlockState(when, confirmed)
    IN  /\ pending = <<>>
        /\ head.block_num < MaxBlockNum
        /\ ~bs.throws
        /\ pending' = <<[hs |-> bs.hs, confirmed |-> confirmed, gpo |-> gpo]>>
        /\ gpo' = bs.gpo
        /\ UNCHANGED <<head, watermark, restarts, votes, past>>

(* producer_plugin_impl::start_block, at the turn of a local producer.     *)
StartBlock ==
    \E when \in Slots :
        LET p == get_scheduled_producer(head, when)
        IN  /\ p \in Local
            /\ watermark_allows(p)
            /\ start_block(when, blocks_to_confirm(p))

(* controller_impl::apply_block for a block of a producer elsewhere, after *)
(* next() validated its header.  It may confirm as many blocks as fit in   *)
(* the header, also more than there are.                                   *)
ApplyBlock ==
    \E when \in Slots, confirmed \in 0..MaxConfirmed :
        LET p == get_scheduled_producer(head, when)
        IN  /\ p \notin Local
            /\ double_confirm_check(head, p, confirmed)
            /\ start_block(when, confirmed)

(* A transaction of the pending block calls set_proposed_producers.  The   *)
(* calls that return -1 change nothing.                                    *)
set_proposed_producers(producers) ==
    LET cur   == head.block_num + 1
        hs    == pending[1].hs
        after == IF hs.pending_schedule.producers = <<>>
                 THEN hs.active_schedule ELSE hs.pending_schedule
    IN  /\ pending # <<>>
        /\ gpo.valid => /\ gpo.block_num = cur
                        /\ gpo.schedule.producers # producers
        /\ after.producers # producers
        /\ [version |-> after.version + 1, producers |-> producers] \in Proposals
        /\ gpo' = [valid |-> TRUE, block_num |-> cur,
                   schedule |-> [version |-> after.version + 1,
                                 producers |-> producers]]
        /\ UNCHANGED <<head, pending, watermark, restarts, votes, past>>

SetProposed == \E s \in Proposals : set_proposed_producers(s.producers)

(* producer_plugin_impl::on_block, run by every producer's node for a new  *)
(* head: producers that the next slot's block would make active get their  *)
(* watermark at the head.  A node that was started after the block's slot  *)
(* returns early (_start_time); it has no watermarks.  Its other early     *)
(* returns are for blocks that do not extend the chain.                    *)
foreseen(bsp) ==
    LET next == generate_next(bsp, bsp.timestamp + 1)
    IN  IF promotes(next) /\ next.pending_schedule.version # bsp.active_schedule.version
        THEN Members(next.pending_schedule) \ Members(bsp.active_schedule)
        ELSE {}

on_block(bsp, wm, starting) ==
    LET new == (foreseen(bsp) \cap Local) \ starting
    IN  [p \in Producer |-> IF p \in new THEN bsp.block_num ELSE wm[p]]

(* History: the block and the ones it confirms get its producer's vote.    *)
Vote(hs, confirmed) ==
    LET num == hs.block_num
    IN  votes' = [n \in 1..num |->
                    LET v == IF n < num THEN votes[n]
                             ELSE [needed |-> required_confs(head.active_schedule),
                                   by |-> {}]
                    IN  IF n >= num - confirmed
                        THEN [v EXCEPT !.by = @ \cup {hs.producer}]
                        ELSE v]

(* History: hs becomes the head.                                           *)
Remember(hs, confirmed) ==
    LET joined == Members(hs.active_schedule) \ Members(head.active_schedule)
    IN  past' = [overlong   |-> past.overlong \/ confirmed > hs.block_num,
                 voters     |-> Keys(head.producer_to_last_implied_irb)
                                   \cup {hs.producer},
                 unforeseen |-> (past.unforeseen \ {hs.producer})
                                   \cup (joined \ foreseen(head))]

(* commit_block, at the end of apply_block or of produce_block; on_block   *)
(* runs inside it, and produce_block sets the producer's watermark last.   *)
(* The other nodes validate a local block (block_header_state::next); when *)
(* they reject it the producer's node has moved its watermark all the      *)
(* same, and the chain goes on without the block.                          *)
commit_block ==
    LET hs  == pending[1].hs
        p   == hs.producer
        set(wm) == IF p \in Local THEN [wm EXCEPT ![p] = hs.block_num] ELSE wm
    IN  /\ pending # <<>>
        /\ pending' = <<>>
        /\ IF double_confirm_check(head, p, pending[1].confirmed)
           THEN /\ head' = hs
                /\ \E starting \in SUBSET (foreseen(hs) \ Keys(watermark)) :
                      watermark' = set(on_block(hs, watermark, starting))
                /\ Vote(hs, pending[1].confirmed)
                /\ Remember(hs, pending[1].confirmed)
                /\ gpo' = gpo
           ELSE /\ watermark' = set(watermark)
                /\ gpo' = pending[1].gpo
                /\ past' = [past EXCEPT !.unforeseen = @ \ {p}]
                /\ UNCHANGED <<head, votes>>
        /\ UNCHANGED restarts

(* controller_impl::abort_block: the pending block's database session is   *)
(* undone with it.                                                         *)
abort_block ==
    /\ pending # <<>>
    /\ pending' = <<>>
    /\ gpo' = pending[1].gpo
    /\ UNCHANGED <<head, watermark, restarts, votes, past>>

(* A producer's node restarts: watermarks are kept in memory only.         *)
Restart(p) ==
    /\ restarts < MaxRestarts
    /\ watermark[p] # absent
    /\ watermark' = [watermark EXCEPT ![p] = absent]
    /\ restarts' = restarts + 1
    /\ UNCHANGED <<head, pending, gpo, votes, past>>

Next ==
    \/ StartBlock
    \/ ApplyBlock
    \/ SetProposed
    \/ commit_block
    \/ abort_block
    \/ \E p \in Producer : Restart(p)

Spec == Init /\ [][Next]_vars
-----------------------------------------------------------------------------
PendingBlock == [hs : HeaderState, confirmed : Nat,
                 gpo : [valid : BOOLEAN, block_num : Nat, schedule : Schedule]]

(* Every variable has the type the code gives it.  In particular a         *)
(* confirmation count fits its uint8_t.                                    *)
TypeOK ==
    /\ head \in HeaderState
    /\ pending \in Seq(PendingBlock) /\ Len(pending) <= 1
    /\ gpo \in [valid : BOOLEAN, block_num : Nat, schedule : Schedule]
    /\ watermark \in ProducerMap
    /\ restarts \in 0..MaxRestarts
    /\ votes \in [1..head.block_num -> [needed : Nat, by : SUBSET Producer]]
    /\ past \in [overlong : BOOLEAN, voters : SUBSET Producer,
                 unforeseen : SUBSET Producer]

(* A block the header state proposes as irreversible was confirmed by as   *)
(* many DISTINCT producers as its schedule requires (two thirds and one),  *)
(* although set_confirmed only counts down and never looks at names.       *)
ProposedIsConfirmed ==
    LET n == head.dpos_proposed_irreversible_blocknum
    IN  n > 0 => Cardinality(votes[n].by) >= votes[n].needed

(* Tracked counts are exactly what is still missing: each is the quorum    *)
(* minus the distinct confirmations.                                       *)
CountsMatchVotes ==
    LET cc == head.confirm_count
    IN  \A i \in 1..Len(cc) :
          LET v == votes[head.block_num - (Len(cc) - i)]
          IN  cc[i] + Cardinality(v.by) = v.needed

(* No tracked count is zero: the next decrement would wrap to 255 and the  *)
(* block would never be proposed.                                          *)
NoCountIsZero ==
    \A i \in 1..Len(head.confirm_count) : head.confirm_count[i] > 0

(* The proposed irreversible block never moves back along a chain.         *)
ProposedNeverRegresses ==
    [][head'.dpos_proposed_irreversible_blocknum
         >= head.dpos_proposed_irreversible_blocknum]_head

(* A block that producer_plugin builds passes the double-confirm check     *)
(* that every other node applies to it in block_header_state::next, and is *)
(* ordered before the block it extends: commit_block asserts that it       *)
(* becomes the head of the fork database, so its last irreversible block   *)
(* may not be lower than its parent's.  There is one exception to each:    *)
(* the first block of a producer whose watermark on_block could not set,   *)
(* because the slot it looked ahead to was skipped, and the block after a  *)
(* promotion that leaves fewer producers below the third.                  *)
ProducedBlockAccepted ==
    pending # <<>> =>
        LET p      == pending[1].hs.producer
            voters == Keys(head.producer_to_last_implied_irb) \cup {p}
        IN  /\ p \notin past.unforeseen
                  => double_confirm_check(head, p, pending[1].confirmed)
            /\ third(voters) >= third(past.voters) => Better(pending[1].hs, head)

(* start_block never throws out of set_new_producers: whenever a proposed  *)
(* schedule may move to pending, its version follows the active one.       *)
ProposalVersionFollows ==
    pending = <<>> /\ gpo.valid =>
        gpo.schedule.version =
            1 + (IF head.pending_schedule.producers = <<>>
                 THEN head.active_schedule.version
                 ELSE head.pending_schedule.version)

(* The head's counts of confirmations are those that the chain's headers   *)
(* give, what it proposes was confirmed, and the schedules follow each     *)
(* other without a gap.  The double-confirm check does not bind a block    *)
(* that confirms more blocks than there are, because its difference is     *)
(* unsigned; what rests on that check holds of chains without such a block.*)
HeaderConsistent ==
    /\ TypeOK /\ NoCountIsZero /\ ProposalVersionFollows
    /\ ~past.overlong => CountsMatchVotes /\ ProposedIsConfirmed
=============================================================================

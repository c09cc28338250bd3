---------------------------- MODULE ForkedHeaders ----------------------------
(***************************************************************************)
(* The nodes of a fixed schedule of producers build a tree of blocks.      *)
(* Every producer runs producer_plugin on a node of its own; a node has a  *)
(* head, the best block it has received, and its producer's watermark.     *)
(* Blocks reach a node late or never, producers miss slots, and a restart  *)
(* loses the watermark.  Header states are those of BlockHeaderState.      *)
(*                                                                         *)
(* A block that arrives brings its ancestors with it, and a node receives  *)
(* or restarts only when its producer is next: what happened to it earlier *)
(* shows in nothing but the block it builds.                               *)
(***************************************************************************)
EXTENDS BlockHeaderState

CONSTANTS
    eosio,        \* the genesis producer
    ConfirmRange, \* values of the uint16_t confirmed: 65536, fewer to reach the cut
    Order,        \* the producers of the schedule, in its order
    Silent,       \* slots, counted from Root, in which the producer is down
    Isolated,     \* slots before which the producer's node receives nothing
    MaxSlot,      \* bound: slots after the schedule became active
    Prompt,       \* slots before which it has received the best block
    Crashes,      \* slots before which the producer's node may restart
    MaxMissed     \* bound: further slots without a block

(* The intrinsic set_proposed_producers refuses longer schedules.          *)
max_producers == 125

(* What is assumed of the constants: a schedule has members, each once.    *)
ForkAssumption ==
    /\ eosio \in Producer /\ Order \in Seq(Producer \ {eosio})
    /\ Len(Order) \in 1 .. max_producers
    /\ \A i, j \in 1 .. Len(Order) : Order[i] = Order[j] => i = j
    /\ ConfirmRange \in Nat \ {0}
    /\ {MaxSlot, MaxMissed} \cup Silent \cup Isolated \cup Prompt \cup Crashes \subseteq Nat

VARIABLES
    blocks,     \* all blocks: header state, ancestors (with the block itself),
                \* number of confirmed blocks, whether other nodes accept it
    head,       \* per producer, the head of its node
    watermark,  \* per producer, _producer_watermarks
    slot,       \* the last slot that is over
    missed      \* counter of the bound

vars == <<blocks, head, watermark, slot, missed>>

(* The chain before the forks.  eosio produces alone, so it has no block   *)
(* of others to confirm.  The schedule is proposed in block 2, becomes     *)
(* pending when that block is irreversible, then active.                   *)
trunk_next(hs) ==
    LET next  == set_confirmed(generate_next(hs, hs.timestamp + 1), 0)
        state == maybe_promote_pending(next)
    IN  IF /\ state.dpos_irreversible_blocknum >= 2
           /\ state.pending_schedule.producers = <<>>
           /\ ~ promotes(next)
        THEN set_new_producers(state, [version |-> 1, producers |-> Order])
        ELSE state

(* Block 4, the first one in which the schedule is active.                 *)
Root == trunk_next(trunk_next(trunk_next(GenesisState(eosio))))

Scheduled == {Order[i] : i \in DOMAIN Order}

(* on_block of the block before Root has set the watermarks.               *)
Init ==
    /\ blocks = <<[hs |-> Root, chain |-> {1}, confirmed |-> 0, accepted |-> TRUE]>>
    /\ head = [p \in Scheduled |-> 1]
    /\ watermark = [p \in Scheduled |-> Root.block_num - 1]
    /\ slot = Root.timestamp /\ missed = 0
-----------------------------------------------------------------------------
root == blocks[1].hs
HeadState(p) == blocks[head[p]].hs

watermark_allows_always(p, hs) == TRUE
watermark_allows(p, hs) ==
    watermark[p] = absent \/ watermark[p] < hs.block_num + 1

blocks_to_confirm(p, hs) ==
    IF watermark[p] # absent /\ watermark[p] < hs.block_num
    THEN (hs.block_num - watermark[p]) % ConfirmRange ELSE 0

(* The block of number n on the branch of block b.                         *)
AncestorAt(b, n) ==
    IF n <= root.block_num THEN 1
    ELSE CHOOSE i \in blocks[b].chain : blocks[i].hs.block_num = n

(* The block that is irreversible by the header state of block b.          *)
Irreversible(b) == AncestorAt(b, blocks[b].hs.dpos_irreversible_blocknum)

(* The next slot, counted from Root, and its producer.                     *)
turn == slot + 1 - root.timestamp
next_producer == get_scheduled_producer(root, slot + 1)
Up == turn <= MaxSlot /\ turn \notin Silent

(* A block that p's node would switch to: what does not descend from its   *)
(* irreversible block is unlinkable.                                       *)
BetterFor(p, b) ==
    /\ blocks[b].accepted
    /\ Better(blocks[b].hs, HeadState(p))
    /\ Irreversible(head[p]) \in blocks[b].chain

Receive ==
    /\ Up /\ turn \notin Isolated
    /\ \E b \in DOMAIN blocks :
          /\ BetterFor(next_producer, b)
          /\ head' = [head EXCEPT ![next_producer] = b]
    /\ UNCHANGED <<blocks, watermark, slot, missed>>

(* start_block and produce_block at the turn of p.                         *)
Produce ==
    LET p    == next_producer
        hs   == HeadState(p)
        conf == blocks_to_confirm(p, hs)
        new  == set_confirmed(generate_next(hs, slot + 1), conf)
        id   == Len(blocks) + 1
    IN  /\ Up
        /\ turn \in Prompt => \A b \in DOMAIN blocks : ~ BetterFor(p, b)
        /\ watermark_allows(p, hs)
        /\ blocks' = Append(blocks,
                       [hs |-> new, chain |-> blocks[head[p]].chain \cup {id},
                        confirmed |-> conf,
                        accepted |-> /\ blocks[head[p]].accepted
                                     /\ double_confirm_check(hs, p, conf)])
        /\ head' = [head EXCEPT ![p] = id]
        /\ watermark' = [watermark EXCEPT ![p] = new.block_num]
        /\ slot' = slot + 1
        /\ UNCHANGED missed

(* A slot without a block: the producer is down, is late, or its watermark *)
(* forbids it.                                                             *)
Miss ==
    /\ turn <= MaxSlot
    /\ IF Up /\ watermark_allows(next_producer, HeadState(next_producer))
       THEN missed < MaxMissed /\ missed' = missed + 1
       ELSE UNCHANGED missed
    /\ slot' = slot + 1
    /\ UNCHANGED <<blocks, head, watermark>>

(* The node of the next producer restarts: it knows its blocks and not its *)
(* watermark.                                                              *)
Restart ==
    /\ turn \in Crashes /\ Up /\ watermark[next_producer] # absent
    /\ watermark' = [watermark EXCEPT ![next_producer] = absent]
    /\ UNCHANGED <<blocks, head, slot, missed>>

Next ==
    \/ Receive
    \/ Produce
    \/ Miss
    \/ Restart

Spec == Init /\ [][Next]_vars
-----------------------------------------------------------------------------
TypeOK ==
    /\ \A b \in DOMAIN blocks :
          /\ blocks[b].hs \in HeaderState
          /\ blocks[b].chain \subseteq 1 .. b
          /\ blocks[b].confirmed \in 0 .. ConfirmRange - 1
    /\ head \in [Scheduled -> DOMAIN blocks]
    /\ watermark \in [Scheduled -> Nat \cup {absent}]

(* What a producer says by signing a block: this block and the confirmed   *)
(* ones before it are the best for their numbers.                          *)
Signed(b) == (blocks[b].hs.block_num - blocks[b].confirmed) .. blocks[b].hs.block_num

(* block_header.hpp: no producer signs blocks with overlapping ranges,     *)
(* whatever branches it has been on.                                       *)
NoOverlap ==
    \A b, c \in DOMAIN blocks \ {1} :
        b # c /\ blocks[b].hs.producer = blocks[c].hs.producer
           => Signed(b) \cap Signed(c) = {}

(* Of all blocks of one number, on all branches, at most one collects the  *)
(* confirmations that make it proposed irreversible.                       *)
Proposed(b) == AncestorAt(b, blocks[b].hs.dpos_proposed_irreversible_blocknum)
ProposedUnique ==
    \A b, c \in DOMAIN blocks :
        blocks[Proposed(b)].hs.block_num = blocks[Proposed(c)].hs.block_num
           => Proposed(b) = Proposed(c)

(* Where nodes have restarted, the same of the blocks that other nodes     *)
(* accept, and of the blocks they make irreversible: two irreversible      *)
(* blocks of one number are one block.                                     *)
SettledUnique ==
    \A b, c \in {d \in DOMAIN blocks : blocks[d].accepted} :
        \A x \in {Proposed(b), Irreversible(b)}, y \in {Proposed(c), Irreversible(c)} :
            blocks[x].hs.block_num = blocks[y].hs.block_num => x = y

(* No block takes back what its branch has proposed or made irreversible.  *)
NeverTakenBack ==
    \A b \in DOMAIN blocks : \A c \in blocks[b].chain :
        /\ blocks[c].hs.dpos_irreversible_blocknum
              <= blocks[b].hs.dpos_irreversible_blocknum
        /\ blocks[c].hs.dpos_proposed_irreversible_blocknum
              <= blocks[b].hs.dpos_proposed_irreversible_blocknum

(* The watermarks never stop the chain: on the best block of all some      *)
(* producer of the schedule may build.                                     *)
SomeoneCanProduce ==
    \A b \in DOMAIN blocks :
        (\A c \in DOMAIN blocks : ~ Better(blocks[c].hs, blocks[b].hs))
           => \E p \in Scheduled : watermark_allows(p, blocks[b].hs)

(* What one node holds irreversible no other node contradicts: two         *)
(* irreversible blocks are on one branch.                                  *)
Agreement ==
    \A b, c \in DOMAIN blocks :
        \/ Irreversible(b) \in blocks[Irreversible(c)].chain
        \/ Irreversible(c) \in blocks[Irreversible(b)].chain
=============================================================================

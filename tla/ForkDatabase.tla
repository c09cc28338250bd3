---------------------------- MODULE ForkDatabase ----------------------------
(***************************************************************************)
(* The fork database (libraries/chain/fork_database.cpp): the blocks that  *)
(* may still become part of the chain, in several orders, and the best of  *)
(* them, the head.                                                         *)
(*                                                                         *)
(* Blocks come from a tree that the producers made.  A block id stands for *)
(* its whole chain, as a hash does.  The database is a record; each member *)
(* function that changes it is an operator from records to records.        *)
(***************************************************************************)
EXTENDS Integers, Sequences, FiniteSets, SequencesExt

CONSTANTS Block, genesis

VARIABLE
    tree  \* the blocks: [chain, lib, bad], chosen once

num(b)   == Len(tree.chain[b])
prev(b)  == tree.chain[b][num(b) - 1]
lib(b)   == tree.lib[b]       \* dpos_irreversible_blocknum of its header state
bad(b)   == b \in tree.bad    \* its execution throws
Chain(b) == ToSet(tree.chain[b])

(* index is in the order of insertion, which decides between blocks that   *)
(* an ordered index finds equal.                                           *)
ForkDB ==
    [index : Seq(Block), head : Block, in_current_chain : SUBSET Block,
     bft : [Block -> Nat]]

known(F, b) == b \in ToSet(F.index)

(* The by_lib_block_num order: a is strictly before b.                     *)
Before(F, a, b) ==
    \/ lib(a) > lib(b)
    \/ lib(a) = lib(b) /\ F.bft[a] > F.bft[b]
    \/ lib(a) = lib(b) /\ F.bft[a] = F.bft[b] /\ num(a) > num(b)

(* The block of S that was inserted first.                                 *)
First(F, S) ==
    F.index[CHOOSE i \in 1..Len(F.index) :
              F.index[i] \in S /\ \A j \in 1..(i - 1) : F.index[j] \notin S]

(* Mutant: the longest branch is the best one.                             *)
Best_longest(F) ==
    First(F, {b \in ToSet(F.index) : \A a \in ToSet(F.index) : num(a) <= num(b)})

Best(F) ==
    First(F, {b \in ToSet(F.index) : \A a \in ToSet(F.index) : ~Before(F, a, b)})

(* The first block of the by_block_num order: the lowest number, and among *)
(* these one that is in the current chain.                                 *)
Oldest(F) ==
    LET low == {b \in ToSet(F.index) : \A a \in ToSet(F.index) : num(a) >= num(b)}
    IN  IF low \cap F.in_current_chain # {}
        THEN First(F, low \cap F.in_current_chain) ELSE First(F, low)

erase(F, S) ==
    LET keep(b) == b \notin S
    IN  [F EXCEPT !.index = SelectSeq(@, keep), !.in_current_chain = @ \ S]

(* remove: a block and everything built on it.                             *)
remove(F, id) ==
    LET rest == erase(F, {b \in ToSet(F.index) : id \in Chain(b)})
    IN  [rest EXCEPT !.head = Best(rest)]

(* A new block state takes the BFT number of the block it extends.         *)
insert(F, b, current) ==
    [F EXCEPT !.index = Append(@, b),
              !.bft[b] = F.bft[prev(b)],
              !.in_current_chain = IF current THEN @ \cup {b} ELSE @]

(* mark_in_current_chain asserts that the block is known.                  *)
mark_in_current_chain(F, b, in) ==
    [F EXCEPT !.in_current_chain = IF in THEN @ \cup {b} ELSE @ \ {b}]

(* What prune(h) does after the irreversible signal, h being the oldest:   *)
(* h goes, and with it every other block of its number and what they carry.*)
prune_rest(F, h) ==
    LET same == {b \in ToSet(F.index) : num(b) = num(h)} \ {h}
        gone == {b \in ToSet(F.index) : Chain(b) \cap same # {}}
        rest == erase(F, gone \cup {h})
    IN  IF same = {} THEN rest ELSE [rest EXCEPT !.head = Best(rest)]

(* Whether the loop of prune(h) that removes those other blocks may step   *)
(* onto a block that it has just removed: the first block of a higher      *)
(* number, in the by_block_num order, is built on one of them.  Any of     *)
(* them may be the last, since a change of its mark moves a block.         *)
prune_dangles(F, h) ==
    LET others == {b \in ToSet(F.index) : num(b) = num(h)} \ {h}
        higher == erase(F, {b \in Block : num(b) <= num(h)})
    IN  /\ others # {}
        /\ higher.index # <<>>
        /\ others \cap Chain(Oldest(higher)) # {}

(* fetch_branch_from: both branches from their tips down to the blocks     *)
(* that have the same previous block.                                      *)
fetch_branch_from(first, second) ==
    LET c1 == tree.chain[first]
        c2 == tree.chain[second]
        k  == CHOOSE n \in 2..Len(c1) :
                /\ n <= Len(c2) /\ c1[n - 1] = c2[n - 1]
                /\ \A m \in (n + 1)..Len(c1) : m <= Len(c2) => c1[m - 1] # c2[m - 1]
    IN  [first  |-> Reverse(SubSeq(c1, k, Len(c1))),
         second |-> Reverse(SubSeq(c2, k, Len(c2)))]

(* add(header_confirmation) once the confirmations of b are a quorum: b    *)
(* and all blocks built on it are BFT irreversible up to b.  The head is   *)
(* not chosen anew.                                                        *)
set_bft_irreversible(F, b) ==
    [F EXCEPT !.bft = [x \in Block |->
        IF known(F, x) /\ b \in Chain(x) /\ F.bft[x] < num(b) THEN num(b)
        ELSE F.bft[x]]]
=============================================================================

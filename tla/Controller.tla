----------------------------- MODULE Controller -----------------------------
(***************************************************************************)
(* The controller of one node (libraries/chain/controller.cpp) with its    *)
(* fork database, state database, reversible-block database and block log. *)
(* Blocks arrive in any order and more than once, the node may produce     *)
(* blocks of its own, it may be closed and started again, and it may crash *)
(* between any two changes of what is on disk and be replayed.             *)
(*                                                                         *)
(* A handler is an operator from node records to node records, because a   *)
(* handler runs to its end or to its exception without interruption.  The  *)
(* field err says how it ended: "" for normally, "rejected" when it threw  *)
(* because a block is not acceptable, and anything else when an assertion  *)
(* failed that is not about the block but about the node itself.  A        *)
(* behaviour ends there, although the plugin logs the exception and goes   *)
(* on: NoInternalError says when that happens.                             *)
(***************************************************************************)
EXTENDS ForkDatabase

CONSTANTS
    Trees,             \* the block trees to consider
    IsProducer,        \* whether producers are configured at this node
    MaxRestarts,       \* bound: clean restarts
    MaxCrashes,        \* bound: crashes
    MaxConfirmations   \* bound: blocks confirmed by a quorum of producers

(* What the producers' chains are like.  A chain is linked, and its last   *)
(* irreversible block never moves back.                                    *)
Linked(t) ==
    \A b \in Block :
        LET c == t.chain[b]
        IN  /\ c # <<>> /\ c[1] = genesis /\ Last(c) = b
            /\ \A k \in 1..Len(c) : t.chain[c[k]] = SubSeq(c, 1, k)
            /\ t.lib[b] < Len(c)
            /\ \A k \in 1..Len(c) : t.lib[c[k]] <= t.lib[b]

(* No two chains disagree about an irreversible block, and an invalid      *)
(* block is never irreversible: this is what DPOS gives with fewer than    *)
(* one third of faulty producers.                                          *)
LibAgrees(t) ==
    \A x, y \in Block :
        \A k \in 1..t.lib[x] : /\ k <= t.lib[y] => t.chain[x][k] = t.chain[y][k]
                               /\ t.chain[x][k] \notin t.bad

(* An invalid block makes irreversible only what no competing branch can   *)
(* outgrow any more: its header counts before its execution fails.         *)
InvalidIsLate(t) ==
    \A c \in t.bad, a \in Block :
        LET final == SubSeq(t.chain[c], 1, t.lib[c])
            p     == t.chain[c][Len(t.chain[c]) - 1]
        IN  \/ IsPrefix(final, t.chain[a]) \/ IsPrefix(t.chain[a], t.chain[c])
            \/ t.lib[p] > t.lib[a]
            \/ t.lib[p] = t.lib[a] /\ Len(t.chain[p]) > Len(t.chain[a])

ASSUME TreeAssumption ==
    \A t \in Trees : Linked(t) /\ LibAgrees(t) /\ InvalidIsLate(t)

VARIABLES
    node,      \* the node
    restarts, crashes, confirmations

vars == <<tree, node, restarts, crashes, confirmations>>

(* The state database: the block whose effects it holds last, the states   *)
(* that its undo stack leads back to (see UndoHistory), its revision.      *)
Database == [state : Block, undo : Seq(Block), revision : Nat]

push_session(db) ==
    [db EXCEPT !.undo = Append(@, db.state), !.revision = @ + 1]

undo(db) ==
    IF db.undo = <<>> THEN db
    ELSE [state |-> Last(db.undo), undo |-> Front(db.undo),
          revision |-> db.revision - 1]

commit(db, revision) ==
    LET above == IF db.revision > revision THEN db.revision - revision ELSE 0
        keep  == IF above < Len(db.undo) THEN above ELSE Len(db.undo)
    IN  [db EXCEPT !.undo = SubSeq(@, Len(@) - keep + 1, Len(@))]

(* What is left on disk after a crash.                                     *)
Disk(N) == [blog |-> N.blog, reversible |-> N.reversible]

(* A change of the block log or of the reversible blocks.                  *)
Saved(N) == [N EXCEPT !.trail = @ \cup {Disk(N)}]

Fail(N, why) == [N EXCEPT !.err = why]
OK(N) == N.err = ""

(* A loop over blocks that the first exception leaves.                     *)
Loop(Step(_, _), N, blocks) ==
    FoldLeft(LAMBDA M, b : IF OK(M) THEN Step(M, b) ELSE M, N, blocks)
-----------------------------------------------------------------------------

(* on_irreversible, the handler of the fork database's signal: the undo    *)
(* states up to the block are dropped, the block goes to the log unless it *)
(* is there, then the reversible blocks up to it are removed one by one.   *)
drop_reversible(N, n) ==
    LET keep(k) == {r \in N.reversible : num(r) > k}
    IN  [N EXCEPT !.reversible = keep(n),
                  !.trail = @ \cup {[blog |-> N.blog, reversible |-> keep(k)] :
                                      k \in 0..n}]

on_irreversible(N, s) ==
    LET append   == num(s) > Len(N.blog)
        unlinked == append /\ ( num(s) - 1 # Len(N.blog)
                                \/ prev(s) # Last(N.blog) )
        logged   == Saved([N EXCEPT !.db = commit(@, num(s)),
                                    !.blog = IF append THEN Append(@, s) ELSE @])
    IN  IF unlinked THEN Fail(N, "unlinkable") ELSE drop_reversible(logged, num(s))

prune(N, h) ==
    LET M == on_irreversible(N, h)
    IN  IF ~OK(M) THEN M
        ELSE IF prune_dangles(M.fork_db, h) THEN Fail(M, "dangling iterator")
        ELSE [M EXCEPT !.fork_db = prune_rest(@, h)]

(* fork_database::add of a block whose previous block is known.            *)
fork_db_add(N, b, current) ==
    LET in  == insert(N.fork_db, b, current)
        F   == [in EXCEPT !.head = Best(in)]
        M   == [N EXCEPT !.fork_db = F]
        old == Oldest(F)
    IN  IF num(old) < lib(F.head) THEN prune(M, old) ELSE M

(* commit_block and the pending session's push: the block is added to the  *)
(* reversible blocks, whose number is a unique key, and its effects stay.  *)
create_reversible(N, b) ==
    IF N.status # "complete" THEN N
    ELSE IF \E r \in N.reversible : num(r) = num(b)
         THEN Fail(N, "duplicate reversible block")
    ELSE Saved([N EXCEPT !.reversible = @ \cup {b}])

(* apply_block.  Irreversible blocks are replayed without a session.       *)
apply_block(N, b) ==
    LET session == N.status # "irreversible"
        db      == IF session THEN push_session(N.db) ELSE N.db
    IN  IF session /\ N.db.revision # num(N.head) THEN Fail(N, "revision")
        ELSE IF prev(b) # N.head \/ N.db.state # N.head \/ bad(b)
             THEN Fail(N, "rejected")
        ELSE create_reversible([N EXCEPT !.db = [db EXCEPT !.state = b]], b)

apply_and_mark(N, b) ==
    LET M == apply_block(N, b)
    IN  IF ~OK(M) THEN M
        ELSE [M EXCEPT !.head = b,
                       !.fork_db = mark_in_current_chain(@, b, TRUE)]

(* Mutant: leaves the popped block among the reversible blocks.            *)
pop_block_keeps_reversible(N, b) ==
    [N EXCEPT !.head = prev(N.head), !.db = undo(@),
              !.fork_db = mark_in_current_chain(@, b, FALSE)]

(* The head is marked as not in the current chain, then pop_block.         *)
pop_block(N, b) ==
    LET M == [N EXCEPT !.fork_db = mark_in_current_chain(@, b, FALSE)]
    IN  IF ~known(N.fork_db, prev(N.head))
        THEN Fail(M, "pop beyond last irreversible block")
        ELSE Saved([M EXCEPT !.reversible = {r \in @ : num(r) # num(N.head)},
                             !.head = prev(N.head),
                             !.db = undo(@)])

(* The three parts of a switch to another fork: pop the blocks of the old  *)
(* branch, apply those of the new one, and when one of them throws, remove *)
(* it, pop those applied before it and apply the old branch again.         *)
revert_switch(N, A, branches) ==
    LET failed  == tree.chain[branches.first[1]][num(A.head) + 1]
        applied == SelectSeq(branches.first, LAMBDA b : num(b) <= num(A.head))
        P == Loop(pop_block, [A EXCEPT !.err = "", !.fork_db = remove(@, failed)],
                  applied)
    IN  IF ~OK(P) THEN P
        ELSE IF P.head # prev(Last(branches.second)) THEN Fail(P, "loss of sync")
        ELSE LET R == Loop(apply_and_mark, P, Reverse(branches.second))
             IN  IF OK(R) THEN Fail(R, "rejected") ELSE Fail(R, "old branch lost")

switch_forks(N, new_head) ==
    LET branches == fetch_branch_from(new_head, N.head)
        P == Loop(pop_block, N, branches.second)
        A == Loop(apply_and_mark, P, Reverse(branches.first))
    IN  IF \E b \in ToSet(branches.first) \cup ToSet(branches.second) :
              ~known(N.fork_db, b)
        THEN Fail(N, "branch not found")
        ELSE IF ~OK(P) THEN P
        ELSE IF P.head # prev(Last(branches.second)) THEN Fail(P, "loss of sync")
        ELSE IF OK(A) THEN A ELSE revert_switch(N, A, branches)

maybe_switch_forks(N) ==
    LET new_head == N.fork_db.head
        A        == apply_and_mark(N, new_head)
    IN  IF new_head = N.head THEN N
        ELSE IF prev(new_head) # N.head THEN switch_forks(N, new_head)
        ELSE IF OK(A) THEN A
        ELSE [N EXCEPT !.err = A.err, !.fork_db = remove(@, new_head)]

push_block(N, b) ==
    IF known(N.fork_db, b) \/ b = genesis THEN Fail(N, "rejected")
    ELSE IF ~known(N.fork_db, prev(b)) THEN Fail(N, "rejected")
    ELSE LET M == fork_db_add(N, b, FALSE)
         IN  IF OK(M) THEN maybe_switch_forks(M) ELSE M

(* Mutant: forgets the pending block without undoing its session.          *)
abort_block_keeps_session(N) == [N EXCEPT !.pending = FALSE]

abort_block(N) ==
    IF N.pending THEN [N EXCEPT !.pending = FALSE, !.db = undo(@)] ELSE N

(* controller::commit_block of a block that the node produced: added to    *)
(* the fork database first, of which it must become the head.              *)
commit_block(N, b) ==
    LET M == fork_db_add(N, b, TRUE)
        H == [M EXCEPT !.head = M.fork_db.head]
        C == create_reversible([H EXCEPT !.pending = FALSE, !.db.state = b], b)
    IN  IF ~OK(M) THEN abort_block(M)
        ELSE IF M.fork_db.head # b
             THEN Fail(abort_block(H), "committed block did not become the head")
        ELSE IF OK(C) THEN C ELSE [abort_block(H) EXCEPT !.err = C.err]
-----------------------------------------------------------------------------
(* Startup.  A node without state begins with the genesis block            *)
(* (initialize_fork_db) and what is on disk.                               *)
Initialized(disk) ==
    [fork_db |-> [index |-> <<genesis>>, head |-> genesis,
                  in_current_chain |-> {}, bft |-> [b \in Block |-> 0]],
     head |-> genesis,
     db |-> [state |-> genesis, undo |-> <<>>, revision |-> 1],
     reversible |-> disk.reversible, blog |-> disk.blog,
     pending |-> FALSE, status |-> "complete", err |-> "", trail |-> {}]

(* replay: the log, without sessions, then the reversible blocks as long   *)
(* as there is one for the next number.                                    *)
replay(N) ==
    LET R == Loop(push_block, [N EXCEPT !.status = "irreversible"], Tail(N.blog))
        S == IF OK(R) THEN [R EXCEPT !.db.revision = num(R.head),
                                     !.status = "validated"] ELSE R
        next(M) == {r \in M.reversible : num(r) = num(M.head) + 1}
        T == Loop(LAMBDA M, i : IF next(M) = {} THEN M
                                ELSE push_block(M, CHOOSE r \in next(M) : TRUE),
                  S, [i \in 1..Cardinality(N.reversible) |-> i])
    IN  [T EXCEPT !.status = "complete"]

(* The checks at the end of init.  Changes beyond the head are undone.     *)
check_consistency(N) ==
    LET last == IF N.reversible = {} THEN Len(N.blog)
                ELSE CHOOSE n \in {num(r) : r \in N.reversible} :
                       \A r \in N.reversible : num(r) <= n
    IN  IF ~OK(N) THEN N
        ELSE IF last # num(N.head) THEN Fail(N, "reversible blocks inconsistent")
        ELSE IF N.db.revision < num(N.head) THEN Fail(N, "state inconsistent")
        ELSE [N EXCEPT !.db = FoldLeft(LAMBDA d, i : IF d.revision > num(N.head)
                                                     THEN undo(d) ELSE d,
                                       @, [i \in 1..Len(@.undo) |-> i])]

init(N) == check_consistency(IF Len(N.blog) > 1 THEN replay(N) ELSE N)

(* Mutant: the reversible blocks are not recovered.                        *)
recover_nothing(reversible) == {}

(* recover_reversible_blocks copies them up to the first gap.              *)
recover_reversible_blocks(reversible) ==
    {r \in reversible :
        \A n \in 1..num(r) :
            (\E q \in reversible : num(q) < n) =>
            (\E q \in reversible : num(q) = n)}

(* fork_database::close saves the database, then prunes the oldest block   *)
(* if it is irreversible, which no new block can depend on any more.       *)
close(N) ==
    LET A   == abort_block(N)
        old == Oldest(A.fork_db)
        P   == IF num(old) <= lib(A.fork_db.head) THEN prune(A, old) ELSE A
    IN  [P EXCEPT !.fork_db = A.fork_db]

(* The saved blocks are read back in the order of a hash table.            *)
Reopened(N, order) ==
    LET M == [N EXCEPT !.fork_db.index = order, !.head = N.fork_db.head]
    IN  check_consistency(M)
-----------------------------------------------------------------------------
Handled(N) ==
    /\ node' = [N EXCEPT !.trail = {}]
    /\ UNCHANGED <<tree, restarts, crashes, confirmations>>

Current == [node EXCEPT !.err = "", !.trail = {Disk(node)}]

Internal(err) == err \notin {"", "rejected"}
Running == ~Internal(node.err)

Init ==
    /\ tree \in Trees
    /\ node = Initialized([blog |-> <<genesis>>, reversible |-> {}])
    /\ restarts = 0 /\ crashes = 0 /\ confirmations = 0

(* The producer plugin ends each of its handlers by running its loop: it   *)
(* waits (for the next block or for a timer), or it starts a new pending   *)
(* block, which opens a session of the state database.                     *)
start_block(N) ==
    IF N.db.revision # num(N.head) THEN Fail(N, "revision")
    ELSE [N EXCEPT !.pending = TRUE, !.db = push_session(@)]

schedule_production_loop(N) ==
    IF Internal(N.err) THEN {N} ELSE {N, start_block(abort_block(N))}

(* A block that the node has is ignored before the pending block is        *)
(* aborted.                                                                *)
Has(b) == known(node.fork_db, b) \/ b \in ToSet(node.blog)

Incoming(b) == push_block(abort_block(Current), b)

on_incoming_block(b) ==
    /\ Running
    /\ b # genesis /\ ~Has(b)
    /\ \E N \in schedule_production_loop(Incoming(b)) : Handled(N)

(* The timer of the loop fires while the plugin waits.                     *)
ProductionTimer ==
    /\ Running
    /\ \E N \in schedule_production_loop(Current) : Handled(N)

(* The node produces a block of the tree that nobody else has sent, or     *)
(* fails to finalize or to sign it and aborts it.                          *)
Produces(b) ==
    /\ IsProducer
    /\ node.pending
    /\ b # genesis /\ ~Has(b) /\ ~bad(b)
    /\ prev(b) = node.head

maybe_produce_block(b) ==
    /\ Running
    /\ Produces(b)
    /\ \E N \in schedule_production_loop(commit_block(Current, b)) : Handled(N)

produce_block_fails ==
    /\ Running
    /\ IsProducer
    /\ node.pending
    /\ \E N \in schedule_production_loop(abort_block(Current)) : Handled(N)

(* A quorum of producers confirms a valid branch, and none that competes   *)
(* with irreversible blocks.                                               *)
Confirmable(b) ==
    /\ Chain(b) \cap tree.bad = {}
    /\ \A x \in Block : \A k \in 1..lib(x) :
         k <= num(b) => tree.chain[x][k] = tree.chain[b][k]

push_confirmation(b) ==
    /\ Running
    /\ confirmations < MaxConfirmations
    /\ Confirmable(b)
    /\ ~node.pending
    /\ known(node.fork_db, b) /\ node.fork_db.bft[b] < num(b)
    /\ node' = [maybe_switch_forks([Current EXCEPT !.fork_db =
                                       set_bft_irreversible(@, b)])
                EXCEPT !.trail = {}]
    /\ confirmations' = confirmations + 1
    /\ UNCHANGED <<tree, restarts, crashes>>

Restart ==
    /\ Running
    /\ restarts < MaxRestarts
    /\ LET C == close(Current)
       IN  \E order \in SetToSeqs(ToSet(C.fork_db.index)) :
             node' = [Reopened(C, order) EXCEPT !.trail = {}]
    /\ restarts' = restarts + 1
    /\ UNCHANGED <<tree, crashes, confirmations>>

(* A crash while a handler runs that would end in N, or between handlers.  *)
(* The state is deleted and the reversible blocks are recovered            *)
(* (--replay-blockchain --fix-reversible-blocks).                          *)
CrashDuring(N) ==
    /\ Running
    /\ crashes < MaxCrashes
    /\ \E disk \in N.trail \cup {Disk(node)} :
         node' = [init(Initialized([disk EXCEPT !.reversible =
                                        recover_reversible_blocks(@)]))
                  EXCEPT !.trail = {}]
    /\ crashes' = crashes + 1
    /\ UNCHANGED <<tree, restarts, confirmations>>

Crash ==
    \/ CrashDuring(close(Current))
    \/ \E b \in Block \ {genesis} : ~Has(b) /\ CrashDuring(Incoming(b))
    \/ \E b \in Block : Produces(b) /\ CrashDuring(commit_block(Current, b))

Next ==
    \/ \E b \in Block : on_incoming_block(b)
    \/ ProductionTimer
    \/ \E b \in Block : maybe_produce_block(b)
    \/ produce_block_fails
    \/ \E b \in Block : push_confirmation(b)
    \/ Restart
    \/ Crash

Spec == Init /\ [][Next]_vars
-----------------------------------------------------------------------------
Node ==
    [fork_db : ForkDB, head : Block, db : Database, reversible : SUBSET Block,
     blog : Seq(Block), pending : BOOLEAN, status : {"complete"},
     err : STRING, trail : {{}}]

(* Every variable has the type the code gives it.                          *)
TypeOK ==
    /\ node \in Node
    /\ restarts \in Nat /\ crashes \in Nat /\ confirmations \in Nat

(* A block that makes irreversible only blocks of the node's chain.        *)
InTime(b) == IsPrefix(SubSeq(tree.chain[b], 1, lib(b)), tree.chain[node.head])

(* The three ways in which an assertion about the node itself fails.  A    *)
(* received block makes a block of another branch irreversible: push_block *)
(* prunes the blocks that the switch to that branch has to return to.      *)
Overtaken ==
    /\ node'.err = "pop beyond last irreversible block"
    /\ \E b \in Block : ~InTime(b) /\ on_incoming_block(b)

(* The node builds on a head that a confirmation has put behind a block of *)
(* another branch, which add(header_confirmation) did not switch to.       *)
ProducesBehind ==
    /\ node'.err = "committed block did not become the head"
    /\ confirmations > 0
    /\ \E b, x \in Block : /\ known(node.fork_db, x) /\ Before(node.fork_db, x, node.head)
                           /\ maybe_produce_block(b)

(* A crash before the first block was logged after the genesis block: init *)
(* does not replay, and its check finds reversible blocks beyond the head. *)
NothingReplayed ==
    /\ node'.err = "reversible blocks inconsistent"
    /\ crashes' > crashes /\ node'.blog = <<genesis>> /\ node'.reversible # {}

(* Apart from these, no assertion about the node itself fails: it does not *)
(* pop beyond the last irreversible block, lose the sync between the fork  *)
(* database and the state ("_should_ never fail") or miss a block of a     *)
(* branch, it appends to the block log only what links to it, starts again *)
(* after it was closed and can be replayed after a crash.                  *)
NoInternalError ==
    [][Running' \/ ~Running \/ Overtaken \/ ProducesBehind \/ NothingReplayed]_vars

(* The state database holds the effects of the head block, plus a session  *)
(* for the pending block, at the revision of the head's number.            *)
StateMatchesHead ==
    Running =>
        /\ node.db.state = node.head
        /\ node.db.revision = num(node.head) + (IF node.pending THEN 1 ELSE 0)

(* The undo stack leads back through the chain of the head, block by       *)
(* block, at least to the last block of the log: whatever is not           *)
(* irreversible can be undone, and undoing it restores the right state.    *)
UndoReachesLog ==
    Running =>
        LET u == node.db.undo
        IN  /\ Len(u) >= node.db.revision - Len(node.blog)
            /\ \A i \in 1..Len(u) :
                 u[i] = tree.chain[node.head][node.db.revision - 1 - Len(u) + i]

(* The block log followed by the reversible blocks is the chain of the     *)
(* head, so that a replay of what is on disk leads back to it.             *)
DiskHoldsChain ==
    Running =>
        LET c == tree.chain[node.head]
        IN  /\ IsPrefix(node.blog, c)
            /\ node.reversible \subseteq ToSet(c)
            /\ \A k \in (Len(node.blog) + 1)..Len(c) : c[k] \in node.reversible

(* The blocks marked as in the current chain are the ones of the head's    *)
(* chain: prune() trusts the mark to tell which block is irreversible.     *)
MarksMatchChain ==
    Running =>
        node.fork_db.in_current_chain \cup {genesis} =
            (Chain(node.head) \cap ToSet(node.fork_db.index)) \cup {genesis}

(* The node is on the best of the branches that it knows, also after a     *)
(* switch to a better one failed.                                          *)
HeadIsBest ==
    Running => \A b \in ToSet(node.fork_db.index) :
                   ~Before(node.fork_db, b, node.head)

(* What the node's head calls irreversible stays in the node's chain,      *)
(* through every switch of forks, restart and crash.                       *)
FinalityKept ==
    [][Running' => IsPrefix(SubSeq(tree.chain[node.head], 1, lib(node.head)),
                            tree.chain[node'.head])]_node
=============================================================================

---------------------------- MODULE MCController ----------------------------
(***************************************************************************)
(* Controller for TLC, on all block trees of a given size.  A scenario     *)
(* says which faults happen.                                               *)
(*   "forks"    six blocks on two branches, one of them may be invalid;    *)
(*   "restart"  the first five of them and a clean restart;                *)
(*   "crash"    six valid blocks and a crash at any write to the disk;     *)
(*   "confirm"  the same five blocks: a quorum confirms one of them.       *)
(***************************************************************************)
EXTENDS Controller

CONSTANT MaxLib

(* Parents in non-decreasing order: one tree of each shape, of one or two  *)
(* branches.                                                               *)
Parents ==
    {p \in [2..6 -> 1..5] :
        /\ \A b \in 2..6 : p[b] < b /\ (b > 2 => p[b - 1] <= p[b])
        /\ Cardinality({p[b] : b \in 2..6}) >= 4}

Chains(p) ==
    LET chain[b \in 1..6] == IF b = 1 THEN <<1>> ELSE Append(chain[p[b]], b)
    IN  chain

ForkTrees ==
    UNION {{t \in [chain : {Chains(p)}, lib : [Block -> 0..MaxLib],
                   bad : {B \in SUBSET (2..6) : Cardinality(B) <= 1}] :
              Linked(t) /\ LibAgrees(t) /\ InvalidIsLate(t)}
           : p \in Parents}

GoodTrees == {t \in ForkTrees : t.bad = {}}

(* Trees of five blocks: the sixth, which nobody sends, adds nothing.      *)
FiveTrees ==
    {t \in ForkTrees : t.chain[6] = Append(t.chain[5], 6)
                         /\ t.lib[6] = t.lib[5] /\ 6 \notin t.bad}

AllTrees == ForkTrees

VARIABLE scenario
all == <<scenario, vars>>

Scenarios == "forks" :> ForkTrees @@ "restart" :> FiveTrees
                @@ "crash" :> GoodTrees @@ "confirm" :> FiveTrees
Sent == IF scenario \in {"restart", "confirm"} THEN Block \ {6} ELSE Block

MCInit ==
    /\ scenario \in DOMAIN Scenarios
    /\ tree \in Scenarios[scenario]
    /\ Init

MCNext ==
    /\ \/ \E b \in Sent : on_incoming_block(b)
       \/ ProductionTimer
       \/ produce_block_fails
       \/ \E b \in Sent : maybe_produce_block(b)
       \/ scenario = "restart" /\ Restart
       \/ scenario = "crash" /\ Crash
       \/ scenario = "confirm" /\ \E b \in Sent : push_confirmation(b)
    /\ UNCHANGED scenario

MCSpec == MCInit /\ [][MCNext]_all

(* The database is the state after the head, it can be undone back to the  *)
(* block log, and the disk and the marks of the fork database describe the *)
(* chain that ends in the head.                                            *)
NodeConsistent ==
    /\ TypeOK /\ StateMatchesHead /\ UndoReachesLog
    /\ DiskHoldsChain /\ MarksMatchChain

(* A node that gets no confirmations is on the best of the branches it     *)
(* knows, also after a restart and after a switch to a better one failed.  *)
OnBestBranch == scenario # "confirm" => HeadIsBest
=============================================================================

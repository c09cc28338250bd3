------------------------------ MODULE MCHeaders ------------------------------
(***************************************************************************)
(* HeaderChain and ForkedHeaders for TLC.  One part of the suite runs, the *)
(* others stay in their initial state.                                     *)
(*   "chain"  one chain whose schedule is replaced twice;                  *)
(*   "over"   one chain of three producers, two of them elsewhere, whose   *)
(*            blocks confirm any number of blocks, also more than there    *)
(*            are;                                                         *)
(*   "shrink" one chain whose schedule shrinks from four to two producers: *)
(*            then the last irreversible block may move back;              *)
(*   "back"   one chain with a producer that leaves the schedule and       *)
(*            returns, at times when the slot on_block looks ahead to is   *)
(*            skipped: then its watermark is stale;                        *)
(*   "three"  forks of three producers, with a confirmed count that is cut *)
(*            to two values instead of 65536;                              *)
(*   "four"   forks of four producers, of which three are a quorum;        *)
(*   "one"    the same where the node of b restarts, and b then signs for  *)
(*            numbers it has signed for on another branch;                 *)
(*   "crash"  forks of three producers whose nodes restart.                *)
(***************************************************************************)
EXTENDS HeaderChain

Sch(v, s) == [version |-> v, producers |-> s]

(* A producer is replaced, and the schedule reordered.                     *)
Replace == {Sch(1, <<"a", "b">>), Sch(2, <<"b", "c">>), Sch(2, <<"b", "a">>),
            Sch(3, <<"c", "b">>)}

Trio == {Sch(1, <<"a", "b", "c">>)}

Fewer == {Sch(1, <<"a", "b", "c", "d">>), Sch(2, <<"a", "b">>)}

Returns == {Sch(1, <<"b", "eosio">>), Sch(2, <<"b", "c", "d">>),
            Sch(3, <<"b", "eosio">>)}

Elsewhere == {"a", "c"}

VARIABLES part, blocks, heads, marks, slot, missed

forks == <<blocks, heads, marks, slot, missed>>
all == <<part, vars, forks>>

Over == INSTANCE HeaderChain WITH
    Local <- Producer \ Elsewhere, Proposals <- Trio,
    MaxConfirmed <- 10, MaxBlockNum <- 9, MaxMissed <- 2, MaxRestarts <- 1
Shrink == INSTANCE HeaderChain WITH
    Local <- Producer, Proposals <- Fewer,
    MaxConfirmed <- 0, MaxBlockNum <- 12, MaxMissed <- 1, MaxRestarts <- 0
Back == INSTANCE HeaderChain WITH
    Local <- Producer, Proposals <- Returns,
    MaxConfirmed <- 0, MaxBlockNum <- 16, MaxMissed <- 2, MaxRestarts <- 0

OrderOfThree == <<"a", "b", "c">>
OrderOfFour == <<"a", "b", "c", "d">>

Three == INSTANCE ForkedHeaders WITH
    head <- heads, watermark <- marks,
    Order <- OrderOfThree,
    maximum_tracked_dpos_confirmations <- 1024,
    ConfirmRange <- 2, Silent <- {}, Isolated <- {}, Prompt <- {},
    Crashes <- {}, MaxSlot <- 10, MaxMissed <- 2
Four == INSTANCE ForkedHeaders WITH
    head <- heads, watermark <- marks,
    Order <- OrderOfFour,
    maximum_tracked_dpos_confirmations <- 1024,
    ConfirmRange <- 65536, Silent <- {}, Isolated <- {}, Prompt <- {},
    Crashes <- {}, MaxSlot <- 9, MaxMissed <- 2
One == INSTANCE ForkedHeaders WITH
    head <- heads, watermark <- marks,
    Order <- OrderOfFour,
    maximum_tracked_dpos_confirmations <- 1024,
    ConfirmRange <- 65536, Silent <- {}, Isolated <- {}, Prompt <- {2, 3},
    Crashes <- {6, 10}, MaxSlot <- 10, MaxMissed <- 0
Crash == INSTANCE ForkedHeaders WITH
    head <- heads, watermark <- marks,
    Order <- OrderOfThree,
    maximum_tracked_dpos_confirmations <- 1024,
    ConfirmRange <- 65536, Silent <- {}, Isolated <- {}, Prompt <- {},
    Crashes <- {2, 5, 7}, MaxSlot <- 9, MaxMissed <- 2

(* An outage: from the third block on d is cut off from a, b and c, which  *)
(* build another ten slots and are then down until d alone has a longer    *)
(* branch; a stays down.                                                   *)
Outage == INSTANCE ForkedHeaders WITH
    head <- heads, watermark <- marks,
    Order <- OrderOfFour,
    maximum_tracked_dpos_confirmations <- 1024,
    ConfirmRange <- 65536, Silent <- ((14 .. 27) \ {16, 20, 24}) \cup {29, 33},
    Isolated <- {8, 12, 16, 20, 24, 28},
    Prompt <- {2, 3, 4, 6, 7, 9, 10, 11, 13},
    Crashes <- {1, 2, 3, 4, 6}, MaxSlot <- 35, MaxMissed <- 0

ASSUME Over!ChainAssumption /\ Shrink!ChainAssumption /\ Back!ChainAssumption

ASSUME Three!ForkAssumption /\ Four!ForkAssumption /\ One!ForkAssumption
    /\ Crash!ForkAssumption /\ Outage!ForkAssumption

MCInit ==
    /\ Init
    /\ \/ part \in {"chain", "over", "shrink", "back", "three"} /\ Three!Init
       \/ part = "four" /\ Four!Init
       \/ part = "one" /\ One!Init
       \/ part = "crash" /\ Crash!Init

MCNext ==
    \/ part = "chain" /\ Next /\ UNCHANGED <<part, forks>>
    \/ part = "over" /\ Over!Next /\ UNCHANGED <<part, forks>>
    \/ part = "shrink" /\ Shrink!Next /\ UNCHANGED <<part, forks>>
    \/ part = "back" /\ Back!Next /\ UNCHANGED <<part, forks>>
    \/ part = "three" /\ Three!Next /\ UNCHANGED <<part, vars>>
    \/ part = "four" /\ Four!Next /\ UNCHANGED <<part, vars>>
    \/ part = "one" /\ One!Next /\ UNCHANGED <<part, vars>>
    \/ part = "crash" /\ Crash!Next /\ UNCHANGED <<part, vars>>

MCSpec == MCInit /\ [][MCNext]_all

OutageSpec ==
    /\ Init /\ part = "outage" /\ Outage!Init
    /\ [][Outage!Next /\ UNCHANGED <<part, vars>>]_all

(* The watermarks of start_block do their work: no producer signs blocks   *)
(* with overlapping ranges, whatever branches its watermark was set on     *)
(* (block_header.hpp), and on the best block of all some producer may      *)
(* build, restarts included.                                               *)
WatermarksWork ==
    /\ part = "three" => Three!NoOverlap
    /\ part = "crash" => Crash!SomeoneCanProduce

(* Of all blocks of one number, on all branches, at most one collects the  *)
(* confirmations that make it proposed irreversible; where the node of one *)
(* producer restarts, at most one on the branches that nodes accept.  No   *)
(* branch takes back what it has proposed or made irreversible.            *)
ProposedUnique ==
    /\ part = "four" => Four!ProposedUnique
    /\ part = "one" => One!SettledUnique /\ One!NeverTakenBack

(* What one node holds irreversible no other node contradicts.             *)
Agreement == Outage!Agreement
=============================================================================

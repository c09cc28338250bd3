----------------------------- MODULE MCContracts -----------------------------
(***************************************************************************)
(* The system contract for TLC.  One part of the suite runs, with the      *)
(* actions that its properties are about:                                  *)
(*   "staking"  two accounts delegate to each other, unstake and get       *)
(*              refunds, some of which fail;                               *)
(*   "voting"   two accounts stake, vote and are proxies before the        *)
(*              chain is activated;                                        *)
(*   "pay"      two accounts elect one of two producers, which claim;      *)
(*   "names"    two accounts bid for two names.                            *)
(***************************************************************************)
EXTENDS SystemContract

CONSTANTS a1, a2, p1, p2, n1, n2

NetOrCpu == {<<1, 0>>, <<0, 1>>}
NetOnly == {<<2, 0>>}

Votes == INSTANCE SystemContract WITH
    Candidates <- {p1, p2}, Quantities <- NetOnly,
    RefundDelay <- 1, WeekLength <- 1, Launched <- FALSE, MayFail <- FALSE,
    MaxTime <- 2, MaxActivated <- 8, MinActivatedStake <- 5
Pay == INSTANCE SystemContract WITH
    Candidates <- {p1, p2}, Quantities <- NetOnly, RefundDelay <- 4,
    WeekLength <- 4, MaxElected <- 1, MayFail <- FALSE, MaxTime <- 1
Auction == INSTANCE SystemContract WITH
    Candidates <- {p1}, Names <- {n1, n2}, Quantities <- {}, Bids <- {1, 2},
    Funds <- 3, MayFail <- FALSE, MaxTime <- 4, MaxUnpaid <- 100

(* Accounts that only stake for themselves.                                *)
SelfStaking ==
    \E a \in Accounts :
      \/ \E q \in NetOnly : Votes!delegatebw(a, a, q, FALSE) \/ Votes!undelegatebw(a, a, q)
      \/ Votes!refund(a)

(* Accounts that stake and vote, without proxies.                          *)
StakeAndVote ==
    \/ \E a \in Accounts :
         \/ \E q \in NetOnly : Pay!delegatebw(a, a, q, FALSE)
         \/ \E ps \in SUBSET {p1, p2} : Pay!voteproducer(a, None, ps)
    \/ \E p \in {p1, p2} : Pay!RegisterProducer(p) \/ Pay!unregprod(p)

VARIABLE part

all == <<part, vars>>

MCInit ==
    /\ part \in {"staking", "voting", "pay", "names"}
    /\ CASE part = "voting" -> Votes!Init
         [] part = "pay" -> Pay!Init
         [] part = "names" -> Auction!Init
         [] OTHER -> Init

System(p, A) == part = p /\ A /\ UNCHANGED part

MCNext ==
    \/ System("staking", StakingNext \/ Tick)
    \/ System("voting", SelfStaking \/ Votes!VotingNext \/ Votes!Tick)
    \/ System("pay", StakeAndVote \/ Pay!BlockNext \/ Pay!PayNext \/ Pay!Tick)
    \/ System("names", Auction!BlockNext \/ Auction!NamesNext \/ Auction!Tick)

MCSpec == MCInit /\ [][MCNext]_all

(* What is staked is backed by tokens, the limits and the voting stake of  *)
(* an account are the sums of its delegations, and a scheduled refund does *)
(* not run before its request is due.                                      *)
StakingAddsUp ==
    /\ StakeIsBacked /\ LimitsMatchDelegations /\ VotingStakeMatches
    /\ part = "staking" => TypeOK /\ RefundWillSucceed

(* The votes of producers and proxies are the sums over their voters, no   *)
(* stake is activated twice, and what is owed to producers and for names   *)
(* is there.                                                               *)
VotesAddUp ==
    /\ VotesMatchVoters /\ ProxiesMatchVoters /\ NoCorruption
    /\ part = "voting" => Votes!ActivatedOnce
    /\ BucketsBacked /\ UnpaidMatch /\ NamesBacked
=============================================================================

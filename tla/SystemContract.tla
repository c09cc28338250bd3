--------------------------- MODULE SystemContract ---------------------------
(***************************************************************************)
(* The system contract: staking and refunds (delegate_bandwidth.cpp),      *)
(* votes (voting.cpp, counted by module Voting), producer pay and the      *)
(* election of producers (producer_pay.cpp), and auctions of account       *)
(* names (eosio.system.cpp).  An action that fails an assertion leaves no  *)
(* trace, so every assertion, also one of an inline token transfer, is a   *)
(* guard.                                                                  *)
(*                                                                         *)
(* One tick of now is a day; the blocks of one tick lie within a minute of *)
(* each other.  Amounts are whole units of the system token.               *)
(***************************************************************************)
EXTENDS Integers, Sequences, FiniteSets, FiniteSetsExt, SequencesExt, Voting

CONSTANTS
    Accounts,         \* accounts that stake, vote and bid
    Candidates,       \* accounts that register as producers
    Names,            \* names to bid for
    Quantities,       \* what one action stakes or unstakes: <<net, cpu>>
    Bids,             \* amounts to bid
    Funds,            \* tokens of an account at the start
    RefundDelay,      \* refund_delay: 3 days
    WeekLength,       \* ticks of the clock that count as a week
    ActivationDays,   \* 14: days from activation to the first closed auction
    IndexModulus,     \* 2^64: what an index key of a bid is cut to
    Inflation,        \* tokens that claimrewards issues for one tick
    MinPervotePay,    \* min_pervote_daily_pay
    MaxElected,       \* 21
    Launched,         \* whether others have already activated the chain
    MayFail,          \* whether a deferred refund may fail
    MaxTime,          \* bound on the clock
    MaxActivated,     \* bound on total_activated_stake, which may count a stake
                      \* again that was withdrawn after activation
    MaxUnpaid         \* bound on the blocks waiting for pay

ASSUME SystemAssumption ==
    /\ None \notin Accounts \cup Candidates
    /\ Quantities \subseteq (Nat \X Nat) \ {<<0, 0>>}
    /\ Bids \subseteq Nat \ {0}
    /\ \A b \in Bids : 2 * b < IndexModulus
    /\ {RefundDelay, WeekLength, MaxElected} \subseteq Nat \ {0}

VARIABLES
    now,        \* now() and current_time()
    balance,    \* token balances
    delband,    \* delegated bandwidth by <<from, to>>
    userres,    \* what is delegated to an account in all
    limits,     \* the limits the chain was told to apply
    refunds,    \* refund requests
    deferred,   \* when the scheduled refund of an account runs
    tally,      \* votes: see module Voting
    rewards,    \* buckets for producer pay
    election,   \* the last election and the schedule it proposed
    auction     \* name bids, names created, when one was last closed

vars == <<now, balance, delband, userres, limits, refunds, deferred, tally,
          rewards, election, auction>>
staking == <<delband, userres, limits, refunds, deferred>>

SystemAccounts ==
    {"eosio.stake", "eosio.names", "eosio.bpay", "eosio.vpay", "eosio.saving"}

Init ==
    /\ now = 0
    /\ balance = [a \in Accounts \cup Candidates \cup SystemAccounts |->
                    IF a \in Accounts THEN Funds ELSE 0]
    /\ delband = <<>>
    /\ userres = [a \in Accounts |-> [net |-> 0, cpu |-> 0]]
    /\ limits = userres
    /\ refunds = <<>>
    /\ deferred = <<>>
    /\ tally = [voters |-> <<>>, producers |-> <<>>, weight |-> 0,
                activated |-> IF Launched THEN MinActivatedStake ELSE 0,
                since |-> IF Launched THEN 0 ELSE NotYet]
    /\ rewards = [last_fill |-> NotYet, pervote |-> 0, perblock |-> 0,
                  unpaid |-> 0]
    /\ election = [last_update |-> -1, size |-> 0, schedule |-> {}]
    /\ auction = [bids |-> <<>>, created |-> {}, last_close |-> -2]
-----------------------------------------------------------------------------
factor == 1 + now \div WeekLength
IsActivated == tally.activated >= MinActivatedStake

Lookup(f, k, default) == IF k \in DOMAIN f THEN f[k] ELSE default
Erase(f, k) == [x \in DOMAIN f \ {k} |-> f[x]]
Zero == [net |-> 0, cpu |-> 0]

(* eosio.token::transfer, whose assertions are guards of its callers.      *)
Transfer(b, from, to, n) == [b EXCEPT ![from] = @ - n, ![to] = @ + n]

(* A row of a table with the deltas added.                                 *)
Weigh(row, net, cpu) == [net |-> row.net + net, cpu |-> row.cpu + cpu]

(* A row goes when nothing is left in it.  A row of userres also holds the *)
(* account's ram_bytes, which stay 0 here.                                 *)
Store(f, k, row) == IF row = Zero THEN Erase(f, k) ELSE Extend(f, k, row)

(* The refund request after stake_net_delta and stake_cpu_delta: what was  *)
(* unstaked is added, what is staked again is taken from it first.         *)
NewRefund(req, net, cpu) ==
    [net |-> Max({0, req.net - net}), cpu |-> Max({0, req.cpu - cpu}),
     request_time |-> IF net < 0 \/ cpu < 0 THEN now ELSE req.request_time]

Uncovered_pooled(req, net, cpu) ==
    Max({0, net + cpu - (req.net + req.cpu)})

(* What the refund request does not cover and the staker has to pay.       *)
Uncovered(req, net, cpu) ==
    Max({0, net - req.net}) + Max({0, cpu - req.cpu})

(* Whose row of the voters table changebw updates.                         *)
VoterOf(source, from) == from

(* When the scheduled refund will run, if the account already has one that *)
(* runs at old.                                                            *)
Scheduled(old) == now + RefundDelay

(* What the chain is told of an account's resources.                       *)
set_resource_limits(receiver, row) == [limits EXCEPT ![receiver] = row]

changebw(source, receiver, net, cpu, transfer) ==
    LET from == IF transfer THEN receiver ELSE source
        row == Weigh(Lookup(delband, <<from, receiver>>, Zero), net, cpu)
        total == Weigh(Lookup(userres, receiver, Zero), net, cpu)
        touches_refund == (~transfer /\ from = receiver) \/ net + cpu < 0
        none == [net |-> 0, cpu |-> 0, request_time |-> now]
        req == Lookup(refunds, from, none)
        after == NewRefund(req, net, cpu)
        is_left == touches_refund /\ after.net + after.cpu > 0
        pays == Uncovered(IF touches_refund THEN req ELSE none, net, cpu)
        voter == VoterOf(source, from)
        had == IF voter \in DOMAIN tally.voters
               THEN tally.voters[voter].staked ELSE 0
    IN /\ row.net >= 0 /\ row.cpu >= 0
       /\ total.net >= 0 /\ total.cpu >= 0
       /\ had + net + cpu >= 0
       /\ balance[source] >= pays
       /\ delband' = Store(delband, <<from, receiver>>, row)
       /\ userres' = Store(userres, receiver, total)
       /\ limits' = set_resource_limits(receiver, total)
       /\ refunds' = IF ~touches_refund THEN refunds
                     ELSE IF is_left THEN Extend(refunds, from, after)
                     ELSE Erase(refunds, from)
       /\ deferred' = IF is_left
                      THEN Extend(deferred, from,
                                  Scheduled(Lookup(deferred, from, NotYet)))
                      ELSE Erase(deferred, from)
       /\ balance' = Transfer(balance, source, "eosio.stake", pays)
       /\ tally' = ChangeStake(tally, voter, net + cpu, factor, now)
       /\ tally'.activated <= MaxActivated
       /\ UNCHANGED <<now, rewards, election, auction>>

delegatebw(from, receiver, q, transfer) ==
    /\ transfer => from # receiver
    /\ changebw(from, receiver, q[1], q[2], transfer)

undelegatebw(from, receiver, q) ==
    /\ IsActivated
    /\ changebw(from, receiver, -q[1], -q[2], FALSE)

CanRefund(owner) ==
    /\ owner \in DOMAIN refunds
    /\ refunds[owner].request_time + RefundDelay <= now

PayRefund(owner) ==
    /\ balance' = Transfer(balance, "eosio.stake", owner,
                           refunds[owner].net + refunds[owner].cpu)
    /\ refunds' = Erase(refunds, owner)

refund(owner) ==
    /\ CanRefund(owner)
    /\ balance["eosio.stake"] >= refunds[owner].net + refunds[owner].cpu
    /\ PayRefund(owner)
    /\ UNCHANGED <<now, delband, userres, limits, deferred, tally, rewards,
                   election, auction>>

(* The chain runs a scheduled refund; one that fails is gone all the same. *)
RunDeferred(owner) ==
    /\ owner \in DOMAIN deferred /\ deferred[owner] <= now
    /\ deferred' = Erase(deferred, owner)
    /\ \/ CanRefund(owner) /\ PayRefund(owner)
       \/ (MayFail \/ ~CanRefund(owner)) /\ UNCHANGED <<balance, refunds>>
    /\ UNCHANGED <<now, delband, userres, limits, tally, rewards, election,
                   auction>>
-----------------------------------------------------------------------------
(* Votes.                                                                  *)
voteproducer(voter, proxy, producers) ==
    /\ CanVote(tally, voter, proxy, producers, TRUE)
    /\ tally' = update_votes(tally, voter, proxy, producers, factor, now)
    /\ tally'.activated <= MaxActivated
    /\ UNCHANGED <<now, balance, staking, rewards, election, auction>>

RegisterProxy(a, isproxy) ==
    /\ CanRegproxy(tally, a, isproxy)
    /\ tally' = regproxy(tally, a, isproxy, factor)
    /\ UNCHANGED <<now, balance, staking, rewards, election, auction>>

RegisterProducer(p) ==
    /\ tally' = regproducer(tally, p)
    /\ UNCHANGED <<now, balance, staking, rewards, election, auction>>

(* unregprod by the producer, rmvproducer by the system account.           *)
unregprod(p) ==
    /\ p \in DOMAIN tally.producers
    /\ tally' = deactivate(tally, p)
    /\ UNCHANGED <<now, balance, staking, rewards, election, auction>>
-----------------------------------------------------------------------------
(* Elections: the producers in the order of the index by_votes.            *)
by_votes(p) ==
    IF tally.producers[p].is_active THEN -tally.producers[p].total_votes
    ELSE tally.producers[p].total_votes

VoteOrders ==
    {o \in SetToSeqs(DOMAIN tally.producers) :
       \A i, j \in DOMAIN o : i < j => by_votes(o[i]) <= by_votes(o[j])}

(* The loop takes producers until one has no votes or is not active.       *)
TopProducers(order) ==
    {order[i] : i \in {i \in 1 .. Min({MaxElected, Len(order)}) :
       \A j \in 1 .. i : /\ tally.producers[order[j]].total_votes > 0
                         /\ tally.producers[order[j]].is_active}}

(* set_proposed_producers of the chain may refuse the schedule.            *)
update_elected_producers ==
    \E order \in VoteOrders :
      LET top == TopProducers(order)
      IN \/ /\ Cardinality(top) >= election.size
            /\ election' = [last_update |-> now, size |-> Cardinality(top),
                            schedule |-> top]
         \/ election' = [election EXCEPT !.last_update = now]

(* The key of the index by_high_bid; a closed bid is negative.             *)
by_high_bid(b) == (-b.high_bid) % IndexModulus
HighestBids(bids) ==
    {n \in DOMAIN bids :
       \A m \in DOMAIN bids : by_high_bid(bids[n]) <= by_high_bid(bids[m])}

CanClose(b) ==
    /\ b.high_bid > 0
    /\ b.last_bid_time < now - 1
    /\ tally.since # NotYet
    /\ now - tally.since > ActivationDays

CloseAuction ==
    \E n \in HighestBids(auction.bids) :
      IF CanClose(auction.bids[n])
      THEN auction' = [auction EXCEPT
                         !.last_close = now,
                         !.bids[n].high_bid = -@]
      ELSE UNCHANGED auction

(* Before activation a block changes nothing.                              *)
onblock(producer) ==
    LET is_known == producer \in DOMAIN tally.producers
    IN /\ IsActivated
       /\ rewards.unpaid < MaxUnpaid
       /\ rewards' = [rewards EXCEPT
                        !.last_fill = IF @ = NotYet THEN now ELSE @,
                        !.unpaid = IF is_known THEN @ + 1 ELSE @]
       /\ tally' = IF is_known
                   THEN [tally EXCEPT !.producers[producer].unpaid_blocks = @ + 1]
                   ELSE tally
       /\ IF now > election.last_update
          THEN /\ update_elected_producers
               /\ IF now - auction.last_close > 1 /\ DOMAIN auction.bids # {}
                  THEN CloseAuction
                  ELSE UNCHANGED auction
          ELSE UNCHANGED <<election, auction>>
       /\ UNCHANGED <<now, balance, staking>>

(* Pay: the buckets are filled for the time since they last were, then     *)
(* the producer gets its shares of them.                                   *)
PerBlockPay(filled, p) ==
    IF filled.unpaid = 0 THEN 0
    ELSE (filled.perblock * tally.producers[p].unpaid_blocks) \div filled.unpaid

PerVotePay(filled, p) ==
    LET share == IF tally.weight = 0 THEN 0
                 ELSE (filled.pervote * tally.producers[p].total_votes)
                      \div tally.weight
    IN IF share < MinPervotePay THEN 0 ELSE share

(* What is left of the buckets and counters after a claim.                 *)
Deduct(filled, p, per_block, per_vote) ==
    [filled EXCEPT !.pervote = @ - per_vote,
                   !.perblock = @ - per_block,
                   !.unpaid = @ - tally.producers[p].unpaid_blocks]
claimrewards(p) ==
    LET last == tally.producers[p].last_claim_time
        elapsed == IF rewards.last_fill = NotYet THEN 0
                   ELSE now - rewards.last_fill
        new_tokens == Inflation * elapsed
        to_producers == new_tokens \div 5
        to_per_block == to_producers \div 4
        to_per_vote == to_producers - to_per_block
        filled == [rewards EXCEPT
                     !.pervote = @ + to_per_vote,
                     !.perblock = @ + to_per_block,
                     !.last_fill = IF elapsed > 0 THEN now ELSE @]
        per_block == PerBlockPay(filled, p)
        per_vote == PerVotePay(filled, p)
    IN /\ p \in DOMAIN tally.producers /\ tally.producers[p].is_active
       /\ IsActivated
       /\ last # NotYet => now - last > 1
       /\ elapsed > 0 => to_per_block > 0
       /\ rewards' = Deduct(filled, p, per_block, per_vote)
       /\ tally' = [tally EXCEPT !.producers[p].last_claim_time = now,
                                 !.producers[p].unpaid_blocks = 0]
       /\ LET issued == [balance EXCEPT
                           !["eosio.saving"] = @ + new_tokens - to_producers,
                           !["eosio.bpay"] = @ + to_per_block,
                           !["eosio.vpay"] = @ + to_per_vote]
          IN /\ issued["eosio.bpay"] >= per_block
             /\ issued["eosio.vpay"] >= per_vote
             /\ balance' = Transfer(Transfer(issued, "eosio.bpay", p, per_block),
                                    "eosio.vpay", p, per_vote)
       /\ UNCHANGED <<now, staking, election, auction>>
-----------------------------------------------------------------------------
(* Auctions of names.                                                      *)
Raises(b, bid) == bid - b.high_bid > b.high_bid \div 10

(* What the bidder who is outbid gets back.                                *)
Outbid(b, bid) == b.high_bid
bidname(bidder, n, bid) ==
    LET b == auction.bids[n]
        paid == Transfer(balance, bidder, "eosio.names", bid)
    IN /\ n \notin auction.created
       /\ balance[bidder] >= bid
       /\ IF n \in DOMAIN auction.bids
          THEN /\ b.high_bid > 0
               /\ Raises(b, bid)
               /\ b.high_bidder # bidder
               /\ paid["eosio.names"] >= Outbid(b, bid)
               /\ balance' = Transfer(paid, "eosio.names", b.high_bidder,
                                      Outbid(b, bid))
          ELSE balance' = paid
       /\ auction' = [auction EXCEPT !.bids =
                        Extend(@, n, [high_bidder |-> bidder, high_bid |-> bid,
                                      last_bid_time |-> now])]
       /\ UNCHANGED <<now, staking, tally, rewards, election>>

(* The winner of a closed auction creates the account.                     *)
newaccount(creator, n) ==
    /\ n \in DOMAIN auction.bids \ auction.created
    /\ auction.bids[n].high_bidder = creator
    /\ auction.bids[n].high_bid < 0
    /\ auction' = [auction EXCEPT !.bids = Erase(@, n),
                                  !.created = @ \cup {n}]
    /\ UNCHANGED <<now, balance, staking, tally, rewards, election>>

(* The system account needs no auction, and leaves the bid where it is.    *)
NewSystemAccount(n) ==
    /\ n \notin auction.created
    /\ auction' = [auction EXCEPT !.created = @ \cup {n}]
    /\ UNCHANGED <<now, balance, staking, tally, rewards, election>>

Tick ==
    /\ now < MaxTime
    /\ now' = now + 1
    /\ UNCHANGED <<balance, staking, tally, rewards, election, auction>>

StakingNext ==
    \/ \E a, r \in Accounts, q \in Quantities :
         \/ \E transfer \in BOOLEAN : delegatebw(a, r, q, transfer)
         \/ undelegatebw(a, r, q)
    \/ \E a \in Accounts : refund(a) \/ RunDeferred(a)

VotingNext ==
    \/ \E a \in Accounts, ps \in SUBSET Candidates : voteproducer(a, None, ps)
    \/ \E a, proxy \in Accounts : voteproducer(a, proxy, {})
    \/ \E a \in Accounts, b \in BOOLEAN : RegisterProxy(a, b)
    \/ \E p \in Candidates : RegisterProducer(p) \/ unregprod(p)

BlockNext == \E p \in Candidates : onblock(p)

PayNext == \E p \in Candidates : claimrewards(p)

NamesNext ==
    \/ \E a \in Accounts, n \in Names :
         \/ \E bid \in Bids : bidname(a, n, bid)
         \/ newaccount(a, n)
    \/ \E n \in Names : NewSystemAccount(n)

Next == StakingNext \/ VotingNext \/ BlockNext \/ PayNext \/ NamesNext \/ Tick

Spec == Init /\ [][Next]_vars
-----------------------------------------------------------------------------
Sum(f) == MapThenSumSet(LAMBDA x : f[x], DOMAIN f)
Amounts(f) == [x \in DOMAIN f |-> f[x].net + f[x].cpu]
Abs(n) == IF n < 0 THEN -n ELSE n

(* Tables hold rows of the right form: amounts are not negative and no     *)
(* empty delegation or refund is kept.                                     *)
TypeOK ==
    /\ now \in 0 .. MaxTime
    /\ balance \in [Accounts \cup Candidates \cup SystemAccounts -> Nat]
    /\ DOMAIN delband \subseteq Accounts \X Accounts
    /\ DOMAIN userres \subseteq Accounts
    /\ DOMAIN refunds \cup DOMAIN deferred \subseteq Accounts
    /\ \A f \in {delband, userres, limits, refunds} : \A k \in DOMAIN f :
         f[k].net \in Nat /\ f[k].cpu \in Nat
    /\ \A f \in {delband, refunds} : \A k \in DOMAIN f : f[k].net + f[k].cpu > 0
    /\ DOMAIN tally.voters \subseteq Accounts
    /\ DOMAIN tally.producers \subseteq Candidates
    /\ \A a \in DOMAIN tally.voters :
         /\ tally.voters[a].staked \in Nat
         /\ tally.voters[a].last_vote_weight \in Nat
         /\ tally.voters[a].proxied_vote_weight \in Nat
    /\ rewards.unpaid \in 0 .. MaxUnpaid
    /\ election.size = Cardinality(election.schedule)
    /\ DOMAIN auction.bids \cup auction.created \subseteq Names

(* eosio.stake holds exactly what is delegated and what waits for refund:  *)
(* staking again what is being refunded is paid from the refund, never     *)
(* twice and never from nothing (changebw, refund).                        *)
StakeIsBacked ==
    balance["eosio.stake"] = Sum(Amounts(delband)) + Sum(Amounts(refunds))

(* The limits the chain applies to an account are the sum of all           *)
(* delegations to it (changebw keeps userres and the limits by deltas).    *)
LimitsMatchDelegations ==
    \A a \in Accounts :
      LET rows == {<<f, a>> : f \in Accounts} \cap DOMAIN delband
      IN /\ limits[a].net = MapThenSumSet(LAMBDA k : delband[k].net, rows)
         /\ limits[a].cpu = MapThenSumSet(LAMBDA k : delband[k].cpu, rows)

(* An account votes with what it has delegated itself, also after stake    *)
(* was transferred to it (changebw with the transfer flag).                *)
VotingStakeMatches ==
    \A a \in Accounts :
      MapThenSumSet(LAMBDA k : delband[k].net + delband[k].cpu,
                    {k \in DOMAIN delband : k[1] = a})
      = (IF a \in DOMAIN tally.voters THEN tally.voters[a].staked ELSE 0)

(* A scheduled refund does not run before the request it is for is due;    *)
(* it would fail and be gone (changebw replaces it at every unstake).      *)
RefundWillSucceed ==
    \A a \in DOMAIN refunds \cap DOMAIN deferred :
      deferred[a] >= refunds[a].request_time + RefundDelay

(* The votes of every producer are what its voters last cast for it, and   *)
(* the total is their sum, although weights change with time, stakes with  *)
(* every changebw, and proxies come and go (update_votes,                  *)
(* propagate_weight_change).                                               *)
VotesMatchVoters ==
    /\ \A p \in DOMAIN tally.producers :
         tally.producers[p].total_votes = VotesFor(tally, p)
    /\ tally.weight = MapThenSumSet(LAMBDA p : tally.producers[p].total_votes,
                                    DOMAIN tally.producers)

(* A proxy holds what the accounts that chose it last cast.                *)
ProxiesMatchVoters ==
    \A a \in DOMAIN tally.voters :
      tally.voters[a].proxied_vote_weight = HeldBy(tally, a)

(* The assertions commented "data corruption" never fail: a proxy has no   *)
(* proxy of its own, and every proxy and producer of a vote has its row.   *)
NoCorruption ==
    \A a \in DOMAIN tally.voters :
      LET v == tally.voters[a]
      IN /\ v.is_proxy => v.proxy = None
         /\ v.proxy # None => v.proxy \in DOMAIN tally.voters /\ v.producers = {}
         /\ v.producers \subseteq DOMAIN tally.producers

(* Until the chain is activated no stake is counted twice as activated.    *)
ActivatedOnce ==
    ~IsActivated =>
      tally.activated <= MapThenSumSet(LAMBDA a : tally.voters[a].staked,
                                       DOMAIN tally.voters)

(* The two pay accounts hold exactly the buckets, and the buckets never    *)
(* pay out more than they have (claimrewards).                             *)
BucketsBacked ==
    /\ balance["eosio.bpay"] = rewards.perblock
    /\ balance["eosio.vpay"] = rewards.pervote

(* The blocks waiting for pay are those of the producers (onblock,         *)
(* claimrewards).                                                          *)
UnpaidMatch ==
    rewards.unpaid = MapThenSumSet(LAMBDA p : tally.producers[p].unpaid_blocks,
                                   DOMAIN tally.producers)

(* eosio.names can pay back every bid that stands: who is outbid gets      *)
(* exactly what they bid (bidname).                                        *)
NamesBacked ==
    balance["eosio.names"] >=
      MapThenSumSet(LAMBDA n : Abs(auction.bids[n].high_bid),
                    DOMAIN auction.bids)

Open == {n \in DOMAIN auction.bids : auction.bids[n].high_bid > 0}

=============================================================================

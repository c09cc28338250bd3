------------------------------- MODULE Voting -------------------------------
(***************************************************************************)
(* How the system contract counts votes (voting.cpp).  A record t holds    *)
(* the tables and totals that voting writes:                               *)
(*   voters     : the voters table, from account names to rows             *)
(*   producers  : the producers table                                      *)
(*   activated  : _gstate.total_activated_stake                            *)
(*   since      : _gstate.thresh_activated_stake_time, NotYet while unset  *)
(*   weight     : _gstate.total_producer_vote_weight                       *)
(*                                                                         *)
(* The weight of a stake, staked * 2 ^ (weeks / 52), grows from week to    *)
(* week; here it is the stake times a whole factor of the week, which      *)
(* keeps what matters: votes cast in different weeks weigh differently.    *)
(***************************************************************************)
EXTENDS Integers, FiniteSets, FiniteSetsExt

CONSTANTS
    None,              \* the empty account name
    NotYet,            \* no activation time yet
    MinActivatedStake, \* min_activated_stake
    MaxVotes           \* 30: the most producers one vote may name

NewVoter ==
    [proxy |-> None, producers |-> {}, staked |-> 0,
     last_vote_weight |-> 0, proxied_vote_weight |-> 0, is_proxy |-> FALSE]

NewProducer ==
    [total_votes |-> 0, is_active |-> TRUE, unpaid_blocks |-> 0,
     last_claim_time |-> NotYet]

Extend(f, k, v) == [x \in DOMAIN f \cup {k} |-> IF x = k THEN v ELSE f[x]]

stake2vote(staked, factor) == staked * factor

vote_weight(v, factor) ==
    stake2vote(v.staked, factor)
    + (IF v.is_proxy THEN v.proxied_vote_weight ELSE 0)

(* A change is added to each named producer and to the total once for each.*)
AddVotes(t, delta) ==
    [t EXCEPT
       !.producers = [p \in DOMAIN @ |->
          IF p \in DOMAIN delta
          THEN [@[p] EXCEPT !.total_votes = @ + delta[p]]
          ELSE @[p]],
       !.weight = @ + MapThenSumSet(LAMBDA p : delta[p],
                                    DOMAIN delta \cap DOMAIN t.producers)]

(* update_votes alone makes negative votes zero, of the producers whose    *)
(* votes it changes.                                                       *)
Clamp(t, changed) ==
    [t EXCEPT !.producers = [p \in DOMAIN @ |->
       IF p \in changed THEN [@[p] EXCEPT !.total_votes = Max({0, @})]
       ELSE @[p]]]

Negligible(delta) == delta \in -1 .. 1

(* The weight of account a is recomputed and the change is carried to the  *)
(* producers it votes for, or up the chain of proxies.                     *)
RECURSIVE propagate_weight_change(_, _, _)
propagate_weight_change(t, a, factor) ==
    LET v == t.voters[a]
        new == vote_weight(v, factor)
        delta == new - v.last_vote_weight
        carried ==
          IF Negligible(delta) THEN t
          ELSE IF v.proxy # None
          THEN propagate_weight_change(
                 [t EXCEPT !.voters[v.proxy].proxied_vote_weight = @ + delta],
                 v.proxy, factor)
          ELSE AddVotes(t, [p \in v.producers |-> delta])
    IN [carried EXCEPT !.voters[a].last_vote_weight = new]

(* The first vote of an account activates its stake.                       *)
Activate(t, a, now) ==
    LET v == t.voters[a]
        sum == t.activated + v.staked
    IN IF v.last_vote_weight > 0 THEN t
       ELSE [t EXCEPT !.activated = sum,
                      !.since = IF sum >= MinActivatedStake /\ @ = NotYet
                                THEN now ELSE @]

(* The old vote is taken back: from the old proxy at once, from the        *)
(* producers together with the new vote.                                   *)
LeaveProxy(t, a, factor) ==
    LET v == t.voters[a]
    IN IF v.last_vote_weight > 0 /\ v.proxy # None
       THEN propagate_weight_change(
              [t EXCEPT !.voters[v.proxy].proxied_vote_weight =
                 @ - v.last_vote_weight],
              v.proxy, factor)
       ELSE t

JoinProxy(t, proxy, new, factor) ==
    propagate_weight_change(
      [t EXCEPT !.voters[proxy].proxied_vote_weight = @ + new], proxy, factor)

producer_deltas_kept(v, producers, new) ==
    [p \in producers |->
       new - (IF p \in v.producers THEN v.last_vote_weight ELSE 0)]

(* producer_deltas: what is taken back and what is given, per producer.    *)
producer_deltas(v, producers, new) ==
    LET old == IF v.last_vote_weight > 0 /\ v.proxy = None
               THEN v.producers ELSE {}
    IN [p \in old \cup producers |->
          (IF p \in producers THEN new ELSE 0)
          - (IF p \in old THEN v.last_vote_weight ELSE 0)]

(* What update_votes asserts.                                              *)
CanVote(t, a, proxy, producers, voting) ==
    /\ proxy # None => producers = {} /\ a # proxy
    /\ Cardinality(producers) <= MaxVotes
    /\ a \in DOMAIN t.voters
    /\ proxy # None =>
         /\ ~t.voters[a].is_proxy
         /\ proxy \in DOMAIN t.voters
         /\ voting => t.voters[proxy].is_proxy
    /\ producers \subseteq DOMAIN t.producers
    /\ voting => \A p \in producers : t.producers[p].is_active

update_votes(t, a, proxy, producers, factor, now) ==
    LET v == t.voters[a]
        new == vote_weight(v, factor)
        left == LeaveProxy(Activate(t, a, now), a, factor)
        joined == IF proxy # None THEN JoinProxy(left, proxy, new, factor)
                  ELSE left
        deltas == producer_deltas(v, producers, new)
        counted == Clamp(AddVotes(joined, deltas), DOMAIN deltas)
    IN [counted EXCEPT !.voters[a].last_vote_weight = new,
                       !.voters[a].producers = producers,
                       !.voters[a].proxy = proxy]

CanRegproxy(t, a, isproxy) ==
    a \in DOMAIN t.voters =>
      /\ isproxy # t.voters[a].is_proxy
      /\ isproxy => t.voters[a].proxy = None

regproxy(t, a, isproxy, factor) ==
    IF a \in DOMAIN t.voters
    THEN propagate_weight_change([t EXCEPT !.voters[a].is_proxy = isproxy],
                                 a, factor)
    ELSE [t EXCEPT !.voters = Extend(@, a, [NewVoter EXCEPT !.is_proxy = isproxy])]

(* The part of changebw that changes an account's voting power.            *)
ChangeStake(t, a, total_update, factor, now) ==
    LET row == IF a \in DOMAIN t.voters THEN t.voters[a] ELSE NewVoter
        staked == [t EXCEPT !.voters =
                     Extend(@, a, [row EXCEPT !.staked = @ + total_update])]
    IN IF row.producers # {} \/ row.proxy # None
       THEN update_votes(staked, a, row.proxy, row.producers, factor, now)
       ELSE staked

deactivate(t, p) == [t EXCEPT !.producers[p].is_active = FALSE]

regproducer(t, p) ==
    [t EXCEPT !.producers =
       Extend(@, p, IF p \in DOMAIN @ THEN [@[p] EXCEPT !.is_active = TRUE]
                    ELSE NewProducer)]
-----------------------------------------------------------------------------
(* The votes that one producer has, and that one proxy holds, counted from *)
(* what every voter last cast.                                             *)
VotesFor(t, p) ==
    MapThenSumSet(LAMBDA a : t.voters[a].last_vote_weight,
                  {a \in DOMAIN t.voters : p \in t.voters[a].producers})

HeldBy(t, proxy) ==
    MapThenSumSet(LAMBDA a : t.voters[a].last_vote_weight,
                  {a \in DOMAIN t.voters : t.voters[a].proxy = proxy})
=============================================================================

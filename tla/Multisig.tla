------------------------------ MODULE Multisig ------------------------------
(***************************************************************************)
(* The contract eosio.msig: transactions that are proposed, approved by    *)
(* the permissions they need, and sent as deferred transactions.           *)
(*                                                                         *)
(* A proposal is found by its proposer and its name.  A transaction is its *)
(* content and how long it is good for.  The authority it needs is a       *)
(* number of Levels, which its owner may change at any time.  Those who    *)
(* approve look at the proposal first and sign later.                      *)
(***************************************************************************)
EXTENDS Integers, FiniteSets

CONSTANTS
    Proposers, Names,  \* accounts, and names of proposals
    Withdrawing,       \* the proposers that cancel proposals of their own
    Levels,            \* the permission levels that may be asked
    Contents,          \* what a transaction may say
    MaxAsked,          \* bound on how often a proposal asks the same level
    MaxTime,           \* bound on the clock
    None               \* no row in a table

Keys == [proposer : Proposers, name : Names]
Trxs == [content : Contents, expiration : 1..MaxTime]

\* approvals_info: how often each level is on either list
Lists == [requested : [Levels -> Nat], provided : [Levels -> Nat]]

ASSUME MultisigAssumption ==
    /\ IsFiniteSet(Levels) /\ Levels # {}
    /\ Withdrawing \subseteq Proposers
    /\ {MaxAsked, MaxTime} \subseteq Nat \ {0}
    /\ None \notin Trxs /\ None \notin Lists

VARIABLES
    now,        \* the clock
    threshold,  \* how many levels the transactions' authority needs
    proposals,  \* the proposed transaction of each key
    approvals,  \* requested_approvals and provided_approvals, how often each
    deferred,   \* the deferred transactions of the contract, by sender id
    seen,       \* what each level has last read of each proposal
    meant,      \* what each level had read when it approved
    asked,      \* the levels each proposal has asked for
    sent        \* how often each proposal has been sent since it was made

tables == <<proposals, approvals>>
ghosts == <<seen, meant, asked, sent>>
vars == <<now, threshold, tables, deferred, ghosts>>

Nobody == [l \in Levels |-> 0]

\* The authorization manager's answer for a list of levels; it makes a set of
\* the list.
check_transaction_authorization(list) ==
    Cardinality({l \in Levels : list[l] > 0}) >= threshold

Init ==
    /\ now = 1
    /\ threshold \in 1..Cardinality(Levels)
    /\ proposals = [k \in Keys |-> None]
    /\ approvals = [k \in Keys |-> None]
    /\ deferred = [k \in Keys |-> None]
    /\ seen = [k \in Keys |-> [l \in Levels |-> None]]
    /\ meant = seen
    /\ asked = [k \in Keys |-> Nobody]
    /\ sent = [k \in Keys |-> 0]

----------------------------------------------------------------------------
(* Actions of the contract *)

\* The permissions the transaction needs are tried on the list that is asked.
propose(k, trx, requested) ==
    /\ trx.expiration >= now
    /\ proposals[k] = None /\ approvals[k] = None
    /\ check_transaction_authorization(requested)
    /\ proposals' = [proposals EXCEPT ![k] = trx]
    /\ approvals' = [approvals EXCEPT ![k] =
                        [requested |-> requested, provided |-> Nobody]]
    /\ asked' = [asked EXCEPT ![k] = requested]
    /\ sent' = [sent EXCEPT ![k] = 0]
    /\ meant' = [meant EXCEPT ![k] = [l \in Levels |-> None]]
    /\ UNCHANGED <<now, threshold, deferred, seen>>

\* A level approves what it has read; the action only names the proposal.
approve(k, l) ==
    /\ approvals[k] # None /\ approvals[k].requested[l] > 0
    /\ seen[k][l] # None
    /\ approvals' = [approvals EXCEPT ![k].provided[l] = @ + 1,
                                      ![k].requested[l] = @ - 1]
    /\ meant' = [meant EXCEPT ![k][l] = seen[k][l]]
    /\ UNCHANGED <<now, threshold, proposals, deferred, seen, asked, sent>>

\* Mutant: the approval stays on the list.
unapprove_keeps(k, l) ==
    /\ approvals[k] # None /\ approvals[k].provided[l] > 0
    /\ meant' = [meant EXCEPT ![k][l] =
                    IF approvals[k].provided[l] = 1 THEN None ELSE @]
    /\ UNCHANGED <<now, threshold, tables, deferred, seen, asked, sent>>

unapprove(k, l) ==
    /\ approvals[k] # None /\ approvals[k].provided[l] > 0
    /\ approvals' = [approvals EXCEPT ![k].provided[l] = @ - 1,
                                      ![k].requested[l] = @ + 1]
    /\ meant' = [meant EXCEPT ![k][l] =
                    IF approvals[k].provided[l] = 1 THEN None ELSE @]
    /\ UNCHANGED <<now, threshold, proposals, deferred, seen, asked, sent>>

erase(k) ==
    /\ proposals' = [proposals EXCEPT ![k] = None]
    /\ approvals' = [approvals EXCEPT ![k] = None]

cancel(k, canceler) ==
    /\ proposals[k] # None /\ approvals[k] # None
    /\ canceler # k.proposer => proposals[k].expiration < now
    /\ erase(k)
    /\ UNCHANGED <<now, threshold, deferred, ghosts>>

\* Mutant: the proposal stays after it has been sent.
exec_keeps(k) ==
    /\ proposals[k] # None /\ approvals[k] # None
    /\ proposals[k].expiration >= now
    /\ check_transaction_authorization(approvals[k].provided)
    /\ deferred[k] = None
    /\ deferred' = [deferred EXCEPT ![k] = proposals[k]]
    /\ sent' = [sent EXCEPT ![k] = @ + 1]
    /\ UNCHANGED <<now, threshold, tables, seen, meant, asked>>

\* A deferred transaction with the same sender id that is still waiting makes
\* send_deferred fail, and exec with it.
exec(k) ==
    /\ proposals[k] # None /\ approvals[k] # None
    /\ proposals[k].expiration >= now
    /\ check_transaction_authorization(approvals[k].provided)
    /\ deferred[k] = None
    /\ deferred' = [deferred EXCEPT ![k] = proposals[k]]
    /\ sent' = [sent EXCEPT ![k] = @ + 1]
    /\ erase(k)
    /\ UNCHANGED <<now, threshold, seen, meant, asked>>

----------------------------------------------------------------------------
(* What happens around it *)

Tick ==
    /\ now < MaxTime
    /\ now' = now + 1
    /\ UNCHANGED <<threshold, tables, deferred, ghosts>>

\* The owner of the authority changes it (updateauth).
UpdateAuth ==
    /\ threshold' \in (1..Cardinality(Levels)) \ {threshold}
    /\ UNCHANGED <<now, tables, deferred, ghosts>>

\* Somebody who holds a level reads the proposal and decides to approve it.
Look(k, l) ==
    /\ proposals[k] # None
    /\ seen' = [seen EXCEPT ![k][l] = proposals[k]]
    /\ UNCHANGED <<now, threshold, tables, deferred, meant, asked, sent>>

\* The deferred transaction has been executed, has failed or has expired.
Retire(k) ==
    /\ deferred[k] # None
    /\ deferred' = [deferred EXCEPT ![k] = None]
    /\ UNCHANGED <<now, threshold, tables, ghosts>>

\* Somebody other than any proposer
Other == [other |-> TRUE]

Next ==
    \/ Tick
    \/ UpdateAuth
    \/ \E k \in Keys :
          \/ \E trx \in Trxs, req \in [Levels -> 0..MaxAsked] :
                propose(k, trx, req)
          \/ \E l \in Levels : approve(k, l) \/ unapprove(k, l) \/ Look(k, l)
          \/ \E c \in (Withdrawing \cap {k.proposer}) \cup {Other} : cancel(k, c)
          \/ exec(k)
          \/ Retire(k)

Spec == Init /\ [][Next]_vars

----------------------------------------------------------------------------
(* Properties *)

\* The two tables hold the same proposals, and each level a proposal has asked
\* for is on exactly one of its lists as often as it was asked, whatever
\* approve, unapprove, cancel and exec have done in between.
ApprovalsConserved ==
    \A k \in Keys :
       /\ proposals[k] = None <=> approvals[k] = None
       /\ proposals[k] # None =>
             \A l \in Levels : approvals[k].requested[l] +
                               approvals[k].provided[l] = asked[k][l]

\* exec sends a transaction only while enough levels, by the authority as it is
\* now, have approved this very proposal and not taken it back; approvals of an
\* earlier proposal with the same name do not count.
SendsWithConsent ==
    \A k \in Keys : sent'[k] > sent[k] =>
       Cardinality({l \in Levels : meant[k][l] # None}) >= threshold

SentWithConsent == [][SendsWithConsent]_vars

\* A proposal is sent once, also when its deferred transaction has long gone,
\* and its lists add up.
SentOnce == ApprovalsConserved /\ \A k \in Keys : sent[k] <= 1

=============================================================================

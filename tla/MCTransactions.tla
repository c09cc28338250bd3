---------------------------- MODULE MCTransactions ----------------------------
(***************************************************************************)
(* TransactionFlow and DeferredTransactions for TLC.  One part of the      *)
(* suite runs, the others stay in their initial state.                     *)
(*   "producer"  a node with producers: two signed forms of a transaction  *)
(*               and another one, sent by two requests;                    *)
(*   "relay"     the same on a node without producers;                     *)
(*   "queue"     blocks that are full of scheduled transactions;           *)
(*   "deferred"  contracts and delayed transactions schedule, cancel and   *)
(*               run deferred transactions;                                *)
(*   "replaced"  blocks of other nodes replace them as well.               *)
(***************************************************************************)
EXTENDS TransactionFlow

CONSTANTS a1, a2, b1, ida, idb, ra, rb

MCIdOf == a1 :> ida @@ a2 :> ida @@ b1 :> idb
MCExpiration == ida :> 2 @@ idb :> 4
MCTrxOf == ra :> a1 @@ rb :> b1

Relay == INSTANCE TransactionFlow WITH HasProducers <- FALSE
Queue == INSTANCE TransactionFlow WITH
    Persist <- {ra}, MaxScheduled <- 2, MaxClock <- 0, MaxBlocks <- 2

CONSTANTS k1, d1, t1, t2, t3, payer, payee

VARIABLES part, base, db, block, blacklist

Deferred == INSTANCE DeferredTransactions WITH
    Keys <- {k1, d1}, Delayed <- {d1}, TrxIds <- {t1, t2, t3}, Payers <- {payer},
    MaxDelay <- 1, Window <- 2, MaxReplaced <- 0
Replaced == INSTANCE DeferredTransactions WITH
    Keys <- {k1, d1}, Delayed <- {d1}, TrxIds <- {t1, t2}, Payers <- {payer, payee},
    MaxDelay <- 1, Window <- 1, MaxReplaced <- 2

ASSUME Deferred!DeferredAssumption /\ Replaced!DeferredAssumption

defers == <<base, db, block, blacklist>>
all == <<part, vars, defers>>

MCInit ==
    /\ Init
    /\ \/ part \in {"producer", "relay", "queue", "deferred"} /\ Deferred!Init
       \/ part = "replaced" /\ Replaced!Init

MCNext ==
    \/ part = "producer" /\ Next /\ UNCHANGED <<part, defers>>
    \/ part = "relay" /\ Relay!Next /\ UNCHANGED <<part, defers>>
    \/ part = "queue" /\ Queue!Next /\ UNCHANGED <<part, defers>>
    \/ part = "deferred" /\ Deferred!Next /\ UNCHANGED <<part, vars>>
    \/ part = "replaced" /\ Replaced!Next /\ UNCHANGED <<part, vars>>

Runs(A) == part = "deferred" /\ A /\ UNCHANGED <<part, vars>>

MCSpec ==
    /\ MCInit /\ [][MCNext]_all
    /\ WF_all(Runs(Deferred!Skip \/ Deferred!RunScheduled \/ Deferred!Exhausted))
    /\ SF_all(Runs(Deferred!start_block("producing")))
    /\ SF_all(Runs(Deferred!RunScheduled))
    /\ SF_all(Runs(Deferred!CommitRetired))

(* A transaction that a node accepted stays in the chain, the pending      *)
(* block or the unapplied ones until it fails or expires, on a node with   *)
(* producers and, if it came with the persist flag, on one without.        *)
AcceptedKept == IF part = "relay" THEN Relay!AcceptedNotLost ELSE AcceptedNotLost


(* Every deferred transaction is retired or cancelled in the end, whatever *)
(* failed, was blacklisted or found the block full.                        *)
EventuallyRetired == part = "deferred" => Deferred!EventuallyRetired
=============================================================================

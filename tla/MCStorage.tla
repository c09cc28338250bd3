------------------------------ MODULE MCStorage ------------------------------
(***************************************************************************)
(* What nodes keep outside of the chain's database, for TLC: MongoQueue,   *)
(* BlockLog and WalletManager.  One part of the suite runs, the others     *)
(* stay in their initial state.                                            *)
(*   "export"    four blocks go to the database and the plugin is shut     *)
(*               down at any time;                                         *)
(*   "live"      three blocks, and nobody shuts the plugin down;           *)
(*   "crash"     a block log whose process dies up to three times;         *)
(*   "power"     a block log of a node that may start from a snapshot, and *)
(*               that loses the ends of its files in power failures;       *)
(*   "wallets"   two wallets, their files, and timeouts that change;       *)
(*   "idle"      a wallet of two keys that is not used for a while.        *)
(***************************************************************************)
EXTENDS MongoQueue

Live == INSTANCE MongoQueue WITH StartBlock <- 1, LastBlock <- 3, ShutsDown <- FALSE

VARIABLES log, index, lbuf, ibuf, my, phase, appended, crashes

Log == INSTANCE BlockLog WITH
    MaxBlock <- 5, Snapshots <- {}, MaxCrashes <- 3, MaxLost <- 0
Power == INSTANCE BlockLog WITH
    MaxBlock <- 5, Snapshots <- {2}, MaxCrashes <- 2, MaxLost <- 4

VARIABLES now, timer, wallets, files, passwords, promised, call

CONSTANTS w1, w2, k1, k2

Wallets == INSTANCE WalletManager WITH
    Name <- {w1, w2}, Key <- {k1}, Timeout <- 2, NewTimeouts <- {1, 99},
    Huge <- 99, MaxTime <- 2, MaxPasswords <- 2
Idle == INSTANCE WalletManager WITH
    Name <- {w1}, Key <- {k1, k2}, Timeout <- 2, NewTimeouts <- {},
    Huge <- 99, MaxTime <- 6, MaxPasswords <- 2

ASSUME Log!LogAssumption /\ Power!LogAssumption
    /\ Wallets!WalletAssumption /\ Idle!WalletAssumption

VARIABLE part

blocks == <<log, index, lbuf, ibuf, my, phase, appended, crashes>>
purse == <<now, timer, wallets, files, passwords, promised, call>>
all == <<part, vars, blocks, purse>>

MCInit ==
    /\ part \in {"export", "live", "crash", "power", "wallets", "idle"}
    /\ Log!Init
    /\ IF part = "live" THEN Live!Init ELSE Init
    /\ IF part = "idle" THEN Idle!Init ELSE Wallets!Init

MCNext ==
    \/ part = "export" /\ Next /\ UNCHANGED <<part, blocks, purse>>
    \/ part = "live" /\ Live!Next /\ UNCHANGED <<part, blocks, purse>>
    \/ part = "crash" /\ Log!Next /\ UNCHANGED <<part, vars, purse>>
    \/ part = "power" /\ Power!Next /\ UNCHANGED <<part, vars, purse>>
    \/ part = "wallets" /\ Wallets!Next /\ UNCHANGED <<part, vars, blocks>>
    \/ part = "idle" /\ Idle!Next /\ UNCHANGED <<part, vars, blocks>>

Thread(A) == part = "live" /\ A /\ UNCHANGED <<part, blocks, purse>>

MCSpec ==
    /\ MCInit /\ [][MCNext]_all
    /\ WF_all(Thread(Live!Main)) /\ WF_all(Thread(Live!Consumer))

(* What the chain signals is stored in the end, even if it comes while the *)
(* consumer is about to wait or the queue is full.                         *)
SignalledIsStored == part = "live" => Live!EventuallyStored

(* The block log: every block from the first to the head is found through  *)
(* the index at its position, a block whose append returned survives the   *)
(* death of the process, and the next append finds the index in step.      *)
LogIntact ==
    /\ Log!ReadsBack /\ Log!AppendNeverFails
    /\ part = "crash" => Log!NothingLost

(* The wallets: files hold the keys that calls acknowledged, the last      *)
(* password opens them, and a pause as long as the timeout locks them.     *)
WalletsSafe ==
    /\ part = "wallets" => Wallets!KeysKept /\ Wallets!PasswordOpens
    /\ part = "idle" => Idle!KeysKept /\ Idle!IdleLocks
=============================================================================

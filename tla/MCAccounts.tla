----------------------------- MODULE MCAccounts -----------------------------
(***************************************************************************)
(* What an account may do and use, for TLC: ResourceLimits, ResourceReplay,*)
(* AuthorityChecker, Authorization and Multisig.  One part of the suite    *)
(* runs, the others stay in their initial state.                           *)
(*   "billing"  two accounts with and without stake, one of them on the    *)
(*              producer's greylist, and block limits that change;         *)
(*   "memory"   memory limits that rise and fall in transactions of two    *)
(*              operations, an account that is created, and a clock that   *)
(*              is set back;                                               *)
(*   "replay"   a block goes to another node within a day;                 *)
(*   "midnight" the same over the end of a day (OvernightSpec only);       *)
(*   "circles"  two permissions that may refer to each other, with waits;  *)
(*   "shared"   three permissions, and limits on the depth;                *)
(*   "tree"     the permissions and links of one account, in transactions  *)
(*              of two actions;                                            *)
(*   "signup"   an account creates another, and what both are billed;      *)
(*   "lists"    a proposal that asks two levels up to two times, whose     *)
(*              proposer may cancel it.                                    *)
(***************************************************************************)
EXTENDS Multisig, Sequences

CONSTANTS a1, a2, p1, p2, p3, k1, k2, alice, msig, level1, level2, content

VARIABLES db, slot, block_num, time, corrections, outcome,
          receipts, block, replica, verdict

Row(ram, w) == [ram |-> ram, weight |-> [x \in {"cpu"} |-> w]]

Billing == INSTANCE ResourceLimits WITH
    now <- time,
    Accounts <- {a1, a2}, Genesis <- {a1, a2}, Payers <- {a1, a2},
    Resources <- {"cpu"}, Precision <- 4, Window <- 3, Periods <- 2,
    Multiplier <- 2, ContractRate <- <<1, 2>>, ExpandRate <- <<2, 1>>,
    TargetRate <- <<1, 2>>, BlockMax <- {1, 2}, FirstMax <- 2,
    MaxTransaction <- 2, FreeLimit <- 0, DayLength <- 100, Greylist <- {a2},
    LimitRows <- {Row(-1, -1), Row(-1, 1)}, RamDeltas <- {}, AccountRam <- 1,
    Uses <- {1}, MaxOps <- 1, MaxSlot <- 3, MaxClock <- 4,
    MaxCorrections <- 0

Memory == INSTANCE ResourceLimits WITH
    now <- time,
    Accounts <- {a1, a2}, Genesis <- {a1}, Payers <- {a1},
    Resources <- {"cpu"}, Precision <- 4, Window <- 3, Periods <- 2,
    Multiplier <- 2, ContractRate <- <<1, 2>>, ExpandRate <- <<2, 1>>,
    TargetRate <- <<1, 2>>, BlockMax <- {2}, FirstMax <- 2,
    MaxTransaction <- 2, FreeLimit <- 0, DayLength <- 100, Greylist <- {},
    LimitRows <- {Row(2, 1), Row(1, 1)}, RamDeltas <- {1, -1}, AccountRam <- 1,
    Uses <- {1}, MaxOps <- 2, MaxSlot <- 2, MaxClock <- 2,
    MaxCorrections <- 1

Replay == INSTANCE ResourceReplay WITH
    now <- time,
    Accounts <- {a1, a2}, Genesis <- {a1, a2}, Payers <- {a1},
    Resources <- {"cpu"}, Precision <- 4, Window <- 3, Periods <- 2,
    Multiplier <- 2, ContractRate <- <<1, 2>>, ExpandRate <- <<2, 1>>,
    TargetRate <- <<1, 2>>, BlockMax <- {2}, FirstMax <- 2,
    MaxTransaction <- 2, FreeLimit <- 0, DayLength <- 100, Greylist <- {a1},
    LimitRows <- {Row(-1, 0), Row(-1, 1)}, RamDeltas <- {}, AccountRam <- 1,
    Uses <- {1, 2}, MaxOps <- 1, MaxSlot <- 3, MaxClock <- 4,
    MaxCorrections <- 0

Midnight == INSTANCE ResourceReplay WITH
    now <- time,
    Accounts <- {a1, a2}, Genesis <- {a1, a2}, Payers <- {a1},
    Resources <- {"cpu"}, Precision <- 4, Window <- 3, Periods <- 2,
    Multiplier <- 2, ContractRate <- <<1, 2>>, ExpandRate <- <<2, 1>>,
    TargetRate <- <<1, 2>>, BlockMax <- {2}, FirstMax <- 2,
    MaxTransaction <- 2, FreeLimit <- 1, DayLength <- 3, Greylist <- {},
    LimitRows <- {Row(-1, 0), Row(-1, 1)}, RamDeltas <- {}, AccountRam <- 1,
    Uses <- {1}, MaxOps <- 1, MaxSlot <- 3, MaxClock <- 6,
    MaxCorrections <- 0

VARIABLES table, keys, provided, delay, declared, depth_limit,
          left, cache, used, returned, stack, result

Circles == INSTANCE AuthorityChecker WITH
    Permissions <- {p1, p2}, Keys <- {k1}, Waits <- {1},
    FactorOrder <- <<1, k1, p1, p2>>,
    MaxFactors <- 2, Weights <- {1, 2}, Thresholds <- {1, 3},
    KeySets <- {{}, {k1}}, ProvidedSets <- {{}, {p2}}, Delays <- {0, 1},
    Declarations <- {<<p1>>, <<p1, p2>>}, DepthLimits <- {6}

Shared == INSTANCE AuthorityChecker WITH
    Permissions <- {p1, p2, p3}, Keys <- {k1, k2}, Waits <- {},
    FactorOrder <- <<k1, k2, p1, p2, p3>>,
    MaxFactors <- 2, Weights <- {1}, Thresholds <- {1, 2},
    KeySets <- {{k1}, {k1, k2}}, ProvidedSets <- {{}}, Delays <- {0},
    Declarations <- {<<p1>>}, DepthLimits <- {1, 3}

VARIABLE auth

Tree == INSTANCE Authorization WITH
    db <- auth, AccountNames <- {"alice"}, FirstAccounts <- {"alice"},
    OtherNames <- {"x", "y"}, Codes <- {"token"}, Types <- {}, Sizes <- {1},
    MaxPermissions <- 5, MaxActions <- 2

Signup == INSTANCE Authorization WITH
    db <- auth, AccountNames <- {"alice", "bob"}, FirstAccounts <- {"alice"},
    OtherNames <- {"x"}, Codes <- {"token"}, Types <- {}, Sizes <- {1, 2},
    MaxPermissions <- 5, MaxActions <- 1

ASSUME Billing!ResourceAssumption /\ Memory!ResourceAssumption
    /\ Replay!ResourceAssumption /\ Midnight!ResourceAssumption
    /\ Circles!CheckerAssumption /\ Shared!CheckerAssumption
    /\ Tree!AuthorizationAssumption /\ Signup!AuthorizationAssumption

VARIABLE part

meter == <<db, slot, block_num, time, corrections, outcome>>
other == <<receipts, block, replica, verdict>>
check == <<table, keys, provided, delay, declared, depth_limit,
           left, cache, used, returned, stack, result>>
all == <<part, meter, other, check, auth, vars>>

Unchecked ==
    /\ table = <<>> /\ keys = {} /\ provided = {} /\ delay = 0
    /\ declared = <<>> /\ depth_limit = 1 /\ left = <<>> /\ cache = <<>>
    /\ used = {} /\ returned = {} /\ stack = <<>> /\ result = "none"

Start ==
    /\ IF part = "memory" THEN Memory!Init ELSE Billing!Init
    /\ receipts = <<>> /\ block = Replay!NoBlock /\ replica = db /\ verdict = "none"
    /\ \/ part = "circles" /\ Circles!Init
       \/ part = "shared" /\ Shared!Init
       \/ part \notin {"circles", "shared"} /\ Unchecked
    /\ IF part = "signup" THEN Signup!Init ELSE Tree!Init
    /\ Init /\ (part # "lists" => threshold = 1)

MCInit ==
    /\ part \in {"billing", "memory", "replay", "circles", "shared", "tree", "signup", "lists"}
    /\ Start

MCNext ==
    \/ part = "billing" /\ Billing!Next /\ UNCHANGED <<part, other, check, auth, vars>>
    \/ part = "memory" /\ Memory!Next /\ UNCHANGED <<part, other, check, auth, vars>>
    \/ part = "replay" /\ Replay!ReplayNext /\ UNCHANGED <<part, check, auth, vars>>
    \/ part = "circles" /\ Circles!Next /\ UNCHANGED <<part, meter, other, auth, vars>>
    \/ part = "shared" /\ Shared!Next /\ UNCHANGED <<part, meter, other, auth, vars>>
    \/ part = "tree" /\ Tree!Next /\ UNCHANGED <<part, meter, other, check, vars>>
    \/ part = "signup" /\ Signup!Next /\ UNCHANGED <<part, meter, other, check, vars>>
    \/ part = "lists" /\ Next /\ UNCHANGED <<part, meter, other, check, auth>>

MCSpec == MCInit /\ [][MCNext]_all

OvernightSpec ==
    /\ part = "midnight" /\ Start
    /\ [][Midnight!ReplayNext /\ UNCHANGED <<part, check, auth, vars>>]_all

(* The totals that shares are computed from are the sums of the limits in  *)
(* force, a block's usage and its virtual limit stay in their bounds, no   *)
(* account uses more memory than its limit, and once the checks of         *)
(* transaction_context::finalize have passed add_transaction_usage finds   *)
(* no limit exceeded, and throws only if the clock was set back.           *)
LimitsHold ==
    /\ part = "billing" => /\ Billing!TypeOK /\ Billing!TotalsMatch
                           /\ Billing!BlockWithinLimits
                           /\ Billing!BillingNeverFails
    /\ part = "memory" => /\ Memory!TypeOK /\ Memory!RamWithinLimit
                          /\ Memory!TotalsMatch /\ Memory!BlockWithinLimits
                          /\ Memory!BillingNeverFails

(* A block that the producer makes is accepted by every node, although     *)
(* the producer has limits of its own for greylisted accounts, and leaves  *)
(* both with the same tables.                                              *)
BlockAccepted == Replay!BlockAccepted /\ (part = "replay" => Replay!SameTables)

(* A transaction is accepted only if its keys and its delay satisfy every  *)
(* permission it declares, circles and cut paths included; without circles *)
(* and within the depth limit it is not refused if it has the keys, nor    *)
(* for a key it needs, unless that key was given back on the way; and a    *)
(* permission is evaluated once at a time.                                 *)
ChecksRight ==
    /\ part = "circles" => Circles!Sound /\ Circles!NoReentry
    /\ part = "shared" => Shared!TypeOK /\ Shared!Sound /\ Shared!Complete

(* The permissions of an account are a tree under owner, whatever is       *)
(* deleted and created again; a permission that the account itself had     *)
(* when it linked an action to it stays as long as the link; and the       *)
(* account is billed for what it, its permissions and its links take up.   *)
PermissionsConsistent ==
    /\ part = "tree" => Tree!TreeUnderOwner /\ Tree!LinkedPermissionKept
    /\ part = "signup" => /\ Signup!BilledForWhatThereIs
                          /\ Signup!LinkedPermissionKept
=============================================================================

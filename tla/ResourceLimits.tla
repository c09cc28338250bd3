--------------------------- MODULE ResourceLimits ---------------------------
(***************************************************************************)
(* Limits on CPU time, network bandwidth and memory                        *)
(* (resource_limits.cpp), the transactions free of limits that every       *)
(* account has each day (resource_limits_xos.cpp), and the billing of a    *)
(* transaction (transaction_context.cpp, push_scheduled_transaction).      *)
(*                                                                         *)
(* db is what the module keeps in the database.  A transaction works on a  *)
(* copy, which replaces db if it succeeds; that is the undo session.       *)
(* The two bandwidth resources are treated alike, so the tables are        *)
(* functions of the resource.  Usage is counted in small units and no      *)
(* total comes near 2^64: the assertions on overflow are left out, as are  *)
(* consumed, which nothing reads, and limits a transaction sets itself.    *)
(***************************************************************************)
EXTENDS Integers, Sequences, FiniteSets, FiniteSetsExt, SequencesExt

CONSTANTS
    Accounts,        \* accounts that exist, or may be created
    Genesis,         \* the accounts that exist at the start
    Payers,          \* the accounts that authorise transactions
    Resources,       \* {"cpu", "net"}
    Precision,       \* rate_limiting_precision: 1000000
    Window,          \* account_*_usage_average_window: 172800 slots
    Periods,         \* blocks that count for the average of blocks: 120
    Multiplier,      \* max_virtual_mult: 1000
    ContractRate,    \* <<99, 100>>
    ExpandRate,      \* <<1000, 999>>
    TargetRate,      \* target_block_*_usage_pct, as a ratio
    BlockMax,        \* max_block_*_usage: the values it may be given
    FirstMax,        \* and the one it has at the start
    MaxTransaction,  \* max_transaction_*_usage
    FreeLimit,       \* default_free_resource_limit_per_day: 1000
    DayLength,       \* readings of the clock in a day
    Greylist,        \* accounts a producer denies elastic limits
    LimitRows,       \* limits that contracts set
    RamDeltas,       \* changes of memory usage
    AccountRam,      \* memory an account takes
    Uses,            \* what a transaction may use of a resource
    MaxOps,          \* bound on the operations of a transaction
    MaxSlot,         \* bound on the time slot
    MaxClock,        \* bound on the clock of the machine
    MaxCorrections   \* bound on the times that clock is set back

ResourceAssumption ==
    /\ Genesis \cup Payers \subseteq Accounts
    /\ {Precision, Window, Periods, Multiplier, FirstMax, DayLength}
          \subseteq Nat \ {0}
    /\ Window <= Precision
    /\ BlockMax \subseteq Nat \ {0} /\ FirstMax \in BlockMax
    /\ {MaxTransaction, FreeLimit, AccountRam} \cup Uses \subseteq Nat
    /\ RamDeltas \subseteq Int \ {0}
    /\ \A l \in LimitRows : l.ram >= -1 /\ \A r \in Resources : l.weight[r] >= -1

VARIABLES
    db,           \* the tables
    slot,         \* time slot of the pending block
    block_num,    \* its number
    now,          \* the clock of the machine
    corrections,  \* how often it was set back
    outcome       \* how the last transaction ended

vars == <<db, slot, block_num, now, corrections, outcome>>

----------------------------------------------------------------------------
(* Averages *)

divide_ceil(num, den) == (num + den - 1) \div den
times(value, ratio) == (value * ratio[1]) \div ratio[2]

NoUsage == [last_ordinal |-> 0, value_ex |-> 0]

\* exponential_moving_average_accumulator::add
decayed(acc, ordinal, window) ==
    IF acc.last_ordinal = ordinal THEN acc.value_ex
    ELSE IF acc.last_ordinal + window > ordinal
         THEN times(acc.value_ex,
                    <<window - (ordinal - acc.last_ordinal), window>>)
         ELSE 0

add(acc, units, ordinal, window) ==
    [last_ordinal |-> ordinal,
     value_ex |-> decayed(acc, ordinal, window)
                     + divide_ceil(units * Precision, window)]

average(acc) == divide_ceil(acc.value_ex, Precision)

----------------------------------------------------------------------------
(* Limits *)

NoLimits == [ram |-> -1, weight |-> [r \in Resources |-> -1]]

get_account_limits(d, a) ==
    IF a \in DOMAIN d.pending THEN d.pending[a] ELSE d.limits[a]

\* resource_usage_per_day_accumulator::validate, get_account_limits_xos
validate(d, a, weight) ==
    IF d.tx_usage[a].usage_per_day <= FreeLimit THEN -1 ELSE weight

weight_xos(d, a, r) == validate(d, a, get_account_limits(d, a).weight[r])

limited(d, a, r) == weight_xos(d, a, r) >= 0 /\ d.total.weight[r] > 0

max_user_use(d, a, r, capacity) ==
    (capacity * Window * weight_xos(d, a, r)) \div d.total.weight[r]

\* Mutant: the limit that is reported rounds the usage down.
used_in_window_floor(acc) == (acc.value_ex * Window) \div Precision

\* get_account_cpu_limit and get_account_net_limit, for a limited account
used_in_window(acc) == divide_ceil(acc.value_ex * Window, Precision)

\* Mutant: the elastic limit goes to the accounts that are denied it.
available_swapped(d, a, r, elastic) ==
    LET capacity == IF elastic THEN d.block[r].max ELSE d.block[r].virtual
        most     == max_user_use(d, a, r, capacity)
        used     == used_in_window(d.usage[a].use[r])
    IN  IF most <= used THEN 0 ELSE most - used

available(d, a, r, elastic) ==
    LET capacity == IF elastic THEN d.block[r].virtual ELSE d.block[r].max
        most     == max_user_use(d, a, r, capacity)
        used     == used_in_window(d.usage[a].use[r])
    IN  IF most <= used THEN 0 ELSE most - used

\* max_bandwidth_billed_accounts_can_pay
Large == 2 ^ 28
can_pay(d, bill, r, producing) ==
    Min({Large} \cup
        {available(d, a, r, ~(producing /\ a \in Greylist)) :
            a \in {b \in bill : limited(d, b, r)}})

\* add_pending_ram_usage, verify_account_ram_usage
ram_fits(d, a) ==
    LET limit == get_account_limits(d, a).ram
    IN  limit >= 0 => d.usage[a].ram <= limit

\* set_account_limits: whether memory must be checked again, and the row
decreased_limit(d, a, row) ==
    LET old == get_account_limits(d, a).ram
    IN  row.ram >= 0 /\ (old < 0 \/ row.ram < old)

set_account_limits(d, a, row) ==
    [d EXCEPT !.pending = [b \in DOMAIN d.pending \cup {a} |->
                              IF b = a THEN row ELSE d.pending[b]]]

initialize_account(d, a) ==
    LET with(f, x) == [b \in DOMAIN f \cup {a} |-> IF b = a THEN x ELSE f[b]]
    IN  [d EXCEPT
           !.limits = with(@, NoLimits),
           !.usage = with(@, [ram |-> 0, use |-> [r \in Resources |-> NoUsage]]),
           !.tx_usage = with(@, [current_time |-> 0, current_day |-> 0,
                                 usage_per_day |-> 0])]

----------------------------------------------------------------------------
(* Billing *)

update_account_usage(d, bill, s) ==
    [d EXCEPT !.usage =
       [a \in DOMAIN d.usage |->
          IF a \in bill
          THEN [d.usage[a] EXCEPT !.use =
                  [r \in Resources |-> add(d.usage[a].use[r], 0, s, Window)]]
          ELSE d.usage[a]]]

\* resource_usage_per_day_accumulator::add
day(t) == (t \div DayLength) * DayLength

add_one(u, t) ==
    [current_time  |-> t,
     current_day   |-> day(t),
     usage_per_day |-> 1 + IF u.current_day = day(t) THEN u.usage_per_day ELSE 0]

\* add_transaction_usage: the tables it leaves, and whether it throws.  The
\* limits are those before the transaction is counted.
billed(d, bill, use, s, t) ==
    [d EXCEPT
       !.usage = [a \in DOMAIN d.usage |->
          IF a \in bill
          THEN [d.usage[a] EXCEPT !.use = [r \in Resources |->
                  add(d.usage[a].use[r], use[r], s, Window)]]
          ELSE d.usage[a]],
       !.tx_usage = [a \in DOMAIN d.tx_usage |->
          IF a \in bill THEN add_one(d.tx_usage[a], t) ELSE d.tx_usage[a]],
       !.block = [r \in Resources |->
          [d.block[r] EXCEPT !.pending = @ + use[r]]]]

within_limits(d, after, bill) ==
    /\ \A a \in bill, r \in Resources :
          limited(d, a, r) =>
             (after.usage[a].use[r].value_ex * Window) \div Precision
                <= max_user_use(d, a, r, d.block[r].virtual)
    /\ \A r \in Resources : after.block[r].pending <= after.block[r].max

clock_moved(d, bill, t) == \A a \in bill : t > d.tx_usage[a].current_time

add_transaction_usage(d, bill, use, s, t) ==
    LET after == billed(d, bill, use, s, t)
    IN  IF ~within_limits(d, after, bill)
        THEN [outcome |-> "over limit", db |-> d]
        ELSE IF ~clock_moved(d, bill, t)
        THEN [outcome |-> "clock behind", db |-> d]
        ELSE [outcome |-> "applied", db |-> after]

----------------------------------------------------------------------------
(* Transactions *)

\* What a contract may do to the tables: set limits, store or free memory,
\* create an account, set the block limits of the chain.
Ops == [kind : {"set"}, account : Accounts, row : LimitRows]
          \cup [kind : {"ram"}, account : Accounts, delta : RamDeltas]
          \cup [kind : {"new"}, account : Accounts]
          \cup [kind : {"params"}, max : BlockMax]

\* One operation of a transaction c that has not failed: the tables, the
\* accounts whose memory must be verified at the end.
add_ram_usage(c, a, delta) ==
    IF a \notin DOMAIN c.db.usage \/ c.db.usage[a].ram + delta < 0
    THEN [c EXCEPT !.ok = FALSE]
    ELSE [c EXCEPT !.db.usage[a].ram = @ + delta,
                   !.validate_ram = IF delta > 0 THEN @ \cup {a} ELSE @]

set_resource_limits(c, a, row) ==
    IF a \notin DOMAIN c.db.limits
    THEN [c EXCEPT !.ok = FALSE]
    ELSE [c EXCEPT !.db = set_account_limits(@, a, row),
                   !.validate_ram = IF decreased_limit(c.db, a, row)
                                    THEN @ \cup {a} ELSE @]

newaccount(c, a) ==
    IF a \in DOMAIN c.db.limits
    THEN [c EXCEPT !.ok = FALSE]
    ELSE add_ram_usage([c EXCEPT !.db = initialize_account(@, a)],
                       a, AccountRam)

exec_one(c, op) ==
    IF ~c.ok THEN c
    ELSE CASE op.kind = "set"    -> set_resource_limits(c, op.account, op.row)
           [] op.kind = "ram"    -> add_ram_usage(c, op.account, op.delta)
           [] op.kind = "new"    -> newaccount(c, op.account)
           [] op.kind = "params" -> [c EXCEPT !.db.config = op.max]

\* transaction_context::init: what the block and the chain allow
get_block_limit(d, r) == d.block[r].max - d.block[r].pending
objective_limit(d, r) == Min({get_block_limit(d, r), MaxTransaction})

\* transaction_context: init, exec and finalize
transact(d, bill, ops, use, s, t, producing) ==
    LET d0 == update_account_usage(d, bill, s)
        c  == FoldLeft(exec_one,
                       [ok |-> TRUE, db |-> d0, validate_ram |-> {}], ops)
        limit(r) == Min({objective_limit(d0, r),
                         can_pay(c.db, bill, r, producing)})
        fails == \/ ~c.ok
                 \/ \E a \in c.validate_ram : ~ram_fits(c.db, a)
                 \/ \E r \in Resources : use[r] > limit(r)
        result == add_transaction_usage(c.db, bill, use, s, t)
    IN  IF fails THEN [outcome |-> "rejected", db |-> d]
        ELSE IF result.outcome = "applied" THEN result
        ELSE [result EXCEPT !.db = d]

\* push_scheduled_transaction, the objective failure of a deferred
\* transaction: its CPU time is billed, up to what its accounts can pay.
hard_fail_use(d, bill, spent, s) ==
    LET d0  == update_account_usage(d, bill, s)
        cpu == Min({spent, can_pay(d0, bill, "cpu", FALSE),
                    objective_limit(d0, "cpu")})
    IN  [r \in Resources |-> IF r = "cpu" THEN cpu ELSE 0]

hard_fail(d, bill, use, s, t) ==
    LET result == add_transaction_usage(update_account_usage(d, bill, s),
                                        bill, use, s, t)
    IN  IF result.outcome = "applied" THEN result
        ELSE [result EXCEPT !.db = d]

----------------------------------------------------------------------------
(* The end of a block *)

positive(x) == IF x > 0 THEN x ELSE 0

process_account_limit_updates(d) ==
    LET rows == DOMAIN d.pending
        change(part(_)) ==
            MapThenSumSet(LAMBDA a : positive(part(d.pending[a]))
                                     - positive(part(d.limits[a])), rows)
    IN  [d EXCEPT
           !.total = [ram    |-> @.ram + change(LAMBDA l : l.ram),
                      weight |-> [r \in Resources |->
                          @.weight[r] + change(LAMBDA l : l.weight[r])]],
           !.limits = [a \in DOMAIN d.limits |-> get_account_limits(d, a)],
           !.pending = <<>>]

set_block_parameters(d) ==
    [d EXCEPT !.block = [r \in Resources |->
                            [d.block[r] EXCEPT !.max = d.config]]]

update_elastic_limit(b, mean) ==
    LET result == times(b.virtual, IF mean > times(b.max, TargetRate)
                                   THEN ContractRate ELSE ExpandRate)
    IN  Min({Max({result, b.max}), b.max * Multiplier})

process_block_usage(d, num) ==
    [d EXCEPT !.block = [r \in Resources |->
       LET b   == d.block[r]
           acc == add(b.average, b.pending, num, Periods)
       IN  [b EXCEPT !.average = acc,
                     !.virtual = update_elastic_limit(b, average(acc)),
                     !.pending = 0]]]

finalize_block(d, num) ==
    process_block_usage(set_block_parameters(process_account_limit_updates(d)),
                        num)

----------------------------------------------------------------------------
(* The node *)

EmptyDb ==
    [limits |-> <<>>, pending |-> <<>>, usage |-> <<>>, tx_usage |-> <<>>,
     total  |-> [ram |-> 0, weight |-> [r \in Resources |-> 0]],
     block  |-> [r \in Resources |->
                   [pending |-> 0, average |-> NoUsage,
                    virtual |-> FirstMax, max |-> FirstMax]],
     config |-> FirstMax]

\* create_native_account
GenesisDb ==
    FoldSet(LAMBDA a, d : [initialize_account(d, a) EXCEPT
                              !.usage[a].ram = AccountRam], EmptyDb, Genesis)

Init ==
    /\ db = GenesisDb
    /\ slot = 1 /\ block_num = 2
    /\ now = 0 /\ corrections = 0
    /\ outcome = "none"

\* A transaction takes time: the clock it is billed at is past the one it
\* started at.
Transaction(bill, ops, use) ==
    LET t == now + 1
        result == transact(db, bill, ops, use, slot, t, TRUE)
    IN  /\ now < MaxClock
        /\ now' = t
        /\ db' = result.db
        /\ outcome' = result.outcome
        /\ UNCHANGED <<slot, block_num, corrections>>

\* An account that can pay for no CPU time at all makes the failure
\* subjective: the deadline has passed before the first instruction.
HardFail(bill, spent) ==
    LET t == now + 1
        use == hard_fail_use(db, bill, spent, slot)
        result == hard_fail(db, bill, use, slot, t)
    IN  /\ now < MaxClock
        /\ use["cpu"] > 0
        /\ now' = t
        /\ db' = result.db
        /\ outcome' = result.outcome
        /\ UNCHANGED <<slot, block_num, corrections>>

\* Slots may go by without a block.
EndBlock(next) ==
    /\ next \in (slot + 1)..MaxSlot
    /\ db' = finalize_block(db, block_num)
    /\ slot' = next
    /\ block_num' = block_num + 1
    /\ outcome' = "none"
    /\ UNCHANGED <<now, corrections>>

Tick ==
    /\ now < MaxClock
    /\ now' = now + 1
    /\ UNCHANGED <<db, slot, block_num, corrections, outcome>>

ClockSetBack ==
    /\ corrections < MaxCorrections
    /\ corrections' = corrections + 1
    /\ now' \in 0..(now - 1)
    /\ UNCHANGED <<db, slot, block_num, outcome>>

Bills == (SUBSET (Payers \cap DOMAIN db.limits)) \ {{}}

Next ==
    \/ \E bill \in Bills, ops \in SeqOf(Ops, MaxOps), use \in [Resources -> Uses] :
          Transaction(bill, ops, use)
    \/ \E bill \in Bills, spent \in Uses : HardFail(bill, spent)
    \/ \E next \in (slot + 1)..MaxSlot : EndBlock(next)
    \/ Tick
    \/ ClockSetBack

Spec == Init /\ [][Next]_vars
----------------------------------------------------------------------------
(* Properties *)

\* Every row belongs to an account that exists, memory usage (a uint64_t)
\* never wraps below zero, and no average was last updated in a slot that is
\* still to come (exponential_moving_average_accumulator::add would throw).
TypeOK ==
    LET accounts == DOMAIN db.limits
        Rows == [ram : Int, weight : [Resources -> Int]]
    IN  /\ accounts \subseteq Accounts
        /\ DOMAIN db.usage = accounts /\ DOMAIN db.tx_usage = accounts
        /\ DOMAIN db.pending \subseteq accounts
        /\ \A a \in accounts :
              /\ db.limits[a] \in Rows
              /\ db.usage[a].ram \in Nat
              /\ \A r \in Resources :
                    /\ db.usage[a].use[r].last_ordinal \in 0..slot
                    /\ db.usage[a].use[r].value_ex \in Nat
        /\ slot \in 1..MaxSlot /\ now \in Nat
        /\ outcome \in {"none", "applied", "rejected", "over limit", "clock behind"}

\* The totals that shares are computed from are the sums over the accounts of
\* the limits in force, after any sequence of changes, some of them to and
\* from "no limit" (process_account_limit_updates).
TotalsMatch ==
    LET sum(part(_)) == MapThenSumSet(LAMBDA a : positive(part(db.limits[a])),
                                      DOMAIN db.limits)
    IN  /\ db.total.ram = sum(LAMBDA l : l.ram)
        /\ \A r \in Resources :
              db.total.weight[r] = sum(LAMBDA l : l.weight[r])

\* No account uses more memory than its limit, the one just set included,
\* although only the accounts a transaction put on its list are verified
\* (set_account_limits, add_ram_usage, verify_account_ram_usage).
RamWithinLimit == \A a \in DOMAIN db.limits : ram_fits(db, a)

\* What is left of a block never wraps below zero, and the virtual limit
\* stays between the block limit and its multiple, also in the block in which
\* the chain's parameters change (get_block_cpu_limit, update_elastic_limit).
BlockWithinLimits ==
    \A r \in Resources :
       /\ db.block[r].pending <= db.block[r].max
       /\ db.block[r].max <= db.block[r].virtual
       /\ db.block[r].virtual <= db.block[r].max * Multiplier

\* Once the checks of transaction_context::finalize have passed,
\* add_transaction_usage finds no limit exceeded ("Should never fail"), and
\* throws for the time of an earlier transaction only after the clock of the
\* machine was set back.
BillingNeverFails ==
    /\ outcome # "over limit"
    /\ outcome = "clock behind" => corrections > 0

=============================================================================

-------------------------- MODULE BlockHeaderState --------------------------
(***************************************************************************)
(* The header state every node derives from a chain of block headers       *)
(* (libraries/chain/block_header_state.cpp): who produces in which slot,    *)
(* which blocks the producers have confirmed, and from these the block     *)
(* that is proposed irreversible and the one that is irreversible (LIB).   *)
(*                                                                         *)
(* A header state is a record; each member function of the C++ struct that *)
(* changes it is an operator from header states to header states.  Signing *)
(* keys, merkle roots and digests are left out: a producer name stands for *)
(* its key, and a block is identified by its place in the chain.           *)
(***************************************************************************)
EXTENDS Integers, Sequences, FiniteSets

CONSTANTS
    Producer,             \* account names that may be in a schedule
    producer_repetitions, \* consecutive slots of one producer (12)
    maximum_tracked_dpos_confirmations \* length limit of confirm_count (1024)

ASSUME HeaderAssumption ==
    /\ IsFiniteSet(Producer)
    /\ producer_repetitions \in Nat \ {0}
    /\ maximum_tracked_dpos_confirmations \in Nat \ {0}

(* producer_schedule_type: a version and an order of distinct producers.   *)
Schedule ==
    [version : Nat,
     producers : {s \in Seq(Producer) :
                    \A i, j \in 1..Len(s) : s[i] = s[j] => i = j}]

Members(sch) == {sch.producers[i] : i \in 1..Len(sch.producers)}

(* A flat_map<account_name,uint32_t>: a producer without an entry maps to  *)
(* "absent".                                                               *)
absent == -1
ProducerMap == [Producer -> Nat \cup {absent}]
EmptyMap == [p \in Producer |-> absent]
Keys(f) == {p \in Producer : f[p] # absent}

HeaderState ==
    [block_num                           : Nat,
     timestamp                           : Nat,   \* in slots
     producer                            : Producer,
     dpos_proposed_irreversible_blocknum : Nat,
     dpos_irreversible_blocknum          : Nat,
     pending_schedule_lib_num            : Nat,
     pending_schedule                    : Schedule,
     active_schedule                     : Schedule,
     producer_to_last_produced           : ProducerMap,
     producer_to_last_implied_irb        : ProducerMap,
     confirm_count                       : Seq(0..255)]   \* uint8_t
-----------------------------------------------------------------------------
get_scheduled_producer(hs, slot) ==
    LET ps == hs.active_schedule.producers
        index == slot % (Len(ps) * producer_repetitions)
    IN  ps[index \div producer_repetitions + 1]

(* The element at (zero-based) position (size-1)/3 of the implied          *)
(* irreversible block numbers sorted from low to high: the smallest one    *)
(* that more than (size-1)/3 of the producers do not exceed.               *)
AtMost(irb, v) == {p \in Keys(irb) : irb[p] <= v}

third(S) == (Cardinality(S) - 1) \div 3

calc_dpos_last_irreversible(irb) ==
    IF Keys(irb) = {}
    THEN 0
    ELSE LET cands == {v \in {irb[p] : p \in Keys(irb)} :
                         Cardinality(AtMost(irb, v)) > third(Keys(irb))}
         IN  CHOOSE v \in cands : \A w \in cands : v <= w

(* Mutant: one third instead of two.                                       *)
required_confs_third(sch) == Len(sch.producers) \div 3 + 1

required_confs(sch) == (Len(sch.producers) * 2) \div 3 + 1

(* A vector<uint8_t> that drops its oldest entry once it is full.          *)
PushConfirm(cc, n) ==
    IF Len(cc) < maximum_tracked_dpos_confirmations
    THEN Append(cc, n)
    ELSE Append(Tail(cc), n)

(* The template of the block that follows hs in slot "when".  Callers      *)
(* ensure when > hs.timestamp (the code throws otherwise).                 *)
generate_next(hs, when) ==
    LET p   == get_scheduled_producer(hs, when)
        num == hs.block_num + 1
        irb == [hs.producer_to_last_implied_irb EXCEPT
                 ![p] = hs.dpos_proposed_irreversible_blocknum]
    IN  [hs EXCEPT
           !.block_num = num,
           !.timestamp = when,
           !.producer = p,
           !.producer_to_last_produced[p] = num,
           !.producer_to_last_implied_irb = irb,
           !.dpos_irreversible_blocknum = calc_dpos_last_irreversible(irb),
           !.confirm_count = PushConfirm(@, required_confs(hs.active_schedule))]

(* Decrement the counts of this block and of num_prev_blocks before it,    *)
(* newest first, and stop at the first that reaches zero: that block is    *)
(* now proposed irreversible and its count and all older ones are dropped. *)
Touched(cc, num_prev_blocks) ==
    {i \in 1..Len(cc) : i >= Len(cc) - num_prev_blocks}

Confirmed(cc, num_prev_blocks) ==
    {i \in Touched(cc, num_prev_blocks) : cc[i] = 1}

newest(zero) == CHOOSE i \in zero : \A j \in zero : j <= i

(* Mutant: the count that reached zero is kept.                            *)
set_confirmed_keeps_zero(hs, num_prev_blocks) ==
    LET cc   == hs.confirm_count
        zero == Confirmed(cc, num_prev_blocks)
        at   == newest(zero)
        from == IF zero = {} THEN 1 ELSE at
        dec  == [i \in 1..Len(cc) |-> IF i \in Touched(cc, num_prev_blocks)
                                      THEN (cc[i] + 255) % 256 ELSE cc[i]]
    IN  [hs EXCEPT
           !.dpos_proposed_irreversible_blocknum =
               IF zero = {} THEN @ ELSE hs.block_num - (Len(cc) - at),
           !.confirm_count = SubSeq(dec, from, Len(cc))]

set_confirmed(hs, num_prev_blocks) ==
    LET cc   == hs.confirm_count
        zero == Confirmed(cc, num_prev_blocks)
        at   == newest(zero)
        dec(i) == (cc[i] + 255) % 256
    IN  IF zero = {}
        THEN [hs EXCEPT !.confirm_count =
                [i \in 1..Len(cc) |->
                   IF i \in Touched(cc, num_prev_blocks) THEN dec(i) ELSE cc[i]]]
        ELSE [hs EXCEPT
                !.dpos_proposed_irreversible_blocknum =
                    hs.block_num - (Len(cc) - at),
                !.confirm_count = [i \in 1..(Len(cc) - at) |-> dec(at + i)]]

(* Promotion of the pending schedule.                                      *)
promotes(hs) ==
    /\ hs.pending_schedule.producers # <<>>
    /\ hs.dpos_irreversible_blocknum >= hs.pending_schedule_lib_num

(* Keep the entries of S, enter the members of S that have none with dflt. *)
Rekey(f, S, dflt) ==
    [p \in Producer |-> IF p \notin S THEN absent
                       ELSE IF f[p] = absent THEN dflt ELSE f[p]]

maybe_promote_pending(hs) ==
    IF ~promotes(hs)
    THEN hs
    ELSE LET S   == Members(hs.pending_schedule)
             lib == hs.dpos_irreversible_blocknum
         IN  [hs EXCEPT
                !.active_schedule = hs.pending_schedule,
                !.pending_schedule.producers = <<>>,   \* moved from
                !.producer_to_last_produced =
                    [Rekey(@, S, lib) EXCEPT ![hs.producer] = hs.block_num],
                !.producer_to_last_implied_irb = Rekey(@, S, lib)]

(* set_new_producers throws unless these hold.                             *)
may_set_new_producers(hs, sch) ==
    /\ sch.version = hs.active_schedule.version + 1
    /\ hs.pending_schedule.producers = <<>>

set_new_producers(hs, sch) ==
    [hs EXCEPT !.pending_schedule = sch,
               !.pending_schedule_lib_num = hs.block_num]

(* The check of next() that a producer does not confirm a block twice.     *)
(* block_num - confirmed is unsigned: it wraps when confirmed exceeds      *)
(* block_num, and then no last_produced fails the comparison.              *)
double_confirm_check(hs, p, confirmed) ==
    LET num == hs.block_num + 1
    IN  \/ p \notin Keys(hs.producer_to_last_produced)
        \/ confirmed > num
        \/ hs.producer_to_last_produced[p] < num - confirmed

(* Genesis (controller_impl::initialize_fork_db): the system account is    *)
(* the only producer, and its schedule is also the pending one.            *)
GenesisState(eosio) ==
    LET initial == [version |-> 0, producers |-> <<eosio>>]
    IN  [block_num |-> 1, timestamp |-> 0, producer |-> eosio,
         dpos_proposed_irreversible_blocknum |-> 0,
         dpos_irreversible_blocknum |-> 0,
         pending_schedule_lib_num |-> 0,
         pending_schedule |-> initial, active_schedule |-> initial,
         producer_to_last_produced |-> EmptyMap,
         producer_to_last_implied_irb |-> EmptyMap,
         confirm_count |-> <<>>]

(* The order of fork_database's by_lib_block_num index: a is before b.     *)
Better(a, b) ==
    \/ a.dpos_irreversible_blocknum > b.dpos_irreversible_blocknum
    \/ /\ a.dpos_irreversible_blocknum = b.dpos_irreversible_blocknum
       /\ a.block_num > b.block_num
=============================================================================

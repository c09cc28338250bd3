--------------------------- MODULE ProductionLoop ---------------------------
(***************************************************************************)
(* The loop of the producer plugin: start a pending block, set one timer,  *)
(* produce or start again when it fires (plugins/producer_plugin).         *)
(*                                                                         *)
(* Every time is relative to now, so that time needs no bound: a block or  *)
(* a timer in the future is a positive number of ticks, and only `clock',  *)
(* the time modulo one round of the schedule, says whose turn it is.       *)
(* Block numbers are relative to the head's in the same way.               *)
(***************************************************************************)
EXTENDS Integers, Sequences, FiniteSets, FiniteSetsExt

CONSTANTS
    Schedule,       \* the active schedule, a sequence of producers
    Producers,      \* _producers: the producers of this node
    Repetitions,    \* config::producer_repetitions: slots in a row
    BlockInterval,  \* config::block_interval_us in ticks
    MinSleep,       \* block_interval_us / 10: the least time to the next block
    StaleHead,      \* five seconds: a speculating node waits for blocks
    Offset,         \* _produce_time_offset_us, not positive
    LastOffset,     \* _last_block_time_offset_us, not positive
    StaleProduction,\* the option enable-stale-production
    Late,           \* whether time passes while a handler is queued
    MaxRequests,    \* bound: operator requests and blocks that do not become the head
    MaxFailures,    \* bound: start_block failures
    MaxDrop,        \* bound: blocks by which fork switches lower the head
    MaxQueued       \* bound: expired timers whose handler has not run

Cycle == Len(Schedule) * Repetitions * BlockInterval

ASSUME LoopAssumption ==
    /\ Schedule \in Seq({Schedule[i] : i \in DOMAIN Schedule}) /\ Len(Schedule) > 0
    /\ \A i, j \in DOMAIN Schedule : Schedule[i] = Schedule[j] => i = j
    /\ Repetitions \in Nat \ {0}
    /\ {MinSleep, BlockInterval} \subseteq Nat \ {0} /\ MinSleep < BlockInterval
    /\ {Offset, LastOffset} \subseteq Int /\ Offset <= 0 /\ LastOffset <= 0
    /\ {StaleProduction, Late} \subseteq BOOLEAN
    /\ {StaleHead, MaxRequests, MaxFailures, MaxDrop, MaxQueued} \subseteq Nat

VARIABLES
    clock,   \* now, modulo one round of the schedule
    chain,   \* head: its time, and by how much each watermark exceeds it
    policy,  \* _production_enabled, _pause_production, irreversible block too old
    loop,    \* _pending_block_mode, pending block, _timer and queued handlers
    budget   \* what is left of the bounds

vars == <<clock, chain, policy, loop, budget>>

NoBlock == [producer |-> Schedule[1], time |-> 0, due |-> 0, open |-> FALSE]
NoTimer == [kind |-> "none", left |-> 0]

(* A watermark further below the head than any fork switch can reach, or   *)
(* no watermark at all.                                                    *)
Low == -MaxDrop - 1

(* Older than a stale head; times before it are not told apart.            *)
Floor == -StaleHead - 1
-----------------------------------------------------------------------------
(* The producer whose slot holds the time t.                               *)
get_scheduled_producer(t) ==
    Schedule[(((clock + t) % Cycle) \div BlockInterval) \div Repetitions + 1]

LastOfTurn(t) ==
    (((clock + t) % Cycle) \div BlockInterval) % Repetitions = Repetitions - 1

calculate_pending_block_time(c) ==
    LET base == Max({0, c.time})
        next == base + BlockInterval - ((clock + base) % BlockInterval)
    IN IF next < MinSleep THEN next + BlockInterval ELSE next

calculate_next_block_time_unaligned(p, t, c, open) ==
    LET index == (CHOOSE i \in DOMAIN Schedule : Schedule[i] = p) - 1
        num == IF open THEN 1 ELSE 0
        offset == IF c.marks[p] > num THEN c.marks[p] - num + 1 ELSE 1
        minimum == (clock + t) \div BlockInterval + offset
        round == minimum % (Len(Schedule) * Repetitions)
        distance == (index - round \div Repetitions) % Len(Schedule)
    IN (minimum + distance * Repetitions) * BlockInterval - clock

(* The next slot of producer p after the slot of time t, as a time; the    *)
(* watermark keeps p from the blocks up to it.                             *)
calculate_next_block_time(p, t, c, open) ==
    LET index == (CHOOSE i \in DOMAIN Schedule : Schedule[i] = p) - 1
        num == IF open THEN 1 ELSE 0
        offset == IF c.marks[p] > num THEN c.marks[p] - num + 1 ELSE 1
        minimum == (clock + t) \div BlockInterval + offset
        round == minimum % (Len(Schedule) * Repetitions)
        distance == (index - round \div Repetitions) % Len(Schedule)
        slot == IF distance = 0 THEN minimum
                ELSE minimum - (minimum % Repetitions) + distance * Repetitions
    IN slot * BlockInterval - clock

Active == Producers \cap {Schedule[i] : i \in DOMAIN Schedule}

production_disabled_by_policy(po) == ~po.enabled \/ po.paused \/ po.lib_old

ModeAt_any_watermark(t, c, po) ==
    LET p == get_scheduled_producer(t)
    IN IF po.enabled /\ p \in Producers /\ ~po.paused /\ ~po.lib_old
       THEN "producing" ELSE "speculating"

(* The mode in which start_block opens a block at time t.                  *)
ModeAt(t, c, po) ==
    LET p == get_scheduled_producer(t)
    IN IF /\ po.enabled /\ p \in Producers /\ ~po.paused /\ ~po.lib_old
          /\ c.marks[p] < 1
       THEN "producing" ELSE "speculating"

(* start_block: its result with the loop it leaves.  A head older than     *)
(* five seconds leaves what was open before open.                          *)
start_block(c, po, l) ==
    LET t == calculate_pending_block_time(c)
        mode == ModeAt(t, c, po)
        new == [producer |-> get_scheduled_producer(t), time |-> t, due |-> t, open |-> TRUE]
    IN IF mode = "speculating" /\ c.time < -StaleHead
       THEN {[result |-> "waiting", loop |-> [l EXCEPT !.mode = mode]]}
       ELSE {[result |-> r, loop |-> [l EXCEPT !.mode = mode, !.pending = new]] :
                 r \in {"succeeded", "exhausted", "failed"}}
            \cup {[result |-> "failed", loop |-> [l EXCEPT !.mode = mode, !.pending = NoBlock]]}

(* ++_timer_corelation_id: no handler that is already queued matches it.   *)
Correlate(q) == [i \in DOMAIN q |-> [q[i] EXCEPT !.matches = FALSE]]

SetTimer(l, kind, left) ==
    [l EXCEPT !.timer = [kind |-> kind, left |-> Max({0, left})],
              !.queue = Correlate(l.queue)]

schedule_delayed_production_loop(l, t, c) ==
    IF Active = {} THEN l
    ELSE SetTimer(l, "loop",
             Min({calculate_next_block_time(p, t, c, l.pending.open) - BlockInterval : p \in Active}))

(* When a block being produced has to leave.                               *)
Deadline(l, result) ==
    IF result = "succeeded"
    THEN l.pending.time + (IF LastOfTurn(l.pending.time) THEN LastOffset ELSE Offset)
    ELSE Max({0, l.pending.time - BlockInterval})

Scheduled_waits_for_blocks(c, po, r) ==
    LET l == r.loop IN
    CASE r.result = "failed" -> SetTimer(l, "loop", MinSleep)
      [] r.result = "waiting" -> l
      [] r.result \notin {"failed", "waiting"} /\ l.mode = "producing" ->
            SetTimer([l EXCEPT !.pending.due = Deadline(l, r.result)], "produce", Deadline(l, r.result))
      [] OTHER ->
            IF Producers # {} /\ ~production_disabled_by_policy(po)
            THEN schedule_delayed_production_loop(l, l.pending.time, c)
            ELSE l

(* The loops that schedule_production_loop can leave behind.               *)
Scheduled(c, po, r) ==
    LET l == r.loop IN
    CASE r.result = "failed" -> SetTimer(l, "loop", MinSleep)
      [] r.result = "waiting" ->
            IF Producers # {} /\ ~production_disabled_by_policy(po)
            THEN schedule_delayed_production_loop(l, calculate_pending_block_time(c), c)
            ELSE l
      [] r.result \notin {"failed", "waiting"} /\ l.mode = "producing" ->
            SetTimer([l EXCEPT !.pending.due = Deadline(l, r.result)], "produce", Deadline(l, r.result))
      [] OTHER ->
            IF Producers # {} /\ ~production_disabled_by_policy(po)
            THEN schedule_delayed_production_loop(l, l.pending.time, c)
            ELSE l

(* schedule_production_loop, with the chain, policy and loop it meets; it  *)
(* cancels the timer first.                                                *)
schedule_production_loop(c, po, l, b) ==
    \E r \in start_block(c, po, [l EXCEPT !.timer = NoTimer]) :
        /\ r.result = "failed" => b.failures > 0
        /\ loop' = Scheduled(c, po, r)
        /\ budget' = IF r.result = "failed" THEN [b EXCEPT !.failures = @ - 1] ELSE b

abort_block(l) == [l EXCEPT !.pending = NoBlock]

(* The head is d blocks higher (lower when d < 0): watermarks relative to  *)
(* it.                                                                     *)
Shift(marks, d) ==
    [p \in DOMAIN marks |->
        IF marks[p] = Low THEN Low ELSE Max({Low, marks[p] - d})]
-----------------------------------------------------------------------------
(* plugin_startup.  The head of the chain is older than now.               *)
Init ==
    /\ clock \in 0..(Cycle - 1)
    /\ \E t \in {-StaleHead - 1, -(clock % BlockInterval)} :
          chain = [time |-> t, marks |-> [p \in Producers |-> Low]]
    /\ policy = [enabled |-> StaleProduction, paused |-> FALSE, lib_old |-> FALSE]
    /\ budget = [failures |-> MaxFailures, requests |-> MaxRequests, drop |-> MaxDrop]
    /\ loop \in {Scheduled(chain, policy, r) :
                    r \in {s \in start_block(chain, policy,
                             [mode |-> "speculating", pending |-> NoBlock, timer |-> NoTimer, queue |-> <<>>]) :
                             s.result # "failed"}}

(* A time that is relative to now, one tick later.                         *)
Nearer(t) == Max({Floor, t - 1})
Aged(b) == IF b.open THEN [b EXCEPT !.time = Nearer(@), !.due = Nearer(@)] ELSE b

Tick ==
    /\ Late \/ (loop.queue = <<>> /\ (loop.timer.kind = "none" \/ loop.timer.left > 0))
    /\ clock' = (clock + 1) % Cycle
    /\ chain' = [chain EXCEPT !.time = Nearer(@)]
    /\ loop' = [loop EXCEPT !.timer.left = Max({0, @ - 1}), !.pending = Aged(@)]
    /\ UNCHANGED <<policy, budget>>

(* The timer expires: its handler is queued and can no longer be cancelled.*)
TimerExpires ==
    /\ loop.timer.kind # "none" /\ loop.timer.left = 0
    /\ Len(loop.queue) < MaxQueued
    /\ loop' = [loop EXCEPT !.timer = NoTimer,
                            !.queue = Append(@, [kind |-> loop.timer.kind, matches |-> TRUE])]
    /\ UNCHANGED <<clock, chain, policy, budget>>

HandlerRuns_unchecked(kind) ==
    loop.queue # <<>> /\ Head(loop.queue).kind = kind

(* The handler of the given kind runs: its correlation id is the latest.   *)
HandlerRuns(kind) ==
    loop.queue # <<>> /\ Head(loop.queue).kind = kind /\ Head(loop.queue).matches

Rest == [loop EXCEPT !.queue = Tail(@)]

(* A handler whose correlation id is not the latest one does nothing.      *)
StaleHandler ==
    /\ loop.queue # <<>> /\ ~Head(loop.queue).matches
    /\ loop' = Rest
    /\ UNCHANGED <<clock, chain, policy, budget>>

LoopHandler ==
    /\ HandlerRuns("loop")
    /\ schedule_production_loop(chain, policy, Rest, budget)
    /\ UNCHANGED <<clock, chain, policy>>

CanProduce == loop.mode = "producing" /\ loop.pending.open

(* produce_block and the loop that follows it; the block becomes the head, *)
(* its number the watermark of its producer, and it may make an earlier    *)
(* block irreversible.                                                     *)
produce_block ==
    LET p == loop.pending.producer
        c == [time |-> loop.pending.time, marks |-> [Shift(chain.marks, 1) EXCEPT ![p] = 0]]
    IN /\ HandlerRuns("produce") /\ CanProduce
       /\ chain' = c
       /\ \E irreversible \in BOOLEAN :
             /\ policy' = [policy EXCEPT !.lib_old = @ /\ ~irreversible]
             /\ schedule_production_loop(c, policy', abort_block(Rest), budget)
       /\ UNCHANGED clock

(* maybe_produce_block when produce_block throws: because it is not        *)
(* producing, or because the block cannot be finished.                     *)
produce_block_fails ==
    /\ HandlerRuns("produce")
    /\ ~CanProduce \/ budget.failures > 0
    /\ schedule_production_loop(chain, policy, abort_block(Rest),
          IF CanProduce THEN [budget EXCEPT !.failures = @ - 1] ELSE budget)
    /\ UNCHANGED <<clock, chain, policy>>

(* A block of another producer made for the time t that can arrive now.    *)
(* Unless Late, it arrives in its slot and early enough for the next one.  *)
Arrives(t) ==
    /\ t = Floor \/ (/\ (clock + t) % BlockInterval = 0
                     /\ get_scheduled_producer(t) \notin Producers)
    /\ Late \/ (t > -BlockInterval /\ (clock % BlockInterval) + MinSleep <= BlockInterval)

(* on_incoming_block with a block after which the head, made for time t,   *)
(* is d blocks higher than before; it may make a block irreversible.       *)
AcceptBlock(t, d, irreversible) ==
    LET c == [time |-> t, marks |-> Shift(chain.marks, d)]
        po == [policy EXCEPT !.enabled = @ \/ t + BlockInterval >= 0,
                             !.lib_old = @ /\ ~irreversible]
    IN /\ Arrives(t)
       /\ d > 0 => (t > chain.time \/ t = Floor)
       /\ d < 0 => budget.drop >= -d
       /\ chain' = c
       /\ policy' = po
       /\ schedule_production_loop(c, po, abort_block(loop),
             IF d < 0 THEN [budget EXCEPT !.drop = @ + d] ELSE budget)
       /\ UNCHANGED clock

(* on_incoming_block with a block that leaves the head where it is: it is  *)
(* rejected, or its branch is not the best one.                            *)
OtherBlock(rejected) ==
    LET po == IF rejected THEN policy
              ELSE [policy EXCEPT !.enabled = @ \/ chain.time + BlockInterval >= 0]
    IN /\ budget.requests > 0
       /\ policy' = po
       /\ schedule_production_loop(chain, po, abort_block(loop), [budget EXCEPT !.requests = @ - 1])
       /\ UNCHANGED <<clock, chain>>

pause ==
    /\ ~policy.paused
    /\ policy' = [policy EXCEPT !.paused = TRUE]
    /\ UNCHANGED <<clock, chain, loop, budget>>

(* Restarts the loop when the node may only speculate because of a policy. *)
Reevaluate(po, b) ==
    /\ policy' = po
    /\ IF loop.mode = "speculating"
       THEN schedule_production_loop(chain, po, abort_block(loop), b)
       ELSE UNCHANGED loop /\ budget' = b
    /\ UNCHANGED <<clock, chain>>

resume == policy.paused /\ Reevaluate([policy EXCEPT !.paused = FALSE], budget)

(* update_runtime_options with another max_irreversible_block_age.         *)
update_runtime_options ==
    /\ budget.requests > 0
    /\ \E old \in BOOLEAN :
          Reevaluate([policy EXCEPT !.lib_old = old], [budget EXCEPT !.requests = @ - 1])

(* get_integrity_hash, create_snapshot: they need the state of the head.   *)
create_snapshot ==
    /\ loop.pending.open
    /\ budget.requests > 0
    /\ schedule_production_loop(chain, policy, abort_block(loop), [budget EXCEPT !.requests = @ - 1])
    /\ UNCHANGED <<clock, chain, policy>>

(* The last irreversible block becomes older than allowed.                 *)
IrreversibleTooOld ==
    /\ ~policy.lib_old
    /\ policy' = [policy EXCEPT !.lib_old = TRUE]
    /\ UNCHANGED <<clock, chain, loop, budget>>

Handler == StaleHandler \/ LoopHandler \/ produce_block \/ produce_block_fails

Next ==
    \/ Tick
    \/ TimerExpires
    \/ Handler
    \/ \E t \in Floor..BlockInterval, d \in {1, -1}, irreversible \in BOOLEAN :
          AcceptBlock(t, d, irreversible)
    \/ \E rejected \in BOOLEAN : OtherBlock(rejected)
    \/ pause \/ resume \/ update_runtime_options \/ create_snapshot
    \/ IrreversibleTooOld

(* Time passes, the timer fires and the io_service runs its handlers.      *)
Fairness == WF_vars(Tick) /\ WF_vars(TimerExpires) /\ WF_vars(Handler)

Spec == Init /\ [][Next]_vars /\ Fairness
-----------------------------------------------------------------------------
Times == (Floor - BlockInterval)..(2 * BlockInterval)

TypeOK ==
    /\ clock \in 0..(Cycle - 1)
    /\ chain.time \in Floor..BlockInterval
    /\ chain.marks \in [Producers -> Low..MaxDrop]
    /\ policy \in [enabled : BOOLEAN, paused : BOOLEAN, lib_old : BOOLEAN]
    /\ loop.mode \in {"producing", "speculating"}
    /\ loop.pending \in [producer : {Schedule[i] : i \in DOMAIN Schedule}, time : Times, due : Times, open : BOOLEAN]
    /\ loop.timer.kind \in {"none", "loop", "produce"} /\ loop.timer.left \in Nat
    /\ Len(loop.queue) <= MaxQueued

(* The loop never dies: a node with a producer in the schedule that no     *)
(* policy keeps from producing has a timer set, or a handler queued that   *)
(* will be accepted.                                                       *)
LoopAlive ==
    (Active # {} /\ ~production_disabled_by_policy(policy)) =>
        \/ loop.timer.kind # "none"
        \/ \E i \in DOMAIN loop.queue : loop.queue[i].matches

(* calculate_next_block_time gives the first slot of the producer that is  *)
(* at least one slot and all blocks up to its watermark after the pending  *)
(* block.                                                                  *)
WakesForNextTurn ==
    \A p \in Active, open \in BOOLEAN :
        LET t == calculate_pending_block_time(chain)
            wait == Max({1, chain.marks[p] - (IF open THEN 1 ELSE 0) + 1})
            Turn(n) == get_scheduled_producer(t + n * BlockInterval) = p
        IN calculate_next_block_time(p, t, chain, open) =
               t + BlockInterval * (CHOOSE n \in wait..(wait + Cycle) :
                                       Turn(n) /\ \A k \in wait..(n - 1) : ~Turn(k))

(* A block is shipped no earlier than the deadline that was set for it,    *)
(* even when a handler of an earlier round runs late.                      *)
ShippedWhenDue == [][produce_block => loop.pending.due <= 0]_vars

(* A producer signs no block at or below its watermark, whatever happened  *)
(* to the head between start_block and produce_block.                      *)
NeverSignsTwice ==
    [][produce_block => chain.marks[loop.pending.producer] < 1]_vars

(* When neither policies nor watermarks above the head interfere any more, *)
(* a node with a producer in the schedule produces again and again, even   *)
(* when no block arrives (the head is then older than five seconds).       *)
Unhindered ==
    /\ Active # {}
    /\ ~production_disabled_by_policy(policy)
    /\ \A p \in Active : chain.marks[p] < 1
KeepsProducing == <>[]Unhindered => []<><<produce_block>>_vars
=============================================================================

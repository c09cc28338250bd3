------------------------ MODULE ProductionLoopProofs ------------------------
(***************************************************************************)
(* Proofs about ProductionLoop for any schedule, any block interval and    *)
(* any delay of the timer's handlers: the loop never dies, no block leaves *)
(* before the deadline set for it, and no producer signs a block at or     *)
(* below its watermark.                                                    *)
(*                                                                         *)
(* What start_block has checked about the head holds until the block is    *)
(* produced, because whatever changes the head aborts the block; and a     *)
(* handler that still matches belongs to the block that is open.           *)
(***************************************************************************)
EXTENDS ProductionLoop, WellFoundedInduction, TLAPS

Scheduling == {Schedule[i] : i \in DOMAIN Schedule}
Modes == {"producing", "speculating"}
Blocks == [producer : Scheduling, time : Int, due : Int, open : BOOLEAN]
Timers == [kind : {"none", "loop", "produce"}, left : Nat]
Handlers == [kind : {"none", "loop", "produce"}, matches : BOOLEAN]
Loops == [mode : Modes, pending : Blocks, timer : Timers, queue : Seq(Handlers)]
Policies == [enabled : BOOLEAN, paused : BOOLEAN, lib_old : BOOLEAN]

(* A timer runs, or a handler is queued that will be accepted.             *)
Wakes(l) ==
    \/ l.timer.kind # "none"
    \/ \E i \in DOMAIN l.queue : l.queue[i].matches

WantsToProduce(po) == Active # {} /\ ~production_disabled_by_policy(po)

Opened(l) == l.mode = "producing" /\ l.pending.open

(* The open block is one of this node's producers, above its watermark.    *)
AboveMark(l, c) ==
    Opened(l) => /\ l.pending.producer \in Producers
                 /\ c.marks[l.pending.producer] < 1

(* What can make the open block leave comes no earlier than its deadline.  *)
NotBeforeDue(l) ==
    Opened(l) =>
       /\ l.timer.kind = "produce" => l.pending.due <= l.timer.left
       /\ \A i \in DOMAIN l.queue :
             l.queue[i].matches /\ l.queue[i].kind = "produce" => l.pending.due <= 0

(* A block that is being produced keeps the loop awake whatever policy     *)
(* says: resume and update_runtime_options rely on it.                     *)
KeepsAwake(l, po) == l.mode = "producing" \/ WantsToProduce(po) => Wakes(l)

(* The inductive invariant.                                                *)
LoopInv ==
    /\ clock \in Int /\ chain \in [time : Int, marks : [Producers -> Int]]
    /\ policy \in Policies /\ loop \in Loops
    /\ AboveMark(loop, chain) /\ NotBeforeDue(loop) /\ KeepsAwake(loop, policy)
-----------------------------------------------------------------------------
LEMMA MaxPair ==
    ASSUME NEW a \in Int, NEW b \in Int
    PROVE  Max({a, b}) = IF a >= b THEN a ELSE b
<1> DEFINE m == IF a >= b THEN a ELSE b
<1>1. m \in {a, b} /\ \A y \in {a, b} : m >= y
  OBVIOUS
<1>2. \A x \in {a, b} : (\A y \in {a, b} : x >= y) => x = m
  OBVIOUS
<1> QED BY <1>1, <1>2, Zenon DEF Max

LEMMA DivBound ==
    ASSUME NEW a \in Nat, NEW b \in Nat, NEW c \in Nat \ {0}, a < b * c
    PROVE  a \div c \in 0 .. b - 1
<1> DEFINE q == a \div c
<1>1. q \in Nat /\ a = q * c + (a % c) /\ a % c \in 0 .. c - 1
  OBVIOUS
<1>2. q * c < b * c
  BY <1>1
<1>3. ASSUME q >= b PROVE FALSE
  BY <1>1, <1>2, <1>3
<1> QED BY <1>1, <1>3

(* The constants, as the proofs use them.                                  *)
LEMMA Sizes ==
    /\ Len(Schedule) \in Nat \ {0} /\ Repetitions \in Nat \ {0}
    /\ BlockInterval \in Nat \ {0} /\ Cycle \in Nat \ {0}
    /\ DOMAIN Schedule = 1 .. Len(Schedule)
    /\ MinSleep \in Nat /\ Offset \in Int /\ LastOffset \in Int
    /\ Floor \in Int /\ Floor < 0
<1>1. Len(Schedule) \in Nat \ {0} /\ DOMAIN Schedule = 1 .. Len(Schedule)
  BY LoopAssumption
<1>2. \A a, b \in Nat \ {0} : a * b \in Nat \ {0}
  OBVIOUS
<1>3. Repetitions \in Nat \ {0} /\ BlockInterval \in Nat \ {0}
  BY LoopAssumption
<1>4. Cycle \in Nat \ {0}
  BY <1>1, <1>2, <1>3 DEF Cycle
<1> QED BY <1>1, <1>3, <1>4, LoopAssumption DEF Floor

(* get_scheduled_producer always finds somebody.                           *)
LEMMA SomebodyScheduled ==
    ASSUME clock \in Int, NEW t \in Int
    PROVE  get_scheduled_producer(t) \in Scheduling
<1> DEFINE x == (clock + t) % Cycle
           y == x \div BlockInterval
           z == y \div Repetitions
<1>1. x \in Nat /\ x < Cycle
  BY Sizes
<1>2. x < (Len(Schedule) * Repetitions) * BlockInterval /\ Len(Schedule) * Repetitions \in Nat
  BY <1>1, Sizes DEF Cycle
<1> HIDE DEF x
<1>3. y \in 0 .. (Len(Schedule) * Repetitions) - 1
  BY <1>1, <1>2, Sizes, DivBound
<1>4. y \in Nat /\ y < Len(Schedule) * Repetitions
  BY <1>2, <1>3
<1> HIDE DEF y
<1>5. z \in 0 .. Len(Schedule) - 1
  BY <1>4, Sizes, DivBound
<1>6. z + 1 \in DOMAIN Schedule
  BY <1>5, Sizes
<1> QED BY <1>6 DEF get_scheduled_producer, Scheduling, x, y, z

LEMMA PendingTime ==
    ASSUME clock \in Int, NEW c, c.time \in Int
    PROVE  calculate_pending_block_time(c) \in Int
<1>1. Max({0, c.time}) \in Int
  BY MaxPair
<1> DEFINE b == Max({0, c.time})
<1>2. (clock + b) % BlockInterval \in Int
  BY <1>1, Sizes
<1> QED BY <1>1, <1>2, Sizes DEF calculate_pending_block_time
-----------------------------------------------------------------------------
(* start_block leaves a producing block only above the watermark.          *)
LEMMA StartBlock ==
    ASSUME clock \in Int, NEW c, c.time \in Int, NEW po, NEW l \in Loops,
           NEW r \in start_block(c, po, l)
    PROVE  /\ r.loop \in Loops /\ r.loop.queue = l.queue /\ r.loop.timer = l.timer
           /\ AboveMark(r.loop, c)
           /\ r.result \in {"succeeded", "exhausted", "failed", "waiting"}
           /\ r.result = "waiting" => r.loop.mode = "speculating"
<1> DEFINE t == calculate_pending_block_time(c)
           mode == ModeAt(t, c, po)
           new == [producer |-> get_scheduled_producer(t), time |-> t, due |-> t, open |-> TRUE]
<1>1. t \in Int
  BY PendingTime
<1>2. new \in Blocks /\ NoBlock \in Blocks
  <2>1. get_scheduled_producer(t) \in Scheduling
    BY <1>1, SomebodyScheduled
  <2>2. Schedule[1] \in Scheduling
    BY Sizes DEF Scheduling
  <2> HIDE DEF t
  <2> QED BY <1>1, <2>1, <2>2 DEF Blocks, NoBlock
<1>3. /\ mode \in Modes
      /\ mode = "producing" => /\ get_scheduled_producer(t) \in Producers
                               /\ c.marks[get_scheduled_producer(t)] < 1
  BY DEF ModeAt, Modes
<1> HIDE DEF t, mode
<1>4. \/ mode = "speculating" /\ r = [result |-> "waiting", loop |-> [l EXCEPT !.mode = mode]]
      \/ \E s \in {"succeeded", "exhausted", "failed"} :
            r = [result |-> s, loop |-> [l EXCEPT !.mode = mode, !.pending = new]]
      \/ r = [result |-> "failed", loop |-> [l EXCEPT !.mode = mode, !.pending = NoBlock]]
  BY DEF start_block, t, mode
<1>5. CASE mode = "speculating" /\ r = [result |-> "waiting", loop |-> [l EXCEPT !.mode = mode]]
  BY <1>5, <1>3 DEF Loops, AboveMark, Opened
<1>6. ASSUME NEW s \in {"succeeded", "exhausted", "failed"},
             r = [result |-> s, loop |-> [l EXCEPT !.mode = mode, !.pending = new]]
      PROVE  /\ r.loop \in Loops /\ r.loop.queue = l.queue /\ r.loop.timer = l.timer
             /\ AboveMark(r.loop, c) /\ r.result = s
  BY <1>6, <1>2, <1>3 DEF Loops, AboveMark, Opened
<1>7. CASE r = [result |-> "failed", loop |-> [l EXCEPT !.mode = mode, !.pending = NoBlock]]
  BY <1>7, <1>2, <1>3 DEF Loops, AboveMark, Opened, NoBlock
<1> QED BY <1>4, <1>5, <1>6, <1>7

(* Setting the timer: it runs, and no queued handler matches any more.     *)
TimerSet(m, l, kind, left) ==
    /\ m \in Loops /\ m.mode = l.mode /\ m.pending = l.pending
    /\ m.timer.kind = kind /\ left <= m.timer.left
    /\ \A i \in DOMAIN m.queue : ~m.queue[i].matches

LEMMA SetTimerFacts ==
    ASSUME NEW l \in Loops, NEW kind \in {"loop", "produce"}, NEW left \in Int
    PROVE  TimerSet(SetTimer(l, kind, left), l, kind, left)
<1> DEFINE q == Correlate(l.queue)
           tm == [kind |-> kind, left |-> Max({0, left})]
<1>1. Max({0, left}) \in Nat /\ left <= Max({0, left})
  BY MaxPair
<1>2. l.queue \in Seq(Handlers)
  BY DEF Loops
<1>3. q \in Seq(Handlers) /\ \A i \in DOMAIN q : ~q[i].matches
  <2>1. q = [i \in DOMAIN l.queue |-> [l.queue[i] EXCEPT !.matches = FALSE]]
    BY DEF Correlate
  <2>2. DOMAIN l.queue = 1 .. Len(l.queue) /\ Len(l.queue) \in Nat
    BY <1>2
  <2> HIDE DEF q
  <2>3. ASSUME NEW i \in DOMAIN l.queue
        PROVE  q[i] \in Handlers /\ ~q[i].matches
    <3>1. l.queue[i] \in Handlers
      BY <1>2
    <3> QED BY <3>1, <2>1 DEF Handlers
  <2>4. DOMAIN q = 1 .. Len(l.queue) /\ q \in [1 .. Len(l.queue) -> Handlers]
    BY <2>1, <2>2, <2>3
  <2> QED BY <2>2, <2>3, <2>4
<1>4. tm \in Timers
  BY <1>1 DEF Timers
<1> HIDE DEF q
<1> QED BY <1>1, <1>3, <1>4 DEF SetTimer, TimerSet, Loops, q
LEMMA LeastNatural ==
    ASSUME NEW S \in SUBSET Nat, S # {}
    PROVE  \E m \in S : \A n \in S : m <= n
<1>1. PICK m \in S : \A n \in S : ~ (<<n, m>> \in OpToRel(<, Nat))
  BY NatLessThanWellFounded, WFMin
<1>2. \A n \in S : ~ (n < m)
  BY <1>1 DEF OpToRel
<1> QED BY <1>2

(* The earliest of some times after t is one of them.                      *)
LEMMA EarliestIsTime ==
    ASSUME NEW t \in Int, NEW S, S # {}, \A x \in S : x \in Int /\ x >= t
    PROVE  Min(S) \in Int
<1> DEFINE D == {x - t : x \in S}
<1>1. D \in SUBSET Nat /\ D # {}
  OBVIOUS
<1>2. PICK m \in D : \A n \in D : m <= n
  BY <1>1, LeastNatural
<1>3. PICK y \in S : m = y - t
  BY <1>2
<1>4. \A x \in S : y <= x
  <2> SUFFICES ASSUME NEW x \in S PROVE y <= x
    OBVIOUS
  <2>1. x - t \in D
    OBVIOUS
  <2> QED BY <2>1, <1>2, <1>3
<1>5. Min(S) \in S
  BY <1>3, <1>4, Zenon DEF Min
<1> QED BY <1>5

(* calculate_next_block_time gives a time after t.                         *)
LEMMA NextTurnIsLater ==
    ASSUME clock \in Int, NEW p, NEW t \in Int, NEW c, c.marks[p] \in Int, NEW open,
           p \in Active
    PROVE  /\ calculate_next_block_time(p, t, c, open) \in Int
           /\ calculate_next_block_time(p, t, c, open) > t
<1> DEFINE L == Len(Schedule)
           R == Repetitions
           B == BlockInterval
           index == (CHOOSE i \in DOMAIN Schedule : Schedule[i] = p) - 1
           num == IF open THEN 1 ELSE 0
           offset == IF c.marks[p] > num THEN c.marks[p] - num + 1 ELSE 1
           s == (clock + t) \div B
           minimum == s + offset
           distance == (index - (minimum % (L * R)) \div R) % L
           slot == IF distance = 0 THEN minimum
                   ELSE minimum - (minimum % R) + distance * R
<1>1. L \in Nat \ {0} /\ R \in Nat \ {0} /\ B \in Nat \ {0} /\ L * R \in Nat \ {0}
  <2>1. L \in Nat \ {0} /\ R \in Nat \ {0} /\ B \in Nat \ {0}
    BY Sizes
  <2> HIDE DEF L, R
  <2> QED BY <2>1
<1>2. index \in Int
  <2>1. \E i \in DOMAIN Schedule : Schedule[i] = p
    BY DEF Active
  <2>2. (CHOOSE i \in DOMAIN Schedule : Schedule[i] = p) \in DOMAIN Schedule
    BY <2>1
  <2> QED BY <2>2, Sizes
<1>3. offset \in Nat \ {0}
  OBVIOUS
<1> HIDE DEF L, R, B, index, offset
<1>4. s \in Int /\ (clock + t) < (s + 1) * B
  BY <1>1
<1> HIDE DEF s
<1>5. minimum \in Int /\ minimum >= s + 1
  BY <1>3, <1>4
<1> HIDE DEF minimum
<1>6. distance \in Nat
  <2>1. minimum % (L * R) \in Nat
    BY <1>1, <1>5
  <2>2. (minimum % (L * R)) \div R \in Int
    BY <2>1, <1>1
  <2> QED BY <2>2, <1>1, <1>2
<1> HIDE DEF distance
<1>7. slot \in Int /\ slot >= minimum
  <2>1. minimum % R \in 0 .. R - 1
    BY <1>1, <1>5
  <2>2. distance # 0 => distance * R >= R /\ distance * R \in Nat
    BY <1>1, <1>6
  <2> QED BY <2>1, <2>2, <1>1, <1>5, <1>6
<1> HIDE DEF slot
<1>8. slot * B \in Int /\ slot * B >= (s + 1) * B
  BY <1>1, <1>4, <1>5, <1>7
<1>9. slot * B - clock \in Int /\ slot * B - clock > t
  BY <1>1, <1>4, <1>8
<1>10. calculate_next_block_time(p, t, c, open) = slot * B - clock
  BY DEF calculate_next_block_time, slot, distance, minimum, s, offset, index, L, R, B
<1> QED BY <1>9, <1>10

(* What schedule_delayed_production_loop does when a producer of the node  *)
(* is in the schedule, and when none is.                                   *)
LEMMA DelayedLoop ==
    ASSUME clock \in Int, NEW l \in Loops, NEW t \in Int, NEW c,
           c.marks \in [Producers -> Int]
    PROVE  LET m == schedule_delayed_production_loop(l, t, c)
           IN /\ m \in Loops /\ m.mode = l.mode /\ m.pending = l.pending
              /\ Active = {} => m = l
              /\ Active # {} => /\ m.timer.kind = "loop"
                                /\ \A i \in DOMAIN m.queue : ~m.queue[i].matches
<1>1. CASE Active = {}
  BY <1>1 DEF schedule_delayed_production_loop
<1>2. CASE Active # {}
  <2> DEFINE S == {calculate_next_block_time(p, t, c, l.pending.open) - BlockInterval : p \in Active}
  <2>1. S # {}
    BY <1>2
  <2>2. \A p \in Active : c.marks[p] \in Int
    BY DEF Active
  <2>3. t - BlockInterval \in Int /\ \A x \in S : x \in Int /\ x >= t - BlockInterval
    <3>1. \A p \in Active : /\ calculate_next_block_time(p, t, c, l.pending.open) \in Int
                            /\ calculate_next_block_time(p, t, c, l.pending.open) > t
      BY <2>2, NextTurnIsLater
    <3> QED BY <3>1, Sizes
  <2> HIDE DEF S
  <2>4. Min(S) \in Int
    BY <2>1, <2>3, EarliestIsTime
  <2>5. schedule_delayed_production_loop(l, t, c) = SetTimer(l, "loop", Min(S))
    BY <1>2 DEF schedule_delayed_production_loop, S
  <2> DEFINE m == SetTimer(l, "loop", Min(S))
  <2>6. /\ m \in Loops /\ m.mode = l.mode /\ m.pending = l.pending
        /\ m.timer.kind = "loop" /\ \A i \in DOMAIN m.queue : ~m.queue[i].matches
    BY <2>4, SetTimerFacts DEF TimerSet
  <2> HIDE DEF m
  <2> QED BY <1>2, <2>5, <2>6 DEF m
<1> QED BY <1>1, <1>2

(* What holds after schedule_production_loop, whatever it was called with. *)
GoodLoop(l, c, po) ==
    l \in Loops /\ AboveMark(l, c) /\ NotBeforeDue(l) /\ KeepsAwake(l, po)

LEMMA ScheduledGood ==
    ASSUME clock \in Int, NEW c \in [time : Int, marks : [Producers -> Int]],
           NEW po, NEW l \in Loops, l.timer = NoTimer,
           NEW r \in start_block(c, po, l)
    PROVE  GoodLoop(Scheduled(c, po, r), c, po)
<1> DEFINE k == r.loop
           m == Scheduled(c, po, r)
<1>1. /\ k \in Loops /\ k.timer = NoTimer /\ AboveMark(k, c)
      /\ r.result \in {"succeeded", "exhausted", "failed", "waiting"}
      /\ r.result = "waiting" => k.mode = "speculating"
  BY StartBlock
<1>2. /\ k.mode \in Modes /\ k.pending \in Blocks /\ c.time \in Int
      /\ c.marks \in [Producers -> Int]
  BY <1>1 DEF Loops
<1> HIDE DEF k
<1>3. CASE r.result = "failed"
  <2>1. m = SetTimer(k, "loop", MinSleep)
    BY <1>3 DEF Scheduled, k
  <2>2. /\ m \in Loops /\ m.mode = k.mode /\ m.pending = k.pending
        /\ m.timer.kind = "loop" /\ \A i \in DOMAIN m.queue : ~m.queue[i].matches
    <3>1. TimerSet(SetTimer(k, "loop", MinSleep), k, "loop", MinSleep)
      BY <1>1, Sizes, SetTimerFacts
    <3> QED BY <2>1, <3>1 DEF TimerSet
  <2> HIDE DEF m
  <2> QED BY <1>1, <2>2 DEF GoodLoop, AboveMark, NotBeforeDue, KeepsAwake, Opened, Wakes, m
<1>4. CASE r.result \notin {"failed", "waiting"} /\ k.mode = "producing"
  <2> DEFINE d == Deadline(k, r.result)
             e == [k EXCEPT !.pending.due = d]
  <2>1. d \in Int
    <3>1. k.pending.time \in Int
      BY <1>2 DEF Blocks
    <3>2. Max({0, k.pending.time - BlockInterval}) \in Int
      BY <3>1, Sizes, MaxPair
    <3> QED BY <3>1, <3>2, Sizes DEF Deadline
  <2>2. m = SetTimer(e, "produce", d)
    BY <1>4 DEF Scheduled, k
  <2> HIDE DEF d
  <2>3. /\ e \in Loops /\ e.mode = k.mode /\ e.pending.due = d
        /\ e.pending.producer = k.pending.producer /\ e.pending.open = k.pending.open
    BY <1>1, <1>2, <2>1 DEF Loops, Blocks
  <2> HIDE DEF e
  <2>4. /\ m \in Loops /\ m.mode = e.mode /\ m.pending = e.pending
        /\ m.timer.kind = "produce" /\ d <= m.timer.left
        /\ \A i \in DOMAIN m.queue : ~m.queue[i].matches
    <3>1. TimerSet(SetTimer(e, "produce", d), e, "produce", d)
      BY <2>1, <2>3, SetTimerFacts
    <3> QED BY <2>2, <3>1 DEF TimerSet
  <2> HIDE DEF m
  <2> QED BY <1>1, <2>3, <2>4 DEF GoodLoop, AboveMark, NotBeforeDue, KeepsAwake, Opened, Wakes, m
<1>5. CASE k.mode = "speculating" /\ r.result # "failed"
  <2> DEFINE t == IF r.result = "waiting" THEN calculate_pending_block_time(c)
                  ELSE k.pending.time
             n == schedule_delayed_production_loop(k, t, c)
  <2>1. t \in Int
    BY <1>2, PendingTime DEF Blocks
  <2>2. m = IF Producers # {} /\ ~production_disabled_by_policy(po) THEN n ELSE k
    BY <1>5 DEF Scheduled, k
  <2> HIDE DEF t
  <2>3. /\ n \in Loops /\ n.mode = k.mode
        /\ Active # {} => n.timer.kind = "loop"
    BY <1>1, <1>2, <2>1, DelayedLoop
  <2> HIDE DEF n
  <2>4. Active # {} => Producers # {}
    BY DEF Active
  <2>5. m \in Loops /\ m.mode = "speculating" /\ (WantsToProduce(po) => Wakes(m))
    BY <1>1, <1>5, <2>2, <2>3, <2>4 DEF WantsToProduce, Wakes
  <2> HIDE DEF m
  <2> QED BY <2>5 DEF GoodLoop, AboveMark, NotBeforeDue, KeepsAwake, Opened, m
<1> QED BY <1>1, <1>2, <1>3, <1>4, <1>5 DEF Modes

LEMMA ScheduleLoopGood ==
    ASSUME clock \in Int, NEW c \in [time : Int, marks : [Producers -> Int]],
           NEW po, NEW l \in Loops, NEW b, schedule_production_loop(c, po, l, b)
    PROVE  GoodLoop(loop', c, po)
<1>1. [l EXCEPT !.timer = NoTimer] \in Loops /\ [l EXCEPT !.timer = NoTimer].timer = NoTimer
  BY DEF Loops, NoTimer, Timers
<1> QED BY <1>1, ScheduledGood DEF schedule_production_loop
-----------------------------------------------------------------------------
Chains == [time : Int, marks : [Producers -> Int]]

LEMMA ShiftType ==
    ASSUME NEW marks \in [Producers -> Int], NEW d \in Int
    PROVE  Shift(marks, d) \in [Producers -> Int]
<1>1. Low \in Int
  BY LoopAssumption DEF Low
<1>2. \A p \in Producers : Max({Low, marks[p] - d}) \in Int
  BY <1>1, MaxPair
<1> QED BY <1>1, <1>2 DEF Shift

LEMMA InitLoop == Init => LoopInv
<1> SUFFICES ASSUME Init PROVE LoopInv
  OBVIOUS
<1> DEFINE l == [mode |-> "speculating", pending |-> NoBlock, timer |-> NoTimer, queue |-> <<>>]
<1>1. clock \in Int
  BY Sizes DEF Init
<1>2. chain \in Chains
  <2>1. Low \in Int /\ -StaleHead - 1 \in Int
    BY LoopAssumption DEF Low
  <2>2. -(clock % BlockInterval) \in Int
    BY <1>1, Sizes
  <2> QED BY <2>1, <2>2 DEF Init, Chains
<1>3. policy \in Policies
  BY LoopAssumption DEF Init, Policies
<1>4. l \in Loops /\ l.timer = NoTimer
  <2>1. NoBlock \in Blocks
    BY Sizes DEF NoBlock, Blocks, Scheduling
  <2> QED BY <2>1 DEF Loops, Modes, NoTimer, Timers
<1>5. \E r \in start_block(chain, policy, l) : loop = Scheduled(chain, policy, r)
  BY DEF Init
<1>6. GoodLoop(loop, chain, policy)
  <2> HIDE DEF l
  <2> QED BY <1>1, <1>2, <1>4, <1>5, ScheduledGood DEF Chains
<1> QED BY <1>1, <1>2, <1>3, <1>6 DEF LoopInv, GoodLoop, Chains

(* Time passes: the deadline and the timer come nearer together.           *)
LEMMA TickKeeps ==
    ASSUME LoopInv, Tick
    PROVE  LoopInv'
<1> DEFINE l == loop
<1>1. clock' \in Int /\ chain' \in Chains /\ policy' \in Policies
  <2>1. clock' \in Int
    BY Sizes DEF LoopInv, Tick
  <2>2. Max({Floor, chain.time - 1}) \in Int
    BY MaxPair, Sizes DEF LoopInv
  <2> QED BY <2>1, <2>2 DEF LoopInv, Tick, Chains, Nearer
<1>2. /\ loop.timer \in Timers /\ loop.pending \in Blocks /\ loop.timer.left \in Nat
      /\ loop.pending.due \in Int /\ loop.pending.time \in Int
  BY DEF LoopInv, Loops, Timers, Blocks
<1>3. /\ Max({0, loop.timer.left - 1}) \in Nat
      /\ Max({0, loop.timer.left - 1}) >= loop.timer.left - 1
      /\ Max({Floor, loop.pending.time - 1}) \in Int
      /\ Max({Floor, loop.pending.due - 1}) \in Int
      /\ \A x \in Nat : loop.pending.due - 1 <= x => Max({Floor, loop.pending.due - 1}) <= x
  <2> DEFINE a == loop.timer.left - 1
             b == loop.pending.time - 1
             c == loop.pending.due - 1
  <2>1. a \in Int /\ b \in Int /\ c \in Int
    BY <1>2
  <2> HIDE DEF a, b, c
  <2>2. /\ Max({0, a}) = IF 0 >= a THEN 0 ELSE a
        /\ Max({Floor, b}) = IF Floor >= b THEN Floor ELSE b
        /\ Max({Floor, c}) = IF Floor >= c THEN Floor ELSE c
    BY <2>1, MaxPair, Sizes
  <2>3. Max({0, a}) \in Nat /\ Max({0, a}) >= a /\ Max({Floor, b}) \in Int
    BY <2>1, <2>2, Sizes
  <2>4. Max({Floor, c}) \in Int /\ \A x \in Nat : c <= x => Max({Floor, c}) <= x
    <3>1. Floor \in Int /\ Floor < 0
      BY Sizes
    <3>2. CASE Floor >= c
      <4>1. Max({Floor, c}) = Floor
        BY <3>2, <2>2
      <4> QED BY <4>1, <3>1
    <3>3. CASE ~ (Floor >= c)
      <4>1. Max({Floor, c}) = c
        BY <3>3, <2>2
      <4> QED BY <4>1, <2>1
    <3> QED BY <3>2, <3>3
  <2> QED BY <2>3, <2>4 DEF a, b, c
<1>4. /\ loop' \in Loops /\ loop'.mode = loop.mode /\ loop'.queue = loop.queue
      /\ loop'.timer.kind = loop.timer.kind
      /\ loop'.timer.left = Max({0, loop.timer.left - 1})
      /\ loop'.pending.open = loop.pending.open
      /\ loop'.pending.producer = loop.pending.producer
      /\ loop.pending.open => loop'.pending.due = Max({Floor, loop.pending.due - 1})
  <2> DEFINE p == Aged(loop.pending)
             t == [loop.timer EXCEPT !.left = Max({0, @ - 1})]
  <2>1. /\ p \in Blocks /\ p.open = loop.pending.open /\ p.producer = loop.pending.producer
        /\ loop.pending.open => p.due = Max({Floor, loop.pending.due - 1})
    BY <1>2, <1>3 DEF Blocks, Aged, Nearer
  <2>2. t \in Timers /\ t.kind = loop.timer.kind /\ t.left = Max({0, loop.timer.left - 1})
    BY <1>2, <1>3 DEF Timers
  <2>3. loop' = [loop EXCEPT !.timer = t, !.pending = p]
    BY DEF Tick, LoopInv, Loops
  <2> HIDE DEF p, t
  <2> QED BY <2>1, <2>2, <2>3 DEF LoopInv, Loops
<1>5. AboveMark(loop', chain')
  BY <1>4 DEF LoopInv, AboveMark, Opened, Tick
<1>6. NotBeforeDue(loop')
  <2> SUFFICES ASSUME Opened(loop')
               PROVE  /\ loop'.timer.kind = "produce" => loop'.pending.due <= loop'.timer.left
                      /\ \A i \in DOMAIN loop'.queue :
                            loop'.queue[i].matches /\ loop'.queue[i].kind = "produce"
                               => loop'.pending.due <= 0
    BY DEF NotBeforeDue
  <2>1. Opened(loop) /\ loop'.pending.due = Max({Floor, loop.pending.due - 1})
    BY <1>4 DEF Opened
  <2>2. loop'.timer.kind = "produce" => loop'.pending.due <= loop'.timer.left
    <3> SUFFICES ASSUME loop'.timer.kind = "produce"
                 PROVE  loop'.pending.due <= loop'.timer.left
      OBVIOUS
    <3>1. loop.pending.due <= loop.timer.left
      BY <1>4, <2>1 DEF LoopInv, NotBeforeDue
    <3>2. loop.pending.due - 1 <= Max({0, loop.timer.left - 1})
      BY <3>1, <1>2, <1>3
    <3> QED BY <3>2, <1>3, <1>4, <2>1
  <2>3. ASSUME NEW i \in DOMAIN loop.queue, loop.queue[i].matches,
               loop.queue[i].kind = "produce"
        PROVE  loop'.pending.due <= 0
    <3>1. loop.pending.due <= 0
      BY <2>1, <2>3 DEF LoopInv, NotBeforeDue
    <3>2. loop.pending.due - 1 <= 0
      BY <3>1, <1>2
    <3> QED BY <3>2, <1>3, <2>1
  <2> QED BY <2>2, <2>3, <1>4
<1>7. KeepsAwake(loop', policy')
  BY <1>4 DEF LoopInv, KeepsAwake, Wakes, WantsToProduce, Tick
<1> QED BY <1>1, <1>4, <1>5, <1>6, <1>7 DEF LoopInv, Chains

(* The timer of the open block expires only when the block is due.         *)
LEMMA TimerExpiresKeeps ==
    ASSUME LoopInv, TimerExpires
    PROVE  LoopInv'
<1> DEFINE h == [kind |-> loop.timer.kind, matches |-> TRUE]
<1>1. loop.queue \in Seq(Handlers) /\ h \in Handlers
  BY DEF LoopInv, Loops, Timers, Handlers
<1>2. /\ loop' = [loop EXCEPT !.timer = NoTimer, !.queue = Append(loop.queue, h)]
      /\ UNCHANGED <<clock, chain, policy>>
  BY DEF TimerExpires, LoopInv, Loops
<1>3. /\ loop' \in Loops /\ loop'.mode = loop.mode /\ loop'.pending = loop.pending
      /\ loop'.timer = NoTimer /\ loop'.queue = Append(loop.queue, h)
  <2>1. Append(loop.queue, h) \in Seq(Handlers) /\ NoTimer \in Timers
    BY <1>1 DEF NoTimer, Timers
  <2> HIDE DEF h
  <2> QED BY <1>2, <2>1 DEF LoopInv, Loops
<1>4. /\ DOMAIN loop'.queue = 1 .. Len(loop.queue) + 1
      /\ \A i \in 1 .. Len(loop.queue) : loop'.queue[i] = loop.queue[i]
      /\ loop'.queue[Len(loop.queue) + 1] = h
      /\ Len(loop.queue) \in Nat /\ DOMAIN loop.queue = 1 .. Len(loop.queue)
  BY <1>1, <1>3
<1>5. AboveMark(loop', chain')
  BY <1>2, <1>3 DEF LoopInv, AboveMark, Opened
<1>6. NotBeforeDue(loop')
  <2> SUFFICES ASSUME Opened(loop'), NEW i \in DOMAIN loop'.queue,
                      loop'.queue[i].matches, loop'.queue[i].kind = "produce"
               PROVE  loop'.pending.due <= 0
    BY <1>3 DEF NotBeforeDue, NoTimer
  <2>1. CASE i = Len(loop.queue) + 1
    BY <2>1, <1>3, <1>4 DEF LoopInv, NotBeforeDue, Opened, TimerExpires
  <2>2. CASE i \in 1 .. Len(loop.queue)
    BY <2>2, <1>3, <1>4 DEF LoopInv, NotBeforeDue, Opened
  <2> QED BY <2>1, <2>2, <1>4
<1>7. KeepsAwake(loop', policy')
  <2>1. Len(loop.queue) + 1 \in DOMAIN loop'.queue /\ loop'.queue[Len(loop.queue) + 1].matches
    BY <1>4
  <2> QED BY <2>1 DEF KeepsAwake, Wakes
<1> QED BY <1>2, <1>3, <1>5, <1>6, <1>7 DEF LoopInv

(* Whatever ends in schedule_production_loop keeps the invariant.          *)
LEMMA Rescheduled ==
    ASSUME LoopInv, NEW l \in Loops, NEW b, UNCHANGED clock,
           chain' \in Chains, policy' \in Policies,
           schedule_production_loop(chain', policy', l, b)
    PROVE  LoopInv'
<1>1. GoodLoop(loop', chain', policy')
  BY ScheduleLoopGood DEF LoopInv, Chains
<1> QED BY <1>1 DEF LoopInv, GoodLoop, Chains

LEMMA RestType ==
    ASSUME LoopInv, loop.queue # <<>>
    PROVE  /\ Rest \in Loops /\ Rest.queue = Tail(loop.queue) /\ Rest.timer = loop.timer
           /\ Rest.mode = loop.mode /\ Rest.pending = loop.pending
           /\ loop.queue \in Seq(Handlers) /\ Tail(loop.queue) \in Seq(Handlers)
<1>1. loop.queue \in Seq(Handlers)
  BY DEF LoopInv, Loops
<1>2. Tail(loop.queue) \in Seq(Handlers)
  BY <1>1
<1> QED BY <1>1, <1>2 DEF LoopInv, Loops, Rest

LEMMA AbortType ==
    ASSUME NEW l \in Loops
    PROVE  abort_block(l) \in Loops
<1>1. NoBlock \in Blocks
  BY Sizes DEF NoBlock, Blocks, Scheduling
<1> QED BY <1>1 DEF abort_block, Loops

(* A handler that no longer matches was nobody's wake-up call.             *)
LEMMA StaleHandlerKeeps ==
    ASSUME LoopInv, StaleHandler
    PROVE  LoopInv'
<1>1. /\ loop' \in Loops /\ loop'.queue = Tail(loop.queue) /\ loop'.timer = loop.timer
      /\ loop'.mode = loop.mode /\ loop'.pending = loop.pending
      /\ loop.queue \in Seq(Handlers) /\ loop.queue # <<>> /\ ~ loop.queue[1].matches
      /\ UNCHANGED <<clock, chain, policy>>
  BY RestType DEF StaleHandler
<1>2. /\ DOMAIN loop'.queue = 1 .. Len(loop.queue) - 1 /\ Len(loop.queue) \in Nat
      /\ DOMAIN loop.queue = 1 .. Len(loop.queue)
      /\ \A i \in 1 .. Len(loop.queue) - 1 : loop'.queue[i] = loop.queue[i + 1]
  BY <1>1
<1>3. \A i \in DOMAIN loop'.queue :
         i + 1 \in DOMAIN loop.queue /\ loop'.queue[i] = loop.queue[i + 1]
  BY <1>2
<1>4. ASSUME NEW i \in DOMAIN loop.queue, loop.queue[i].matches
      PROVE  i - 1 \in DOMAIN loop'.queue /\ loop'.queue[i - 1].matches
  <2>1. i # 1
    BY <1>1, <1>4
  <2>2. i - 1 \in 1 .. Len(loop.queue) - 1 /\ (i - 1) + 1 = i
    BY <1>2, <2>1
  <2>3. loop'.queue[i - 1] = loop.queue[(i - 1) + 1]
    BY <1>2, <2>2
  <2> QED BY <1>2, <1>4, <2>2, <2>3
<1>5. AboveMark(loop', chain')
  BY <1>1 DEF LoopInv, AboveMark, Opened
<1>6. NotBeforeDue(loop')
  BY <1>1, <1>3 DEF LoopInv, NotBeforeDue, Opened
<1>7. KeepsAwake(loop', policy')
  BY <1>1, <1>4 DEF LoopInv, KeepsAwake, Wakes, WantsToProduce
<1> QED BY <1>1, <1>5, <1>6, <1>7 DEF LoopInv

LEMMA ReevaluateKeeps ==
    ASSUME LoopInv, NEW po \in Policies, NEW b, Reevaluate(po, b)
    PROVE  LoopInv'
<1>1. CASE loop.mode = "speculating"
  <2>1. abort_block(loop) \in Loops
    BY AbortType DEF LoopInv
  <2> QED BY <1>1, <2>1, Rescheduled DEF Reevaluate, LoopInv, Chains
<1>2. CASE loop.mode # "speculating"
  <2>1. loop.mode = "producing" /\ loop' = loop /\ policy' = po /\ UNCHANGED <<clock, chain>>
    BY <1>2 DEF Reevaluate, LoopInv, Loops, Modes
  <2> QED BY <2>1 DEF LoopInv, KeepsAwake
<1> QED BY <1>1, <1>2

LEMMA HandlerKeeps ==
    ASSUME LoopInv, Handler
    PROVE  LoopInv'
<1>1. CASE LoopHandler
  <2>1. Rest \in Loops
    BY <1>1, RestType DEF LoopHandler, HandlerRuns
  <2> QED BY <1>1, <2>1, Rescheduled DEF LoopHandler, LoopInv, Chains
<1>2. CASE produce_block
  <2> DEFINE p == loop.pending.producer
             c == [time |-> loop.pending.time, marks |-> [Shift(chain.marks, 1) EXCEPT ![p] = 0]]
  <2>1. abort_block(Rest) \in Loops
    BY <1>2, RestType, AbortType DEF produce_block, HandlerRuns
  <2>2. Shift(chain.marks, 1) \in [Producers -> Int] /\ loop.pending.time \in Int
    BY ShiftType DEF LoopInv, Loops, Blocks
  <2>3. c \in Chains
    <3>1. p \in Producers
      BY <1>2 DEF produce_block, CanProduce, LoopInv, AboveMark, Opened
    <3> QED BY <2>2, <3>1 DEF Chains
  <2> HIDE DEF c
  <2>4. chain' = c /\ UNCHANGED clock
    BY <1>2 DEF produce_block, c
  <2>5. PICK irreversible \in BOOLEAN :
           /\ policy' = [policy EXCEPT !.lib_old = @ /\ ~irreversible]
           /\ schedule_production_loop(c, policy', abort_block(Rest), budget)
    BY <1>2 DEF produce_block, c
  <2>6. policy' \in Policies
    BY <2>5 DEF LoopInv, Policies
  <2> QED BY <2>1, <2>3, <2>4, <2>5, <2>6, Rescheduled
<1>3. CASE produce_block_fails
  <2>1. abort_block(Rest) \in Loops
    BY <1>3, RestType, AbortType DEF produce_block_fails, HandlerRuns
  <2> QED BY <1>3, <2>1, Rescheduled DEF produce_block_fails, LoopInv, Chains
<1> QED BY <1>1, <1>2, <1>3, StaleHandlerKeeps DEF Handler

LEMMA NextLoop == LoopInv /\ [Next]_vars => LoopInv'
<1> SUFFICES ASSUME LoopInv, [Next]_vars PROVE LoopInv'
  OBVIOUS
<1>0. abort_block(loop) \in Loops
  BY AbortType DEF LoopInv
<1>1. ASSUME NEW t \in Floor .. BlockInterval, NEW d \in {1, -1},
             NEW irreversible \in BOOLEAN, AcceptBlock(t, d, irreversible)
      PROVE  LoopInv'
  <2>1. Shift(chain.marks, d) \in [Producers -> Int] /\ t \in Int
    BY ShiftType, Sizes DEF LoopInv
  <2> DEFINE c == [time |-> t, marks |-> Shift(chain.marks, d)]
             po == [policy EXCEPT !.enabled = @ \/ t + BlockInterval >= 0,
                                  !.lib_old = @ /\ ~irreversible]
             b == IF d < 0 THEN [budget EXCEPT !.drop = @ + d] ELSE budget
  <2>2. chain' = c /\ policy' = po /\ UNCHANGED clock
        /\ schedule_production_loop(c, po, abort_block(loop), b)
    BY <1>1 DEF AcceptBlock
  <2>3. c \in Chains /\ po \in Policies
    BY <2>1 DEF LoopInv, Chains, Policies
  <2> HIDE DEF c, po, b
  <2> QED BY <1>0, <2>2, <2>3, Rescheduled
<1>2. ASSUME NEW rejected \in BOOLEAN, OtherBlock(rejected)
      PROVE  LoopInv'
  <2> DEFINE po == IF rejected THEN policy
                   ELSE [policy EXCEPT !.enabled = @ \/ chain.time + BlockInterval >= 0]
             b == [budget EXCEPT !.requests = @ - 1]
  <2>1. policy' = po /\ UNCHANGED <<clock, chain>>
        /\ schedule_production_loop(chain, po, abort_block(loop), b)
    BY <1>2 DEF OtherBlock
  <2>2. po \in Policies
    BY DEF LoopInv, Policies
  <2> HIDE DEF po, b
  <2> QED BY <1>0, <2>1, <2>2, Rescheduled DEF LoopInv, Chains
<1>3. CASE pause
  <2>1. policy' \in Policies /\ production_disabled_by_policy(policy')
        /\ UNCHANGED <<clock, chain, loop>>
    BY <1>3 DEF pause, LoopInv, Policies, production_disabled_by_policy
  <2> QED BY <2>1 DEF LoopInv, KeepsAwake, WantsToProduce
<1>4. CASE IrreversibleTooOld
  <2>1. policy' \in Policies /\ production_disabled_by_policy(policy')
        /\ UNCHANGED <<clock, chain, loop>>
    BY <1>4 DEF IrreversibleTooOld, LoopInv, Policies, production_disabled_by_policy
  <2> QED BY <2>1 DEF LoopInv, KeepsAwake, WantsToProduce
<1>5. CASE resume
  <2>1. [policy EXCEPT !.paused = FALSE] \in Policies
    BY DEF LoopInv, Policies
  <2> QED BY <1>5, <2>1, ReevaluateKeeps DEF resume
<1>6. CASE update_runtime_options
  <2>1. \A old \in BOOLEAN : [policy EXCEPT !.lib_old = old] \in Policies
    BY DEF LoopInv, Policies
  <2> QED BY <1>6, <2>1, ReevaluateKeeps DEF update_runtime_options
<1>7. CASE create_snapshot
  BY <1>0, <1>7, Rescheduled DEF create_snapshot, LoopInv, Chains
<1>8. CASE UNCHANGED vars
  BY <1>8 DEF LoopInv, vars
<1> QED
  BY <1>1, <1>2, <1>3, <1>4, <1>5, <1>6, <1>7, <1>8, TickKeeps,
     TimerExpiresKeeps, HandlerKeeps DEF Next
-----------------------------------------------------------------------------
(* The loop never dies: after any sequence of timers, failures, blocks and *)
(* operator requests, a node that may produce has something that wakes it  *)
(* (schedule_production_loop).                                             *)
THEOREM LoopNeverDies == Spec => []LoopAlive
<1>1. LoopInv => LoopAlive
  BY DEF LoopInv, KeepsAwake, WantsToProduce, Wakes, LoopAlive
<1> QED BY <1>1, InitLoop, NextLoop, PTL DEF Spec

(* No block leaves before the deadline that schedule_production_loop set   *)
(* for it, however late the handlers of other timers run.                  *)
THEOREM BlocksAreDue == Spec => ShippedWhenDue
<1>1. LoopInv /\ [Next]_vars => [produce_block => loop.pending.due <= 0]_vars
  <2> SUFFICES ASSUME LoopInv, produce_block PROVE loop.pending.due <= 0
    OBVIOUS
  <2>1. loop.queue \in Seq(Handlers) /\ loop.queue # <<>>
        /\ loop.queue[1].matches /\ loop.queue[1].kind = "produce"
    BY DEF LoopInv, Loops, produce_block, HandlerRuns
  <2>2. 1 \in DOMAIN loop.queue
    BY <2>1
  <2> QED BY <2>1, <2>2 DEF LoopInv, NotBeforeDue, Opened, produce_block, CanProduce
<1> QED BY <1>1, InitLoop, NextLoop, PTL DEF Spec, ShippedWhenDue

(* No producer signs at or below its watermark: whatever happened to the   *)
(* head between start_block and produce_block, the check that start_block  *)
(* made still holds.                                                       *)
THEOREM ProducersSignOnce == Spec => NeverSignsTwice
<1>1. LoopInv /\ [Next]_vars
         => [produce_block => chain.marks[loop.pending.producer] < 1]_vars
  BY DEF LoopInv, AboveMark, Opened, produce_block, CanProduce
<1> QED BY <1>1, InitLoop, NextLoop, PTL DEF Spec, NeverSignsTwice
-----------------------------------------------------------------------------
(* The arithmetic of slots.                                                *)
LEMMA DivMod ==
    ASSUME NEW a \in Int, NEW n \in Nat \ {0}
    PROVE  /\ a \div n \in Int /\ a % n \in 0 .. n - 1
           /\ a = n * (a \div n) + (a % n)
  OBVIOUS

LEMMA DivModUnique ==
    ASSUME NEW a \in Int, NEW n \in Nat \ {0}, NEW q \in Int, NEW r \in 0 .. n - 1,
           a = n * q + r
    PROVE  a \div n = q /\ a % n = r
<1> DEFINE e == a \div n
           f == a % n
<1>1. e \in Int /\ f \in 0 .. n - 1 /\ a = n * e + f
  BY DivMod
<1> HIDE DEF e, f
<1>2. n * (q - e) = f - r
  BY <1>1
<1>3. q - e < 1
  <2> SUFFICES ASSUME q - e >= 1 PROVE FALSE
    BY <1>1
  <2>1. n * (q - e) >= n
    BY <1>1
  <2> QED BY <2>1, <1>1, <1>2
<1>4. q - e > -1
  <2> SUFFICES ASSUME q - e <= -1 PROVE FALSE
    BY <1>1
  <2>1. n * (q - e) <= -n
    BY <1>1
  <2> QED BY <2>1, <1>1, <1>2
<1>5. q = e
  BY <1>1, <1>3, <1>4
<1> QED BY <1>1, <1>2, <1>5 DEF e, f

LEMMA ScaledMod ==
    ASSUME NEW x \in Int, NEW n \in Nat \ {0}, NEW b \in Nat \ {0}
    PROVE  (x * b) % (n * b) = (x % n) * b /\ ((x % n) * b) \div b = x % n
<1> DEFINE q == x \div n
           r == x % n
<1>1. q \in Int /\ r \in 0 .. n - 1 /\ x = n * q + r
  BY DivMod
<1> HIDE DEF q, r
<1>2. n * b \in Nat \ {0} /\ r * b \in Int /\ x * b \in Int
  BY <1>1
<1>3. r * b >= 0
  BY <1>1
<1>4. (r + 1) * b <= n * b
  BY <1>1
<1>5. r * b \in 0 .. (n * b) - 1
  BY <1>1, <1>2, <1>3, <1>4
<1>6. x * b = (n * b) * q + r * b
  BY <1>1
<1>7. (x * b) % (n * b) = r * b
  BY <1>1, <1>2, <1>5, <1>6, DivModUnique
<1>8. (r * b) \div b = r
  <2>1. r * b = b * r + 0 /\ 0 \in 0 .. b - 1 /\ r \in Int
    BY <1>1
  <2> QED BY <2>1, <1>2, DivModUnique
<1> QED BY <1>7, <1>8 DEF r

LEMMA TurnOfSlot ==
    ASSUME NEW x \in Int, NEW l \in Nat \ {0}, NEW r \in Nat \ {0}
    PROVE  (x % (l * r)) \div r = (x \div r) % l
<1> DEFINE q == x \div (l * r)
           y == x % (l * r)
           u == y \div r
           v == y % r
<1>1. l * r \in Nat \ {0}
  OBVIOUS
<1>2. q \in Int /\ y \in 0 .. (l * r) - 1 /\ x = (l * r) * q + y
  BY <1>1, DivMod
<1> HIDE DEF q, y
<1>3. u \in Int /\ v \in 0 .. r - 1 /\ y = r * u + v
  BY <1>1, <1>2, DivMod
<1> HIDE DEF u, v
<1>4. u \in 0 .. l - 1
  <2>1. u >= 0
    <3> SUFFICES ASSUME u <= -1 PROVE FALSE
      BY <1>3
    <3>1. r * u <= -r
      BY <1>3
    <3> QED BY <3>1, <1>1, <1>2, <1>3
  <2>2. u < l
    <3> SUFFICES ASSUME u >= l PROVE FALSE
      BY <1>3
    <3>1. r * u >= l * r
      BY <1>3
    <3> QED BY <3>1, <1>1, <1>2, <1>3
  <2> QED BY <2>1, <2>2, <1>3
<1>5. x = r * (l * q + u) + v /\ l * q + u \in Int
  BY <1>2, <1>3
<1>6. x \div r = l * q + u
  BY <1>3, <1>5, DivModUnique
<1>7. (l * q + u) % l = u
  BY <1>2, <1>4, <1>5, DivModUnique
<1> QED BY <1>6, <1>7 DEF u, y

(* From turn h on, the first turn of the producer at position i.           *)
FirstTurn(l, i, h, d) ==
    (h + d) % l = i /\ \A j \in h .. h + d - 1 : j % l # i
Distance(l, i, h, d) ==
    d \in 0 .. l - 1 /\ \E e \in Int : i - (h % l) = l * e + d

LEMMA OwnTurn ==
    ASSUME NEW l \in Nat \ {0}, NEW i \in 0 .. l - 1, NEW h \in Int,
           NEW d, Distance(l, i, h, d)
    PROVE  FirstTurn(l, i, h, d)
<1> DEFINE q == h \div l
           u == h % l
<1>a. q \in Int /\ u \in Int /\ h = l * q + u
  <2>1. q \in Int /\ u \in 0 .. l - 1 /\ h = l * q + u
    BY DivMod
  <2> HIDE DEF q, u
  <2> QED BY <2>1
<1>b. d \in 0 .. l - 1
  BY DEF Distance
<1>c. PICK e \in Int : i - u = l * e + d
  BY DEF Distance
<1> HIDE DEF q, u
<1> DEFINE y == q - e
<1>1. y \in Int /\ l * y = l * q - l * e /\ l * q \in Int /\ l * e \in Int /\ h + d \in Int
  BY <1>a, <1>b, <1>c
<1>2. h + d = l * y + i
  BY <1>1, <1>a, <1>b, <1>c
<1> HIDE DEF y
<1>3. (h + d) % l = i
  BY <1>1, <1>2, DivModUnique
<1>4. ASSUME NEW j \in h .. h + d - 1, j % l = i PROVE FALSE
  <2> DEFINE w == j \div l
             z == y - w
  <2>0. j \in Int
    BY <1>1, <1>b, <1>c
  <2>1. w \in Int /\ j = l * w + i
    BY <1>4, <2>0, DivMod
  <2> HIDE DEF w
  <2>2. z \in Int /\ l * z = l * y - l * w /\ l * y \in Int /\ l * w \in Int
    BY <1>1, <2>1
  <2> HIDE DEF z
  <2>3. h + d - j = l * z
    <3> DEFINE X == l * y
               W == l * w
    <3>1. X \in Int /\ W \in Int /\ l * z = X - W /\ h + d = X + i /\ j = W + i
      BY <1>2, <2>1, <2>2
    <3>2. h + d \in Int /\ i \in Int
      BY <1>1
    <3> HIDE DEF X, W
    <3>3. h + d - j = X - W
      BY <3>1, <3>2, <2>0, <1>b
    <3> QED BY <3>1, <3>3
  <2>4. h + d - j > 0 /\ h + d - j < l
    BY <2>0, <1>1, <1>b, <1>c
  <2>5. z <= 0 => l * z <= 0
    BY <2>2
  <2>6. z >= 1 => l * z >= l
    BY <2>2
  <2> QED BY <2>2, <2>3, <2>4, <2>5, <2>6
<1> QED BY <1>3, <1>4 DEF FirstTurn

(* From slot m on, the first slot in a turn of the producer at position i: *)
(* this is what calculate_next_block_time computes.                        *)
FirstSlot(l, r, i, m, slot) ==
    /\ slot \in m .. m + l * r
    /\ (slot \div r) % l = i
    /\ \A k \in m .. slot - 1 : (k \div r) % l # i

LEMMA FirstOwnSlot ==
    ASSUME NEW m \in Int, NEW l \in Nat \ {0}, NEW r \in Nat \ {0}, NEW i \in 0 .. l - 1,
           NEW d, d = (i - (m % (l * r)) \div r) % l,
           NEW slot, slot = IF d = 0 THEN m ELSE m - (m % r) + d * r
    PROVE  FirstSlot(l, r, i, m, slot)
<1> DEFINE h == m \div r
           v == m % r
<1>1. h \in Int /\ v \in 0 .. r - 1 /\ m = r * h + v
  BY DivMod
<1>2. d = (i - (h % l)) % l
  BY TurnOfSlot
<1> HIDE DEF h
<1>3. i - (h % l) \in Int
  BY <1>1
<1>4. /\ d \in 0 .. l - 1
      /\ (i - (h % l)) \div l \in Int
      /\ i - (h % l) = l * ((i - (h % l)) \div l) + d
  BY <1>2, <1>3, DivMod
<1>5. slot = IF d = 0 THEN m ELSE m - v + d * r
  OBVIOUS
<1>6. (h + d) % l = i /\ \A j \in h .. h + d - 1 : j % l # i
  <2>1. Distance(l, i, h, d)
    BY <1>4 DEF Distance
  <2>2. FirstTurn(l, i, h, d)
    BY <2>1, <1>1, OwnTurn
  <2> QED BY <2>2 DEF FirstTurn
<1> HIDE DEF v
<1>8. CASE d = 0
  BY <1>1, <1>5, <1>6, <1>8 DEF h, FirstSlot
<1>9. CASE d # 0
  <2>1. slot = r * (h + d) + 0 /\ slot \in Int /\ h + d \in Int /\ 0 \in 0 .. r - 1
    BY <1>1, <1>4, <1>5, <1>9
  <2>2. slot \div r = h + d
    BY <2>1, DivModUnique
  <2>3. slot \in m .. m + l * r
    <3>1. d * r >= r /\ d * r <= l * r /\ l * r \in Nat /\ d * r \in Nat
      BY <1>4, <1>9
    <3> QED BY <3>1, <1>1, <1>4, <1>5, <1>9
  <2>4. ASSUME NEW k \in m .. slot - 1 PROVE (k \div r) % l # i
    <3> DEFINE j == k \div r
               z == k % r
    <3>0. k \in Int
      BY <2>1
    <3>1. j \in Int /\ z \in 0 .. r - 1 /\ k = r * j + z
      BY <3>0, DivMod
    <3> HIDE DEF j, z
    <3>2. j >= h
      <4> SUFFICES ASSUME j + 1 <= h PROVE FALSE
        BY <3>1, <1>1
      <4>1. r * (j + 1) <= r * h
        BY <3>1, <1>1
      <4> QED BY <4>1, <3>1, <1>1, <2>1
    <3>3. j < h + d
      <4> SUFFICES ASSUME j >= h + d PROVE FALSE
        BY <3>1, <2>1
      <4>1. r * j >= r * (h + d)
        BY <3>1, <2>1
      <4> QED BY <4>1, <3>1, <2>1
    <3>4. j \in h .. h + d - 1
      BY <3>1, <3>2, <3>3, <1>1, <1>4
    <3>5. j % l # i
      BY <3>4, <1>6
    <3> QED BY <3>5 DEF j
  <2> QED BY <1>6, <2>2, <2>3, <2>4 DEF FirstSlot
<1> QED BY <1>8, <1>9

(* calculate_pending_block_time gives the beginning of a slot.             *)
LEMMA PendingTimeAligned ==
    ASSUME clock \in Int, NEW c, c.time \in Int
    PROVE  clock + calculate_pending_block_time(c)
              = BlockInterval * ((clock + calculate_pending_block_time(c)) \div BlockInterval)
<1> DEFINE B == BlockInterval
           b == Max({0, c.time})
           q == (clock + b) \div B
           v == (clock + b) % B
           t == calculate_pending_block_time(c)
<1>1. B \in Nat \ {0} /\ b \in Int
  BY Sizes, MaxPair
<1>2. q \in Int /\ v \in 0 .. B - 1 /\ clock + b = B * q + v
  <2> HIDE DEF b, B
  <2>1. clock + b \in Int
    BY <1>1
  <2> QED BY <2>1, <1>1, DivMod
<1>3. t = b + B - v \/ t = b + B - v + B
  BY DEF calculate_pending_block_time
<1> HIDE DEF B, b, q, v, t
<1>4. PICK n \in Int : clock + t = B * n + 0
  <2>1. CASE t = b + B - v
    <3>1. clock + t = B * (q + 1) + 0 /\ q + 1 \in Int
      BY <2>1, <1>1, <1>2
    <3> QED BY <3>1
  <2>2. CASE t = b + B - v + B
    <3>1. clock + t = B * (q + 2) + 0 /\ q + 2 \in Int
      BY <2>2, <1>1, <1>2
    <3> QED BY <3>1
  <2> QED BY <1>3, <2>1, <2>2
<1>5. (clock + t) \div B = n
  <2>1. clock + t \in Int /\ 0 \in 0 .. B - 1
    BY <1>1, <1>4
  <2> QED BY <2>1, <1>1, <1>4, DivModUnique
<1>6. clock + t = B * ((clock + t) \div B)
  BY <1>1, <1>4, <1>5
<1> QED BY <1>6 DEF B, t

(* Whose slot is n slots after time t, when t is the beginning of slot s.  *)
LEMMA ProducerOfSlot ==
    ASSUME clock \in Int, NEW t \in Int, NEW s \in Int, clock + t = BlockInterval * s,
           NEW n \in Int
    PROVE  get_scheduled_producer(t + n * BlockInterval)
              = Schedule[(((s + n) \div Repetitions) % Len(Schedule)) + 1]
<1> DEFINE L == Len(Schedule)
           R == Repetitions
           B == BlockInterval
           N == L * R
           x == s + n
<1>1. L \in Nat \ {0} /\ R \in Nat \ {0} /\ B \in Nat \ {0}
  BY Sizes
<1>2. Cycle = N * B
  BY DEF Cycle
<1> HIDE DEF L, R, B
<1>3. N \in Nat \ {0} /\ x \in Int
  BY <1>1
<1>4. clock + (t + n * B) = x * B
  BY <1>1 DEF B
<1>5. ((x % N) \div R) = (x \div R) % L
  BY <1>1, <1>3, TurnOfSlot
<1> HIDE DEF N, x
<1>6. ((x * B) % (N * B)) \div B = x % N
  <2>1. (x * B) % (N * B) = (x % N) * B
    BY <1>1, <1>3, ScaledMod
  <2>2. ((x % N) * B) \div B = x % N
    BY <1>1, <1>3, ScaledMod
  <2> QED BY <2>1, <2>2
<1>7. (((clock + (t + n * B)) % Cycle) \div B) \div R = (x \div R) % L
  BY <1>2, <1>4, <1>5, <1>6
<1> QED BY <1>7 DEF get_scheduled_producer, x, L, R, B

(* The position that calculate_next_block_time finds is the producer's.    *)
LEMMA Position ==
    ASSUME NEW p \in Active,
           NEW i, i = (CHOOSE k \in DOMAIN Schedule : Schedule[k] = p) - 1
    PROVE  /\ i \in 0 .. Len(Schedule) - 1
           /\ \A k \in 0 .. Len(Schedule) - 1 : Schedule[k + 1] = p <=> k = i
<1> DEFINE c == CHOOSE k \in DOMAIN Schedule : Schedule[k] = p
<1>1. c \in DOMAIN Schedule /\ Schedule[c] = p
  <2>1. \E k \in DOMAIN Schedule : Schedule[k] = p
    BY DEF Active
  <2> QED BY <2>1
<1> HIDE DEF c
<1>2. \A k \in DOMAIN Schedule : Schedule[k] = p <=> k = c
  BY <1>1, LoopAssumption
<1>3. i = c - 1
  BY DEF c
<1>4. c \in 1 .. Len(Schedule) /\ Len(Schedule) \in Nat
  BY <1>1, Sizes
<1>5. i \in 0 .. Len(Schedule) - 1
  BY <1>3, <1>4
<1>6. ASSUME NEW k \in 0 .. Len(Schedule) - 1
      PROVE  Schedule[k + 1] = p <=> k = i
  <2>1. k + 1 \in DOMAIN Schedule
    BY <1>4, Sizes
  <2>2. Schedule[k + 1] = p <=> k + 1 = c
    BY <2>1, <1>2
  <2> QED BY <2>2, <1>3, <1>4
<1> QED BY <1>5, <1>6

(* The number n of slots after which the producer's next turn comes is the *)
(* first one that is far enough.                                           *)
FirstAfter(p, t, wait, n) ==
    /\ n \in wait .. wait + Cycle
    /\ get_scheduled_producer(t + n * BlockInterval) = p
    /\ \A k \in wait .. n - 1 : get_scheduled_producer(t + k * BlockInterval) # p

LEMMA NextTurn ==
    ASSUME LoopInv, NEW p \in Active, NEW open \in BOOLEAN,
           NEW t, t = calculate_pending_block_time(chain),
           NEW wait, wait = Max({1, chain.marks[p] - (IF open THEN 1 ELSE 0) + 1})
    PROVE  \E n \in Int : /\ FirstAfter(p, t, wait, n)
                          /\ calculate_next_block_time(p, t, chain, open)
                                = t + BlockInterval * n
<1> DEFINE L == Len(Schedule)
           R == Repetitions
           B == BlockInterval
           i == (CHOOSE k \in DOMAIN Schedule : Schedule[k] = p) - 1
           num == IF open THEN 1 ELSE 0
           s == (clock + t) \div B
           m == s + wait
           d == (i - (m % (L * R)) \div R) % L
           slot == IF d = 0 THEN m ELSE m - (m % R) + d * R
<1>1. L \in Nat \ {0} /\ R \in Nat \ {0} /\ B \in Nat \ {0} /\ Cycle = L * R * B
  BY Sizes DEF Cycle
<1>2. clock \in Int /\ chain.time \in Int /\ t \in Int /\ chain.marks[p] \in Int
  BY PendingTime DEF LoopInv, Active
<1>3. wait \in Nat \ {0}
      /\ wait = IF chain.marks[p] > num THEN chain.marks[p] - num + 1 ELSE 1
  <2>1. num \in Int /\ chain.marks[p] - num + 1 \in Int
    BY <1>2
  <2>2. wait = IF 1 >= chain.marks[p] - num + 1 THEN 1 ELSE chain.marks[p] - num + 1
    BY <2>1, MaxPair
  <2>3. \A a, b \in Int :
           LET w == IF 1 >= a - b + 1 THEN 1 ELSE a - b + 1
           IN w \in Nat \ {0} /\ w = IF a > b THEN a - b + 1 ELSE 1
    OBVIOUS
  <2> HIDE DEF num
  <2> QED BY <2>1, <2>2, <2>3, <1>2, Zenon
<1>4. s \in Int /\ clock + t = B * s
  <2>1. clock + t \in Int
    BY <1>2
  <2> QED BY <1>1, <1>2, <2>1, PendingTimeAligned, DivMod
<1>5. i \in 0 .. L - 1 /\ \A k \in 0 .. L - 1 : Schedule[k + 1] = p <=> k = i
  BY Position
<1> HIDE DEF s, i, L, R, B
<1>6. m \in Int
  BY <1>3, <1>4
<1> HIDE DEF m
<1>7. /\ slot \in m .. m + L * R
      /\ (slot \div R) % L = i
      /\ \A k \in m .. slot - 1 : (k \div R) % L # i
  <2> HIDE DEF d
  <2>1. d = (i - (m % (L * R)) \div R) % L
    BY DEF d
  <2>2. slot = IF d = 0 THEN m ELSE m - (m % R) + d * R
    OBVIOUS
  <2> HIDE DEF slot
  <2>3. FirstSlot(L, R, i, m, slot)
    BY <2>1, <2>2, <1>1, <1>5, <1>6, FirstOwnSlot
  <2> QED BY <2>3 DEF FirstSlot
<1>8. calculate_next_block_time(p, t, chain, open) = slot * B - clock
  BY <1>3 DEF calculate_next_block_time, m, s, i, L, R, B
<1> HIDE DEF slot, num
<1> DEFINE n == slot - s
<1>9. n \in Int /\ slot \in Int /\ s + n = slot
  BY <1>1, <1>4, <1>6, <1>7
<1>10. slot * B - clock = t + B * n
  <2>1. B * n = B * slot - B * s /\ B * slot \in Int /\ B * s \in Int /\ B * slot = slot * B
    BY <1>1, <1>4, <1>9
  <2> HIDE DEF n
  <2> QED BY <2>1, <1>2, <1>4
<1>11. n \in wait .. wait + Cycle
  <2>1. L * R \in Nat /\ L * R <= Cycle /\ Cycle \in Nat
    <3>1. L * R \in Nat
      BY <1>1
    <3>2. (L * R) * B >= L * R /\ (L * R) * B \in Nat
      BY <3>1, <1>1
    <3> QED BY <3>1, <3>2, <1>1
  <2>2. slot >= m /\ slot <= m + L * R
    BY <1>6, <1>7, <2>1
  <2> QED BY <2>1, <2>2, <1>3, <1>4, <1>9 DEF m
<1>12. \A k \in Int : get_scheduled_producer(t + k * B) = p <=> ((s + k) \div R) % L = i
  <2> SUFFICES ASSUME NEW k \in Int
               PROVE  get_scheduled_producer(t + k * B) = p <=> ((s + k) \div R) % L = i
    OBVIOUS
  <2> DEFINE h == (s + k) \div R
  <2>1. h \in Int
    BY <1>1, <1>4
  <2>2. get_scheduled_producer(t + k * B) = Schedule[(h % L) + 1]
    BY <1>2, <1>4, ProducerOfSlot DEF B, L, R
  <2> HIDE DEF h
  <2>3. h % L \in 0 .. L - 1
    BY <1>1, <2>1
  <2>4. Schedule[(h % L) + 1] = p <=> h % L = i
    BY <1>5, <2>3
  <2> QED BY <2>2, <2>4 DEF h
<1>13. get_scheduled_producer(t + n * B) = p
  BY <1>7, <1>9, <1>12
<1>14. ASSUME NEW k \in wait .. n - 1 PROVE get_scheduled_producer(t + k * B) # p
  <2>1. k \in Int /\ s + k \in m .. slot - 1
    BY <1>3, <1>4, <1>9 DEF m
  <2> QED BY <2>1, <1>7, <1>12
<1>15. FirstAfter(p, t, wait, n)
  BY <1>11, <1>13, <1>14 DEF FirstAfter, B
<1> HIDE DEF n
<1> QED BY <1>8, <1>9, <1>10, <1>15 DEF B

(* calculate_next_block_time always gives the first slot of the producer   *)
(* that is after the pending block and above the watermark, whatever the   *)
(* schedule, the repetitions and the block interval.                       *)
THEOREM NextTurnIsFirst == Spec => []WakesForNextTurn
<1>1. LoopInv => WakesForNextTurn
  <2> SUFFICES ASSUME LoopInv, NEW p \in Active, NEW open \in BOOLEAN
               PROVE  LET t == calculate_pending_block_time(chain)
                          wait == Max({1, chain.marks[p] - (IF open THEN 1 ELSE 0) + 1})
                          Turn(n) == get_scheduled_producer(t + n * BlockInterval) = p
                      IN calculate_next_block_time(p, t, chain, open) =
                            t + BlockInterval * (CHOOSE n \in wait..(wait + Cycle) :
                               Turn(n) /\ \A k \in wait..(n - 1) : ~Turn(k))
    BY DEF WakesForNextTurn
  <2> DEFINE t == calculate_pending_block_time(chain)
             wait == Max({1, chain.marks[p] - (IF open THEN 1 ELSE 0) + 1})
             P(n) == /\ get_scheduled_producer(t + n * BlockInterval) = p
                     /\ \A k \in wait .. (n - 1) :
                           ~(get_scheduled_producer(t + k * BlockInterval) = p)
  <2>1. PICK n \in Int : /\ FirstAfter(p, t, wait, n)
                         /\ calculate_next_block_time(p, t, chain, open)
                                = t + BlockInterval * n
    BY NextTurn
  <2>2. wait \in Int
    <3>1. chain.marks[p] - (IF open THEN 1 ELSE 0) + 1 \in Int
      BY DEF LoopInv, Active
    <3> QED BY <3>1, MaxPair
  <2> HIDE DEF t, wait
  <2>3. n \in wait .. (wait + Cycle) /\ P(n)
    BY <2>1 DEF FirstAfter
  <2>4. ASSUME NEW o \in wait .. (wait + Cycle), P(o) PROVE o = n
    <3>1. o \in Int /\ Cycle \in Nat
      BY <2>2, Sizes
    <3>2. CASE o < n
      BY <3>1, <3>2, <2>1, <2>2, <2>3, <2>4
    <3>3. CASE n < o
      BY <3>1, <3>3, <2>1, <2>2, <2>3, <2>4
    <3> QED BY <3>1, <3>2, <3>3
  <2>5. (CHOOSE o \in wait .. (wait + Cycle) : P(o)) = n
    <3> HIDE DEF P
    <3> QED BY <2>3, <2>4, Zenon
  <2> QED BY <2>1, <2>5 DEF t, wait
<1> QED BY <1>1, InitLoop, NextLoop, PTL DEF Spec

=============================================================================

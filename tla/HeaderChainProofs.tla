-------------------------- MODULE HeaderChainProofs --------------------------
(***************************************************************************)
(* Proofs about HeaderChain, and so about block_header_state, for any      *)
(* producers, schedules and lengths of the chain.                          *)
(*                                                                         *)
(* set_confirmed only counts: a block is proposed irreversible when its    *)
(* count of missing confirmations is down to zero.  That the confirmations *)
(* come from different producers rests on the double-confirm check, whose  *)
(* table of last produced blocks loses the producers that leave the        *)
(* schedule.  The invariant Remembers says why that does no harm: one that *)
(* comes back is entered with a block number beyond all its votes, since   *)
(* its new schedule became pending after the promotion that dropped it,    *)
(* and is promoted only when that block is irreversible.                   *)
(*                                                                         *)
(* The check does not bind a block that confirms more blocks than there    *)
(* are (past.overlong): on a chain with such a block the counts still      *)
(* never wrap and the proposed block never moves back, but a count is no   *)
(* longer one of distinct producers.                                       *)
(***************************************************************************)
EXTENDS HeaderChain, FiniteSetTheorems, TLAPS

Fits(sch) == sch \in Schedule /\ Len(sch.producers) <= max_producers

(* Header states as they are on a chain.                                   *)
Lib(h) == h.dpos_irreversible_blocknum
Proposed(h) == h.dpos_proposed_irreversible_blocknum

Regular(h) ==
    /\ h \in HeaderState
    /\ h.block_num >= 1
    /\ Fits(h.active_schedule) /\ Len(h.active_schedule.producers) >= 1
    /\ Fits(h.pending_schedule)
    /\ \A p \in Producer : h.producer_to_last_implied_irb[p] <= h.block_num
    /\ Proposed(h) + Len(h.confirm_count) <= h.block_num

(* The next decrement of a tracked count does not wrap.                    *)
Counting(h) == \A i \in 1 .. Len(h.confirm_count) : h.confirm_count[i] > 0

Ballots(n) == [1 .. n -> [needed : Nat, by : SUBSET Producer]]

(* Every tracked count is what its block still needs.                      *)
Tracks(cc, num, v) ==
    \A i \in 1 .. Len(cc) :
        /\ cc[i] > 0
        /\ cc[i] + Cardinality(v[num - (Len(cc) - i)].by) = v[num - (Len(cc) - i)].needed

Quorum(n, v) == n > 0 => Cardinality(v[n].by) >= v[n].needed

(* The double-confirm check remembers every vote: it knows of a later      *)
(* block of the producer, or the producer is not scheduled, and will be    *)
(* entered again only behind its votes.                                    *)
Remembers(h, v) ==
    \A n \in 1 .. h.block_num : \A p \in v[n].by :
        \/ h.producer_to_last_produced[p] >= n
        \/ /\ h.producer_to_last_produced[p] = absent
           /\ p \notin Members(h.active_schedule)
           /\ h.pending_schedule.producers # <<>> => n < h.pending_schedule_lib_num

ChainInv(h, v) ==
    /\ Regular(h) /\ v \in Ballots(h.block_num)
    /\ Tracks(h.confirm_count, h.block_num, v)
    /\ Quorum(Proposed(h), v) /\ Remembers(h, v)
-----------------------------------------------------------------------------
(* Arithmetic and finite sets.                                             *)

LEMMA LeastNatural ==
    ASSUME NEW S \in SUBSET Nat, S # {}
    PROVE  \E m \in S : \A n \in S : m <= n
  <1>1. PICK m \in S : \A n \in S : ~ (<<n, m>> \in OpToRel(<, Nat))
    BY NatLessThanWellFounded, WFMin
  <1>2. \A n \in S : ~ (n < m) BY <1>1 DEF OpToRel
  <1> QED BY <1>2

LEMMA GreatestNatural ==
    ASSUME NEW S \in SUBSET Nat, S # {}, NEW b \in Nat, \A x \in S : x <= b
    PROVE  \E m \in S : \A n \in S : n <= m
  <1> DEFINE D == {b - x : x \in S}
  <1>1. D \in SUBSET Nat /\ D # {}
    <2>1. \A x \in S : b - x \in Nat OBVIOUS
    <2>2. D # {} OBVIOUS
    <2> QED BY <2>1, <2>2
  <1>2. PICK d \in D : \A e \in D : d <= e BY <1>1, LeastNatural
  <1>3. PICK m \in S : d = b - m BY <1>2
  <1>4. \A n \in S : b - n \in D OBVIOUS
  <1>5. \A n \in S : b - m <= b - n BY <1>2, <1>3, <1>4
  <1> QED BY <1>5

LEMMA Turn ==
    ASSUME NEW x \in Nat, NEW l \in Nat \ {0}, NEW r \in Nat \ {0}
    PROVE  (x % (l * r)) \div r + 1 \in 1 .. l
  <1> DEFINE y == x % (l * r)
             u == y \div r
             v == y % r
  <1>1. l * r \in Nat \ {0} OBVIOUS
  <1>2. y \in 0 .. (l * r) - 1 BY <1>1
  <1> HIDE DEF y
  <1>3. u \in Int /\ v \in 0 .. r - 1 /\ y = r * u + v BY <1>1, <1>2
  <1> HIDE DEF u, v
  <1>4. u >= 0
    <2> SUFFICES ASSUME u <= -1 PROVE FALSE BY <1>3
    <2>1. r * u <= -r BY <1>3
    <2> QED BY <2>1, <1>1, <1>2, <1>3
  <1>5. u < l
    <2> SUFFICES ASSUME u >= l PROVE FALSE BY <1>3
    <2>1. r * u >= r * l BY <1>3
    <2> QED BY <2>1, <1>1, <1>2, <1>3
  <1> QED BY <1>3, <1>4, <1>5 DEF u, y

Bytes == 0 .. 255

LEMMA CountedSeq ==
    ASSUME NEW n \in Nat, NEW f, DOMAIN f = 1 .. n, f \in [1 .. n -> Bytes]
    PROVE  f \in Seq(Bytes) /\ Len(f) = n
  OBVIOUS

LEMMA Element ==
    ASSUME NEW S, NEW s \in Seq(S), NEW i \in 1 .. Len(s)
    PROVE  s[i] \in S
  OBVIOUS

LEMMA Positive == \A x \in 1 .. 255 : x \in Nat /\ x > 0
  OBVIOUS

LEMMA Decrement ==
    ASSUME NEW x \in 1 .. 255
    PROVE  /\ (x + 255) % 256 = x - 1
           /\ (x + 255) % 256 \in 0 .. 255
           /\ x # 1 => (x + 255) % 256 > 0
  OBVIOUS

LEMMA MemberFinite ==
    ASSUME NEW S \in SUBSET Producer
    PROVE  IsFiniteSet(S) /\ Cardinality(S) \in Nat
  BY HeaderAssumption, FS_Subset, FS_CardinalityType

(* A vote of a producer that has not voted yet counts one, any other none. *)
LEMMA VoteCounts ==
    ASSUME NEW S \in SUBSET Producer, NEW p \in Producer
    PROVE  /\ S \cup {p} \in SUBSET Producer
           /\ Cardinality(S \cup {p}) \in Nat
           /\ Cardinality(S) <= Cardinality(S \cup {p})
           /\ p \notin S => Cardinality(S \cup {p}) = Cardinality(S) + 1
  BY MemberFinite, FS_AddElement
-----------------------------------------------------------------------------
(* The operators of block_header_state.                                    *)

LEMMA ScheduledProducer ==
    ASSUME NEW h, Regular(h), NEW when \in Nat
    PROVE  /\ get_scheduled_producer(h, when) \in Members(h.active_schedule)
           /\ get_scheduled_producer(h, when) \in Producer
  <1> DEFINE ps == h.active_schedule.producers
             i == (when % (Len(ps) * producer_repetitions)) \div producer_repetitions + 1
  <1>1. ps \in Seq(Producer) /\ Len(ps) \in Nat \ {0}
    BY DEF Regular, Fits, Schedule
  <1>2. i \in 1 .. Len(ps) BY <1>1, HeaderAssumption, Turn
  <1> HIDE DEF i
  <1>3. ps[i] \in Producer /\ ps[i] \in Members(h.active_schedule)
    BY <1>1, <1>2 DEF Members
  <1>4. get_scheduled_producer(h, when) = ps[i] BY DEF get_scheduled_producer, i
  <1> QED BY <1>3, <1>4

(* A schedule's quorum fits the uint8_t of its count.                      *)
LEMMA QuorumFits ==
    ASSUME NEW sch, Fits(sch)
    PROVE  required_confs(sch) \in 1 .. 255
  <1>1. Len(sch.producers) \in Nat /\ Len(sch.producers) <= 125
    BY DEF Fits, Schedule, max_producers
  <1>2. \A n \in Nat : n <= 250 => n \div 3 \in 0 .. 254 OBVIOUS
  <1>3. Len(sch.producers) * 2 \in Nat /\ Len(sch.producers) * 2 <= 250 BY <1>1
  <1>4. PICK n \in Nat : n = Len(sch.producers) * 2 BY <1>3
  <1>5. n \div 3 \in 0 .. 254 BY <1>2, <1>3, <1>4
  <1>6. required_confs(sch) = n \div 3 + 1 BY <1>4 DEF required_confs
  <1> QED BY <1>5, <1>6

(* The last irreversible block is one of the implied ones.                 *)
LEMMA LibIsImplied ==
    ASSUME NEW irb \in ProducerMap, NEW b \in Nat, \A p \in Producer : irb[p] <= b
    PROVE  /\ calc_dpos_last_irreversible(irb) \in Nat
           /\ calc_dpos_last_irreversible(irb) <= b
  <1>1. CASE Keys(irb) = {} BY <1>1 DEF calc_dpos_last_irreversible
  <1>2. CASE Keys(irb) # {}
    <2> DEFINE vals == {irb[p] : p \in Keys(irb)}
               cands == {v \in vals : Cardinality(AtMost(irb, v)) > third(Keys(irb))}
    <2>1. vals \in SUBSET Nat /\ vals # {} /\ \A x \in vals : x <= b
      BY <1>2 DEF ProducerMap, Keys, absent
    <2>2. PICK m \in vals : \A x \in vals : x <= m BY <2>1, GreatestNatural
    <2>3. AtMost(irb, m) = Keys(irb) BY <2>2 DEF AtMost
    <2>4. Cardinality(Keys(irb)) \in Nat /\ Cardinality(Keys(irb)) > 0
      <3>1. Keys(irb) \in SUBSET Producer BY DEF Keys
      <3>2. IsFiniteSet(Keys(irb)) /\ Cardinality(Keys(irb)) \in Nat BY <3>1, MemberFinite
      <3>3. Cardinality(Keys(irb)) # 0 BY <1>2, <3>2, FS_EmptySet
      <3> QED BY <3>2, <3>3
    <2>5. m \in cands BY <2>2, <2>3, <2>4 DEF third
    <2>6. cands \in SUBSET Nat BY <2>1
    <2>7. \E v \in cands : \A w \in cands : v <= w BY <2>5, <2>6, LeastNatural
    <2>8. calc_dpos_last_irreversible(irb) = CHOOSE v \in cands : \A w \in cands : v <= w
      BY <1>2 DEF calc_dpos_last_irreversible
    <2>9. calc_dpos_last_irreversible(irb) \in cands BY <2>7, <2>8
    <2> QED BY <2>1, <2>9
  <1> QED BY <1>1, <1>2

(* What generate_next changes of the header state.                         *)
Generated(h, when, g) ==
    LET p == get_scheduled_producer(h, when)
    IN  /\ g \in HeaderState
        /\ g.block_num = h.block_num + 1 /\ g.timestamp = when /\ g.producer = p
        /\ Proposed(g) = Proposed(h) /\ Lib(g) <= g.block_num
        /\ g.producer_to_last_produced =
              [h.producer_to_last_produced EXCEPT ![p] = h.block_num + 1]
        /\ g.producer_to_last_implied_irb =
              [h.producer_to_last_implied_irb EXCEPT ![p] = Proposed(h)]
        /\ g.active_schedule = h.active_schedule
        /\ g.pending_schedule = h.pending_schedule
        /\ g.pending_schedule_lib_num = h.pending_schedule_lib_num
        /\ g.confirm_count =
              PushConfirm(h.confirm_count, required_confs(h.active_schedule))

LEMMA PushedCounts ==
    ASSUME NEW cc \in Seq(0 .. 255), NEW n \in 1 .. 255
    PROVE  /\ PushConfirm(cc, n) \in Seq(0 .. 255)
           /\ Len(PushConfirm(cc, n)) \in Nat
           /\ Len(PushConfirm(cc, n)) >= 1 /\ Len(PushConfirm(cc, n)) <= Len(cc) + 1
           /\ PushConfirm(cc, n)[Len(PushConfirm(cc, n))] = n
           /\ \A i \in 1 .. Len(PushConfirm(cc, n)) - 1 :
                 PushConfirm(cc, n)[i] = cc[Len(cc) + 1 - (Len(PushConfirm(cc, n)) - i)]
  <1>1. maximum_tracked_dpos_confirmations \in Nat \ {0} BY HeaderAssumption
  <1>2. CASE Len(cc) < maximum_tracked_dpos_confirmations
    BY <1>1, <1>2 DEF PushConfirm
  <1>3. CASE ~ (Len(cc) < maximum_tracked_dpos_confirmations)
    <2>1. cc # <<>> /\ Len(cc) >= 1 BY <1>1, <1>3
    <2>2. /\ Tail(cc) \in Seq(0 .. 255) /\ Len(Tail(cc)) = Len(cc) - 1
          /\ \A i \in 1 .. Len(cc) - 1 : Tail(cc)[i] = cc[i + 1]
      BY <2>1
    <2>3. PushConfirm(cc, n) = Append(Tail(cc), n) BY <1>3 DEF PushConfirm
    <2> QED BY <2>1, <2>2, <2>3
  <1> QED BY <1>2, <1>3

Pushes(hc, rc, cc) ==
    /\ cc \in Seq(0 .. 255) /\ Len(cc) \in Nat /\ Len(cc) >= 1
    /\ Len(cc) <= Len(hc) + 1 /\ cc[Len(cc)] = rc
    /\ \A j \in 1 .. Len(cc) - 1 : cc[j] = hc[Len(hc) + 1 - (Len(cc) - j)]

LEMMA PushedSame ==
    ASSUME NEW hc \in Seq(0 .. 255), NEW rc \in 1 .. 255
    PROVE  Pushes(hc, rc, PushConfirm(hc, rc))
  BY PushedCounts DEF Pushes

LEMMA GenerateNext ==
    ASSUME NEW h, Regular(h), NEW when \in Nat
    PROVE  Generated(h, when, generate_next(h, when))
  <1> DEFINE p == get_scheduled_producer(h, when)
             num == h.block_num + 1
             last == [h.producer_to_last_produced EXCEPT ![p] = num]
             irb == [h.producer_to_last_implied_irb EXCEPT ![p] = Proposed(h)]
             lib == calc_dpos_last_irreversible(irb)
             cc == PushConfirm(h.confirm_count, required_confs(h.active_schedule))
  <1>1. /\ h \in HeaderState /\ h.block_num \in Nat /\ num \in Nat /\ Proposed(h) \in Nat
        /\ h.producer_to_last_produced \in ProducerMap
        /\ h.producer_to_last_implied_irb \in ProducerMap
        /\ h.confirm_count \in Seq(0 .. 255)
        /\ Proposed(h) <= h.block_num
    BY DEF Regular, HeaderState, Proposed
  <1>2. p \in Producer BY ScheduledProducer
  <1> HIDE DEF p
  <1>3. last \in ProducerMap /\ irb \in ProducerMap BY <1>1, <1>2 DEF ProducerMap
  <1>4. \A q \in Producer : irb[q] <= num
    <2>1. \A q \in Producer : h.producer_to_last_implied_irb[q] <= h.block_num
      BY DEF Regular
    <2>2. \A q \in Producer : h.producer_to_last_implied_irb[q] \in Int
      BY <1>1 DEF ProducerMap, absent
    <2> QED BY <1>1, <1>2, <2>1, <2>2 DEF ProducerMap
  <1>5. lib \in Nat /\ lib <= num BY <1>1, <1>3, <1>4, LibIsImplied
  <1>6. cc \in Seq(0 .. 255)
    <2>1. required_confs(h.active_schedule) \in 1 .. 255 BY QuorumFits DEF Regular
    <2> QED BY <1>1, <2>1, PushedCounts
  <1>7. generate_next(h, when)
           = [h EXCEPT !.block_num = num, !.timestamp = when, !.producer = p,
                       !.producer_to_last_produced = last,
                       !.producer_to_last_implied_irb = irb,
                       !.dpos_irreversible_blocknum = lib,
                       !.confirm_count = cc]
    BY DEF generate_next, p, Proposed
  <1> HIDE DEF num, last, irb, lib, cc
  <1>8. PICK g : g = generate_next(h, when) OBVIOUS
  <1>9.    /\ g \in HeaderState
           /\ g.block_num = num /\ g.timestamp = when /\ g.producer = p
           /\ g.producer_to_last_produced = last
           /\ g.producer_to_last_implied_irb = irb
           /\ g.dpos_irreversible_blocknum = lib /\ g.confirm_count = cc
           /\ g.dpos_proposed_irreversible_blocknum = h.dpos_proposed_irreversible_blocknum
           /\ g.active_schedule = h.active_schedule
           /\ g.pending_schedule = h.pending_schedule
           /\ g.pending_schedule_lib_num = h.pending_schedule_lib_num
    BY <1>1, <1>2, <1>3, <1>5, <1>6, <1>7, <1>8 DEF HeaderState
  <1> QED BY <1>5, <1>8, <1>9 DEF Generated, num, last, irb, cc, p, Proposed, Lib

(* set_confirmed takes one from the counts of the touched blocks, up to    *)
(* the newest that gets to zero: the first "at" counts are dropped, and    *)
(* the block of the last of them is proposed.                              *)
Confirms(g, conf, s, at) ==
    LET cc == g.confirm_count
    IN  /\ s \in HeaderState /\ at \in 0 .. Len(cc)
        /\ s.block_num = g.block_num /\ s.timestamp = g.timestamp
        /\ s.producer = g.producer /\ Lib(s) = Lib(g)
        /\ s.producer_to_last_produced = g.producer_to_last_produced
        /\ s.producer_to_last_implied_irb = g.producer_to_last_implied_irb
        /\ s.active_schedule = g.active_schedule
        /\ s.pending_schedule = g.pending_schedule
        /\ s.pending_schedule_lib_num = g.pending_schedule_lib_num
        /\ Len(s.confirm_count) = Len(cc) - at
        /\ \A i \in 1 .. Len(cc) - at :
              /\ s.confirm_count[i] > 0
              /\ s.confirm_count[i] = IF at + i >= Len(cc) - conf
                                      THEN cc[at + i] - 1 ELSE cc[at + i]
        /\ at = 0 => Proposed(s) = Proposed(g)
        /\ at > 0 => /\ at >= Len(cc) - conf /\ cc[at] = 1
                     /\ Proposed(s) = g.block_num - (Len(cc) - at)

(* One step down of a count that is not zero does not wrap.                *)
LEMMA CountsDown ==
    ASSUME NEW cc \in Seq(0 .. 255), NEW i \in 1 .. Len(cc), cc[i] > 0
    PROVE  /\ cc[i] \in 1 .. 255
           /\ (cc[i] + 255) % 256 = cc[i] - 1
           /\ (cc[i] + 255) % 256 \in 0 .. 255
           /\ cc[i] # 1 => (cc[i] + 255) % 256 > 0
  <1>1. cc[i] \in 1 .. 255
    <2>1. cc[i] \in 0 .. 255 BY Element
    <2> QED BY <2>1
  <1> QED BY <1>1, Decrement

NoneDone(cc, conf) ==
    [i \in 1 .. Len(cc) |->
        IF i \in Touched(cc, conf) THEN (cc[i] + 255) % 256 ELSE cc[i]]

LEMMA NoneDoneCounts ==
    ASSUME NEW cc \in Seq(0 .. 255), NEW conf \in Nat,
           \A i \in 1 .. Len(cc) : cc[i] > 0, Confirmed(cc, conf) = {}
    PROVE  /\ NoneDone(cc, conf) \in Seq(0 .. 255)
           /\ Len(NoneDone(cc, conf)) = Len(cc)
           /\ \A i \in 1 .. Len(cc) :
                 /\ NoneDone(cc, conf)[i] > 0
                 /\ NoneDone(cc, conf)[i] = IF i >= Len(cc) - conf
                                            THEN cc[i] - 1 ELSE cc[i]
  <1>1. \A i \in 1 .. Len(cc) :
           /\ NoneDone(cc, conf)[i] > 0
           /\ NoneDone(cc, conf)[i] \in 0 .. 255
           /\ NoneDone(cc, conf)[i] = IF i >= Len(cc) - conf THEN cc[i] - 1 ELSE cc[i]
    <2> SUFFICES ASSUME NEW i \in 1 .. Len(cc)
                 PROVE  /\ NoneDone(cc, conf)[i] > 0
                        /\ NoneDone(cc, conf)[i] \in 0 .. 255
                        /\ NoneDone(cc, conf)[i] =
                              IF i >= Len(cc) - conf THEN cc[i] - 1 ELSE cc[i]
      OBVIOUS
    <2>0. PICK x, y : x = cc[i] /\ y = NoneDone(cc, conf)[i] OBVIOUS
    <2>1. x \in 1 .. 255 /\ (x + 255) % 256 = x - 1 BY <2>0, CountsDown
    <2>2. y = IF i \in Touched(cc, conf) THEN x - 1 ELSE x
      BY <2>0, <2>1 DEF NoneDone
    <2>3. i \in Touched(cc, conf) <=> i >= Len(cc) - conf BY DEF Touched
    <2>4. i \in Touched(cc, conf) => x # 1 BY <2>0 DEF Confirmed
    <2>5. y > 0 /\ y \in 0 .. 255 /\ y = IF i >= Len(cc) - conf THEN x - 1 ELSE x
      BY <2>1, <2>2, <2>3, <2>4
    <2> QED BY <2>0, <2>5
  <1>2. /\ NoneDone(cc, conf) \in [1 .. Len(cc) -> Bytes]
        /\ DOMAIN NoneDone(cc, conf) = 1 .. Len(cc)
    BY <1>1 DEF NoneDone, Bytes
  <1>3. Len(cc) \in Nat OBVIOUS
  <1>4. NoneDone(cc, conf) \in Seq(Bytes) /\ Len(NoneDone(cc, conf)) = Len(cc)
    BY <1>2, <1>3, CountedSeq, Zenon
  <1> QED BY <1>1, <1>4 DEF Bytes

Remain(cc, at) == [i \in 1 .. (Len(cc) - at) |-> (cc[at + i] + 255) % 256]

LEMMA RemainCounts ==
    ASSUME NEW cc \in Seq(0 .. 255), NEW conf \in Nat,
           \A i \in 1 .. Len(cc) : cc[i] > 0,
           NEW at \in Confirmed(cc, conf), \A j \in Confirmed(cc, conf) : j <= at
    PROVE  /\ Remain(cc, at) \in Seq(0 .. 255)
           /\ Len(Remain(cc, at)) = Len(cc) - at
           /\ at \in 1 .. Len(cc) /\ at >= Len(cc) - conf /\ cc[at] = 1
           /\ \A i \in 1 .. Len(cc) - at :
                 /\ Remain(cc, at)[i] > 0
                 /\ at + i >= Len(cc) - conf
                 /\ Remain(cc, at)[i] = cc[at + i] - 1
  <1>1. at \in 1 .. Len(cc) /\ at >= Len(cc) - conf /\ cc[at] = 1
    BY DEF Confirmed, Touched
  <1>2. \A i \in 1 .. Len(cc) - at :
           /\ Remain(cc, at)[i] > 0
           /\ Remain(cc, at)[i] \in 0 .. 255
           /\ at + i >= Len(cc) - conf
           /\ Remain(cc, at)[i] = cc[at + i] - 1
    <2> SUFFICES ASSUME NEW i \in 1 .. Len(cc) - at
                 PROVE  /\ Remain(cc, at)[i] > 0
                        /\ Remain(cc, at)[i] \in 0 .. 255
                        /\ at + i >= Len(cc) - conf
                        /\ Remain(cc, at)[i] = cc[at + i] - 1
      OBVIOUS
    <2>1. PICK k \in 1 .. Len(cc) : k = at + i BY <1>1
    <2>2. k > at /\ k >= Len(cc) - conf BY <1>1, <2>1
    <2>3. /\ cc[k] \in 1 .. 255 /\ (cc[k] + 255) % 256 = cc[k] - 1
          /\ (cc[k] + 255) % 256 \in 0 .. 255
          /\ cc[k] # 1 => (cc[k] + 255) % 256 > 0
      BY CountsDown
    <2>4. k \notin Confirmed(cc, conf) BY <1>1, <2>2
    <2>5. cc[k] # 1 BY <2>2, <2>4 DEF Confirmed, Touched
    <2>6. Remain(cc, at)[i] = (cc[k] + 255) % 256 BY <2>1 DEF Remain
    <2>7. Remain(cc, at)[i] > 0 /\ Remain(cc, at)[i] \in 0 .. 255
      BY <2>3, <2>5, <2>6
    <2>8. Remain(cc, at)[i] = cc[at + i] - 1 BY <2>1, <2>3, <2>6
    <2> QED BY <2>1, <2>2, <2>7, <2>8
  <1>3. Len(cc) - at \in Nat BY <1>1
  <1>4. /\ Remain(cc, at) \in [1 .. Len(cc) - at -> Bytes]
        /\ DOMAIN Remain(cc, at) = 1 .. Len(cc) - at
    BY <1>2 DEF Remain, Bytes
  <1>5. Remain(cc, at) \in Seq(Bytes) /\ Len(Remain(cc, at)) = Len(cc) - at
    BY <1>3, <1>4, CountedSeq, Zenon
  <1> QED BY <1>1, <1>2, <1>5 DEF Bytes

LEMMA SetConfirmed ==
    ASSUME NEW g \in HeaderState, NEW conf \in Nat, NEW cc \in Seq(0 .. 255),
           g.confirm_count = cc, Len(cc) <= g.block_num,
           \A i \in 1 .. Len(cc) : cc[i] > 0
    PROVE  \E at \in Nat : Confirms(g, conf, set_confirmed(g, conf), at)
  <1>1. Len(cc) \in Nat /\ g.block_num \in Nat BY DEF HeaderState
  <1>2. PICK s : s = set_confirmed(g, conf) OBVIOUS
  <1>3. CASE Confirmed(cc, conf) = {}
    <2>1. PICK new : new = NoneDone(cc, conf) OBVIOUS
    <2>2. /\ new \in Seq(0 .. 255) /\ Len(new) = Len(cc)
          /\ \A i \in 1 .. Len(cc) :
                /\ new[i] > 0
                /\ new[i] = IF i >= Len(cc) - conf THEN cc[i] - 1 ELSE cc[i]
      BY <1>3, <2>1, NoneDoneCounts
    <2>3. s = [g EXCEPT !.confirm_count = new]
      BY <1>2, <1>3, <2>1 DEF set_confirmed, NoneDone
    <2>4. /\ s \in HeaderState /\ s.confirm_count = new
          /\ s.block_num = g.block_num /\ s.timestamp = g.timestamp
          /\ s.producer = g.producer /\ Lib(s) = Lib(g)
          /\ s.producer_to_last_produced = g.producer_to_last_produced
          /\ s.producer_to_last_implied_irb = g.producer_to_last_implied_irb
          /\ s.active_schedule = g.active_schedule
          /\ s.pending_schedule = g.pending_schedule
          /\ s.pending_schedule_lib_num = g.pending_schedule_lib_num
          /\ Proposed(s) = Proposed(g)
      BY <2>2, <2>3 DEF HeaderState, Lib, Proposed
    <2>5. Confirms(g, conf, s, 0) BY <1>1, <2>2, <2>4 DEF Confirms
    <2> QED BY <1>2, <2>5
  <1>4. CASE Confirmed(cc, conf) # {}
    <2>1. PICK at \in Confirmed(cc, conf) : \A j \in Confirmed(cc, conf) : j <= at
      <3>1. /\ Confirmed(cc, conf) \in SUBSET Nat
            /\ \A x \in Confirmed(cc, conf) : x <= Len(cc)
        BY <1>1 DEF Confirmed, Touched
      <3> QED BY <1>1, <1>4, <3>1, GreatestNatural
    <2>2. PICK new : new = Remain(cc, at) OBVIOUS
    <2>3. /\ new \in Seq(0 .. 255) /\ Len(new) = Len(cc) - at
          /\ at \in 1 .. Len(cc) /\ at >= Len(cc) - conf /\ cc[at] = 1
          /\ \A i \in 1 .. Len(cc) - at :
                new[i] > 0 /\ at + i >= Len(cc) - conf /\ new[i] = cc[at + i] - 1
      BY <2>1, <2>2, RemainCounts
    <2>4. newest(Confirmed(cc, conf)) = at
      <3>1. \A i \in Confirmed(cc, conf) : i \in Nat BY DEF Confirmed, Touched
      <3>2. \A i \in Confirmed(cc, conf) :
               (\A j \in Confirmed(cc, conf) : j <= i) => i = at
        BY <2>1, <3>1
      <3> QED BY <2>1, <3>2 DEF newest
    <2>5. PICK prop : prop = g.block_num - (Len(cc) - at) OBVIOUS
    <2>6. prop \in Nat BY <1>1, <2>3, <2>5
    <2>7. s = [g EXCEPT !.dpos_proposed_irreversible_blocknum = prop,
                        !.confirm_count = new]
      BY <1>2, <1>4, <2>2, <2>4, <2>5 DEF set_confirmed, Remain
    <2>8. /\ s \in HeaderState /\ s.confirm_count = new
          /\ s.block_num = g.block_num /\ s.timestamp = g.timestamp
          /\ s.producer = g.producer /\ Lib(s) = Lib(g)
          /\ s.producer_to_last_produced = g.producer_to_last_produced
          /\ s.producer_to_last_implied_irb = g.producer_to_last_implied_irb
          /\ s.active_schedule = g.active_schedule
          /\ s.pending_schedule = g.pending_schedule
          /\ s.pending_schedule_lib_num = g.pending_schedule_lib_num
          /\ Proposed(s) = prop
      BY <2>3, <2>6, <2>7 DEF HeaderState, Lib, Proposed
    <2>9. Confirms(g, conf, s, at)
      BY <1>1, <2>3, <2>5, <2>8 DEF Confirms
    <2> QED BY <1>2, <2>3, <2>9
  <1> QED BY <1>3, <1>4

(* What a promotion changes; a schedule's version is not lost by it.       *)
LastVersion(h) ==
    IF h.pending_schedule.producers = <<>>
    THEN h.active_schedule.version ELSE h.pending_schedule.version

SameBlock(s, m) ==
    /\ m.block_num = s.block_num /\ m.timestamp = s.timestamp
    /\ m.producer = s.producer /\ Lib(m) = Lib(s) /\ Proposed(m) = Proposed(s)
    /\ m.confirm_count = s.confirm_count

Promoted(s, m) ==
    /\ m.active_schedule = s.pending_schedule
    /\ m.pending_schedule.producers = <<>>
    /\ m.producer_to_last_produced =
          [Rekey(s.producer_to_last_produced, Members(s.pending_schedule), Lib(s))
             EXCEPT ![s.producer] = s.block_num]

LEMMA RekeyType ==
    ASSUME NEW f \in ProducerMap, NEW S, NEW d \in Nat
    PROVE  /\ Rekey(f, S, d) \in ProducerMap
           /\ \A q \in Producer :
                 Rekey(f, S, d)[q] = IF q \notin S THEN absent
                                     ELSE IF f[q] = absent THEN d ELSE f[q]
  BY DEF Rekey, ProducerMap

LEMMA MaybePromote ==
    ASSUME NEW s, Regular(s), Lib(s) <= s.block_num
    PROVE  /\ Regular(maybe_promote_pending(s))
           /\ SameBlock(s, maybe_promote_pending(s))
           /\ LastVersion(maybe_promote_pending(s)) = LastVersion(s)
           /\ ~ promotes(s) => maybe_promote_pending(s) = s
           /\ promotes(s) => Promoted(s, maybe_promote_pending(s))
  <1>1. CASE ~ promotes(s)
    BY <1>1 DEF maybe_promote_pending, SameBlock
  <1>2. CASE promotes(s)
    <2>1. /\ s \in HeaderState /\ s.block_num \in Nat /\ Lib(s) \in Nat
          /\ s.producer \in Producer
          /\ s.producer_to_last_produced \in ProducerMap
          /\ s.producer_to_last_implied_irb \in ProducerMap
          /\ s.pending_schedule \in Schedule
      BY DEF Regular, HeaderState, Lib
    <2>2. PICK last : last = [Rekey(s.producer_to_last_produced,
                                    Members(s.pending_schedule), Lib(s))
                                EXCEPT ![s.producer] = s.block_num]
      OBVIOUS
    <2>3. PICK irb : irb = Rekey(s.producer_to_last_implied_irb,
                                 Members(s.pending_schedule), Lib(s))
      OBVIOUS
    <2>4. PICK sch : sch = [s.pending_schedule EXCEPT !.producers = <<>>] OBVIOUS
    <2>5. last \in ProducerMap
      <3>1. Rekey(s.producer_to_last_produced, Members(s.pending_schedule), Lib(s))
               \in ProducerMap
        BY <2>1, RekeyType
      <3> QED BY <2>1, <2>2, <3>1 DEF ProducerMap
    <2>6. irb \in ProducerMap BY <2>1, <2>3, RekeyType
    <2>7. \A q \in Producer : irb[q] <= s.block_num
      <3> SUFFICES ASSUME NEW q \in Producer PROVE irb[q] <= s.block_num OBVIOUS
      <3>1. s.producer_to_last_implied_irb[q] <= s.block_num BY DEF Regular
      <3>2. irb[q] \in {absent, Lib(s), s.producer_to_last_implied_irb[q]}
        BY <2>1, <2>3, RekeyType
      <3> QED BY <2>1, <3>1, <3>2 DEF absent
    <2>8. sch \in Schedule /\ sch.producers = <<>> /\ Fits(sch)
      <3>0. PICK none : none = <<>> OBVIOUS
      <3>1. /\ none \in Seq(Producer)
            /\ \A i, j \in 1 .. Len(none) : none[i] = none[j] => i = j
        BY <3>0
      <3>2. sch = [s.pending_schedule EXCEPT !.producers = none] BY <2>4, <3>0
      <3>3. sch \in Schedule /\ sch.producers = none BY <2>1, <3>1, <3>2 DEF Schedule
      <3> QED BY <3>0, <3>3 DEF Fits, max_producers
    <2>9. PICK m : m = maybe_promote_pending(s) OBVIOUS
    <2>10. m = [s EXCEPT !.active_schedule = s.pending_schedule,
                         !.pending_schedule = sch,
                         !.producer_to_last_produced = last,
                         !.producer_to_last_implied_irb = irb]
      BY <1>2, <2>1, <2>2, <2>3, <2>4, <2>9 DEF maybe_promote_pending, Lib, HeaderState
    <2>11. /\ m \in HeaderState /\ SameBlock(s, m)
           /\ m.active_schedule = s.pending_schedule /\ m.pending_schedule = sch
           /\ m.producer_to_last_produced = last
           /\ m.producer_to_last_implied_irb = irb
      BY <2>1, <2>5, <2>6, <2>8, <2>10 DEF HeaderState, SameBlock, Lib, Proposed
    <2>12. /\ s.pending_schedule.producers # <<>> /\ Fits(s.pending_schedule)
           /\ Len(s.pending_schedule.producers) >= 1
      <3>1. s.pending_schedule.producers # <<>> BY <1>2 DEF promotes
      <3>2. s.pending_schedule.producers \in Seq(Producer) BY <2>1 DEF Schedule
      <3> QED BY <3>1, <3>2 DEF Regular
    <2>13. Regular(m)
      BY <2>7, <2>8, <2>11, <2>12 DEF Regular, SameBlock
    <2>14. LastVersion(m) = LastVersion(s) BY <2>8, <2>11, <2>12 DEF LastVersion
    <2> QED BY <1>2, <2>2, <2>8, <2>9, <2>11, <2>13, <2>14 DEF Promoted
  <1> QED BY <1>1, <1>2

LEMMA SetNewProducers ==
    ASSUME NEW m, Regular(m), NEW sch, Fits(sch)
    PROVE  /\ Regular(set_new_producers(m, sch))
           /\ SameBlock(m, set_new_producers(m, sch))
           /\ set_new_producers(m, sch).active_schedule = m.active_schedule
           /\ set_new_producers(m, sch).pending_schedule = sch
           /\ set_new_producers(m, sch).pending_schedule_lib_num = m.block_num
           /\ set_new_producers(m, sch).producer_to_last_produced =
                 m.producer_to_last_produced
  <1>1. PICK s : s = set_new_producers(m, sch) OBVIOUS
  <1>2. m \in HeaderState /\ m.block_num \in Nat /\ sch \in Schedule
    BY DEF Regular, Fits, HeaderState
  <1>3. /\ s \in HeaderState /\ SameBlock(m, s)
        /\ s.active_schedule = m.active_schedule /\ s.pending_schedule = sch
        /\ s.pending_schedule_lib_num = m.block_num
        /\ s.producer_to_last_produced = m.producer_to_last_produced
        /\ s.producer_to_last_implied_irb = m.producer_to_last_implied_irb
    BY <1>1, <1>2 DEF set_new_producers, HeaderState, SameBlock, Lib, Proposed
  <1>4. Regular(s) BY <1>3 DEF Regular, SameBlock
  <1> QED BY <1>1, <1>3, <1>4
-----------------------------------------------------------------------------
(* The block after h: its state, and the votes with its own.               *)

Offers == {o \in [valid : BOOLEAN, block_num : Nat, schedule : Schedule] : Fits(o.schedule)}

Follows(h, offer) == offer.valid => offer.schedule.version = LastVersion(h) + 1

Confirming(h, when, conf) == set_confirmed(generate_next(h, when), conf)

Ready(h, offer, when, conf) ==
    /\ offer.valid
    /\ offer.block_num <= Lib(maybe_promote_pending(Confirming(h, when, conf)))
    /\ maybe_promote_pending(Confirming(h, when, conf)).pending_schedule.producers = <<>>
    /\ ~ promotes(Confirming(h, when, conf))

NextState(h, offer, when, conf) ==
    IF Ready(h, offer, when, conf)
    THEN set_new_producers(maybe_promote_pending(Confirming(h, when, conf)), offer.schedule)
    ELSE maybe_promote_pending(Confirming(h, when, conf))

Voted(h, v, p, conf) ==
    [n \in 1 .. h.block_num + 1 |->
        LET w == IF n < h.block_num + 1 THEN v[n]
                 ELSE [needed |-> required_confs(h.active_schedule), by |-> {}]
        IN  IF n >= h.block_num + 1 - conf
            THEN [w EXCEPT !.by = @ \cup {p}] ELSE w]

(* What the state of the new block is made of, with "at" as in Confirms.   *)
Extends(h, when, conf, g, s, at) ==
    /\ g = generate_next(h, when) /\ Generated(h, when, g)
    /\ s = Confirming(h, when, conf) /\ Confirms(g, conf, s, at)
    /\ Regular(s) /\ Lib(s) <= s.block_num
    /\ Counting(s) /\ Proposed(s) >= Proposed(h)

LEMMA ConfirmingState ==
    ASSUME NEW h, Regular(h), NEW when \in Nat, NEW conf \in Nat,
           Counting(h)
    PROVE  \E g, s, at : Extends(h, when, conf, g, s, at)
  <1>1. PICK g : g = generate_next(h, when) OBVIOUS
  <1>2. Generated(h, when, g) BY <1>1, GenerateNext
  <1>3. PICK hc \in Seq(0 .. 255) : hc = h.confirm_count BY DEF Regular, HeaderState
  <1>4. PICK rc \in 1 .. 255 : rc = required_confs(h.active_schedule)
    BY QuorumFits DEF Regular
  <1>5. PICK cc : cc = PushConfirm(hc, rc) OBVIOUS
  <1>6. /\ cc \in Seq(0 .. 255) /\ Len(cc) \in Nat /\ Len(cc) >= 1
        /\ Len(cc) <= Len(hc) + 1 /\ cc[Len(cc)] = rc
        /\ \A i \in 1 .. Len(cc) - 1 : cc[i] = hc[Len(hc) + 1 - (Len(cc) - i)]
    <2>1. Pushes(hc, rc, cc) BY <1>5, PushedSame
    <2> QED BY <2>1 DEF Pushes
  <1>7. g.confirm_count = cc BY <1>2, <1>3, <1>4, <1>5 DEF Generated
  <1>8. \A i \in 1 .. Len(cc) : cc[i] > 0
    <2> SUFFICES ASSUME NEW i \in 1 .. Len(cc) PROVE cc[i] > 0 OBVIOUS
    <2>1. CASE i = Len(cc)
      <3>1. cc[i] = rc BY <1>6, <2>1
      <3>2. rc > 0 BY Positive
      <3> QED BY <3>1, <3>2
    <2>2. CASE i # Len(cc)
      <3>1. PICK k \in 1 .. Len(hc) : k = Len(hc) + 1 - (Len(cc) - i)
        <4>1. Len(hc) \in Nat /\ Len(cc) \in Nat /\ Len(cc) <= Len(hc) + 1 BY <1>6
        <4>2. Len(hc) + 1 - (Len(cc) - i) \in 1 .. Len(hc) BY <2>2, <4>1
        <4> QED BY <4>2
      <3>2. hc[k] > 0 BY <1>3 DEF Counting
      <3>3. i \in 1 .. Len(cc) - 1 BY <1>6, <2>2
      <3>4. cc[i] = hc[k] BY <1>6, <3>1, <3>3
      <3> QED BY <3>2, <3>4
    <2> QED BY <2>1, <2>2
  <1>9. /\ g \in HeaderState /\ h.block_num \in Nat /\ g.block_num = h.block_num + 1
        /\ Proposed(h) \in Nat /\ Proposed(h) + Len(hc) <= h.block_num
        /\ Proposed(g) = Proposed(h)
    BY <1>2, <1>3 DEF Generated, Regular, HeaderState, Proposed
  <1>10. Len(cc) <= g.block_num /\ Proposed(g) + Len(cc) <= g.block_num
    BY <1>6, <1>9
  <1>11. PICK s : s = Confirming(h, when, conf) OBVIOUS
  <1>12. PICK at \in Nat : Confirms(g, conf, s, at)
    BY <1>1, <1>6, <1>7, <1>8, <1>9, <1>10, <1>11, SetConfirmed DEF Confirming
  <1>13. /\ s \in HeaderState /\ s.block_num = h.block_num + 1
         /\ s.active_schedule = h.active_schedule
         /\ s.pending_schedule = h.pending_schedule
         /\ s.producer_to_last_implied_irb = g.producer_to_last_implied_irb
         /\ Lib(s) = Lib(g) /\ Lib(g) <= s.block_num
    BY <1>2, <1>12 DEF Confirms, Generated
  <1>14. Proposed(s) + Len(s.confirm_count) <= s.block_num
    <2>1. /\ at \in 0 .. Len(cc) /\ Len(s.confirm_count) = Len(cc) - at
          /\ at = 0 => Proposed(s) = Proposed(g)
          /\ at > 0 => Proposed(s) = g.block_num - (Len(cc) - at)
      BY <1>7, <1>12 DEF Confirms
    <2> QED BY <1>6, <1>9, <1>10, <1>13, <2>1
  <1>15. \A q \in Producer : s.producer_to_last_implied_irb[q] <= s.block_num
    <2> SUFFICES ASSUME NEW q \in Producer
                 PROVE  s.producer_to_last_implied_irb[q] <= s.block_num
      OBVIOUS
    <2>1. /\ h.producer_to_last_implied_irb \in ProducerMap
          /\ h.producer_to_last_implied_irb[q] <= h.block_num
      BY DEF Regular, HeaderState
    <2>2. h.producer_to_last_implied_irb[q] \in Int BY <2>1 DEF ProducerMap, absent
    <2>3. s.producer_to_last_implied_irb[q] \in
             {Proposed(h), h.producer_to_last_implied_irb[q]}
      BY <1>2, <1>13, <2>1 DEF Generated, ProducerMap
    <2> QED BY <1>9, <1>13, <2>1, <2>2, <2>3
  <1>16. Regular(s)
    <2>1. s.block_num >= 1 BY <1>9, <1>13
    <2> QED BY <1>13, <1>14, <1>15, <2>1 DEF Regular
  <1>17. Counting(s) /\ Proposed(s) >= Proposed(h)
    <2>1. /\ at \in 0 .. Len(cc) /\ Len(s.confirm_count) = Len(cc) - at
          /\ \A i \in 1 .. Len(cc) - at : s.confirm_count[i] > 0
          /\ at = 0 => Proposed(s) = Proposed(g)
          /\ at > 0 => Proposed(s) = g.block_num - (Len(cc) - at)
      BY <1>7, <1>12 DEF Confirms
    <2>2. Counting(s) BY <2>1 DEF Counting
    <2> QED BY <1>6, <1>9, <1>10, <2>1, <2>2
  <1> QED BY <1>1, <1>2, <1>11, <1>12, <1>13, <1>16, <1>17 DEF Extends

(* The state of the new block, whether or not the others accept it.        *)
LEMMA NextRegular ==
    ASSUME NEW h, Regular(h), NEW when \in Nat, NEW conf \in Nat, NEW offer \in Offers,
           Counting(h)
    PROVE  /\ Regular(NextState(h, offer, when, conf))
           /\ Counting(NextState(h, offer, when, conf))
           /\ Proposed(NextState(h, offer, when, conf)) >= Proposed(h)
           /\ NextState(h, offer, when, conf).block_num = h.block_num + 1
           /\ NextState(h, offer, when, conf).producer = get_scheduled_producer(h, when)
           /\ Follows(h, offer) /\ ~ Ready(h, offer, when, conf)
                 => Follows(NextState(h, offer, when, conf), offer)
  <1>1. PICK g, s, at : Extends(h, when, conf, g, s, at) BY ConfirmingState
  <1>2. /\ Regular(s) /\ s.block_num = h.block_num + 1
        /\ s.producer = get_scheduled_producer(h, when)
        /\ s.active_schedule = h.active_schedule
        /\ s.pending_schedule = h.pending_schedule
        /\ s = Confirming(h, when, conf) /\ Lib(s) <= s.block_num
        /\ Counting(s) /\ Proposed(s) >= Proposed(h)
    BY <1>1 DEF Extends, Confirms, Generated
  <1>3. PICK m : m = maybe_promote_pending(s) OBVIOUS
  <1>4. /\ Regular(m) /\ m.block_num = s.block_num /\ m.producer = s.producer
        /\ LastVersion(m) = LastVersion(s)
        /\ Counting(m) /\ Proposed(m) >= Proposed(h)
    BY <1>2, <1>3, MaybePromote DEF SameBlock, Counting
  <1>5. LastVersion(m) = LastVersion(h) BY <1>2, <1>4 DEF LastVersion
  <1>6. CASE Ready(h, offer, when, conf)
    <2>1. NextState(h, offer, when, conf) = set_new_producers(m, offer.schedule)
      BY <1>2, <1>3, <1>6 DEF NextState
    <2>2. Fits(offer.schedule) BY DEF Offers
    <2>3. /\ Regular(set_new_producers(m, offer.schedule))
          /\ SameBlock(m, set_new_producers(m, offer.schedule))
      BY <1>4, <2>2, SetNewProducers
    <2> QED BY <1>2, <1>4, <1>6, <2>1, <2>3 DEF SameBlock, Counting
  <1>7. CASE ~ Ready(h, offer, when, conf)
    <2>1. NextState(h, offer, when, conf) = m BY <1>2, <1>3, <1>7 DEF NextState
    <2> QED BY <1>2, <1>4, <1>5, <2>1 DEF Follows
  <1> QED BY <1>6, <1>7

(* The votes with those of the new block.                                  *)
Casts(num, v, p, conf, rc, w) ==
    /\ w \in Ballots(num + 1)
    /\ \A n \in 1 .. num :
          /\ w[n].needed = v[n].needed
          /\ w[n].by = IF n >= num + 1 - conf THEN v[n].by \cup {p} ELSE v[n].by
    /\ w[num + 1].needed = rc /\ w[num + 1].by = {p}

LEMMA VotedBallots ==
    ASSUME NEW num \in Nat, NEW h, h.block_num = num, NEW v \in Ballots(num),
           NEW p \in Producer, NEW conf \in Nat,
           required_confs(h.active_schedule) \in Nat
    PROVE  Casts(num, v, p, conf, required_confs(h.active_schedule), Voted(h, v, p, conf))
  <1>1. PICK w : w = Voted(h, v, p, conf) OBVIOUS
  <1>2. DOMAIN w = 1 .. num + 1 /\ w = [n \in 1 .. num + 1 |-> w[n]]
    BY <1>1 DEF Voted
  <1>3. \A n \in 1 .. num :
           /\ w[n] \in [needed : Nat, by : SUBSET Producer]
           /\ w[n].needed = v[n].needed
           /\ w[n].by = IF n >= num + 1 - conf THEN v[n].by \cup {p} ELSE v[n].by
    <2> SUFFICES ASSUME NEW n \in 1 .. num
                 PROVE  /\ w[n] \in [needed : Nat, by : SUBSET Producer]
                        /\ w[n].needed = v[n].needed
                        /\ w[n].by = IF n >= num + 1 - conf
                                     THEN v[n].by \cup {p} ELSE v[n].by
      OBVIOUS
    <2>1. PICK b \in [needed : Nat, by : SUBSET Producer] : b = v[n] BY DEF Ballots
    <2>2. n \in 1 .. num + 1 /\ n < num + 1 OBVIOUS
    <2>3. w[n] = IF n >= num + 1 - conf THEN [b EXCEPT !.by = @ \cup {p}] ELSE b
      BY <1>1, <2>1, <2>2 DEF Voted
    <2> QED BY <2>1, <2>3
  <1>4. /\ w[num + 1].needed = required_confs(h.active_schedule)
        /\ w[num + 1].by = {p}
        /\ w[num + 1] \in [needed : Nat, by : SUBSET Producer]
    <2>1. num + 1 \in 1 .. num + 1 /\ ~ (num + 1 < num + 1) /\ num + 1 >= num + 1 - conf
      OBVIOUS
    <2>2. w[num + 1] = [[needed |-> required_confs(h.active_schedule), by |-> {}]
                          EXCEPT !.by = @ \cup {p}]
      BY <1>1, <2>1 DEF Voted
    <2> QED BY <2>2
  <1>5. \A n \in 1 .. num + 1 : n \in 1 .. num \/ n = num + 1 OBVIOUS
  <1>6. w \in Ballots(num + 1) BY <1>2, <1>3, <1>4, <1>5 DEF Ballots
  <1>7. \A n \in 1 .. num :
           /\ w[n].needed = v[n].needed
           /\ w[n].by = IF n >= num + 1 - conf THEN v[n].by \cup {p} ELSE v[n].by
    BY <1>3
  <1> QED BY <1>1, <1>4, <1>6, <1>7 DEF Casts

(* The double-confirm check keeps a producer from voting twice.            *)
LEMMA FirstVote ==
    ASSUME NEW h, NEW v, ChainInv(h, v), NEW conf \in 0 .. h.block_num + 1,
           NEW p \in Members(h.active_schedule), p \in Producer,
           double_confirm_check(h, p, conf),
           NEW n \in 1 .. h.block_num, n >= h.block_num + 1 - conf
    PROVE  p \notin v[n].by
  <1> SUFFICES ASSUME p \in v[n].by PROVE FALSE OBVIOUS
  <1>1. h.block_num \in Nat /\ h.producer_to_last_produced \in ProducerMap
    BY DEF ChainInv, Regular, HeaderState
  <1>2. PICK l : l = h.producer_to_last_produced[p] OBVIOUS
  <1>3. l \in Nat \cup {absent} BY <1>1, <1>2 DEF ProducerMap
  <1>4. l >= n BY <1>2 DEF ChainInv, Remembers
  <1>5. l # absent BY <1>3, <1>4, <1>1 DEF absent
  <1>6. l < h.block_num + 1 - conf
    BY <1>1, <1>2, <1>5 DEF double_confirm_check, Keys
  <1> QED BY <1>1, <1>3, <1>4, <1>5, <1>6

(* The votes behind the counts of generate_next: one of every block before *)
(* the new one, whose count starts at the quorum.                          *)
Before(h, v, cc, i, n) ==
    /\ n \in 1 .. h.block_num + 1 /\ cc[i] \in 1 .. 255
    /\ n = h.block_num + 1 => cc[i] = required_confs(h.active_schedule)
    /\ n # h.block_num + 1 => cc[i] + Cardinality(v[n].by) = v[n].needed

LEMMA CountsBefore ==
    ASSUME NEW h, NEW v, ChainInv(h, v), NEW cc,
           cc = PushConfirm(h.confirm_count, required_confs(h.active_schedule)),
           NEW i \in 1 .. Len(cc), NEW n, n = h.block_num + 1 - (Len(cc) - i)
    PROVE  Before(h, v, cc, i, n)
  <1>1. /\ h.block_num \in Nat /\ Regular(h)
        /\ Tracks(h.confirm_count, h.block_num, v)
    BY DEF ChainInv, Regular, HeaderState
  <1>2. PICK hc \in Seq(0 .. 255) : hc = h.confirm_count BY <1>1 DEF Regular, HeaderState
  <1>3. PICK rc \in 1 .. 255 : rc = required_confs(h.active_schedule)
    BY <1>1, QuorumFits DEF Regular
  <1>4. /\ cc \in Seq(0 .. 255) /\ Len(cc) \in Nat /\ Len(cc) >= 1
        /\ Len(cc) <= Len(hc) + 1 /\ cc[Len(cc)] = rc
        /\ \A j \in 1 .. Len(cc) - 1 : cc[j] = hc[Len(hc) + 1 - (Len(cc) - j)]
    <2>1. cc = PushConfirm(hc, rc) BY <1>2, <1>3
    <2>2. Pushes(hc, rc, cc) BY <2>1, PushedSame
    <2> QED BY <2>2 DEF Pushes
  <1>5. Len(hc) <= h.block_num
    <2>1. Proposed(h) \in Nat /\ Proposed(h) + Len(hc) <= h.block_num
      BY <1>1, <1>2 DEF Regular, HeaderState, Proposed
    <2> QED BY <1>1, <2>1
  <1>6. n \in 1 .. h.block_num + 1 BY <1>1, <1>4, <1>5
  <1>7. CASE i = Len(cc)
    <2>1. n = h.block_num + 1 BY <1>1, <1>4, <1>7
    <2>2. cc[i] = rc BY <1>4, <1>7
    <2> QED BY <1>3, <1>6, <2>1, <2>2 DEF Before
  <1>8. CASE i # Len(cc)
    <2>1. n # h.block_num + 1 BY <1>1, <1>4, <1>8
    <2>2. PICK k \in 1 .. Len(hc) : k = Len(hc) + 1 - (Len(cc) - i)
      <3>1. Len(hc) \in Nat BY <1>2
      <3>2. Len(hc) + 1 - (Len(cc) - i) \in 1 .. Len(hc) BY <1>4, <1>8, <3>1
      <3> QED BY <3>2
    <2>3. i \in 1 .. Len(cc) - 1 BY <1>4, <1>8
    <2>4. cc[i] = hc[k] BY <1>4, <2>2, <2>3
    <2>5. n = h.block_num - (Len(hc) - k) BY <1>1, <1>4, <2>2
    <2>6. hc[k] > 0 /\ hc[k] + Cardinality(v[n].by) = v[n].needed
      BY <1>1, <1>2, <2>5 DEF Tracks
    <2>7. hc[k] \in 0 .. 255 BY Element
    <2>8. cc[i] \in 1 .. 255 BY <2>4, <2>6, <2>7
    <2> QED BY <1>6, <2>1, <2>4, <2>6, <2>8 DEF Before
  <1> QED BY <1>7, <1>8

(* The counts after set_confirmed match the votes with the new ones, and   *)
(* a block that gets to zero has its quorum.                               *)
Adds(h, v, when, conf, g, s, at, p, w, num, cc, rc) ==
    /\ ChainInv(h, v) /\ Extends(h, when, conf, g, s, at)
    /\ p = get_scheduled_producer(h, when) /\ double_confirm_check(h, p, conf)
    /\ conf <= h.block_num + 1 /\ num = h.block_num /\ rc = required_confs(h.active_schedule)
    /\ w = Voted(h, v, p, conf) /\ cc = g.confirm_count

LEMMA AddsFacts ==
    ASSUME NEW h, NEW v, NEW when \in Nat, NEW conf \in Nat, NEW g, NEW s, NEW at,
           NEW p, NEW w, NEW num, NEW cc, NEW rc,
           Adds(h, v, when, conf, g, s, at, p, w, num, cc, rc)
    PROVE  /\ num \in Nat /\ rc \in 1 .. 255 /\ cc \in Seq(0 .. 255)
           /\ v \in Ballots(num) /\ p \in Producer /\ p \in Members(h.active_schedule)
           /\ Casts(num, v, p, conf, rc, w)
           /\ cc = PushConfirm(h.confirm_count, required_confs(h.active_schedule))
  <1>1. Regular(h) /\ v \in Ballots(num) /\ num \in Nat
    BY DEF Adds, ChainInv, Regular, HeaderState
  <1>2. p \in Members(h.active_schedule) /\ p \in Producer
    BY <1>1, ScheduledProducer DEF Adds
  <1>3. rc \in 1 .. 255 BY <1>1, QuorumFits DEF Regular, Adds
  <1>4. /\ cc = PushConfirm(h.confirm_count, required_confs(h.active_schedule))
        /\ cc \in Seq(0 .. 255)
    BY DEF Extends, Generated, Adds, HeaderState
  <1>5. required_confs(h.active_schedule) \in Nat
    BY <1>3, Positive DEF Adds
  <1>6. Casts(num, v, p, conf, rc, w) BY <1>1, <1>2, <1>5, VotedBallots DEF Adds
  <1> QED BY <1>1, <1>2, <1>3, <1>4, <1>6

After(cc, conf, w, i, n) ==
    /\ cc[i] \in 1 .. 255
    /\ w[n].needed \in Nat /\ Cardinality(w[n].by) \in Nat
    /\ i >= Len(cc) - conf => cc[i] - 1 + Cardinality(w[n].by) = w[n].needed
    /\ i < Len(cc) - conf => cc[i] + Cardinality(w[n].by) = w[n].needed

CountOf(cc, num, i, n) ==
    i \in 1 .. Len(cc) /\ n \in 1 .. num + 1 /\ n = num + 1 - (Len(cc) - i)

LEMMA CountsAfter ==
    ASSUME NEW h, NEW v, NEW when \in Nat, NEW conf \in Nat, NEW g, NEW s, NEW at,
           NEW p \in Producer, NEW w, NEW num \in Nat, NEW cc \in Seq(0 .. 255),
           NEW rc \in 1 .. 255, Adds(h, v, when, conf, g, s, at, p, w, num, cc, rc),
           NEW i, NEW n, CountOf(cc, num, i, n)
    PROVE  After(cc, conf, w, i, n)
  <1>0. i \in 1 .. Len(cc) /\ n \in 1 .. num + 1 /\ n = num + 1 - (Len(cc) - i)
    BY DEF CountOf
  <1>1. /\ v \in Ballots(num) /\ p \in Members(h.active_schedule)
        /\ Casts(num, v, p, conf, rc, w)
    BY AddsFacts
  <1>2. /\ cc[i] \in 1 .. 255
        /\ n = num + 1 => cc[i] = rc
        /\ n # num + 1 => cc[i] + Cardinality(v[n].by) = v[n].needed
    <2>1. ChainInv(h, v) /\ num = h.block_num /\ rc = required_confs(h.active_schedule)
      BY DEF Adds
    <2>2. cc = PushConfirm(h.confirm_count, required_confs(h.active_schedule))
      BY AddsFacts
    <2>3. n = h.block_num + 1 - (Len(cc) - i) BY <1>0, <2>1
    <2>4. Before(h, v, cc, i, n) BY <1>0, <2>1, <2>2, <2>3, CountsBefore
    <2> QED BY <2>1, <2>4, Zenon DEF Before
  <1>3. w[n].needed \in Nat /\ w[n].by \in SUBSET Producer /\ Cardinality(w[n].by) \in Nat
    <2>1. w[n].needed \in Nat /\ w[n].by \in SUBSET Producer
      BY <1>0, <1>1 DEF Ballots, Casts
    <2> QED BY <2>1, MemberFinite
  <1>4. Len(cc) \in Nat OBVIOUS
  <1>5. i >= Len(cc) - conf <=> n >= num + 1 - conf BY <1>0, <1>4
  <1>6. CASE n = num + 1
    <2>1. i >= Len(cc) - conf BY <1>0, <1>4, <1>6
    <2>2. Cardinality({p}) = 1 BY FS_Singleton
    <2>3. cc[i] = rc /\ w[n].needed = rc /\ w[n].by = {p} BY <1>1, <1>2, <1>6 DEF Casts
    <2>4. Cardinality(w[n].by) = 1 BY <2>2, <2>3
    <2>5. rc - 1 + 1 = rc OBVIOUS
    <2> QED BY <1>0, <1>2, <1>3, <1>4, <2>1, <2>3, <2>4, <2>5 DEF After
  <1>7. CASE n # num + 1
    <2>1. n \in 1 .. num BY <1>0, <1>7
    <2>2. PICK x, y : x = cc[i] /\ y = v[n] OBVIOUS
    <2>8. x \in 1 .. 255 BY <1>2, <2>2
    <2>3. y.by \in SUBSET Producer BY <1>1, <2>1, <2>2 DEF Ballots
    <2>4. x + Cardinality(y.by) = w[n].needed BY <1>1, <1>2, <1>7, <2>1, <2>2 DEF Casts
    <2>5. Cardinality(y.by) \in Nat BY <2>3, MemberFinite
    <2>6. CASE i >= Len(cc) - conf
      <3>1. n >= num + 1 - conf BY <1>5, <2>6
      <3>2. p \notin y.by
        <4>1. /\ ChainInv(h, v) /\ num = h.block_num /\ double_confirm_check(h, p, conf)
              /\ conf <= h.block_num + 1
          BY DEF Adds
        <4>2. conf \in 0 .. h.block_num + 1 BY <4>1
        <4> QED BY <1>1, <2>1, <2>2, <3>1, <4>1, <4>2, FirstVote
      <3>3. w[n].by = y.by \cup {p} BY <1>1, <2>1, <2>2, <3>1 DEF Casts
      <3>4. Cardinality(y.by \cup {p}) = Cardinality(y.by) + 1
        BY <2>3, <3>2, VoteCounts
      <3>5. x - 1 + (Cardinality(y.by) + 1) = x + Cardinality(y.by) BY <2>8, <2>5
      <3> QED BY <1>0, <1>2, <1>3, <1>4, <2>2, <2>4, <2>6, <3>3, <3>4, <3>5 DEF After
    <2>7. CASE ~ (i >= Len(cc) - conf)
      <3>1. w[n].by = y.by BY <1>1, <1>5, <2>1, <2>2, <2>7 DEF Casts
      <3> QED BY <1>0, <1>2, <1>3, <1>4, <2>2, <2>4, <2>7, <3>1 DEF After
    <2> QED BY <2>6, <2>7
  <1> QED BY <1>6, <1>7

(* The parts of the invariant for the state after set_confirmed, which the *)
(* later steps leave alone.                                                *)
LEMMA ConfirmedVotes ==
    ASSUME NEW h, NEW v, NEW when \in Nat, NEW conf \in Nat, NEW g, NEW s, NEW at,
           NEW p \in Producer, NEW w, NEW num \in Nat, NEW cc \in Seq(0 .. 255),
           NEW rc \in 1 .. 255, Adds(h, v, when, conf, g, s, at, p, w, num, cc, rc)
    PROVE  Tracks(s.confirm_count, num + 1, w) /\ Quorum(Proposed(s), w)
  <1>0. \A i, n : CountOf(cc, num, i, n) => After(cc, conf, w, i, n)
    BY CountsAfter, ZenonT(60)
  <1>1. /\ v \in Ballots(num) /\ Casts(num, v, p, conf, rc, w)
        /\ cc = PushConfirm(h.confirm_count, required_confs(h.active_schedule))
    BY AddsFacts
  <1>2. PICK sc : sc = s.confirm_count OBVIOUS
  <1>3. /\ at \in 0 .. Len(cc) /\ Len(sc) = Len(cc) - at
        /\ \A i \in 1 .. Len(cc) - at :
              /\ sc[i] > 0
              /\ sc[i] = IF at + i >= Len(cc) - conf THEN cc[at + i] - 1 ELSE cc[at + i]
        /\ at = 0 => Proposed(s) = Proposed(g)
        /\ at > 0 => /\ at >= Len(cc) - conf /\ cc[at] = 1
                     /\ Proposed(s) = num + 1 - (Len(cc) - at)
    <2>1. Confirms(g, conf, s, at) /\ g.confirm_count = cc /\ g.block_num = num + 1
      BY DEF Adds, Extends, Generated
    <2> QED BY <1>2, <2>1 DEF Confirms
  <1>4. /\ Proposed(g) = Proposed(h) /\ Proposed(h) \in Nat /\ Len(cc) \in Nat
        /\ Proposed(h) + Len(h.confirm_count) <= num
        /\ h.confirm_count \in Seq(0 .. 255) /\ Quorum(Proposed(h), v)
    BY DEF Adds, Extends, Generated, ChainInv, Regular, HeaderState, Proposed
  <1>5. Len(cc) <= Len(h.confirm_count) + 1
    <2>1. Pushes(h.confirm_count, rc, cc) BY <1>1, <1>4, PushedSame DEF Adds
    <2> QED BY <2>1 DEF Pushes
  <1>6. Proposed(h) + Len(cc) <= num + 1
    <2>1. Len(h.confirm_count) \in Nat BY <1>4
    <2> QED BY <1>4, <1>5, <2>1
  <1>7. Tracks(sc, num + 1, w)
    <2> SUFFICES ASSUME NEW j \in 1 .. Len(sc), NEW n, n = num + 1 - (Len(sc) - j)
                 PROVE  sc[j] > 0 /\ sc[j] + Cardinality(w[n].by) = w[n].needed
      BY DEF Tracks
    <2>1. j \in 1 .. Len(cc) - at BY <1>3
    <2>2. PICK i \in 1 .. Len(cc) : i = at + j BY <1>3, <1>4, <2>1
    <2>3. n = num + 1 - (Len(cc) - i) /\ n \in 1 .. num + 1
      BY <1>3, <1>4, <1>6, <2>1, <2>2
    <2>4. /\ cc[i] \in 1 .. 255
          /\ i >= Len(cc) - conf => cc[i] - 1 + Cardinality(w[n].by) = w[n].needed
          /\ i < Len(cc) - conf => cc[i] + Cardinality(w[n].by) = w[n].needed
      <3>1. CountOf(cc, num, i, n) BY <2>3 DEF CountOf
      <3>2. After(cc, conf, w, i, n) BY <1>0, <3>1
      <3> QED BY <3>2 DEF After
    <2>5. sc[j] > 0 /\ sc[j] = IF i >= Len(cc) - conf THEN cc[i] - 1 ELSE cc[i]
      BY <1>3, <2>1, <2>2
    <2>6. i >= Len(cc) - conf \/ i < Len(cc) - conf BY <1>4
    <2> QED BY <2>4, <2>5, <2>6
  <1>8. CASE at = 0
    <2>1. Proposed(s) = Proposed(h) BY <1>3, <1>4, <1>8
    <2>2. Quorum(Proposed(h), w)
      <3> SUFFICES ASSUME NEW n \in Nat, n = Proposed(h), n > 0
                   PROVE  Cardinality(w[n].by) >= w[n].needed
        BY <1>4 DEF Quorum
      <3>1. n \in 1 .. num
        <4>1. Len(h.confirm_count) \in Nat BY <1>4
        <4> QED BY <1>4, <4>1
      <3>2. Cardinality(v[n].by) >= v[n].needed BY <1>4 DEF Quorum
      <3>3. PICK y : y = v[n] OBVIOUS
      <3>4. y.by \in SUBSET Producer /\ y.needed \in Nat BY <1>1, <3>1, <3>3 DEF Ballots
      <3>5. w[n].needed = y.needed /\ w[n].by \in {y.by, y.by \cup {p}}
        BY <1>1, <3>1, <3>3 DEF Casts
      <3>6. /\ Cardinality(y.by) \in Nat /\ Cardinality(y.by \cup {p}) \in Nat
            /\ Cardinality(y.by) <= Cardinality(y.by \cup {p})
        BY <3>4, MemberFinite, VoteCounts
      <3>7. Cardinality(w[n].by) \in {Cardinality(y.by), Cardinality(y.by \cup {p})}
        BY <3>5
      <3> QED BY <3>2, <3>3, <3>4, <3>5, <3>6, <3>7
    <2> QED BY <1>2, <1>4, <1>7, <2>1, <2>2
  <1>9. CASE at # 0
    <2>1. at \in 1 .. Len(cc) /\ at > 0 BY <1>3, <1>4, <1>9
    <2>2. at >= Len(cc) - conf /\ cc[at] = 1 BY <1>3, <2>1
    <2>3. PICK n : n = num + 1 - (Len(cc) - at) OBVIOUS
    <2>4. n \in 1 .. num + 1 /\ n >= Proposed(h) BY <1>4, <1>6, <2>1, <2>3
    <2>5. /\ w[n].needed \in Nat /\ Cardinality(w[n].by) \in Nat
          /\ 1 - 1 + Cardinality(w[n].by) = w[n].needed
      <3>1. CountOf(cc, num, at, n) BY <2>1, <2>3, <2>4 DEF CountOf
      <3>2. After(cc, conf, w, at, n) BY <1>0, <3>1
      <3> QED BY <2>2, <3>2 DEF After
    <2>6. Proposed(s) = n BY <1>3, <2>1, <2>3
    <2>7. Quorum(n, w) BY <2>5 DEF Quorum
    <2> QED BY <1>2, <1>7, <2>4, <2>6, <2>7
  <1> QED BY <1>8, <1>9

(* The table of last produced blocks, with or without a promotion.         *)
Kept(h, num, p, x) ==
    /\ x.active_schedule = h.active_schedule
    /\ \A q \in Producer : x.producer_to_last_produced[q] =
          IF q = p THEN num + 1 ELSE h.producer_to_last_produced[q]
    /\ \/ /\ x.pending_schedule = h.pending_schedule
          /\ x.pending_schedule_lib_num = h.pending_schedule_lib_num
       \/ x.pending_schedule_lib_num = num + 1

Renewed(h, num, p, x, lib) ==
    /\ h.pending_schedule.producers # <<>>
    /\ lib >= h.pending_schedule_lib_num
    /\ x.active_schedule = h.pending_schedule
    /\ x.pending_schedule.producers = <<>>
    /\ \A q \in Producer : x.producer_to_last_produced[q] =
          IF q = p THEN num + 1
          ELSE IF q \notin Members(h.pending_schedule) THEN absent
          ELSE IF h.producer_to_last_produced[q] = absent THEN lib
          ELSE h.producer_to_last_produced[q]

LEMMA TableNext ==
    ASSUME NEW h, Regular(h), NEW when \in Nat, NEW conf \in Nat, NEW g, NEW s, NEW at,
           Extends(h, when, conf, g, s, at), NEW offer \in Offers,
           NEW x, x = NextState(h, offer, when, conf)
    PROVE  \/ Kept(h, h.block_num, get_scheduled_producer(h, when), x)
           \/ Renewed(h, h.block_num, get_scheduled_producer(h, when), x, Lib(s))
  <1>1. PICK p, num : p = get_scheduled_producer(h, when) /\ num = h.block_num OBVIOUS
  <1>2. p \in Producer /\ num \in Nat BY <1>1, ScheduledProducer DEF Regular, HeaderState
  <1>3. /\ Regular(s) /\ Lib(s) <= s.block_num /\ s = Confirming(h, when, conf)
        /\ s.producer = p /\ s.block_num = num + 1
        /\ s.active_schedule = h.active_schedule
        /\ s.pending_schedule = h.pending_schedule
        /\ s.pending_schedule_lib_num = h.pending_schedule_lib_num
        /\ s.producer_to_last_produced =
              [h.producer_to_last_produced EXCEPT ![p] = num + 1]
    BY <1>1 DEF Extends, Confirms, Generated
  <1>4. h.producer_to_last_produced \in ProducerMap BY DEF Regular, HeaderState
  <1>5. \A q \in Producer : s.producer_to_last_produced[q] =
           IF q = p THEN num + 1 ELSE h.producer_to_last_produced[q]
    BY <1>2, <1>3, <1>4 DEF ProducerMap
  <1>6. PICK m : m = maybe_promote_pending(s) OBVIOUS
  <1>7. /\ Regular(m)
        /\ ~ promotes(s) => m = s
        /\ promotes(s) => Promoted(s, m)
    BY <1>3, <1>6, MaybePromote
  <1>8. CASE promotes(s)
    <2>1. x = m BY <1>3, <1>6, <1>8 DEF NextState, Ready
    <2>2. Promoted(s, m) BY <1>7, <1>8
    <2>3. PICK S, f, lib : S = Members(h.pending_schedule) /\ lib = Lib(s)
                           /\ f = s.producer_to_last_produced
      OBVIOUS
    <2>4. f \in ProducerMap /\ lib \in Nat
      BY <1>3, <2>3 DEF Regular, HeaderState, Lib
    <2>5. x.producer_to_last_produced = [Rekey(f, S, lib) EXCEPT ![p] = num + 1]
      BY <1>3, <2>1, <2>2, <2>3 DEF Promoted
    <2>6. /\ Rekey(f, S, lib) \in ProducerMap
          /\ \A q \in Producer : Rekey(f, S, lib)[q] =
                IF q \notin S THEN absent ELSE IF f[q] = absent THEN lib ELSE f[q]
      BY <2>4, RekeyType
    <2>7. \A q \in Producer : x.producer_to_last_produced[q] =
             IF q = p THEN num + 1
             ELSE IF q \notin S THEN absent
             ELSE IF h.producer_to_last_produced[q] = absent THEN lib
             ELSE h.producer_to_last_produced[q]
      <3> SUFFICES ASSUME NEW q \in Producer
                   PROVE  x.producer_to_last_produced[q] =
                             IF q = p THEN num + 1
                             ELSE IF q \notin S THEN absent
                             ELSE IF h.producer_to_last_produced[q] = absent THEN lib
                             ELSE h.producer_to_last_produced[q]
        OBVIOUS
      <3>1. x.producer_to_last_produced[q] = IF q = p THEN num + 1 ELSE Rekey(f, S, lib)[q]
        BY <2>5, <2>6 DEF ProducerMap
      <3>2. q # p => f[q] = h.producer_to_last_produced[q] BY <1>5, <2>3
      <3> QED BY <2>6, <3>1, <3>2
    <2>8. /\ h.pending_schedule.producers # <<>>
          /\ lib >= h.pending_schedule_lib_num
      BY <1>3, <1>8, <2>3 DEF promotes, Lib
    <2>9. Renewed(h, num, p, x, lib)
      BY <1>3, <2>1, <2>2, <2>3, <2>7, <2>8 DEF Renewed, Promoted
    <2> QED BY <1>1, <2>3, <2>9
  <1>9. CASE ~ promotes(s)
    <2>1. m = s BY <1>7, <1>9
    <2>2. CASE Ready(h, offer, when, conf)
      <3>1. x = set_new_producers(m, offer.schedule) BY <1>3, <1>6, <2>2 DEF NextState
      <3>2. Fits(offer.schedule) BY DEF Offers
      <3>3. /\ x.active_schedule = m.active_schedule
            /\ x.pending_schedule_lib_num = m.block_num
            /\ x.producer_to_last_produced = m.producer_to_last_produced
        BY <1>7, <3>1, <3>2, SetNewProducers
      <3>4. Kept(h, num, p, x) BY <1>3, <1>5, <2>1, <3>3 DEF Kept
      <3> QED BY <1>1, <3>4
    <2>3. CASE ~ Ready(h, offer, when, conf)
      <3>1. x = s BY <1>3, <1>6, <2>1, <2>3 DEF NextState
      <3>2. Kept(h, num, p, x) BY <1>3, <1>5, <3>1 DEF Kept
      <3> QED BY <1>1, <3>2
    <2> QED BY <2>2, <2>3
  <1> QED BY <1>8, <1>9

(* A vote is remembered across a block, and across a promotion.            *)
LEMMA RemembersNext ==
    ASSUME NEW h, NEW v, NEW p \in Producer, NEW w, NEW num \in Nat, NEW conf, NEW rc,
           NEW x, NEW lib \in Nat,
           Regular(h), num = h.block_num, Remembers(h, v), v \in Ballots(num),
           Casts(num, v, p, conf, rc, w), x.block_num = num + 1,
           Kept(h, num, p, x) \/ Renewed(h, num, p, x, lib)
    PROVE  Remembers(x, w)
  <1> SUFFICES ASSUME NEW n \in 1 .. num + 1, NEW q \in w[n].by
               PROVE  \/ x.producer_to_last_produced[q] >= n
                      \/ /\ x.producer_to_last_produced[q] = absent
                         /\ q \notin Members(x.active_schedule)
                         /\ x.pending_schedule.producers # <<>>
                               => n < x.pending_schedule_lib_num
    BY DEF Remembers
  <1>1. q \in Producer BY DEF Casts, Ballots
  <1>2. CASE q = p
    <2>1. x.producer_to_last_produced[q] = num + 1 BY <1>1, <1>2 DEF Kept, Renewed
    <2> QED BY <2>1
  <1>3. CASE q # p
    <2>1. n \in 1 .. num /\ q \in v[n].by
      <3>1. n # num + 1 BY <1>3 DEF Casts
      <3>2. n \in 1 .. num BY <3>1
      <3> QED BY <1>3, <3>2 DEF Casts
    <2>2. PICK l : l = h.producer_to_last_produced[q] OBVIOUS
    <2>3. l \in Nat \cup {absent} BY <1>1, <2>2 DEF Regular, HeaderState, ProducerMap
    <2>4. \/ l >= n
          \/ /\ l = absent /\ q \notin Members(h.active_schedule)
             /\ h.pending_schedule.producers # <<>> => n < h.pending_schedule_lib_num
      BY <2>1, <2>2 DEF Remembers
    <2>5. CASE Kept(h, num, p, x)
      <3>1. x.producer_to_last_produced[q] = l BY <1>1, <1>3, <2>2, <2>5 DEF Kept
      <3>2. \/ /\ x.pending_schedule = h.pending_schedule
               /\ x.pending_schedule_lib_num = h.pending_schedule_lib_num
            \/ x.pending_schedule_lib_num = num + 1
        BY <2>5 DEF Kept
      <3>3. x.active_schedule = h.active_schedule BY <2>5 DEF Kept
      <3>4. n < num + 1 BY <2>1
      <3> QED BY <2>4, <3>1, <3>2, <3>3, <3>4
    <2>6. CASE Renewed(h, num, p, x, lib)
      <3>1. x.producer_to_last_produced[q] =
               IF q \notin Members(h.pending_schedule) THEN absent
               ELSE IF l = absent THEN lib ELSE l
        BY <1>1, <1>3, <2>2, <2>6 DEF Renewed
      <3>2. /\ x.active_schedule = h.pending_schedule
            /\ x.pending_schedule.producers = <<>>
            /\ h.pending_schedule.producers # <<>>
            /\ lib >= h.pending_schedule_lib_num
        BY <2>6 DEF Renewed
      <3>3. CASE q \notin Members(h.pending_schedule) BY <3>1, <3>2, <3>3
      <3>4. CASE q \in Members(h.pending_schedule) /\ l # absent
        <4>1. l >= n BY <2>4, <3>4
        <4> QED BY <3>1, <3>4, <4>1
      <3>5. CASE q \in Members(h.pending_schedule) /\ l = absent
        <4>1. n < h.pending_schedule_lib_num
          <5>1. ~ (l >= n) BY <2>1, <3>5 DEF absent
          <5> QED BY <2>4, <3>2, <5>1
        <4>2. h.pending_schedule_lib_num \in Nat BY DEF Regular, HeaderState
        <4>3. lib >= n BY <2>1, <3>2, <4>1, <4>2
        <4> QED BY <3>1, <3>5, <4>3
      <3> QED BY <3>3, <3>4, <3>5
    <2> QED BY <2>5, <2>6
  <1> QED BY <1>2, <1>3

(* A block whose confirmations are checked keeps the invariant of its      *)
(* chain, unless it confirms more blocks than there are.                   *)
LEMMA NextGood ==
    ASSUME NEW h, NEW v, ChainInv(h, v), NEW when \in Nat, NEW conf \in Nat,
           conf <= h.block_num + 1, NEW offer \in Offers,
           double_confirm_check(h, get_scheduled_producer(h, when), conf)
    PROVE  ChainInv(NextState(h, offer, when, conf),
                    Voted(h, v, get_scheduled_producer(h, when), conf))
  <1>1. PICK p, w, x : /\ p = get_scheduled_producer(h, when) /\ w = Voted(h, v, p, conf)
                       /\ x = NextState(h, offer, when, conf)
    OBVIOUS
  <1>2. Regular(h) /\ Remembers(h, v) /\ Counting(h)
    BY DEF ChainInv, Tracks, Counting
  <1>3. PICK g, s, at : Extends(h, when, conf, g, s, at) BY <1>2, ConfirmingState
  <1>4. PICK num, cc, rc : /\ num = h.block_num /\ cc = g.confirm_count
                           /\ rc = required_confs(h.active_schedule)
    OBVIOUS
  <1>5. Adds(h, v, when, conf, g, s, at, p, w, num, cc, rc)
    BY <1>1, <1>3, <1>4 DEF Adds
  <1>6. /\ num \in Nat /\ rc \in 1 .. 255 /\ cc \in Seq(0 .. 255)
        /\ v \in Ballots(num) /\ p \in Producer /\ Casts(num, v, p, conf, rc, w)
    BY <1>5, AddsFacts
  <1>7. Tracks(s.confirm_count, num + 1, w) /\ Quorum(Proposed(s), w)
    BY <1>5, <1>6, ConfirmedVotes, ZenonT(60)
  <1>8. Regular(x) /\ x.block_num = num + 1 BY <1>1, <1>2, <1>4, NextRegular
  <1>9. SameBlock(s, x)
    <2>1. PICK m : m = maybe_promote_pending(s) OBVIOUS
    <2>2. Regular(s) /\ Lib(s) <= s.block_num /\ s = Confirming(h, when, conf)
      BY <1>3 DEF Extends
    <2>3. Regular(m) /\ SameBlock(s, m) BY <2>1, <2>2, MaybePromote
    <2>4. CASE Ready(h, offer, when, conf)
      <3>1. x = set_new_producers(m, offer.schedule)
        BY <1>1, <2>1, <2>2, <2>4 DEF NextState
      <3>2. Fits(offer.schedule) BY DEF Offers
      <3>3. SameBlock(m, x) BY <2>3, <3>1, <3>2, SetNewProducers
      <3> QED BY <2>3, <3>3 DEF SameBlock
    <2>5. CASE ~ Ready(h, offer, when, conf)
      <3>1. x = m BY <1>1, <2>1, <2>2, <2>5 DEF NextState
      <3> QED BY <2>3, <3>1
    <2> QED BY <2>4, <2>5
  <1>10. PICK lib \in Nat : lib = Lib(s) BY <1>3 DEF Extends, Regular, HeaderState, Lib
  <1>11. Kept(h, num, p, x) \/ Renewed(h, num, p, x, lib)
    BY <1>1, <1>2, <1>3, <1>4, <1>10, TableNext
  <1>12. Remembers(x, w)
    BY <1>2, <1>4, <1>6, <1>8, <1>10, <1>11, RemembersNext
  <1>13. w \in Ballots(x.block_num) BY <1>6, <1>8 DEF Casts
  <1>14. Tracks(x.confirm_count, x.block_num, w) /\ Quorum(Proposed(x), w)
    BY <1>7, <1>8, <1>9 DEF SameBlock
  <1>15. ChainInv(x, w) BY <1>8, <1>12, <1>13, <1>14 DEF ChainInv
  <1> QED BY <1>1, <1>15
-----------------------------------------------------------------------------
(* The specification.  A pending block is one that the head and the        *)
(* proposal of its start determine, and what is proposed since follows the *)
(* schedules of the pending block.                                         *)
PastType == [overlong : BOOLEAN, voters : SUBSET Producer, unforeseen : SUBSET Producer]

HeaderInv ==
    /\ Regular(head) /\ Counting(head) /\ votes \in Ballots(head.block_num)
    /\ ~ past.overlong => ChainInv(head, votes)
    /\ past \in PastType
    /\ gpo \in Offers /\ watermark \in ProducerMap /\ restarts \in 0 .. MaxRestarts
    /\ \/ pending = <<>> /\ Follows(head, gpo)
       \/ \E offer \in Offers, when \in Nat, conf \in Nat :
             /\ pending = <<[hs |-> NextState(head, offer, when, conf),
                             confirmed |-> conf, gpo |-> offer]>>
             /\ Follows(head, offer)
             /\ Follows(NextState(head, offer, when, conf), gpo)

LEMMA NoProposalOffered == NoProposal \in Offers /\ \A h : Follows(h, NoProposal)
  <1>1. PICK none : none = <<>> OBVIOUS
  <1>2. /\ none \in Seq(Producer) /\ Len(none) = 0
        /\ \A i, j \in 1 .. Len(none) : none[i] = none[j] => i = j
    BY <1>1
  <1>3. PICK sch : sch = [version |-> 0, producers |-> none] OBVIOUS
  <1>4. sch \in Schedule /\ sch.producers = none BY <1>2, <1>3 DEF Schedule
  <1>5. NoProposal = [valid |-> FALSE, block_num |-> 0, schedule |-> sch]
    BY <1>1, <1>3 DEF NoProposal
  <1>6. Fits(sch) BY <1>2, <1>4 DEF Fits, max_producers
  <1> QED BY <1>4, <1>5, <1>6 DEF Offers, Follows

LEMMA GenesisGood == Init => HeaderInv
  <1> SUFFICES ASSUME Init PROVE HeaderInv OBVIOUS
  <1>1. PICK one : one = <<eosio>> OBVIOUS
  <1>2. /\ one \in Seq(Producer) /\ Len(one) = 1
        /\ \A i, j \in 1 .. Len(one) : one[i] = one[j] => i = j
    BY <1>1, ChainAssumption
  <1>3. PICK sch : sch = [version |-> 0, producers |-> one] OBVIOUS
  <1>4. sch \in Schedule /\ sch.producers = one /\ Fits(sch)
    <2>1. sch \in Schedule /\ sch.producers = one BY <1>2, <1>3 DEF Schedule
    <2> QED BY <1>2, <2>1 DEF Fits, max_producers
  <1>5. EmptyMap \in ProducerMap /\ \A q \in Producer : EmptyMap[q] = -1
    BY DEF EmptyMap, ProducerMap, absent
  <1>6. head = [block_num |-> 1, timestamp |-> 0, producer |-> eosio,
                dpos_proposed_irreversible_blocknum |-> 0,
                dpos_irreversible_blocknum |-> 0, pending_schedule_lib_num |-> 0,
                pending_schedule |-> sch, active_schedule |-> sch,
                producer_to_last_produced |-> EmptyMap,
                producer_to_last_implied_irb |-> EmptyMap, confirm_count |-> <<>>]
    BY <1>1, <1>3 DEF Init, GenesisState
  <1>7. /\ head \in HeaderState /\ head.block_num = 1 /\ Proposed(head) = 0
        /\ head.active_schedule = sch /\ head.pending_schedule = sch
        /\ head.producer_to_last_implied_irb = EmptyMap
        /\ head.confirm_count = <<>>
    BY <1>4, <1>5, <1>6, ChainAssumption DEF HeaderState, Proposed
  <1>8. Regular(head)
    <2>1. \A q \in Producer : head.producer_to_last_implied_irb[q] <= 1
      BY <1>5, <1>7
    <2>2. Len(head.confirm_count) = 0 BY <1>7
    <2>3. Len(sch.producers) >= 1 BY <1>2, <1>4
    <2> QED BY <1>4, <1>7, <2>1, <2>2, <2>3 DEF Regular
  <1>9. votes \in Ballots(1) /\ \A n \in 1 .. 1 : votes[n].by = {}
    BY DEF Init, Ballots
  <1>10. ChainInv(head, votes)
    <2>1. Tracks(head.confirm_count, head.block_num, votes) BY <1>7 DEF Tracks
    <2>2. Quorum(Proposed(head), votes) BY <1>7 DEF Quorum
    <2>3. Remembers(head, votes) BY <1>7, <1>9 DEF Remembers
    <2> QED BY <1>7, <1>8, <1>9, <2>1, <2>2, <2>3 DEF ChainInv
  <1>11. gpo \in Offers /\ Follows(head, gpo) BY NoProposalOffered DEF Init
  <1>12. watermark \in ProducerMap /\ restarts \in 0 .. MaxRestarts
    BY <1>5, ChainAssumption DEF Init
  <1>13. Counting(head) BY <1>7 DEF Counting
  <1>14. past \in PastType BY DEF Init, PastType
  <1> QED BY <1>7, <1>8, <1>9, <1>10, <1>11, <1>12, <1>13, <1>14 DEF HeaderInv, Init

(* start_block, by its header part.                                        *)
LEMMA StartState ==
    ASSUME NEW when \in Nat, NEW conf \in Nat
    PROVE  /\ BlockState(when, conf).hs = NextState(head, gpo, when, conf)
           /\ Ready(head, gpo, when, conf) => BlockState(when, conf).gpo = NoProposal
           /\ ~ Ready(head, gpo, when, conf) => BlockState(when, conf).gpo = gpo
  BY DEF BlockState, NextState, Ready, Confirming, proposal_ready, Lib

LEMMA StartGood ==
    ASSUME HeaderInv, NEW when \in Nat, NEW conf \in Nat, start_block(when, conf)
    PROVE  HeaderInv'
  <1>1. /\ Regular(head) /\ Counting(head) /\ votes \in Ballots(head.block_num)
        /\ ~ past.overlong => ChainInv(head, votes)
        /\ past \in PastType /\ gpo \in Offers /\ watermark \in ProducerMap
        /\ restarts \in 0 .. MaxRestarts
    BY DEF HeaderInv
  <1>2. pending = <<>> BY DEF start_block
  <1>3. Follows(head, gpo)
    <2>1. \A y : <<y>> # <<>> OBVIOUS
    <2> QED BY <1>2, <2>1 DEF HeaderInv
  <1>4. /\ head' = head /\ votes' = votes /\ watermark' = watermark
        /\ restarts' = restarts /\ past' = past
        /\ pending' = <<[hs |-> BlockState(when, conf).hs, confirmed |-> conf, gpo |-> gpo]>>
        /\ gpo' = BlockState(when, conf).gpo
    BY DEF start_block
  <1>5. PICK x : x = NextState(head, gpo, when, conf) OBVIOUS
  <1>6. pending' = <<[hs |-> x, confirmed |-> conf, gpo |-> gpo]>>
    BY <1>4, <1>5, StartState
  <1>7. gpo' \in Offers /\ Follows(x, gpo')
    <2>1. CASE Ready(head, gpo, when, conf)
      <3>1. gpo' = NoProposal BY <1>4, <2>1, StartState
      <3> QED BY <3>1, NoProposalOffered
    <2>2. CASE ~ Ready(head, gpo, when, conf)
      <3>1. gpo' = gpo BY <1>4, <2>2, StartState
      <3>2. Follows(x, gpo) BY <1>1, <1>3, <1>5, <2>2, NextRegular
      <3> QED BY <1>1, <3>1, <3>2
    <2> QED BY <2>1, <2>2
  <1>8. PICK offer \in Offers : offer = gpo BY <1>1
  <1>9. \E o \in Offers, wh \in Nat, co \in Nat :
           /\ pending' = <<[hs |-> NextState(head', o, wh, co),
                            confirmed |-> co, gpo |-> o]>>
           /\ Follows(head', o)
           /\ Follows(NextState(head', o, wh, co), gpo')
    BY <1>3, <1>4, <1>5, <1>6, <1>7, <1>8
  <1> QED BY <1>1, <1>4, <1>7, <1>9 DEF HeaderInv

(* The slots and confirmations of the two kinds of blocks.                 *)
LEMMA SlotsNatural ==
    ASSUME HeaderInv
    PROVE  Slots \subseteq Nat /\ head.block_num \in Nat /\ head.timestamp \in Nat
  <1>1. head.block_num \in Nat /\ head.timestamp \in Nat
    BY DEF HeaderInv, Regular, HeaderState
  <1> QED BY <1>1, ChainAssumption DEF Slots

LEMMA LocalConfirms ==
    ASSUME HeaderInv, NEW p \in Producer
    PROVE  blocks_to_confirm(p) \in Nat
  <1>1. head.block_num \in Nat BY SlotsNatural
  <1>2. PICK l : l = watermark[p] OBVIOUS
  <1>3. l \in Nat \cup {absent} BY <1>2 DEF HeaderInv, ProducerMap
  <1>4. CASE l # absent /\ l < head.block_num
    <2>1. PICK d \in Nat : d = head.block_num - l BY <1>1, <1>3, <1>4
    <2>2. d % 65536 \in Nat OBVIOUS
    <2>3. blocks_to_confirm(p) = d % 65536 BY <1>2, <1>4, <2>1 DEF blocks_to_confirm
    <2> QED BY <2>2, <2>3
  <1>5. CASE ~ (l # absent /\ l < head.block_num)
    BY <1>2, <1>5 DEF blocks_to_confirm
  <1> QED BY <1>4, <1>5

(* What a pending block is.                                                *)
PendingIs(offer, when, conf, x) ==
    /\ offer \in Offers /\ when \in Nat /\ conf \in Nat
    /\ x = NextState(head, offer, when, conf)
    /\ pending = <<[hs |-> x, confirmed |-> conf, gpo |-> offer]>>
    /\ pending[1].hs = x /\ pending[1].confirmed = conf /\ pending[1].gpo = offer
    /\ Follows(head, offer) /\ Follows(x, gpo)
    /\ Regular(x) /\ x.block_num = head.block_num + 1
    /\ x.producer = get_scheduled_producer(head, when) /\ x.producer \in Producer

LEMMA PendingFacts ==
    ASSUME HeaderInv, pending # <<>>
    PROVE  \E offer, when, conf, x : PendingIs(offer, when, conf, x)
  <1>1. PICK offer \in Offers, when \in Nat, conf \in Nat :
             /\ pending = <<[hs |-> NextState(head, offer, when, conf),
                             confirmed |-> conf, gpo |-> offer]>>
             /\ Follows(head, offer)
             /\ Follows(NextState(head, offer, when, conf), gpo)
    BY DEF HeaderInv
  <1>2. PICK x : x = NextState(head, offer, when, conf) OBVIOUS
  <1>3. Regular(head) /\ Counting(head) BY DEF HeaderInv
  <1>4. /\ Regular(x) /\ x.block_num = head.block_num + 1
        /\ x.producer = get_scheduled_producer(head, when)
    BY <1>2, <1>3, NextRegular
  <1>5. x.producer \in Producer BY <1>4 DEF Regular, HeaderState
  <1>6. pending = <<[hs |-> x, confirmed |-> conf, gpo |-> offer]>> BY <1>1, <1>2
  <1>7. pending[1].hs = x /\ pending[1].confirmed = conf /\ pending[1].gpo = offer
    BY <1>6
  <1> QED BY <1>1, <1>2, <1>4, <1>5, <1>6, <1>7 DEF PendingIs

LEMMA OnBlockType ==
    ASSUME NEW bsp, bsp.block_num \in Nat, NEW wm \in ProducerMap
    PROVE  \A starting : on_block(bsp, wm, starting) \in ProducerMap
  <1> SUFFICES ASSUME NEW starting PROVE on_block(bsp, wm, starting) \in ProducerMap
    OBVIOUS
  <1>1. PICK new : on_block(bsp, wm, starting) =
                      [p \in Producer |-> IF p \in new THEN bsp.block_num ELSE wm[p]]
    BY DEF on_block
  <1> QED BY <1>1 DEF ProducerMap

(* A step that leaves no pending block behind and keeps the head.          *)
LEMMA DropGood ==
    ASSUME HeaderInv, pending # <<>>, pending' = <<>>, gpo' = pending[1].gpo,
           head' = head, votes' = votes, restarts' = restarts,
           watermark' \in ProducerMap, past' \in PastType,
           past'.overlong = past.overlong
    PROVE  HeaderInv'
  <1>1. PICK offer, when, conf, x : PendingIs(offer, when, conf, x) BY PendingFacts
  <1>2. gpo' \in Offers /\ Follows(head, gpo') BY <1>1 DEF PendingIs
  <1> QED BY <1>2 DEF HeaderInv

LEMMA RememberType ==
    ASSUME HeaderInv, NEW x, Regular(x), NEW conf \in Nat, Remember(x, conf)
    PROVE  /\ past' \in PastType
           /\ past'.overlong = (past.overlong \/ conf > x.block_num)
  <1>1. PICK old : old = past.unforeseen OBVIOUS
  <1>2. past.overlong \in BOOLEAN /\ old \in SUBSET Producer
    BY <1>1 DEF HeaderInv, PastType
  <1>3. PICK o \in BOOLEAN : o = (past.overlong \/ conf > x.block_num) OBVIOUS
  <1>4. PICK f : f = foreseen(head) OBVIOUS
  <1>5. x.producer \in Producer BY DEF Regular, HeaderState
  <1>6. PICK q : q = x.producer OBVIOUS
  <1>7. Members(x.active_schedule) \in SUBSET Producer
    <2>1. x.active_schedule.producers \in Seq(Producer) BY DEF Regular, Fits, Schedule
    <2> QED BY <2>1 DEF Members
  <1>8. PICK vo : vo = Keys(head.producer_to_last_implied_irb) \cup {q} OBVIOUS
  <1>9. vo \in SUBSET Producer BY <1>5, <1>6, <1>8 DEF Keys
  <1>10. PICK un : un = (old \ {q})
                        \cup ((Members(x.active_schedule) \ Members(head.active_schedule)) \ f)
    OBVIOUS
  <1>11. un \in SUBSET Producer BY <1>2, <1>7, <1>10
  <1>12. past' = [overlong |-> o, voters |-> vo, unforeseen |-> un]
    BY <1>1, <1>3, <1>4, <1>6, <1>8, <1>10 DEF Remember
  <1> QED BY <1>3, <1>9, <1>11, <1>12 DEF PastType

(* commit_block: the block becomes the head when its confirmations pass    *)
(* the check of the other nodes.                                           *)
LEMMA CommitGood ==
    ASSUME HeaderInv, commit_block
    PROVE  HeaderInv' /\ Proposed(head') >= Proposed(head)
  <1>1. pending # <<>> /\ pending' = <<>> /\ restarts' = restarts BY DEF commit_block
  <1>2. PICK offer, when, conf, x : PendingIs(offer, when, conf, x) BY <1>1, PendingFacts
  <1>3. PICK p : p = x.producer OBVIOUS
  <1>4. /\ offer \in Offers /\ when \in Nat /\ conf \in Nat
        /\ x = NextState(head, offer, when, conf)
        /\ pending[1].hs = x /\ pending[1].confirmed = conf /\ pending[1].gpo = offer
        /\ p = get_scheduled_producer(head, when) /\ p \in Producer
        /\ Regular(x) /\ x.block_num = head.block_num + 1 /\ Follows(x, gpo)
    BY <1>2, <1>3 DEF PendingIs
  <1>5. /\ x.block_num \in Nat /\ head.block_num \in Nat /\ watermark \in ProducerMap
        /\ Proposed(head) \in Nat
    BY <1>4 DEF HeaderInv, Regular, HeaderState, Proposed
  <1>6. \A wm \in ProducerMap :
           (IF p \in Local THEN [wm EXCEPT ![p] = x.block_num] ELSE wm) \in ProducerMap
    BY <1>4, <1>5 DEF ProducerMap
  <1>7. CASE double_confirm_check(head, p, conf)
    <2>1. /\ head' = x /\ gpo' = gpo /\ Vote(x, conf) /\ Remember(x, conf)
          /\ \E starting : watermark' =
                IF p \in Local
                THEN [on_block(x, watermark, starting) EXCEPT ![p] = x.block_num]
                ELSE on_block(x, watermark, starting)
      BY <1>3, <1>4, <1>7 DEF commit_block
    <2>2. watermark' \in ProducerMap BY <1>5, <1>6, <2>1, OnBlockType
    <2>3. votes' = Voted(head, votes, p, conf)
      BY <1>3, <1>4, <1>5, <2>1 DEF Vote, Voted
    <2>4. past' \in PastType /\ past'.overlong = (past.overlong \/ conf > x.block_num)
      BY <1>2, <2>1, RememberType DEF PendingIs
    <2>5. ~ past'.overlong => ChainInv(x, votes')
      <3> SUFFICES ASSUME ~ past'.overlong PROVE ChainInv(x, votes') OBVIOUS
      <3>1. ~ past.overlong /\ ~ (conf > x.block_num) BY <2>4
      <3>2. conf <= head.block_num + 1 BY <1>4, <1>5, <3>1
      <3>3. ChainInv(head, votes) BY <3>1 DEF HeaderInv
      <3> QED BY <1>4, <1>7, <2>3, <3>2, <3>3, NextGood
    <2>6. /\ Regular(head) /\ Counting(head) /\ votes \in Ballots(head.block_num)
          /\ restarts \in 0 .. MaxRestarts /\ gpo \in Offers
      BY DEF HeaderInv
    <2>7. Counting(x) /\ Proposed(x) >= Proposed(head) BY <1>4, <2>6, NextRegular
    <2>8. votes' \in Ballots(x.block_num)
      <3>1. required_confs(head.active_schedule) \in Nat
        BY <2>6, QuorumFits, Positive DEF Regular
      <3>2. Casts(head.block_num, votes, p, conf,
                  required_confs(head.active_schedule), votes')
        BY <1>4, <1>5, <2>3, <2>6, <3>1, VotedBallots
      <3> QED BY <1>4, <3>2 DEF Casts
    <2>9. HeaderInv'
      BY <1>1, <1>4, <2>1, <2>2, <2>4, <2>5, <2>6, <2>7, <2>8 DEF HeaderInv
    <2> QED BY <2>1, <2>7, <2>9
  <1>8. CASE ~ double_confirm_check(head, p, conf)
    <2>1. /\ head' = head /\ votes' = votes /\ gpo' = pending[1].gpo
          /\ watermark' = IF p \in Local
                          THEN [watermark EXCEPT ![p] = x.block_num] ELSE watermark
          /\ past' = [past EXCEPT !.unforeseen = @ \ {p}]
      BY <1>3, <1>4, <1>8 DEF commit_block
    <2>2. watermark' \in ProducerMap BY <1>5, <1>6, <2>1
    <2>3. HeaderInv'
      <3>1. past \in PastType BY DEF HeaderInv
      <3>2. past' \in PastType /\ past'.overlong = past.overlong
        BY <2>1, <3>1 DEF PastType
      <3> QED BY <1>1, <2>1, <2>2, <3>2, DropGood
    <2> QED BY <1>5, <2>1, <2>3
  <1> QED BY <1>7, <1>8

LEMMA ProposeGood ==
    ASSUME HeaderInv, SetProposed
    PROVE  HeaderInv' /\ head' = head
  <1>1. PICK s \in Proposals : set_proposed_producers(s.producers) BY DEF SetProposed
  <1>2. /\ pending # <<>> /\ head' = head /\ pending' = pending
        /\ watermark' = watermark /\ restarts' = restarts /\ votes' = votes
        /\ past' = past
    BY <1>1 DEF set_proposed_producers
  <1>3. PICK offer, when, conf, x : PendingIs(offer, when, conf, x) BY <1>2, PendingFacts
  <1>4. PICK sch : sch = [version |-> LastVersion(x) + 1, producers |-> s.producers]
    OBVIOUS
  <1>5. sch \in Proposals /\ gpo' = [valid |-> TRUE, block_num |-> head.block_num + 1,
                                     schedule |-> sch]
    <2>1. pending[1].hs = x BY <1>3 DEF PendingIs
    <2>2. CASE x.pending_schedule.producers = <<>>
      BY <1>1, <1>4, <2>1, <2>2 DEF set_proposed_producers, LastVersion
    <2>3. CASE x.pending_schedule.producers # <<>>
      BY <1>1, <1>4, <2>1, <2>3 DEF set_proposed_producers, LastVersion
    <2> QED BY <2>2, <2>3
  <1>6. Fits(sch) /\ sch \in Schedule BY <1>5, ChainAssumption DEF Fits
  <1>7. gpo' \in Offers
    <2>1. head.block_num + 1 \in Nat BY SlotsNatural
    <2> QED BY <1>5, <1>6, <2>1 DEF Offers
  <1>8. Follows(x, gpo') BY <1>4, <1>5 DEF Follows
  <1>9. \E o \in Offers, wh \in Nat, co \in Nat :
           /\ pending = <<[hs |-> NextState(head, o, wh, co),
                           confirmed |-> co, gpo |-> o]>>
           /\ Follows(head, o)
           /\ Follows(NextState(head, o, wh, co), gpo')
    BY <1>3, <1>8 DEF PendingIs
  <1> QED BY <1>2, <1>7, <1>9 DEF HeaderInv

LEMMA RestartGood ==
    ASSUME HeaderInv, NEW p \in Producer, Restart(p)
    PROVE  HeaderInv' /\ head' = head
  <1>1. /\ UNCHANGED <<head, pending, gpo, votes, past>>
        /\ watermark' = [watermark EXCEPT ![p] = absent]
        /\ restarts < MaxRestarts /\ restarts' = restarts + 1
    BY DEF Restart
  <1>2. restarts' \in 0 .. MaxRestarts BY <1>1, ChainAssumption DEF HeaderInv
  <1>3. watermark' \in ProducerMap BY <1>1 DEF HeaderInv, ProducerMap
  <1> QED BY <1>1, <1>2, <1>3 DEF HeaderInv

LEMMA StepGood ==
    ASSUME HeaderInv, [Next]_vars
    PROVE  HeaderInv' /\ Proposed(head') >= Proposed(head)
  <1>1. Proposed(head) \in Nat
    BY DEF HeaderInv, Regular, HeaderState, Proposed
  <1>2. Proposed(head) >= Proposed(head) BY <1>1
  <1>3. CASE StartBlock
    <2>1. PICK when \in Slots :
             /\ get_scheduled_producer(head, when) \in Local
             /\ start_block(when, blocks_to_confirm(get_scheduled_producer(head, when)))
      BY <1>3 DEF StartBlock
    <2>2. when \in Nat BY SlotsNatural
    <2>3. get_scheduled_producer(head, when) \in Producer
      BY <2>2, ScheduledProducer DEF HeaderInv
    <2>4. HeaderInv' BY <2>1, <2>2, <2>3, LocalConfirms, StartGood
    <2>5. head' = head BY <2>1 DEF start_block
    <2> QED BY <1>2, <2>4, <2>5
  <1>4. CASE ApplyBlock
    <2>1. PICK when \in Slots, conf \in 0 .. MaxConfirmed : start_block(when, conf)
      BY <1>4 DEF ApplyBlock
    <2>2. when \in Nat /\ conf \in Nat BY SlotsNatural, ChainAssumption
    <2>3. HeaderInv' BY <2>1, <2>2, StartGood
    <2>4. head' = head BY <2>1 DEF start_block
    <2> QED BY <1>2, <2>3, <2>4
  <1>5. CASE SetProposed BY <1>2, <1>5, ProposeGood
  <1>6. CASE commit_block BY <1>6, CommitGood
  <1>7. CASE abort_block
    <2>1. /\ pending # <<>> /\ pending' = <<>> /\ gpo' = pending[1].gpo
          /\ head' = head /\ votes' = votes /\ restarts' = restarts
          /\ watermark' = watermark /\ past' = past
      BY <1>7 DEF abort_block
    <2>2. /\ watermark' \in ProducerMap /\ past' \in PastType
          /\ past'.overlong = past.overlong
      BY <2>1 DEF HeaderInv
    <2> QED BY <1>2, <2>1, <2>2, DropGood
  <1>8. CASE \E p \in Producer : Restart(p) BY <1>2, <1>8, RestartGood
  <1>9. CASE UNCHANGED vars BY <1>2, <1>9 DEF vars, HeaderInv
  <1> QED BY <1>3, <1>4, <1>5, <1>6, <1>7, <1>8, <1>9 DEF Next

(* The invariant says what the run checks.                                 *)
LEMMA InvConsistent == HeaderInv => HeaderConsistent
  <1> SUFFICES ASSUME HeaderInv PROVE HeaderConsistent OBVIOUS
  <1>1. Regular(head) /\ head \in HeaderState /\ votes \in Ballots(head.block_num)
    BY DEF HeaderInv, Regular
  <1>2. gpo \in [valid : BOOLEAN, block_num : Nat, schedule : Schedule]
    BY DEF HeaderInv, Offers
  <1>3. pending \in Seq(PendingBlock) /\ Len(pending) <= 1
    <2>1. CASE pending = <<>> BY <2>1
    <2>2. CASE pending # <<>>
      <3>1. PICK offer, when, conf, x : PendingIs(offer, when, conf, x)
        BY <2>2, PendingFacts
      <3>2. PICK b : b = [hs |-> x, confirmed |-> conf, gpo |-> offer] OBVIOUS
      <3>3. b \in PendingBlock
        BY <3>1, <3>2 DEF PendingIs, PendingBlock, Regular, Offers
      <3>4. pending = <<b>> BY <3>1, <3>2 DEF PendingIs
      <3> QED BY <3>3, <3>4
    <2> QED BY <2>1, <2>2
  <1>4. TypeOK BY <1>1, <1>2, <1>3 DEF TypeOK, HeaderInv, Ballots, PastType
  <1>5. NoCountIsZero BY DEF NoCountIsZero, HeaderInv, Counting
  <1>6. ~ past.overlong => CountsMatchVotes /\ ProposedIsConfirmed
    <2> SUFFICES ASSUME ~ past.overlong PROVE CountsMatchVotes /\ ProposedIsConfirmed
      OBVIOUS
    <2>1. /\ Tracks(head.confirm_count, head.block_num, votes)
          /\ Quorum(Proposed(head), votes)
      BY DEF HeaderInv, ChainInv
    <2>2. CountsMatchVotes BY <2>1 DEF CountsMatchVotes, Tracks
    <2>3. ProposedIsConfirmed BY <2>1 DEF ProposedIsConfirmed, Quorum, Proposed
    <2> QED BY <2>2, <2>3
  <1>7. ProposalVersionFollows
    <2> SUFFICES ASSUME pending = <<>>, gpo.valid
                 PROVE  gpo.schedule.version = 1 + LastVersion(head)
      BY DEF ProposalVersionFollows, LastVersion
    <2>1. \A y : <<y>> # <<>> OBVIOUS
    <2>2. Follows(head, gpo) BY <2>1 DEF HeaderInv
    <2>3. LastVersion(head) \in Nat
      BY <1>1 DEF HeaderState, LastVersion, Schedule
    <2> QED BY <2>2, <2>3 DEF Follows
  <1> QED BY <1>4, <1>5, <1>6, <1>7 DEF HeaderConsistent

(* Whatever the schedules, their changes, the missed slots, the blocks of  *)
(* others, however many blocks they confirm, and the restarts: the header  *)
(* state is well typed, no count is at zero (and so none wraps) and        *)
(* schedule versions follow each other.  On a chain none of whose blocks   *)
(* confirms more blocks than there are, which is the one case that the     *)
(* unsigned check of next() lets through, the counts of confirmations are  *)
(* those of distinct producers and a block proposed irreversible has its   *)
(* two thirds and one.                                                     *)
THEOREM HeadersConsistent == Spec => []HeaderConsistent
  <1>1. Init => HeaderInv BY GenesisGood
  <1>2. HeaderInv /\ [Next]_vars => HeaderInv' BY StepGood
  <1>3. HeaderInv => HeaderConsistent BY InvConsistent
  <1> QED BY <1>1, <1>2, <1>3, PTL DEF Spec

(* The block that set_confirmed proposes never moves back along a chain.   *)
THEOREM ProposedMonotone == Spec => ProposedNeverRegresses
  <1>1. Init => HeaderInv BY GenesisGood
  <1>2. HeaderInv /\ [Next]_vars => HeaderInv' BY StepGood
  <1>3. HeaderInv /\ [Next]_vars =>
           [head'.dpos_proposed_irreversible_blocknum
               >= head.dpos_proposed_irreversible_blocknum]_head
    BY StepGood DEF Proposed
  <1> QED BY <1>1, <1>2, <1>3, PTL DEF Spec, ProposedNeverRegresses
=============================================================================

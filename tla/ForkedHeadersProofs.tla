------------------------- MODULE ForkedHeadersProofs -------------------------
(***************************************************************************)
(* Proofs about ForkedHeaders: what the confirmations of block_header_state *)
(* and the watermarks of producer_plugin guarantee across branches, for    *)
(* any schedule, any loss and delay of blocks and any length of the run.   *)
(*                                                                         *)
(* A confirmation count of a block is down to zero only when two thirds    *)
(* and one of the producers signed for its number on its branch.  Two such *)
(* sets share more than a third of the producers, so one whose node has    *)
(* not restarted; its watermark let it sign for that number once, so both  *)
(* branches contain the block it signed, and the same block of the number. *)
(***************************************************************************)
EXTENDS ForkedHeaders, FiniteSetTheorems, TLAPS

Lib(h) == h.dpos_irreversible_blocknum
ProposedNum(h) == h.dpos_proposed_irreversible_blocknum

(* The schedule after the trunk, its quorum, the number of Root.           *)
Active == [version |-> 1, producers |-> Order]
Needed == required_confs(Active)
Base == 4
-----------------------------------------------------------------------------
(* Arithmetic and finite sets.                                             *)

LEMMA LeastNatural ==
    ASSUME NEW S \in SUBSET Nat, S # {}
    PROVE  \E m \in S : \A n \in S : m <= n
  <1>1. PICK m \in S : \A n \in S : ~ (<<n, m>> \in OpToRel(<, Nat))
    BY NatLessThanWellFounded, WFMin
  <1>2. \A n \in S : ~ (n < m) BY <1>1 DEF OpToRel
  <1> QED BY <1>2

LEMMA GreatestNatural ==
    ASSUME NEW S \in SUBSET Nat, S # {}, NEW b \in Nat, \A x \in S : x <= b
    PROVE  \E m \in S : \A n \in S : n <= m
  <1> DEFINE D == {b - x : x \in S}
  <1>1. D \in SUBSET Nat /\ D # {}
    <2>1. \A x \in S : b - x \in Nat OBVIOUS
    <2>2. D # {} OBVIOUS
    <2> QED BY <2>1, <2>2
  <1>2. PICK d \in D : \A e \in D : d <= e BY <1>1, LeastNatural
  <1>3. PICK m \in S : d = b - m BY <1>2
  <1>4. \A n \in S : b - n \in D OBVIOUS
  <1>5. \A n \in S : b - m <= b - n BY <1>2, <1>3, <1>4
  <1> QED BY <1>5

LEMMA Turn ==
    ASSUME NEW x \in Nat, NEW l \in Nat \ {0}, NEW r \in Nat \ {0}
    PROVE  (x % (l * r)) \div r + 1 \in 1 .. l
  <1> DEFINE y == x % (l * r)
             u == y \div r
             v == y % r
  <1>1. l * r \in Nat \ {0} OBVIOUS
  <1>2. y \in 0 .. (l * r) - 1 BY <1>1
  <1> HIDE DEF y
  <1>3. u \in Int /\ v \in 0 .. r - 1 /\ y = r * u + v BY <1>1, <1>2
  <1> HIDE DEF u, v
  <1>4. u >= 0
    <2> SUFFICES ASSUME u <= -1 PROVE FALSE BY <1>3
    <2>1. r * u <= -r BY <1>3
    <2> QED BY <1>1, <1>2, <1>3, <2>1
  <1>5. u < l
    <2> SUFFICES ASSUME u >= l PROVE FALSE BY <1>3
    <2>1. r * u >= r * l BY <1>3
    <2> QED BY <1>1, <1>2, <1>3, <2>1
  <1> QED BY <1>3, <1>4, <1>5 DEF u, y

Bytes == 0 .. 255

LEMMA CountedSeq ==
    ASSUME NEW n \in Nat, NEW f, DOMAIN f = 1 .. n, f \in [1 .. n -> Bytes]
    PROVE  f \in Seq(Bytes) /\ Len(f) = n
  OBVIOUS

LEMMA Element ==
    ASSUME NEW S, NEW s \in Seq(S), NEW i \in 1 .. Len(s)
    PROVE  s[i] \in S
  OBVIOUS

LEMMA MemberFinite ==
    ASSUME NEW S \in SUBSET Producer
    PROVE  IsFiniteSet(S) /\ Cardinality(S) \in Nat
  BY HeaderAssumption, FS_Subset, FS_CardinalityType

(* A vote of a producer that has not voted yet counts one, any other none. *)
LEMMA VoteCounts ==
    ASSUME NEW S \in SUBSET Producer, NEW p \in Producer
    PROVE  /\ S \cup {p} \in SUBSET Producer
           /\ Cardinality(S \cup {p}) \in Nat
           /\ Cardinality(S) <= Cardinality(S \cup {p})
           /\ p \notin S => Cardinality(S \cup {p}) = Cardinality(S) + 1
  BY MemberFinite, FS_AddElement

LEMMA ScheduledFinite ==
    ASSUME ForkAssumption
    PROVE  /\ Scheduled \in SUBSET Producer /\ IsFiniteSet(Scheduled)
           /\ Cardinality(Scheduled) \in Nat /\ Cardinality(Scheduled) <= Len(Order)
           /\ eosio \notin Scheduled /\ Scheduled # {}
           /\ Members(Active) = Scheduled
  <1>1. Order \in Seq(Producer \ {eosio}) /\ Len(Order) \in Nat /\ Len(Order) >= 1
    BY DEF ForkAssumption
  <1>2. DOMAIN Order = 1 .. Len(Order) BY <1>1
  <1>3. \A i \in 1 .. Len(Order) : Order[i] \in Producer \ {eosio} BY <1>1, Element
  <1>4. /\ Scheduled \in SUBSET Producer /\ eosio \notin Scheduled
        /\ Members(Active) = Scheduled
    BY <1>2, <1>3 DEF Scheduled, Members, Active
  <1>5. Order[1] \in Scheduled BY <1>1, <1>2 DEF Scheduled
  <1>6. Order \in Surjection(1 .. Len(Order), Scheduled)
    <2>1. Order \in [1 .. Len(Order) -> Scheduled] BY <1>1, <1>2 DEF Scheduled
    <2> QED BY <1>2, <2>1 DEF Surjection, Scheduled
  <1>7. IsFiniteSet(1 .. Len(Order)) /\ Cardinality(1 .. Len(Order)) = Len(Order)
    BY <1>1, FS_Interval
  <1>8. IsFiniteSet(Scheduled) /\ Cardinality(Scheduled) <= Len(Order)
    BY <1>6, <1>7, FS_Surjection
  <1> QED BY <1>4, <1>5, <1>8, FS_CardinalityType

(* The quorum is more than two thirds, and fits the uint8_t of its count.  *)
LEMMA TwoThirds ==
    ASSUME NEW l \in 1 .. 125
    PROVE  (l * 2) \div 3 + 1 \in 1 .. 255 /\ 3 * ((l * 2) \div 3 + 1) > 2 * l
  <1>1. PICK n \in Nat : n = l * 2 /\ n <= 250 OBVIOUS
  <1>2. PICK q \in Nat : q = n \div 3 OBVIOUS
  <1>3. 3 * q <= n /\ n < 3 * q + 3 BY <1>2
  <1> QED BY <1>1, <1>2, <1>3

LEMMA QuorumSize ==
    ASSUME ForkAssumption
    PROVE  /\ Needed \in 1 .. 255 /\ Needed \in Nat /\ Needed > 0
           /\ Len(Order) \in Nat /\ 3 * Needed > 2 * Len(Order)
  <1>1. PICK l \in 1 .. 125 : l = Len(Order) BY DEF ForkAssumption, max_producers
  <1>2. Needed = (l * 2) \div 3 + 1 BY <1>1 DEF Needed, required_confs, Active
  <1>3. PICK n : n = (l * 2) \div 3 + 1 OBVIOUS
  <1>4. n \in 1 .. 255 /\ 3 * n > 2 * l BY <1>3, TwoThirds
  <1>5. n \in Nat /\ n > 0 BY <1>4
  <1> QED BY <1>1, <1>2, <1>3, <1>4, <1>5

(* Two quorums share a producer outside any third of the schedule.         *)
LEMMA QuorumsMeet ==
    ASSUME ForkAssumption, NEW R \in SUBSET Scheduled, 3 * Cardinality(R) < Len(Order),
           NEW S \in SUBSET Scheduled, NEW T \in SUBSET Scheduled,
           Cardinality(S) >= Needed, Cardinality(T) >= Needed
    PROVE  \E p \in S \cap T : p \notin R
  <1> SUFFICES ASSUME S \cap T \subseteq R PROVE FALSE OBVIOUS
  <1>1. IsFiniteSet(Scheduled) /\ Cardinality(Scheduled) <= Len(Order) BY ScheduledFinite
  <1>2. IsFiniteSet(S) /\ IsFiniteSet(T) /\ IsFiniteSet(R) BY <1>1, FS_Subset
  <1>3. S \cup T \in SUBSET Scheduled /\ S \cap T \in SUBSET R OBVIOUS
  <1>4. /\ IsFiniteSet(S \cup T) /\ Cardinality(S \cup T) <= Cardinality(Scheduled)
    BY <1>1, <1>3, FS_Subset
  <1>5. IsFiniteSet(S \cap T) /\ Cardinality(S \cap T) <= Cardinality(R)
    BY <1>2, <1>3, FS_Subset
  <1>6. Cardinality(S \cup T) = Cardinality(S) + Cardinality(T) - Cardinality(S \cap T)
    BY <1>2, FS_Union
  <1>7. /\ Cardinality(S) \in Nat /\ Cardinality(T) \in Nat /\ Cardinality(R) \in Nat
        /\ Cardinality(S \cup T) \in Nat /\ Cardinality(S \cap T) \in Nat
        /\ Cardinality(Scheduled) \in Nat
    BY <1>1, <1>2, <1>4, <1>5, FS_CardinalityType
  <1>8. Needed \in Nat /\ 3 * Needed > 2 * Len(Order) /\ Len(Order) \in Nat
    BY QuorumSize
  <1> QED BY <1>1, <1>4, <1>5, <1>6, <1>7, <1>8
-----------------------------------------------------------------------------
(* calc_dpos_last_irreversible.                                            *)

Cands(irb) ==
    {v \in {irb[p] : p \in Keys(irb)} : Cardinality(AtMost(irb, v)) > third(Keys(irb))}

LEMMA ThirdNatural ==
    ASSUME NEW n \in Nat, n > 0
    PROVE  (n - 1) \div 3 \in Nat /\ n > (n - 1) \div 3
  OBVIOUS

LEMMA KeysCount ==
    ASSUME NEW irb \in ProducerMap, Keys(irb) # {}
    PROVE  /\ IsFiniteSet(Keys(irb)) /\ Cardinality(Keys(irb)) \in Nat
           /\ third(Keys(irb)) \in Nat /\ Cardinality(Keys(irb)) > third(Keys(irb))
           /\ \A q \in Keys(irb) : irb[q] \in Nat
  <1>1. Keys(irb) \in SUBSET Producer BY DEF Keys
  <1>2. IsFiniteSet(Keys(irb)) /\ Cardinality(Keys(irb)) \in Nat BY <1>1, MemberFinite
  <1>3. Cardinality(Keys(irb)) # 0 BY <1>2, FS_EmptySet
  <1>4. PICK n \in Nat : n = Cardinality(Keys(irb)) /\ n > 0 BY <1>2, <1>3
  <1>5. third(Keys(irb)) = (n - 1) \div 3 BY <1>4 DEF third
  <1>6. \A q \in Keys(irb) : irb[q] \in Nat BY DEF Keys, ProducerMap
  <1> QED BY <1>2, <1>4, <1>5, <1>6, ThirdNatural

LEMMA CalcIsLeast ==
    ASSUME NEW irb \in ProducerMap, Keys(irb) # {},
           NEW b \in Nat, \A p \in Producer : irb[p] <= b
    PROVE  /\ calc_dpos_last_irreversible(irb) \in Cands(irb)
           /\ \A w \in Cands(irb) : calc_dpos_last_irreversible(irb) <= w
           /\ Cands(irb) \in SUBSET Nat
  <1> DEFINE vals == {irb[p] : p \in Keys(irb)}
  <1>1. vals \in SUBSET Nat /\ vals # {} BY KeysCount
  <1>2. Keys(irb) \subseteq Producer BY DEF Keys
  <1>3. \A x \in vals : x <= b BY <1>2
  <1>4. PICK m \in vals : \A x \in vals : x <= m BY <1>1, <1>3, GreatestNatural
  <1>5. AtMost(irb, m) = Keys(irb) BY <1>4 DEF AtMost
  <1>6. m \in Cands(irb) BY <1>4, <1>5, KeysCount DEF Cands
  <1>7. Cands(irb) \in SUBSET Nat BY <1>1 DEF Cands
  <1>8. \E v \in Cands(irb) : \A w \in Cands(irb) : v <= w BY <1>6, <1>7, LeastNatural
  <1>9. calc_dpos_last_irreversible(irb)
           = CHOOSE v \in Cands(irb) : \A w \in Cands(irb) : v <= w
    BY DEF calc_dpos_last_irreversible, Cands
  <1> QED BY <1>7, <1>8, <1>9

(* A producer that implies a later block does not move the irreversible    *)
(* block back.                                                             *)
LEMMA CalcMonotone ==
    ASSUME NEW irb \in ProducerMap, NEW p \in Keys(irb),
           NEW v \in Nat, \A q \in Producer : irb[q] <= v
    PROVE  calc_dpos_last_irreversible(irb)
              <= calc_dpos_last_irreversible([irb EXCEPT ![p] = v])
  <1>1. PICK new : new = [irb EXCEPT ![p] = v] OBVIOUS
  <1>2. p \in Producer BY DEF Keys
  <1>3. /\ new \in ProducerMap /\ Keys(new) = Keys(irb) /\ new[p] = v
        /\ \A q \in Producer : q # p => new[q] = irb[q]
    BY <1>1, <1>2 DEF ProducerMap, Keys, absent
  <1>4. Keys(irb) # {} /\ Keys(new) # {} BY <1>3
  <1>5. PICK c : c = calc_dpos_last_irreversible(new) OBVIOUS
  <1>6. c \in Nat /\ c \in Cands(new)
    <2>1. \A q \in Producer : new[q] <= v BY <1>3
    <2> QED BY <1>3, <1>4, <1>5, <2>1, CalcIsLeast
  <1>7. Cardinality(AtMost(new, c)) > third(Keys(irb)) BY <1>3, <1>6 DEF Cands
  <1>8. AtMost(new, c) \in SUBSET AtMost(irb, c)
    <2>1. \A q \in Keys(irb) : irb[q] \in Nat BY <1>4, KeysCount
    <2> SUFFICES ASSUME NEW q \in Keys(irb), new[q] <= c PROVE irb[q] <= c
      BY <1>3 DEF AtMost
    <2>2. q \in Producer BY DEF Keys
    <2> QED BY <1>3, <1>6, <2>1, <2>2
  <1>9. AtMost(irb, c) \in SUBSET Keys(irb) BY DEF AtMost
  <1>10. IsFiniteSet(AtMost(irb, c)) BY <1>4, <1>9, KeysCount, FS_Subset
  <1>11. IsFiniteSet(AtMost(new, c))
         /\ Cardinality(AtMost(new, c)) <= Cardinality(AtMost(irb, c))
    BY <1>8, <1>10, FS_Subset
  <1>12. /\ Cardinality(AtMost(irb, c)) \in Nat /\ Cardinality(AtMost(new, c)) \in Nat
         /\ third(Keys(irb)) \in Nat
    BY <1>4, <1>10, <1>11, KeysCount, FS_CardinalityType
  <1>13. Cardinality(AtMost(irb, c)) > third(Keys(irb)) BY <1>7, <1>11, <1>12
  <1>14. AtMost(irb, c) # {}
    <2>1. Cardinality({}) = 0 BY FS_EmptySet
    <2> QED BY <1>12, <1>13, <2>1
  <1> DEFINE W == {irb[q] : q \in AtMost(irb, c)}
  <1>15. W \in SUBSET Nat /\ W # {} /\ \A x \in W : x <= c
    BY <1>4, <1>14, KeysCount DEF AtMost
  <1>16. PICK m \in W : \A x \in W : x <= m BY <1>6, <1>15, GreatestNatural
  <1>17. AtMost(irb, m) = AtMost(irb, c)
    <2>1. \A q \in Keys(irb) : irb[q] \in Nat BY <1>4, KeysCount
    <2>2. \A q \in AtMost(irb, c) : q \in Keys(irb) /\ irb[q] <= m BY <1>16 DEF AtMost
    <2>3. m \in Nat /\ m <= c BY <1>15
    <2>4. \A q \in Keys(irb) : irb[q] <= m => irb[q] <= c BY <1>6, <2>1, <2>3
    <2> QED BY <2>2, <2>4 DEF AtMost
  <1>18. m \in Cands(irb) BY <1>13, <1>16, <1>17 DEF Cands, AtMost
  <1>19. /\ calc_dpos_last_irreversible(irb) <= m
         /\ calc_dpos_last_irreversible(irb) \in Nat
    BY <1>4, <1>18, CalcIsLeast
  <1>20. m \in Nat /\ m <= c BY <1>15
  <1> QED BY <1>1, <1>5, <1>6, <1>19, <1>20
-----------------------------------------------------------------------------
(* generate_next and set_confirmed.                                        *)

(* The counts cc of generate_next from hc: the newest is the quorum rc.    *)
Pushes(hc, rc, cc) ==
    /\ cc \in Seq(0 .. 255) /\ Len(cc) \in Nat /\ Len(cc) >= 1
    /\ Len(cc) <= Len(hc) + 1 /\ cc[Len(cc)] = rc
    /\ \A j \in 1 .. Len(cc) - 1 : cc[j] = hc[Len(hc) + 1 - (Len(cc) - j)]

LEMMA PushedCounts ==
    ASSUME NEW cc \in Seq(0 .. 255), NEW n \in 1 .. 255
    PROVE  Pushes(cc, n, PushConfirm(cc, n))
  <1>1. maximum_tracked_dpos_confirmations \in Nat \ {0} BY HeaderAssumption
  <1>2. CASE Len(cc) < maximum_tracked_dpos_confirmations
    BY <1>1, <1>2 DEF PushConfirm, Pushes
  <1>3. CASE ~ (Len(cc) < maximum_tracked_dpos_confirmations)
    <2>1. cc # <<>> /\ Len(cc) >= 1 BY <1>1, <1>3
    <2>2. /\ Tail(cc) \in Seq(0 .. 255) /\ Len(Tail(cc)) = Len(cc) - 1
          /\ \A i \in 1 .. Len(cc) - 1 : Tail(cc)[i] = cc[i + 1]
      BY <2>1
    <2>3. PushConfirm(cc, n) = Append(Tail(cc), n) BY <1>3 DEF PushConfirm
    <2> QED BY <2>1, <2>2, <2>3 DEF Pushes
  <1> QED BY <1>2, <1>3

(* Block producer p builds on h in slot "when"; rc is the quorum.          *)
Builds(h, when, p, rc) ==
    /\ h \in HeaderState /\ when \in Nat
    /\ p \in Producer /\ p = get_scheduled_producer(h, when)
    /\ rc \in 1 .. 255 /\ rc = required_confs(h.active_schedule)
    /\ \A q \in Producer : h.producer_to_last_implied_irb[q] <= ProposedNum(h)

(* What generate_next changes of the header state.                         *)
Generated(h, when, p, rc, g) ==
    /\ g \in HeaderState
    /\ g.block_num = h.block_num + 1 /\ g.timestamp = when /\ g.producer = p
    /\ ProposedNum(g) = ProposedNum(h)
    /\ Lib(g) = calc_dpos_last_irreversible(g.producer_to_last_implied_irb)
    /\ \E q \in Producer : Lib(g) = g.producer_to_last_implied_irb[q]
    /\ g.producer_to_last_produced =
          [h.producer_to_last_produced EXCEPT ![p] = h.block_num + 1]
    /\ g.producer_to_last_implied_irb =
          [h.producer_to_last_implied_irb EXCEPT ![p] = ProposedNum(h)]
    /\ g.active_schedule = h.active_schedule
    /\ g.pending_schedule = h.pending_schedule
    /\ g.pending_schedule_lib_num = h.pending_schedule_lib_num
    /\ g.confirm_count = PushConfirm(h.confirm_count, rc)

LEMMA GenerateNext ==
    ASSUME NEW h, NEW when, NEW p, NEW rc, Builds(h, when, p, rc)
    PROVE  Generated(h, when, p, rc, generate_next(h, when))
  <1> DEFINE num == h.block_num + 1
             last == [h.producer_to_last_produced EXCEPT ![p] = num]
             irb == [h.producer_to_last_implied_irb EXCEPT ![p] = ProposedNum(h)]
             lib == calc_dpos_last_irreversible(irb)
             cc == PushConfirm(h.confirm_count, rc)
  <1>1. /\ h \in HeaderState /\ h.block_num \in Nat /\ num \in Nat
        /\ ProposedNum(h) \in Nat /\ when \in Nat
        /\ h.producer_to_last_produced \in ProducerMap
        /\ h.producer_to_last_implied_irb \in ProducerMap
        /\ h.confirm_count \in Seq(0 .. 255)
    BY DEF Builds, HeaderState, ProposedNum
  <1>2. p \in Producer BY DEF Builds
  <1>3. last \in ProducerMap /\ irb \in ProducerMap BY <1>1, <1>2 DEF ProducerMap
  <1>4. \A q \in Producer : irb[q] <= ProposedNum(h)
    BY <1>1, <1>2 DEF Builds, ProducerMap
  <1>5. lib \in Nat /\ \E q \in Producer : lib = irb[q]
    <2>1. p \in Keys(irb) BY <1>1, <1>2 DEF Keys, ProducerMap, absent
    <2>2. lib \in Cands(irb) /\ Cands(irb) \in SUBSET Nat
      BY <1>1, <1>3, <1>4, <2>1, CalcIsLeast
    <2> QED BY <2>2 DEF Cands, Keys
  <1>6. cc \in Seq(0 .. 255)
    BY <1>1, PushedCounts DEF Builds, Pushes
  <1>7. generate_next(h, when)
           = [h EXCEPT !.block_num = num, !.timestamp = when, !.producer = p,
                       !.producer_to_last_produced = last,
                       !.producer_to_last_implied_irb = irb,
                       !.dpos_irreversible_blocknum = lib,
                       !.confirm_count = cc]
    BY DEF generate_next, Builds, ProposedNum
  <1> HIDE DEF num, last, irb, lib, cc
  <1>8. PICK g : g = generate_next(h, when) OBVIOUS
  <1>9.    /\ g \in HeaderState
           /\ g.block_num = num /\ g.timestamp = when /\ g.producer = p
           /\ g.producer_to_last_produced = last
           /\ g.producer_to_last_implied_irb = irb
           /\ g.dpos_irreversible_blocknum = lib /\ g.confirm_count = cc
           /\ g.dpos_proposed_irreversible_blocknum = h.dpos_proposed_irreversible_blocknum
           /\ g.active_schedule = h.active_schedule
           /\ g.pending_schedule = h.pending_schedule
           /\ g.pending_schedule_lib_num = h.pending_schedule_lib_num
    BY <1>1, <1>2, <1>3, <1>5, <1>6, <1>7, <1>8 DEF HeaderState
  <1> QED BY <1>5, <1>8, <1>9 DEF Generated, num, last, irb, lib, cc, ProposedNum, Lib

(* set_confirmed takes one from the counts of the touched blocks, up to    *)
(* the newest that gets to zero: the first "at" counts are dropped, and    *)
(* the block of the last of them is proposed.                              *)
SameButCounts(g, s) ==
    /\ s \in HeaderState
    /\ s.block_num = g.block_num /\ s.timestamp = g.timestamp
    /\ s.producer = g.producer /\ Lib(s) = Lib(g)
    /\ s.producer_to_last_produced = g.producer_to_last_produced
    /\ s.producer_to_last_implied_irb = g.producer_to_last_implied_irb
    /\ s.active_schedule = g.active_schedule
    /\ s.pending_schedule = g.pending_schedule
    /\ s.pending_schedule_lib_num = g.pending_schedule_lib_num

Lowers(cc, conf, at, sc) ==
    /\ at \in 0 .. Len(cc) /\ Len(sc) = Len(cc) - at
    /\ \A i \in 1 .. Len(cc) - at :
          cc[at + i] > 0 =>
             /\ sc[i] > 0
             /\ sc[i] = IF at + i >= Len(cc) - conf THEN cc[at + i] - 1 ELSE cc[at + i]
    /\ at > 0 => at >= Len(cc) - conf /\ cc[at] = 1

Confirms(g, conf, s, at) ==
    LET cc == g.confirm_count
    IN  /\ SameButCounts(g, s) /\ Lowers(cc, conf, at, s.confirm_count)
        /\ at = 0 => ProposedNum(s) = ProposedNum(g)
        /\ at > 0 => ProposedNum(s) = g.block_num - (Len(cc) - at)

LEMMA Wraps ==
    ASSUME NEW x \in 0 .. 255
    PROVE  /\ (x + 255) % 256 \in 0 .. 255
           /\ x > 0 => (x + 255) % 256 = x - 1
  OBVIOUS

NoneDone(cc, conf) ==
    [i \in 1 .. Len(cc) |->
        IF i \in Touched(cc, conf) THEN (cc[i] + 255) % 256 ELSE cc[i]]

LEMMA NoneDoneCounts ==
    ASSUME NEW cc \in Seq(0 .. 255), NEW conf \in Nat, Confirmed(cc, conf) = {}
    PROVE  NoneDone(cc, conf) \in Seq(0 .. 255) /\ Lowers(cc, conf, 0, NoneDone(cc, conf))
  <1>1. \A i \in 1 .. Len(cc) :
           /\ NoneDone(cc, conf)[i] \in 0 .. 255
           /\ cc[i] > 0 =>
                 /\ NoneDone(cc, conf)[i] > 0
                 /\ NoneDone(cc, conf)[i] = IF i >= Len(cc) - conf THEN cc[i] - 1 ELSE cc[i]
    <2> SUFFICES ASSUME NEW i \in 1 .. Len(cc)
                 PROVE  /\ NoneDone(cc, conf)[i] \in 0 .. 255
                        /\ cc[i] > 0 =>
                              /\ NoneDone(cc, conf)[i] > 0
                              /\ NoneDone(cc, conf)[i] =
                                    IF i >= Len(cc) - conf THEN cc[i] - 1 ELSE cc[i]
      OBVIOUS
    <2>1. PICK x, y : x = cc[i] /\ y = NoneDone(cc, conf)[i] OBVIOUS
    <2>2. x \in 0 .. 255 BY <2>1, Element
    <2>3. PICK d : d = (x + 255) % 256 OBVIOUS
    <2>4. d \in 0 .. 255 /\ (x > 0 => d = x - 1) BY <2>2, <2>3, Wraps
    <2>5. y = IF i \in Touched(cc, conf) THEN d ELSE x BY <2>1, <2>3 DEF NoneDone
    <2>6. i \in Touched(cc, conf) <=> i >= Len(cc) - conf BY DEF Touched
    <2>7. i \in Touched(cc, conf) => x # 1 BY <2>1 DEF Confirmed
    <2>8. /\ y \in 0 .. 255
          /\ x > 0 => y > 0 /\ y = IF i >= Len(cc) - conf THEN x - 1 ELSE x
      BY <2>2, <2>4, <2>5, <2>6, <2>7
    <2> QED BY <2>1, <2>8
  <1>2. /\ NoneDone(cc, conf) \in [1 .. Len(cc) -> Bytes]
        /\ DOMAIN NoneDone(cc, conf) = 1 .. Len(cc)
    BY <1>1 DEF NoneDone, Bytes
  <1>3. Len(cc) \in Nat OBVIOUS
  <1>4. NoneDone(cc, conf) \in Seq(Bytes) /\ Len(NoneDone(cc, conf)) = Len(cc)
    BY <1>2, <1>3, CountedSeq, Zenon
  <1>5. \A i \in 1 .. Len(cc) - 0 : 0 + i = i /\ i \in 1 .. Len(cc) BY <1>3
  <1> QED BY <1>1, <1>3, <1>4, <1>5 DEF Bytes, Lowers

Remain(cc, at) == [i \in 1 .. (Len(cc) - at) |-> (cc[at + i] + 255) % 256]

LEMMA RemainCounts ==
    ASSUME NEW cc \in Seq(0 .. 255), NEW conf \in Nat,
           NEW at \in Confirmed(cc, conf), \A j \in Confirmed(cc, conf) : j <= at
    PROVE  /\ Remain(cc, at) \in Seq(0 .. 255) /\ at \in 1 .. Len(cc)
           /\ Lowers(cc, conf, at, Remain(cc, at))
  <1>1. at \in 1 .. Len(cc) /\ at >= Len(cc) - conf /\ cc[at] = 1
    BY DEF Confirmed, Touched
  <1>2. \A i \in 1 .. Len(cc) - at :
           /\ Remain(cc, at)[i] \in 0 .. 255
           /\ at + i >= Len(cc) - conf
           /\ cc[at + i] > 0 => /\ Remain(cc, at)[i] > 0
                                /\ Remain(cc, at)[i] = cc[at + i] - 1
    <2> SUFFICES ASSUME NEW i \in 1 .. Len(cc) - at
                 PROVE  /\ Remain(cc, at)[i] \in 0 .. 255
                        /\ at + i >= Len(cc) - conf
                        /\ cc[at + i] > 0 => /\ Remain(cc, at)[i] > 0
                                             /\ Remain(cc, at)[i] = cc[at + i] - 1
      OBVIOUS
    <2>1. PICK k \in 1 .. Len(cc) : k = at + i BY <1>1
    <2>2. k > at /\ k >= Len(cc) - conf BY <1>1, <2>1
    <2>3. PICK x, y : x = cc[k] /\ y = Remain(cc, at)[i] OBVIOUS
    <2>4. x \in 0 .. 255 BY <2>3, Element
    <2>5. y = (x + 255) % 256 BY <2>1, <2>3 DEF Remain
    <2>6. y \in 0 .. 255 /\ (x > 0 => y = x - 1) BY <2>4, <2>5, Wraps
    <2>7. k \notin Confirmed(cc, conf) BY <1>1, <2>2
    <2>8. x # 1 BY <2>2, <2>3, <2>7 DEF Confirmed, Touched
    <2>9. x > 0 => y > 0 BY <2>4, <2>6, <2>8
    <2> QED BY <2>1, <2>2, <2>3, <2>6, <2>9
  <1>3. Len(cc) - at \in Nat BY <1>1
  <1>4. /\ Remain(cc, at) \in [1 .. Len(cc) - at -> Bytes]
        /\ DOMAIN Remain(cc, at) = 1 .. Len(cc) - at
    BY <1>2 DEF Remain, Bytes
  <1>5. Remain(cc, at) \in Seq(Bytes) /\ Len(Remain(cc, at)) = Len(cc) - at
    BY <1>3, <1>4, CountedSeq, Zenon
  <1> QED BY <1>1, <1>2, <1>5 DEF Bytes, Lowers

LEMMA SetConfirmed ==
    ASSUME NEW g \in HeaderState, NEW conf \in Nat, NEW cc \in Seq(0 .. 255),
           g.confirm_count = cc, Len(cc) <= g.block_num
    PROVE  \E at \in Nat : Confirms(g, conf, set_confirmed(g, conf), at)
  <1>1. Len(cc) \in Nat /\ g.block_num \in Nat BY DEF HeaderState
  <1>2. PICK s : s = set_confirmed(g, conf) OBVIOUS
  <1>3. CASE Confirmed(cc, conf) = {}
    <2>1. PICK new : new = NoneDone(cc, conf) OBVIOUS
    <2>2. new \in Seq(0 .. 255) /\ Lowers(cc, conf, 0, new)
      BY <1>3, <2>1, NoneDoneCounts
    <2>3. s = [g EXCEPT !.confirm_count = new]
      BY <1>2, <1>3, <2>1 DEF set_confirmed, NoneDone
    <2>4. SameButCounts(g, s) /\ s.confirm_count = new /\ ProposedNum(s) = ProposedNum(g)
      BY <2>2, <2>3 DEF HeaderState, SameButCounts, Lib, ProposedNum
    <2>5. Confirms(g, conf, s, 0) BY <2>2, <2>4 DEF Confirms
    <2> QED BY <1>2, <2>5
  <1>4. CASE Confirmed(cc, conf) # {}
    <2>1. PICK at \in Confirmed(cc, conf) : \A j \in Confirmed(cc, conf) : j <= at
      <3>1. /\ Confirmed(cc, conf) \in SUBSET Nat
            /\ \A x \in Confirmed(cc, conf) : x <= Len(cc)
        BY <1>1 DEF Confirmed, Touched
      <3> QED BY <1>1, <1>4, <3>1, GreatestNatural
    <2>2. PICK new : new = Remain(cc, at) OBVIOUS
    <2>3. /\ new \in Seq(0 .. 255) /\ at \in 1 .. Len(cc) /\ Lowers(cc, conf, at, new)
      BY <2>1, <2>2, RemainCounts
    <2>4. newest(Confirmed(cc, conf)) = at
      <3>1. \A i \in Confirmed(cc, conf) : i \in Nat BY DEF Confirmed, Touched
      <3>2. \A i \in Confirmed(cc, conf) :
               (\A j \in Confirmed(cc, conf) : j <= i) => i = at
        BY <2>1, <3>1
      <3> QED BY <2>1, <3>2 DEF newest
    <2>5. PICK prop : prop = g.block_num - (Len(cc) - at) OBVIOUS
    <2>6. prop \in Nat BY <1>1, <2>3, <2>5
    <2>7. s = [g EXCEPT !.dpos_proposed_irreversible_blocknum = prop,
                        !.confirm_count = new]
      BY <1>2, <1>4, <2>2, <2>4, <2>5 DEF set_confirmed, Remain
    <2>8. SameButCounts(g, s) /\ s.confirm_count = new /\ ProposedNum(s) = prop
      BY <2>3, <2>6, <2>7 DEF HeaderState, SameButCounts, Lib, ProposedNum
    <2>9. at # 0 /\ at \in Nat BY <2>3
    <2>10. Confirms(g, conf, s, at) BY <2>3, <2>5, <2>8, <2>9 DEF Confirms
    <2> QED BY <1>2, <2>9, <2>10
  <1> QED BY <1>3, <1>4
-----------------------------------------------------------------------------
(* Header states after the trunk, and the one of a new block.              *)

Regular(h) ==
    /\ h \in HeaderState /\ h.active_schedule = Active
    /\ ProposedNum(h) >= Base
    /\ ProposedNum(h) + Len(h.confirm_count) <= h.block_num
    /\ \A q \in Producer : h.producer_to_last_implied_irb[q] <= ProposedNum(h)
    /\ \A q \in Scheduled : h.producer_to_last_implied_irb[q] # absent
    /\ Lib(h) = calc_dpos_last_irreversible(h.producer_to_last_implied_irb)

LEMMA RegularFacts ==
    ASSUME NEW h, Regular(h)
    PROVE  /\ h \in HeaderState /\ h.block_num \in Nat /\ h.block_num >= Base
           /\ ProposedNum(h) \in Nat /\ ProposedNum(h) >= Base
           /\ ProposedNum(h) <= h.block_num /\ Lib(h) \in Nat
           /\ h.confirm_count \in Seq(0 .. 255) /\ Len(h.confirm_count) \in Nat
           /\ ProposedNum(h) + Len(h.confirm_count) <= h.block_num
           /\ h.producer_to_last_produced \in ProducerMap
           /\ h.producer_to_last_implied_irb \in ProducerMap
           /\ h.producer \in Producer
  <1>1. /\ h \in HeaderState /\ h.block_num \in Nat /\ ProposedNum(h) \in Nat
        /\ Lib(h) \in Nat /\ h.confirm_count \in Seq(0 .. 255)
        /\ h.producer_to_last_produced \in ProducerMap
        /\ h.producer_to_last_implied_irb \in ProducerMap /\ h.producer \in Producer
    BY DEF Regular, HeaderState, ProposedNum, Lib
  <1>2. Len(h.confirm_count) \in Nat BY <1>1
  <1>3. ProposedNum(h) >= Base /\ ProposedNum(h) + Len(h.confirm_count) <= h.block_num
    BY DEF Regular
  <1>4. Base \in Nat BY DEF Base
  <1> QED BY <1>1, <1>2, <1>3, <1>4

(* The producer of a slot depends on the slot only.                        *)
LEMMA ScheduledProducer ==
    ASSUME ForkAssumption, NEW h, h.active_schedule = Active, NEW when \in Nat
    PROVE  /\ get_scheduled_producer(h, when) \in Scheduled
           /\ \A k : k.active_schedule = Active =>
                 get_scheduled_producer(k, when) = get_scheduled_producer(h, when)
  <1> DEFINE i == (when % (Len(Order) * producer_repetitions)) \div producer_repetitions + 1
  <1>1. Len(Order) \in Nat \ {0} /\ DOMAIN Order = 1 .. Len(Order) BY DEF ForkAssumption
  <1>2. i \in 1 .. Len(Order) BY <1>1, HeaderAssumption, Turn
  <1>3. \A k : k.active_schedule = Active => get_scheduled_producer(k, when) = Order[i]
    BY DEF get_scheduled_producer, Active
  <1> HIDE DEF i
  <1>4. Order[i] \in Scheduled BY <1>1, <1>2 DEF Scheduled
  <1> QED BY <1>3, <1>4

Follows(h, when, p, conf, x, cc, at) ==
    /\ Regular(x)
    /\ x.block_num = h.block_num + 1 /\ x.timestamp = when /\ x.producer = p
    /\ x.producer_to_last_produced =
          [h.producer_to_last_produced EXCEPT ![p] = h.block_num + 1]
    /\ x.producer_to_last_implied_irb =
          [h.producer_to_last_implied_irb EXCEPT ![p] = ProposedNum(h)]
    /\ \E q \in Producer : Lib(x) = x.producer_to_last_implied_irb[q]
    /\ Lib(x) >= Lib(h) /\ ProposedNum(x) >= ProposedNum(h)
    /\ Pushes(h.confirm_count, Needed, cc) /\ Lowers(cc, conf, at, x.confirm_count)
    /\ at = 0 => ProposedNum(x) = ProposedNum(h)
    /\ at > 0 => ProposedNum(x) = x.block_num - (Len(cc) - at)

LEMMA NextHeader ==
    ASSUME ForkAssumption, NEW h, Regular(h), NEW when \in Nat, NEW conf \in Nat, NEW p,
           p = get_scheduled_producer(h, when)
    PROVE  \E cc, at :
              Follows(h, when, p, conf, set_confirmed(generate_next(h, when), conf), cc, at)
  <1>1. p \in Scheduled /\ p \in Producer BY ScheduledProducer, ScheduledFinite DEF Regular
  <1>2. Builds(h, when, p, Needed)
    <2>1. Needed \in 1 .. 255 BY QuorumSize
    <2> QED BY <1>1, <2>1 DEF Builds, Needed, Regular
  <1>3. PICK g : g = generate_next(h, when) OBVIOUS
  <1>4. Generated(h, when, p, Needed, g) BY <1>2, <1>3, GenerateNext
  <1>5. PICK hc : hc = h.confirm_count OBVIOUS
  <1>6. PICK cc : cc = g.confirm_count OBVIOUS
  <1>7. /\ hc \in Seq(0 .. 255) /\ Len(hc) \in Nat /\ h.block_num \in Nat
        /\ ProposedNum(h) \in Nat /\ ProposedNum(h) >= Base
        /\ ProposedNum(h) + Len(hc) <= h.block_num
    BY <1>5, RegularFacts
  <1>8. Pushes(hc, Needed, cc)
    <2>1. cc = PushConfirm(hc, Needed) BY <1>4, <1>5, <1>6 DEF Generated
    <2> QED BY <1>7, <2>1, QuorumSize, PushedCounts
  <1>9. cc \in Seq(0 .. 255) /\ Len(cc) \in Nat /\ Len(cc) <= Len(hc) + 1
    BY <1>8 DEF Pushes
  <1>10. g \in HeaderState /\ g.block_num = h.block_num + 1 /\ ProposedNum(g) = ProposedNum(h)
    BY <1>4 DEF Generated
  <1>11. Len(cc) <= g.block_num /\ ProposedNum(h) + Len(cc) <= h.block_num + 1
    BY <1>7, <1>9, <1>10
  <1>12. PICK x : x = set_confirmed(g, conf) OBVIOUS
  <1>13. PICK at \in Nat : Confirms(g, conf, x, at)
    BY <1>6, <1>9, <1>10, <1>11, <1>12, SetConfirmed
  <1>14. /\ SameButCounts(g, x) /\ Lowers(cc, conf, at, x.confirm_count)
         /\ at = 0 => ProposedNum(x) = ProposedNum(g)
         /\ at > 0 => ProposedNum(x) = g.block_num - (Len(cc) - at)
    BY <1>6, <1>13 DEF Confirms
  <1>15. PICK irb : irb = h.producer_to_last_implied_irb OBVIOUS
  <1>16. /\ irb \in ProducerMap /\ \A q \in Producer : irb[q] <= ProposedNum(h)
         /\ \A q \in Scheduled : irb[q] # absent
         /\ Lib(h) = calc_dpos_last_irreversible(irb)
    BY <1>15, RegularFacts DEF Regular
  <1>17. PICK new : new = [irb EXCEPT ![p] = ProposedNum(h)] OBVIOUS
  <1>18. /\ x \in HeaderState /\ x.block_num = h.block_num + 1 /\ x.timestamp = when
         /\ x.producer = p /\ x.active_schedule = h.active_schedule
         /\ x.producer_to_last_produced =
               [h.producer_to_last_produced EXCEPT ![p] = h.block_num + 1]
         /\ x.producer_to_last_implied_irb = new
         /\ Lib(x) = calc_dpos_last_irreversible(new)
         /\ \E q \in Producer : Lib(x) = new[q]
    BY <1>4, <1>14, <1>15, <1>17 DEF SameButCounts, Generated
  <1>19. \A q \in Producer : new[q] = IF q = p THEN ProposedNum(h) ELSE irb[q]
    BY <1>16, <1>17 DEF ProducerMap
  <1>20. ProposedNum(x) \in Nat BY <1>18 DEF HeaderState, ProposedNum
  <1>21. /\ at \in 0 .. Len(cc) /\ Len(x.confirm_count) = Len(cc) - at
    BY <1>14 DEF Lowers
  <1>22. /\ ProposedNum(x) >= ProposedNum(h)
         /\ ProposedNum(x) + Len(x.confirm_count) <= x.block_num
    <2>1. PICK n, l, pr \in Nat : /\ n = h.block_num /\ l = Len(cc)
                                  /\ pr = ProposedNum(h)
      BY <1>7, <1>9
    <2>2. PICK px \in Nat : px = ProposedNum(x) BY <1>20
    <2>3. pr + l <= n + 1 /\ at \in 0 .. l BY <1>11, <1>21, <2>1
    <2>4. at = 0 => px = pr BY <1>10, <1>14, <2>1, <2>2
    <2>5. at > 0 => px = n + 1 - (l - at) BY <1>10, <1>14, <2>1, <2>2
    <2>6. px >= pr /\ px + (l - at) <= n + 1 BY <2>3, <2>4, <2>5
    <2> QED BY <1>18, <1>21, <2>1, <2>2, <2>6
  <1>23. Lib(x) >= Lib(h)
    <2>1. p \in Keys(irb) BY <1>1, <1>16 DEF Keys
    <2>2. Lib(h) <= Lib(x)
      <3>1. PICK v \in Nat : v = ProposedNum(h) BY <1>7
      <3>2. \A q \in Producer : irb[q] <= v BY <1>16, <3>1
      <3>3. calc_dpos_last_irreversible(irb)
               <= calc_dpos_last_irreversible([irb EXCEPT ![p] = v])
        BY <1>16, <2>1, <3>2, CalcMonotone
      <3> QED BY <1>16, <1>17, <1>18, <3>1, <3>3
    <2>3. Lib(x) \in Nat /\ Lib(h) \in Nat BY <1>18, RegularFacts DEF HeaderState, Lib
    <2> QED BY <2>2, <2>3
  <1>24. Regular(x)
    <2>1. \A q \in Producer : new[q] <= ProposedNum(x)
      <3>1. \A q \in Producer : irb[q] \in Int BY <1>16 DEF ProducerMap, absent
      <3> QED BY <1>7, <1>16, <1>19, <1>20, <1>22, <3>1
    <2>2. \A q \in Scheduled : new[q] # absent
      <3>1. Scheduled \subseteq Producer BY ScheduledFinite
      <3>2. ProposedNum(h) # absent BY <1>7 DEF absent
      <3> QED BY <1>16, <1>19, <3>1, <3>2
    <2>3. ProposedNum(x) >= Base BY <1>7, <1>20, <1>22 DEF Base
    <2>4. x.active_schedule = Active BY <1>18 DEF Regular
    <2> QED BY <1>18, <1>22, <2>1, <2>2, <2>3, <2>4 DEF Regular
  <1>25. \E q \in Producer : Lib(x) = x.producer_to_last_implied_irb[q] BY <1>18
  <1>26. at > 0 => ProposedNum(x) = x.block_num - (Len(cc) - at) BY <1>10, <1>14, <1>18
  <1>27. Follows(h, when, p, conf, x, cc, at)
    BY <1>5, <1>8, <1>10, <1>14, <1>15, <1>17, <1>18, <1>22, <1>23, <1>24, <1>25, <1>26
       DEF Follows
  <1> QED BY <1>3, <1>12, <1>27
-----------------------------------------------------------------------------
(* The trunk: three blocks of eosio.                                       *)

Initial == [version |-> 0, producers |-> <<eosio>>]

(* A state in which only eosio has produced, and no count is open.         *)
Lone(h, num, prop) ==
    /\ h \in HeaderState /\ h.active_schedule = Initial /\ h.confirm_count = <<>>
    /\ h.block_num = num /\ ProposedNum(h) = prop
    /\ h.producer_to_last_implied_irb[eosio] <= prop
    /\ \A q \in Producer : q # eosio => /\ h.producer_to_last_implied_irb[q] = absent
                                        /\ h.producer_to_last_produced[q] = absent

LEMMA LoneProducer ==
    ASSUME NEW h, h.active_schedule = Initial, NEW when \in Nat
    PROVE  /\ get_scheduled_producer(h, when) = eosio
           /\ required_confs(h.active_schedule) = 1
  <1> DEFINE i == (when % (1 * producer_repetitions)) \div producer_repetitions + 1
  <1>1. i \in 1 .. 1 BY HeaderAssumption, Turn
  <1>2. i = 1 BY <1>1
  <1> HIDE DEF i
  <1>3. Len(<<eosio>>) = 1 OBVIOUS
  <1>4. get_scheduled_producer(h, when) = <<eosio>>[i]
    BY <1>3 DEF get_scheduled_producer, Initial, i
  <1>5. (1 * 2) \div 3 + 1 = 1 OBVIOUS
  <1>6. required_confs(h.active_schedule) = (1 * 2) \div 3 + 1
    BY <1>3 DEF required_confs, Initial
  <1> QED BY <1>2, <1>4, <1>5, <1>6

Empty(hc) == Len(hc) <= 0

LEMMA LonePush ==
    ASSUME NEW hc, Empty(hc), NEW cc, Pushes(hc, 1, cc)
    PROVE  Len(cc) = 1 /\ cc[1] = 1
  <1>1. PICK n \in Nat : n = Len(cc) /\ n >= 1 /\ n <= Len(hc) + 1 /\ cc[n] = 1
    BY DEF Pushes
  <1>2. n = 1 BY <1>1 DEF Empty
  <1> QED BY <1>1, <1>2

LEMMA LoneCount ==
    ASSUME NEW hc, Empty(hc), NEW cc, Pushes(hc, 1, cc), NEW at, NEW sc \in Seq(0 .. 255),
           Lowers(cc, 0, at, sc)
    PROVE  at = 1 /\ Len(cc) = 1 /\ sc = <<>>
  <1>1. Len(cc) = 1 /\ cc[1] = 1 BY LonePush
  <1>2. at \in 0 .. 1 /\ Len(sc) = 1 - at BY <1>1 DEF Lowers
  <1>3. at # 0
    <2> SUFFICES ASSUME at = 0 PROVE FALSE OBVIOUS
    <2>1. /\ 1 \in 1 .. Len(cc) - at /\ cc[at + 1] = 1 /\ cc[at + 1] > 0
          /\ at + 1 >= Len(cc) - 0
      BY <1>1
    <2>2. sc[1] > 0 /\ sc[1] = cc[at + 1] - 1 BY <2>1 DEF Lowers
    <2> QED BY <2>1, <2>2
  <1> QED BY <1>1, <1>2, <1>3

LEMMA LoneNext ==
    ASSUME ForkAssumption, NEW num \in Nat, NEW prop \in Nat, prop <= num,
           NEW h, Lone(h, num, prop), NEW x,
           x = set_confirmed(generate_next(h, h.timestamp + 1), 0)
    PROVE  /\ Lone(x, num + 1, num + 1) /\ Lib(x) = prop
           /\ x.producer = eosio /\ x.timestamp = h.timestamp + 1
           /\ x.pending_schedule = h.pending_schedule
           /\ x.pending_schedule_lib_num = h.pending_schedule_lib_num
  <1>1. PICK when : when = h.timestamp + 1 OBVIOUS
  <1>2. /\ when \in Nat /\ h \in HeaderState /\ h.active_schedule = Initial
        /\ h.block_num = num /\ ProposedNum(h) = prop /\ h.confirm_count = <<>>
    BY <1>1 DEF Lone, HeaderState
  <1>3. eosio \in Producer BY DEF ForkAssumption
  <1>4. PICK irb : irb = h.producer_to_last_implied_irb OBVIOUS
  <1>5. irb \in ProducerMap BY <1>2, <1>4 DEF HeaderState
  <1>6. \A q \in Producer : irb[q] <= prop BY <1>4 DEF Lone, absent
  <1>7. Builds(h, when, eosio, 1)
    BY <1>2, <1>3, <1>4, <1>6, LoneProducer DEF Builds
  <1>8. PICK g : g = generate_next(h, when) OBVIOUS
  <1>9. Generated(h, when, eosio, 1, g) BY <1>7, <1>8, GenerateNext
  <1>10. PICK cc : cc = g.confirm_count OBVIOUS
  <1>11. PICK hc : hc = h.confirm_count OBVIOUS
  <1>12. hc \in Seq(0 .. 255) /\ Empty(hc) BY <1>2, <1>11 DEF HeaderState, Empty
  <1>13. Pushes(hc, 1, cc)
    <2>1. cc = PushConfirm(hc, 1) BY <1>9, <1>10, <1>11 DEF Generated
    <2>2. 1 \in 1 .. 255 OBVIOUS
    <2> QED BY <1>12, <2>1, <2>2, PushedCounts
  <1>14. /\ cc \in Seq(0 .. 255) /\ Len(cc) = 1 /\ g \in HeaderState
         /\ g.block_num = num + 1
    <2>1. cc \in Seq(0 .. 255) BY <1>13 DEF Pushes
    <2>2. Len(cc) = 1 BY <1>12, <1>13, LonePush
    <2> QED BY <1>2, <1>9, <2>1, <2>2 DEF Generated
  <1>15. Len(cc) <= g.block_num BY <1>14
  <1>16. x = set_confirmed(g, 0) BY <1>1, <1>8
  <1>17. PICK at \in Nat : Confirms(g, 0, x, at)
    BY <1>10, <1>14, <1>15, <1>16, SetConfirmed
  <1>18. SameButCounts(g, x) /\ Lowers(cc, 0, at, x.confirm_count)
    BY <1>10, <1>17 DEF Confirms
  <1>19. x.confirm_count \in Seq(0 .. 255) BY <1>18 DEF SameButCounts, HeaderState
  <1>20. at = 1 /\ x.confirm_count = <<>> BY <1>12, <1>13, <1>18, <1>19, LoneCount
  <1>21. ProposedNum(x) = num + 1
    <2>1. ProposedNum(x) = g.block_num - (Len(cc) - at) BY <1>10, <1>17, <1>20 DEF Confirms
    <2> QED BY <1>14, <1>20, <2>1
  <1>22. PICK new : new = [irb EXCEPT ![eosio] = prop] OBVIOUS
  <1>23. /\ x \in HeaderState /\ x.block_num = num + 1 /\ x.timestamp = when
         /\ x.producer = eosio /\ x.active_schedule = h.active_schedule
         /\ x.pending_schedule = h.pending_schedule
         /\ x.pending_schedule_lib_num = h.pending_schedule_lib_num
         /\ x.producer_to_last_implied_irb = new
         /\ x.producer_to_last_produced =
               [h.producer_to_last_produced EXCEPT ![eosio] = num + 1]
         /\ \E q \in Producer : Lib(x) = new[q]
    BY <1>2, <1>4, <1>9, <1>18, <1>22 DEF SameButCounts, Generated
  <1>24. /\ new[eosio] = prop
         /\ \A q \in Producer : q # eosio => new[q] = absent
    BY <1>3, <1>4, <1>5, <1>22 DEF Lone, ProducerMap
  <1>25. Lib(x) = prop
    <2>1. Lib(x) \in Nat BY <1>23 DEF HeaderState, Lib
    <2> QED BY <1>23, <1>24, <2>1 DEF absent
  <1>26. \A q \in Producer : q # eosio => x.producer_to_last_produced[q] = absent
    <2>1. h.producer_to_last_produced \in ProducerMap BY <1>2 DEF HeaderState
    <2> QED BY <1>23, <2>1 DEF Lone, ProducerMap
  <1>27. Lone(x, num + 1, num + 1)
    BY <1>2, <1>20, <1>21, <1>23, <1>24, <1>26 DEF Lone
  <1> QED BY <1>1, <1>23, <1>25, <1>27

LEMMA Promotes ==
    ASSUME NEW s \in HeaderState, promotes(s), NEW m, m = maybe_promote_pending(s)
    PROVE  /\ m \in HeaderState /\ m.active_schedule = s.pending_schedule
           /\ m.pending_schedule.producers = <<>>
           /\ m.block_num = s.block_num /\ m.timestamp = s.timestamp
           /\ Lib(m) = Lib(s) /\ ProposedNum(m) = ProposedNum(s)
           /\ m.confirm_count = s.confirm_count
           /\ m.producer_to_last_produced =
                 [Rekey(s.producer_to_last_produced, Members(s.pending_schedule), Lib(s))
                    EXCEPT ![s.producer] = s.block_num]
           /\ m.producer_to_last_implied_irb =
                 Rekey(s.producer_to_last_implied_irb, Members(s.pending_schedule), Lib(s))
  <1>1. /\ s.block_num \in Nat /\ Lib(s) \in Nat /\ s.producer \in Producer
        /\ s.producer_to_last_produced \in ProducerMap
        /\ s.producer_to_last_implied_irb \in ProducerMap
        /\ s.pending_schedule \in Schedule
    BY DEF HeaderState, Lib
  <1>2. PICK last : last = [Rekey(s.producer_to_last_produced,
                                  Members(s.pending_schedule), Lib(s))
                              EXCEPT ![s.producer] = s.block_num]
    OBVIOUS
  <1>3. PICK irb : irb = Rekey(s.producer_to_last_implied_irb,
                               Members(s.pending_schedule), Lib(s))
    OBVIOUS
  <1>4. PICK sch : sch = [s.pending_schedule EXCEPT !.producers = <<>>] OBVIOUS
  <1>5. last \in ProducerMap /\ irb \in ProducerMap
    <2>1. \A f \in ProducerMap : Rekey(f, Members(s.pending_schedule), Lib(s)) \in ProducerMap
      BY <1>1 DEF Rekey, ProducerMap
    <2> QED BY <1>1, <1>2, <1>3, <2>1 DEF ProducerMap
  <1>6. sch \in Schedule /\ sch.producers = <<>>
    <2>1. PICK none : none = <<>> OBVIOUS
    <2>2. /\ none \in Seq(Producer)
          /\ \A i, j \in 1 .. Len(none) : none[i] = none[j] => i = j
      BY <2>1
    <2>3. sch = [s.pending_schedule EXCEPT !.producers = none] BY <1>4, <2>1
    <2>4. sch \in Schedule /\ sch.producers = none BY <1>1, <2>2, <2>3 DEF Schedule
    <2> QED BY <2>1, <2>4
  <1>7. m = [s EXCEPT !.active_schedule = s.pending_schedule,
                      !.pending_schedule = sch,
                      !.producer_to_last_produced = last,
                      !.producer_to_last_implied_irb = irb]
    BY <1>1, <1>2, <1>3, <1>4 DEF maybe_promote_pending, Lib, HeaderState
  <1>8. /\ m \in HeaderState /\ m.active_schedule = s.pending_schedule
        /\ m.pending_schedule = sch
        /\ m.block_num = s.block_num /\ m.timestamp = s.timestamp
        /\ Lib(m) = Lib(s) /\ ProposedNum(m) = ProposedNum(s)
        /\ m.confirm_count = s.confirm_count
        /\ m.producer_to_last_produced = last
        /\ m.producer_to_last_implied_irb = irb
    BY <1>1, <1>5, <1>6, <1>7 DEF HeaderState, Lib, ProposedNum
  <1> QED BY <1>2, <1>3, <1>6, <1>8

LEMMA RekeyValues ==
    ASSUME NEW f \in ProducerMap, NEW S, NEW d \in Nat, NEW q \in Producer
    PROVE  /\ q \notin S => Rekey(f, S, d)[q] = absent
           /\ q \in S /\ f[q] = absent => Rekey(f, S, d)[q] = d
           /\ q \in S /\ f[q] # absent => Rekey(f, S, d)[q] = f[q]
  BY DEF Rekey

LEMMA ActiveSchedule ==
    ASSUME ForkAssumption
    PROVE  Active \in Schedule /\ Active.producers # <<>> /\ Initial \in Schedule
  <1>1. /\ Order \in Seq(Producer) /\ Len(Order) >= 1
        /\ \A i, j \in 1 .. Len(Order) : Order[i] = Order[j] => i = j
    BY Element DEF ForkAssumption
  <1>2. Active \in Schedule /\ Active.producers # <<>> BY <1>1 DEF Active, Schedule
  <1>3. eosio \in Producer BY DEF ForkAssumption
  <1>4. PICK s : s = <<eosio>> OBVIOUS
  <1>5. s \in Seq(Producer) /\ \A i, j \in 1 .. Len(s) : s[i] = s[j] => i = j
    BY <1>3, <1>4
  <1>6. Initial \in Schedule BY <1>4, <1>5 DEF Initial, Schedule
  <1> QED BY <1>2, <1>6

(* The genesis state, and the one after eosio's own schedule is promoted.  *)
LEMMA GenesisLone ==
    ASSUME ForkAssumption
    PROVE  /\ Lone(GenesisState(eosio), 1, 0)
           /\ GenesisState(eosio).pending_schedule = Initial
           /\ GenesisState(eosio).pending_schedule_lib_num = 0
           /\ GenesisState(eosio).timestamp = 0
  <1>1. PICK g : g = GenesisState(eosio) OBVIOUS
  <1>2. EmptyMap \in ProducerMap /\ \A q \in Producer : EmptyMap[q] = absent
    BY DEF EmptyMap, ProducerMap
  <1>3. eosio \in Producer /\ Initial \in Schedule
    BY ActiveSchedule DEF ForkAssumption
  <1>4. PICK none : none = <<>> OBVIOUS
  <1>5. none \in Seq(0 .. 255) BY <1>4
  <1>6. g = [block_num |-> 1, timestamp |-> 0, producer |-> eosio,
             dpos_proposed_irreversible_blocknum |-> 0,
             dpos_irreversible_blocknum |-> 0, pending_schedule_lib_num |-> 0,
             pending_schedule |-> Initial, active_schedule |-> Initial,
             producer_to_last_produced |-> EmptyMap,
             producer_to_last_implied_irb |-> EmptyMap, confirm_count |-> none]
    BY <1>1, <1>4 DEF GenesisState, Initial
  <1>7. g \in HeaderState BY <1>2, <1>3, <1>5, <1>6 DEF HeaderState
  <1>8. Lone(g, 1, 0) BY <1>2, <1>3, <1>4, <1>6, <1>7 DEF Lone, ProposedNum, absent
  <1> QED BY <1>1, <1>6, <1>8

LEMMA SecondLone ==
    ASSUME ForkAssumption
    PROVE  \E b : /\ b = trunk_next(GenesisState(eosio)) /\ Lone(b, 2, 2)
                  /\ b.pending_schedule.producers = <<>> /\ b.timestamp = 1
  <1>1. PICK h : h = GenesisState(eosio) OBVIOUS
  <1>2. PICK x : x = set_confirmed(generate_next(h, h.timestamp + 1), 0) OBVIOUS
  <1>3. /\ Lone(x, 2, 2) /\ Lib(x) = 0 /\ x.producer = eosio /\ x.timestamp = 1
        /\ x.pending_schedule = Initial /\ x.pending_schedule_lib_num = 0
    <2>1. /\ Lone(h, 1, 0) /\ h.pending_schedule = Initial
          /\ h.pending_schedule_lib_num = 0 /\ h.timestamp = 0
      BY <1>1, GenesisLone
    <2>2. /\ Lone(x, 1 + 1, 1 + 1) /\ Lib(x) = 0
          /\ x.producer = eosio /\ x.timestamp = h.timestamp + 1
          /\ x.pending_schedule = h.pending_schedule
          /\ x.pending_schedule_lib_num = h.pending_schedule_lib_num
      BY <1>2, <2>1, LoneNext
    <2> QED BY <2>1, <2>2
  <1>4. x \in HeaderState BY <1>3 DEF Lone
  <1>5. promotes(x) BY <1>3 DEF promotes, Initial, Lib
  <1>6. PICK m : m = maybe_promote_pending(x) OBVIOUS
  <1>7. trunk_next(h) = m BY <1>2, <1>5, <1>6 DEF trunk_next
  <1>8. PICK S : S = Members(Initial) OBVIOUS
  <1>9. /\ m \in HeaderState /\ m.active_schedule = Initial
        /\ m.pending_schedule.producers = <<>>
        /\ m.block_num = 2 /\ m.timestamp = 1 /\ ProposedNum(m) = 2
        /\ m.confirm_count = <<>>
        /\ m.producer_to_last_produced =
              [Rekey(x.producer_to_last_produced, S, 0) EXCEPT ![eosio] = 2]
        /\ m.producer_to_last_implied_irb =
              Rekey(x.producer_to_last_implied_irb, S, 0)
    <2>1. /\ m \in HeaderState /\ m.active_schedule = x.pending_schedule
          /\ m.pending_schedule.producers = <<>>
          /\ m.block_num = x.block_num /\ m.timestamp = x.timestamp
          /\ ProposedNum(m) = ProposedNum(x) /\ m.confirm_count = x.confirm_count
          /\ m.producer_to_last_produced =
                [Rekey(x.producer_to_last_produced, Members(x.pending_schedule), Lib(x))
                   EXCEPT ![x.producer] = x.block_num]
          /\ m.producer_to_last_implied_irb =
                Rekey(x.producer_to_last_implied_irb, Members(x.pending_schedule), Lib(x))
      BY <1>4, <1>5, <1>6, Promotes
    <2>2. x.block_num = 2 /\ ProposedNum(x) = 2 /\ x.confirm_count = <<>>
      BY <1>3 DEF Lone
    <2> QED BY <1>3, <1>8, <2>1, <2>2
  <1>10. \A q \in Producer : q # eosio => q \notin S
    BY <1>8 DEF Members, Initial
  <1>11. eosio \in Producer BY DEF ForkAssumption
  <1>12. /\ x.producer_to_last_implied_irb \in ProducerMap
         /\ x.producer_to_last_produced \in ProducerMap
    BY <1>4 DEF HeaderState
  <1>13. \A q \in Producer : q # eosio => /\ m.producer_to_last_implied_irb[q] = absent
                                          /\ m.producer_to_last_produced[q] = absent
    BY <1>9, <1>10, <1>12, RekeyValues DEF Rekey
  <1>14. m.producer_to_last_implied_irb[eosio] <= 2
    <2>1. PICK v : v = x.producer_to_last_implied_irb[eosio] OBVIOUS
    <2>2. v <= 2 /\ v \in Nat \cup {absent} BY <1>3, <1>11, <1>12, <2>1 DEF Lone, ProducerMap
    <2>3. m.producer_to_last_implied_irb[eosio] \in {absent, 0, v}
      BY <1>9, <1>11, <1>12, <2>1, RekeyValues
    <2> QED BY <2>2, <2>3 DEF absent
  <1>15. Lone(m, 2, 2) BY <1>9, <1>13, <1>14 DEF Lone
  <1> QED BY <1>1, <1>7, <1>9, <1>15

(* The third block makes the schedule pending.                             *)
LEMMA ThirdLone ==
    ASSUME ForkAssumption
    PROVE  \E b : /\ b = trunk_next(trunk_next(GenesisState(eosio))) /\ Lone(b, 3, 3)
                  /\ b.pending_schedule = Active /\ b.pending_schedule_lib_num = 3
                  /\ b.timestamp = 2
  <1>1. PICK h : /\ h = trunk_next(GenesisState(eosio)) /\ Lone(h, 2, 2)
                 /\ h.pending_schedule.producers = <<>> /\ h.timestamp = 1
    BY SecondLone
  <1>2. PICK x : x = set_confirmed(generate_next(h, h.timestamp + 1), 0) OBVIOUS
  <1>3. /\ Lone(x, 3, 3) /\ Lib(x) = 2 /\ x.timestamp = 2
        /\ x.pending_schedule.producers = <<>>
    <2>1. /\ Lone(x, 2 + 1, 2 + 1) /\ Lib(x) = 2 /\ x.timestamp = h.timestamp + 1
          /\ x.pending_schedule = h.pending_schedule
      BY <1>1, <1>2, LoneNext
    <2> QED BY <1>1, <2>1
  <1>4. x \in HeaderState BY <1>3 DEF Lone
  <1>5. ~ promotes(x) BY <1>3 DEF promotes
  <1>6. maybe_promote_pending(x) = x BY <1>5 DEF maybe_promote_pending
  <1>7. trunk_next(h) = set_new_producers(x, Active)
    BY <1>2, <1>3, <1>5, <1>6 DEF trunk_next, Active, Lib
  <1>8. PICK m : m = set_new_producers(x, Active) OBVIOUS
  <1>9. m = [x EXCEPT !.pending_schedule = Active, !.pending_schedule_lib_num = 3]
    BY <1>3, <1>8 DEF set_new_producers, Lone
  <1>10. /\ m \in HeaderState /\ m.pending_schedule = Active
         /\ m.pending_schedule_lib_num = 3 /\ m.timestamp = x.timestamp
         /\ m.active_schedule = x.active_schedule /\ m.confirm_count = x.confirm_count
         /\ m.block_num = x.block_num /\ ProposedNum(m) = ProposedNum(x)
         /\ m.producer_to_last_produced = x.producer_to_last_produced
         /\ m.producer_to_last_implied_irb = x.producer_to_last_implied_irb
    BY <1>4, <1>9, ActiveSchedule DEF HeaderState, ProposedNum
  <1>11. Lone(m, 3, 3) BY <1>3, <1>10 DEF Lone
  <1> QED BY <1>1, <1>3, <1>7, <1>8, <1>10, <1>11

(* Root: the schedule is active, nobody of it has produced, no count is    *)
(* open.                                                                   *)
LEMMA RootFacts ==
    ASSUME ForkAssumption
    PROVE  /\ Regular(Root) /\ Root.block_num = Base /\ Root.timestamp = 3
           /\ ProposedNum(Root) = Base /\ Lib(Root) = 3 /\ Root.confirm_count = <<>>
           /\ \A q \in Scheduled : Root.producer_to_last_produced[q] = 3
           /\ \A q \in Producer : Root.producer_to_last_implied_irb[q] <= 3
  <1>1. PICK h : /\ h = trunk_next(trunk_next(GenesisState(eosio))) /\ Lone(h, 3, 3)
                 /\ h.pending_schedule = Active /\ h.pending_schedule_lib_num = 3
                 /\ h.timestamp = 2
    BY ThirdLone
  <1>2. PICK x : x = set_confirmed(generate_next(h, h.timestamp + 1), 0) OBVIOUS
  <1>3. /\ Lone(x, 4, 4) /\ Lib(x) = 3 /\ x.producer = eosio /\ x.timestamp = 3
        /\ x.pending_schedule = Active /\ x.pending_schedule_lib_num = 3
    <2>1. /\ Lone(x, 3 + 1, 3 + 1) /\ Lib(x) = 3 /\ x.producer = eosio
          /\ x.timestamp = h.timestamp + 1
          /\ x.pending_schedule = h.pending_schedule
          /\ x.pending_schedule_lib_num = h.pending_schedule_lib_num
      BY <1>1, <1>2, LoneNext
    <2> QED BY <1>1, <2>1
  <1>4. x \in HeaderState BY <1>3 DEF Lone
  <1>5. promotes(x) BY <1>3, ActiveSchedule DEF promotes, Lib
  <1>6. PICK m : m = maybe_promote_pending(x) OBVIOUS
  <1>7. Root = m BY <1>1, <1>2, <1>5, <1>6 DEF trunk_next, Root
  <1>8. Members(Active) = Scheduled /\ eosio \notin Scheduled /\ Scheduled \subseteq Producer
        /\ Scheduled # {}
    BY ScheduledFinite
  <1>9. /\ m \in HeaderState /\ m.active_schedule = Active
        /\ m.block_num = 4 /\ m.timestamp = 3 /\ ProposedNum(m) = 4 /\ Lib(m) = 3
        /\ m.confirm_count = <<>>
        /\ m.producer_to_last_produced =
              [Rekey(x.producer_to_last_produced, Scheduled, 3) EXCEPT ![eosio] = 4]
        /\ m.producer_to_last_implied_irb =
              Rekey(x.producer_to_last_implied_irb, Scheduled, 3)
    BY <1>3, <1>4, <1>5, <1>6, <1>8, Promotes DEF Lone
  <1>10. /\ x.producer_to_last_implied_irb \in ProducerMap
         /\ x.producer_to_last_produced \in ProducerMap
    BY <1>4 DEF HeaderState
  <1>11. \A q \in Scheduled : /\ x.producer_to_last_implied_irb[q] = absent
                              /\ x.producer_to_last_produced[q] = absent
    BY <1>3, <1>8 DEF Lone
  <1>12. PICK irb : irb = m.producer_to_last_implied_irb OBVIOUS
  <1>13. /\ \A q \in Scheduled : irb[q] = 3
         /\ \A q \in Producer : q \notin Scheduled => irb[q] = absent
    BY <1>8, <1>9, <1>10, <1>11, <1>12, RekeyValues
  <1>14. \A q \in Scheduled : m.producer_to_last_produced[q] = 3
    <2>1. \A q \in Scheduled : Rekey(x.producer_to_last_produced, Scheduled, 3)[q] = 3
      BY <1>8, <1>10, <1>11, RekeyValues
    <2>2. \A q \in Scheduled : q # eosio BY <1>8
    <2> QED BY <1>8, <1>9, <2>1, <2>2 DEF Rekey
  <1>15. irb \in ProducerMap BY <1>9, <1>12 DEF HeaderState
  <1>16. \A q \in Producer : irb[q] <= 3 BY <1>13 DEF absent
  <1>17. calc_dpos_last_irreversible(irb) = 3
    <2>1. Keys(irb) = Scheduled BY <1>8, <1>13 DEF Keys, absent
    <2>2. 3 \in Nat /\ Keys(irb) # {} BY <1>8, <2>1
    <2>3. calc_dpos_last_irreversible(irb) \in Cands(irb)
      BY <1>15, <1>16, <2>2, CalcIsLeast
    <2> QED BY <1>13, <2>1, <2>3 DEF Cands
  <1>18. \A q \in Scheduled : irb[q] # absent BY <1>13 DEF absent
  <1>19. /\ \A q \in Producer : irb[q] <= 4
         /\ 4 + Len(m.confirm_count) <= 4
    <2>1. \A q \in Producer : irb[q] \in Int BY <1>15 DEF ProducerMap, absent
    <2>2. Len(m.confirm_count) = 0 BY <1>9
    <2> QED BY <1>16, <2>1, <2>2
  <1>20. Regular(m) BY <1>9, <1>12, <1>17, <1>18, <1>19 DEF Regular, Base
  <1> QED BY <1>7, <1>9, <1>12, <1>14, <1>16, <1>20 DEF Base
-----------------------------------------------------------------------------
(* The tree of blocks.  B is a value of blocks.                            *)

Block == [hs : HeaderState, chain : SUBSET Nat, confirmed : Nat, accepted : BOOLEAN]

Number(B, b) == B[b].hs.block_num
SignedIn(B, b) == (Number(B, b) - B[b].confirmed) .. Number(B, b)

(* The producers that signed for number n on the branch of b.              *)
Signers(B, b, n) ==
    {p \in Scheduled : \E c \in B[b].chain \ {1} :
                          B[c].hs.producer = p /\ n \in SignedIn(B, c)}

Sound(B, b) ==
    /\ Regular(B[b].hs)
    /\ B[b].confirmed \in 0 .. ConfirmRange - 1 /\ B[b].confirmed < Number(B, b)
    /\ b # 1 => B[b].hs.producer \in Scheduled

(* A branch is closed under ancestors, has one block of every number from  *)
(* Root's on, and its header state knows what its producers built on it.   *)
Branch(B, b) ==
    /\ B[b].chain \subseteq 1 .. b /\ b \in B[b].chain /\ 1 \in B[b].chain
    /\ \A c \in B[b].chain : /\ B[c].chain \subseteq B[b].chain
                             /\ Number(B, c) <= Number(B, b)
                             /\ B[b].accepted => B[c].accepted
    /\ \A c, d \in B[b].chain : Number(B, c) = Number(B, d) => c = d
    /\ \A n \in Base .. Number(B, b) : \E c \in B[b].chain : Number(B, c) = n
    /\ \A c \in B[b].chain \ {1} :
          B[b].hs.producer_to_last_produced[B[c].hs.producer] >= Number(B, c)

(* Along a branch nothing proposed or irreversible is taken back.          *)
Forward(B, b) ==
    \A c \in B[b].chain : /\ Lib(B[c].hs) <= Lib(B[b].hs)
                          /\ ProposedNum(B[c].hs) <= ProposedNum(B[b].hs)

Settled(B, b, n) == n > Base => Cardinality(Signers(B, b, n)) >= Needed

(* The counts of a block that other nodes accept are what the blocks still *)
(* need, and what is proposed, implied or irreversible has its quorum.     *)
Counts(B, b, cc) ==
    \A i \in 1 .. Len(cc) :
        /\ cc[i] > 0
        /\ cc[i] + Cardinality(Signers(B, b, Number(B, b) - (Len(cc) - i))) = Needed

Settles(B, b, h) ==
    /\ Settled(B, b, ProposedNum(h)) /\ Settled(B, b, Lib(h))
    /\ \A q \in Producer : Settled(B, b, h.producer_to_last_implied_irb[q])

Counted(B, b) ==
    B[b].accepted => Counts(B, b, B[b].hs.confirm_count) /\ Settles(B, b, B[b].hs)

Tree(B) ==
    /\ B \in Seq(Block) /\ Len(B) >= 1 /\ B[1].hs = Root
    /\ \A b \in 1 .. Len(B) : /\ Sound(B, b) /\ Branch(B, b)
                              /\ Forward(B, b) /\ Counted(B, b)

(* Block x of p on block h extends the tree B to C.                        *)
Grows(B, C, h, x, when, p, conf, cc, at) ==
    /\ Tree(B) /\ C = Append(B, x) /\ h \in 1 .. Len(B)
    /\ p \in Scheduled /\ conf \in 0 .. ConfirmRange - 1 /\ conf <= Number(B, h)
    /\ x \in Block /\ x.chain = B[h].chain \cup {Len(B) + 1} /\ x.confirmed = conf
    /\ x.accepted <=> B[h].accepted /\ double_confirm_check(B[h].hs, p, conf)
    /\ Follows(B[h].hs, when, p, conf, x.hs, cc, at)

LEMMA SignersFinite ==
    ASSUME ForkAssumption, NEW B, NEW b, NEW n
    PROVE  /\ Signers(B, b, n) \in SUBSET Scheduled
           /\ Signers(B, b, n) \in SUBSET Producer
           /\ IsFiniteSet(Signers(B, b, n)) /\ Cardinality(Signers(B, b, n)) \in Nat
  <1>1. Signers(B, b, n) \in SUBSET Scheduled BY DEF Signers
  <1>2. Signers(B, b, n) \in SUBSET Producer BY <1>1, ScheduledFinite
  <1> QED BY <1>1, <1>2, MemberFinite

LEMMA Appended ==
    ASSUME NEW S, NEW B \in Seq(S), NEW x \in S, NEW C, C = Append(B, x)
    PROVE  /\ C \in Seq(S) /\ Len(C) = Len(B) + 1 /\ Len(B) \in Nat
           /\ C[Len(B) + 1] = x /\ \A i \in 1 .. Len(B) : C[i] = B[i]
  OBVIOUS

LEMMA GrownTree ==
    ASSUME NEW B, NEW C, NEW h, NEW x, NEW when, NEW p, NEW conf, NEW cc, NEW at,
           Grows(B, C, h, x, when, p, conf, cc, at)
    PROVE  /\ C \in Seq(Block) /\ Len(C) = Len(B) + 1 /\ Len(B) \in Nat /\ Len(B) >= 1
           /\ C[Len(B) + 1] = x /\ \A i \in 1 .. Len(B) : C[i] = B[i]
           /\ h \in 1 .. Len(B) /\ C[h] = B[h]
  <1>1. B \in Seq(Block) /\ x \in Block /\ C = Append(B, x) /\ Len(B) >= 1
        /\ h \in 1 .. Len(B)
    BY DEF Grows, Tree
  <1> QED BY <1>1, Appended

(* The blocks that were there stay as they were.                           *)
Agree(B, C) == \A i \in 1 .. Len(B) : C[i] = B[i]

LEMMA OldNumbers ==
    ASSUME NEW B, NEW C, Agree(B, C), NEW c \in 1 .. Len(B)
    PROVE  /\ C[c] = B[c] /\ Number(C, c) = Number(B, c)
           /\ SignedIn(C, c) = SignedIn(B, c)
  BY DEF Agree, Number, SignedIn

LEMMA OldBlock ==
    ASSUME NEW B, NEW C, Agree(B, C), Len(B) \in Nat, NEW b \in 1 .. Len(B),
           Sound(B, b), Branch(B, b), Forward(B, b), Counted(B, b)
    PROVE  /\ Sound(C, b) /\ Branch(C, b) /\ Forward(C, b) /\ Counted(C, b)
           /\ \A n : Signers(C, b, n) = Signers(B, b, n)
  <1>1. B[b].chain \subseteq 1 .. b BY DEF Branch
  <1>2. \A c \in B[b].chain : c \in 1 .. Len(B) BY <1>1
  <1>3. \A c \in 1 .. Len(B) : /\ C[c] = B[c] /\ Number(C, c) = Number(B, c)
                               /\ SignedIn(C, c) = SignedIn(B, c)
    BY OldNumbers
  <1>4. \A n : Signers(C, b, n) = Signers(B, b, n) BY <1>2, <1>3 DEF Signers
  <1>5. Sound(C, b) BY <1>3 DEF Sound
  <1>6. Branch(C, b)
    <2>1. C[b] = B[b] /\ Number(C, b) = Number(B, b) BY <1>3
    <2> QED BY <1>2, <1>3, <2>1 DEF Branch
  <1>7. Forward(C, b) BY <1>2, <1>3 DEF Forward
  <1>8. Counted(C, b)
    <2>1. C[b] = B[b] /\ Number(C, b) = Number(B, b) BY <1>3
    <2>2. \A n : Settled(B, b, n) => Settled(C, b, n) BY <1>4 DEF Settled
    <2>3. \A k : Counts(B, b, k) => Counts(C, b, k) BY <1>4, <2>1 DEF Counts
    <2> QED BY <2>1, <2>2, <2>3 DEF Counted, Settles
  <1> QED BY <1>4, <1>5, <1>6, <1>7, <1>8

(* What the new block is, in terms of its parent.                          *)
New(B, C, h, x, p, conf, id) ==
    /\ id = Len(B) + 1 /\ id \in Nat /\ id # 1 /\ C[id] = x
    /\ \A c \in B[h].chain : c \in 1 .. Len(B) /\ c # id
    /\ \A c \in 1 .. Len(B) : /\ C[c] = B[c] /\ Number(C, c) = Number(B, c)
                              /\ SignedIn(C, c) = SignedIn(B, c)
    /\ C[id].chain = B[h].chain \cup {id}
    /\ Number(B, h) \in Nat /\ Number(C, id) = Number(B, h) + 1
    /\ C[id].hs.producer = p /\ C[id].confirmed = conf /\ conf \in Nat
    /\ conf < Number(C, id)

LEMMA NewFacts ==
    ASSUME NEW B, NEW C, NEW h, NEW x, NEW when, NEW p, NEW conf, NEW cc, NEW at,
           Grows(B, C, h, x, when, p, conf, cc, at)
    PROVE  New(B, C, h, x, p, conf, Len(B) + 1)
  <1>1. /\ Len(B) \in Nat /\ Len(B) >= 1 /\ C[Len(B) + 1] = x
        /\ \A i \in 1 .. Len(B) : C[i] = B[i] /\ h \in 1 .. Len(B)
    BY GrownTree
  <1>2. PICK id \in Nat : id = Len(B) + 1 BY <1>1
  <1>3. Sound(B, h) /\ Branch(B, h) BY <1>1 DEF Grows, Tree
  <1>4. Number(B, h) \in Nat BY <1>3, RegularFacts DEF Sound, Number
  <1>5. \A c \in B[h].chain : c \in 1 .. Len(B) /\ c # id
    <2>1. B[h].chain \subseteq 1 .. h BY <1>3 DEF Branch
    <2> QED BY <1>1, <1>2, <2>1
  <1>6. Agree(B, C) BY <1>1 DEF Agree
  <1>7. \A c \in 1 .. Len(B) : /\ C[c] = B[c] /\ Number(C, c) = Number(B, c)
                               /\ SignedIn(C, c) = SignedIn(B, c)
    BY <1>6, OldNumbers
  <1>8. /\ x.chain = B[h].chain \cup {Len(B) + 1} /\ x.confirmed = conf
        /\ conf \in 0 .. ConfirmRange - 1 /\ conf <= Number(B, h)
        /\ x.hs.producer = p /\ x.hs.block_num = B[h].hs.block_num + 1
    BY DEF Grows, Follows
  <1>9. Number(C, id) = Number(B, h) + 1 BY <1>1, <1>2, <1>8 DEF Number
  <1>10. conf \in Nat /\ conf < Number(C, id) BY <1>4, <1>8, <1>9
  <1>11. id # 1 BY <1>1, <1>2
  <1> QED BY <1>1, <1>2, <1>4, <1>5, <1>7, <1>8, <1>9, <1>10, <1>11 DEF New

LEMMA NewSigners ==
    ASSUME NEW B, NEW C, NEW h, NEW x, NEW p \in Scheduled, NEW conf, NEW id,
           New(B, C, h, x, p, conf, id), NEW n
    PROVE  /\ n \in SignedIn(C, id) =>
                 Signers(C, id, n) = Signers(B, h, n) \cup {p}
           /\ n \notin SignedIn(C, id) => Signers(C, id, n) = Signers(B, h, n)
  <1>1. /\ id # 1 /\ C[id].chain = B[h].chain \cup {id} /\ C[id].hs.producer = p
        /\ \A c \in B[h].chain : /\ C[c] = B[c] /\ SignedIn(C, c) = SignedIn(B, c)
    BY DEF New
  <1> QED BY <1>1 DEF Signers

LEMMA NewBranch ==
    ASSUME ForkAssumption, NEW B, NEW C, NEW h, NEW x, NEW when, NEW p, NEW conf,
           NEW cc, NEW at, Grows(B, C, h, x, when, p, conf, cc, at),
           NEW id, id = Len(B) + 1
    PROVE  Sound(C, id) /\ Branch(C, id) /\ Forward(C, id)
  <1>1. New(B, C, h, x, p, conf, id) BY NewFacts
  <1>2. /\ Sound(B, h) /\ Branch(B, h) /\ Forward(B, h)
        /\ Len(B) \in Nat /\ h \in 1 .. Len(B)
    BY GrownTree DEF Grows, Tree
  <1>3. PICK num \in Nat : num = Number(B, h) BY <1>1 DEF New
  <1>4. /\ Number(C, id) = num + 1 /\ id \in Nat /\ id # 1 /\ C[id] = x
        /\ C[id].chain = B[h].chain \cup {id}
        /\ \A c \in B[h].chain : /\ c \in 1 .. Len(B) /\ c # id /\ C[c] = B[c]
                                 /\ Number(C, c) = Number(B, c)
    BY <1>1, <1>3 DEF New
  <1>5. /\ Regular(x.hs) /\ Regular(B[h].hs) /\ p \in Scheduled
        /\ Lib(x.hs) >= Lib(B[h].hs) /\ ProposedNum(x.hs) >= ProposedNum(B[h].hs)
        /\ x.hs.producer_to_last_produced =
              [B[h].hs.producer_to_last_produced EXCEPT ![p] = num + 1]
        /\ x.accepted => B[h].accepted
    BY <1>2, <1>3 DEF Grows, Follows, Sound, Number
  <1>6. Sound(C, id)
    <2>1. x.confirmed \in 0 .. ConfirmRange - 1 BY DEF Grows
    <2> QED BY <1>1, <1>4, <1>5, <2>1 DEF Sound, New
  <1>7. \A c \in B[h].chain : /\ B[c].chain \subseteq B[h].chain
                              /\ Number(B, c) <= num /\ Number(B, c) \in Nat
                              /\ B[h].accepted => B[c].accepted
    <2>1. \A c \in B[h].chain : Sound(B, c) BY <1>4 DEF Grows, Tree
    <2>2. \A c \in B[h].chain : Number(B, c) \in Nat BY <2>1, RegularFacts DEF Sound, Number
    <2>3. \A c \in B[h].chain : /\ B[c].chain \subseteq B[h].chain
                                /\ Number(B, c) <= Number(B, h)
                                /\ B[h].accepted => B[c].accepted
      BY <1>2, Zenon DEF Branch
    <2> QED BY <1>3, <2>2, <2>3
  <1>8. Branch(C, id)
    <2>1. C[id].chain \subseteq 1 .. id /\ id \in C[id].chain /\ 1 \in C[id].chain
      BY <1>1, <1>2, <1>4 DEF Branch, New
    <2>2. \A c \in C[id].chain : /\ C[c].chain \subseteq C[id].chain
                                 /\ Number(C, c) <= Number(C, id)
                                 /\ C[id].accepted => C[c].accepted
      BY <1>4, <1>5, <1>7
    <2>3. \A c, d \in C[id].chain : Number(C, c) = Number(C, d) => c = d
      <3>1. \A c, d \in B[h].chain : Number(B, c) = Number(B, d) => c = d
        BY <1>2 DEF Branch
      <3>2. \A c \in B[h].chain : Number(C, c) # Number(C, id) BY <1>4, <1>7
      <3> QED BY <1>4, <3>1, <3>2
    <2>4. \A n \in Base .. Number(C, id) : \E c \in C[id].chain : Number(C, c) = n
      <3> SUFFICES ASSUME NEW n \in Base .. num + 1
                   PROVE  \E c \in C[id].chain : Number(C, c) = n
        BY <1>4
      <3>1. CASE n = num + 1 BY <1>4, <2>1, <3>1
      <3>2. CASE n # num + 1
        <4>1. n \in Base .. num BY <3>2 DEF Base
        <4>2. PICK c \in B[h].chain : Number(B, c) = n BY <1>2, <1>3, <4>1 DEF Branch
        <4> QED BY <1>4, <4>2
      <3> QED BY <3>1, <3>2
    <2>5. \A c \in C[id].chain \ {1} :
             C[id].hs.producer_to_last_produced[C[c].hs.producer] >= Number(C, c)
      <3>1. B[h].hs.producer_to_last_produced \in ProducerMap BY <1>5, RegularFacts
      <3>2. p \in Producer BY <1>5, ScheduledFinite
      <3>3. x.hs.producer_to_last_produced[p] = num + 1 BY <1>5, <3>1, <3>2 DEF ProducerMap
      <3>4. \A q \in Producer : q # p => x.hs.producer_to_last_produced[q] =
                                         B[h].hs.producer_to_last_produced[q]
        BY <1>5, <3>1 DEF ProducerMap
      <3>5. ASSUME NEW c \in B[h].chain \ {1}
            PROVE  x.hs.producer_to_last_produced[B[c].hs.producer] >= Number(B, c)
        <4>1. B[c].hs.producer \in Producer
          <5>1. Sound(B, c) BY <1>4 DEF Grows, Tree
          <5> QED BY <5>1, RegularFacts DEF Sound
        <4>2. B[h].hs.producer_to_last_produced[B[c].hs.producer] >= Number(B, c)
          BY <1>2 DEF Branch
        <4>3. Number(B, c) <= num /\ Number(B, c) \in Nat BY <1>7
        <4>4. num + 1 >= Number(B, c) BY <4>3
        <4> QED BY <3>3, <3>4, <4>1, <4>2, <4>4
      <3>6. \A c \in B[h].chain \ {1} :
               C[id].hs.producer_to_last_produced[C[c].hs.producer] >= Number(C, c)
        BY <1>4, <3>5
      <3>7. C[id].hs.producer_to_last_produced[C[id].hs.producer] >= Number(C, id)
        BY <1>1, <1>4, <3>3 DEF New
      <3> QED BY <1>4, <3>6, <3>7
    <2> QED BY <2>1, <2>2, <2>3, <2>4, <2>5 DEF Branch
  <1>9. Forward(C, id)
    <2>1. \A c \in B[h].chain : /\ Lib(B[c].hs) \in Nat /\ ProposedNum(B[c].hs) \in Nat
                                /\ Lib(B[c].hs) <= Lib(B[h].hs)
                                /\ ProposedNum(B[c].hs) <= ProposedNum(B[h].hs)
      <3>1. \A c \in B[h].chain : Sound(B, c) BY <1>4 DEF Grows, Tree
      <3> QED BY <1>2, <3>1, RegularFacts DEF Sound, Forward
    <2>2. /\ Lib(x.hs) \in Nat /\ ProposedNum(x.hs) \in Nat
          /\ Lib(B[h].hs) \in Nat /\ ProposedNum(B[h].hs) \in Nat
      BY <1>5, RegularFacts
    <2> QED BY <1>4, <1>5, <2>1, <2>2 DEF Forward
  <1> QED BY <1>6, <1>8, <1>9

(* Block h of the tree has number num.                                     *)
Numbered(B, h, num) == Tree(B) /\ h \in 1 .. Len(B) /\ num = Number(B, h)

LEMMA BranchNumbers ==
    ASSUME NEW B, NEW h, NEW num \in Nat, Numbered(B, h, num), NEW c \in B[h].chain
    PROVE  /\ c \in 1 .. Len(B) /\ Sound(B, c) /\ Number(B, c) \in Nat
           /\ Number(B, c) <= num
  <1>1. B[h].chain \subseteq 1 .. h /\ Number(B, c) <= Number(B, h)
    BY DEF Numbered, Tree, Branch
  <1>2. Len(B) \in Nat /\ h \in 1 .. Len(B) BY DEF Numbered, Tree
  <1>3. c \in 1 .. Len(B) BY <1>1, <1>2
  <1>4. Sound(B, c) BY <1>3 DEF Numbered, Tree
  <1>5. Number(B, c) \in Nat BY <1>4, RegularFacts DEF Sound, Number
  <1> QED BY <1>1, <1>3, <1>4, <1>5 DEF Numbered

(* The check of next(): the numbers a block confirms its producer has not  *)
(* signed for on this branch before.                                       *)
LEMMA FirstVote ==
    ASSUME ForkAssumption, NEW B, NEW h, NEW num \in Nat, Numbered(B, h, num),
           NEW p \in Scheduled, NEW conf \in Nat, conf <= num,
           double_confirm_check(B[h].hs, p, conf),
           NEW n \in Nat, n >= num + 1 - conf
    PROVE  p \notin Signers(B, h, n)
  <1> SUFFICES ASSUME p \in Signers(B, h, n) PROVE FALSE
    OBVIOUS
  <1>1. PICK c \in B[h].chain \ {1} : B[c].hs.producer = p /\ n \in SignedIn(B, c)
    BY DEF Signers
  <1>2. Sound(B, h) /\ Branch(B, h) BY DEF Numbered, Tree
  <1>3. PICK last : last = B[h].hs.producer_to_last_produced[p] OBVIOUS
  <1>4. last \in Nat \cup {absent}
    <2>1. B[h].hs.producer_to_last_produced \in ProducerMap
      BY <1>2, RegularFacts DEF Sound
    <2>2. p \in Producer BY ScheduledFinite
    <2> QED BY <1>3, <2>1, <2>2 DEF ProducerMap
  <1>5. last >= Number(B, c) BY <1>1, <1>2, <1>3 DEF Branch
  <1>6. Number(B, c) \in Nat BY <1>1, BranchNumbers
  <1>7. n <= Number(B, c) BY <1>1 DEF SignedIn
  <1>8. last # absent /\ last \in Nat
    <2>1. absent = -1 BY DEF absent
    <2> QED BY <1>4, <1>5, <1>6, <2>1
  <1>9. p \in Keys(B[h].hs.producer_to_last_produced)
    <2>1. p \in Producer BY ScheduledFinite
    <2> QED BY <1>3, <1>8, <2>1 DEF Keys
  <1>10. conf > num + 1 \/ last < num + 1 - conf
    <2>1. num = B[h].hs.block_num BY DEF Numbered, Number
    <2> QED BY <1>3, <1>9, <2>1 DEF double_confirm_check
  <1> QED BY <1>5, <1>6, <1>7, <1>8, <1>10

(* The counts between generate_next and set_confirmed.                     *)
After(C, id, cc, conf, j, n) ==
    LET votes == Cardinality(Signers(C, id, n))
    IN  /\ cc[j] \in 1 .. 255 /\ votes \in Nat
        /\ j >= Len(cc) - conf => cc[j] - 1 + votes = Needed
        /\ j < Len(cc) - conf => cc[j] + votes = Needed

LEMMA NoVoteYet ==
    ASSUME NEW B, NEW h, NEW num \in Nat, Numbered(B, h, num)
    PROVE  Signers(B, h, num + 1) = {}
  <1>1. \A c \in B[h].chain : num + 1 \notin SignedIn(B, c)
    BY BranchNumbers DEF SignedIn
  <1> QED BY <1>1 DEF Signers

CountOf(cc, num, j, n) == j \in 1 .. Len(cc) /\ n = num + 1 - (Len(cc) - j)

LEMMA ConfirmedRange ==
    ASSUME NEW num \in Nat, NEW len \in Nat, NEW conf \in Nat, NEW j \in 1 .. len,
           NEW n, n = num + 1 - (len - j)
    PROVE  n <= num + 1 /\ (j >= len - conf <=> n >= num + 1 - conf)
  OBVIOUS

LEMMA CountsAfter ==
    ASSUME ForkAssumption, NEW B, NEW C, NEW h, NEW x, NEW when, NEW p, NEW conf,
           NEW cc, NEW at, Grows(B, C, h, x, when, p, conf, cc, at),
           NEW id, id = Len(B) + 1, x.accepted,
           NEW num \in Nat, Numbered(B, h, num),
           NEW j \in Nat, NEW n \in Nat, CountOf(cc, num, j, n)
    PROVE  After(C, id, cc, conf, j, n)
  <1>1. New(B, C, h, x, p, conf, id) BY NewFacts
  <1>2. /\ Tree(B) /\ h \in 1 .. Len(B) /\ p \in Scheduled /\ conf <= num
        /\ B[h].accepted /\ double_confirm_check(B[h].hs, p, conf)
        /\ Pushes(B[h].hs.confirm_count, Needed, cc)
    BY DEF Grows, Follows, Numbered
  <1>3. conf \in Nat /\ Number(C, id) = num + 1 /\ C[id].confirmed = conf
    BY <1>1 DEF New, Numbered
  <1>4. n \in SignedIn(C, id) <=> n >= num + 1 - conf /\ n <= num + 1
    BY <1>3 DEF SignedIn
  <1>5. PICK len \in Nat : len = Len(cc) BY <1>2 DEF Pushes
  <1>6. j \in 1 .. len /\ n = num + 1 - (len - j) BY <1>5 DEF CountOf
  <1>7. n <= num + 1 /\ (j >= len - conf <=> n >= num + 1 - conf)
    BY <1>3, <1>6, ConfirmedRange
  <1>8. Needed \in 1 .. 255 BY QuorumSize
  <1>9. p \in Producer BY ScheduledFinite, <1>2
  <1>10. /\ n \in SignedIn(C, id) => Signers(C, id, n) = Signers(B, h, n) \cup {p}
         /\ n \notin SignedIn(C, id) => Signers(C, id, n) = Signers(B, h, n)
    <2>1. p \in Scheduled BY <1>2
    <2> QED BY <1>1, <2>1, NewSigners
  <1>11. CASE j = len
    <2>1. n = num + 1 BY <1>6, <1>11
    <2>2. Signers(B, h, n) = {} BY <2>1, NoVoteYet
    <2>3. n \in SignedIn(C, id) BY <1>3, <1>4, <2>1
    <2>4. Signers(C, id, n) = {p} BY <1>10, <2>2, <2>3
    <2>5. Cardinality(Signers(C, id, n)) = 1 BY <2>4, FS_Singleton
    <2>6. cc[j] = Needed BY <1>2, <1>5, <1>11 DEF Pushes
    <2>7. Needed - 1 + 1 = Needed BY <1>8
    <2>8. ~ (j < len - conf) BY <1>3, <1>11
    <2> QED BY <1>5, <1>8, <2>5, <2>6, <2>7, <2>8 DEF After
  <1>12. CASE j # len
    <2>1. PICK hc : hc = B[h].hs.confirm_count OBVIOUS
    <2>2. Sound(B, h) /\ Counted(B, h) BY <1>2 DEF Tree
    <2>3. /\ hc \in Seq(0 .. 255) /\ Len(hc) \in Nat
      BY <2>1, <2>2, RegularFacts DEF Sound
    <2>4. PICK i \in Nat : /\ i \in 1 .. Len(hc) /\ i = Len(hc) + 1 - (len - j)
                           /\ cc[j] = hc[i]
      <3>1. len <= Len(hc) + 1 BY <1>2, <1>5, <2>1 DEF Pushes
      <3>2. j \in 1 .. len - 1 BY <1>6, <1>12
      <3>3. cc[j] = hc[Len(hc) + 1 - (len - j)] BY <1>2, <1>5, <2>1, <3>2 DEF Pushes
      <3>4. Len(hc) + 1 - (len - j) \in 1 .. Len(hc) BY <2>3, <3>1, <3>2
      <3> QED BY <3>3, <3>4
    <2>5. n = num - (Len(hc) - i) BY <1>6, <2>3, <2>4
    <2>6. hc[i] > 0 /\ hc[i] + Cardinality(Signers(B, h, n)) = Needed
      <3>1. Counts(B, h, hc) BY <1>2, <2>1, <2>2 DEF Counted
      <3> QED BY <2>4, <2>5, <3>1 DEF Counts, Numbered
    <2>7. hc[i] \in 0 .. 255 BY <2>3, <2>4, Element
    <2>8. PICK y : y = hc[i] OBVIOUS
    <2>9. y = cc[j] /\ y \in 1 .. 255
      <3>1. y \in 0 .. 255 /\ y > 0 BY <2>6, <2>7, <2>8
      <3> QED BY <2>4, <2>8, <3>1
    <2>10. PICK S \in SUBSET Producer : S = Signers(B, h, n) BY SignersFinite
    <2>11. PICK v \in Nat : v = Cardinality(S) BY MemberFinite
    <2>12. y + v = Needed BY <2>6, <2>8, <2>10, <2>11
    <2>13. CASE j >= len - conf
      <3>1. n >= num + 1 - conf /\ n \in SignedIn(C, id) BY <1>4, <1>7, <2>13
      <3>2. p \notin S BY <1>2, <1>3, <2>10, <3>1, FirstVote
      <3>3. Signers(C, id, n) = S \cup {p} BY <1>10, <2>10, <3>1
      <3>4. Cardinality(S \cup {p}) = v + 1 BY <1>9, <2>11, <3>2, VoteCounts
      <3>5. y - 1 + (v + 1) = y + v BY <2>9
      <3>6. y - 1 + (v + 1) = Needed BY <2>12, <3>5
      <3>7. ~ (j < len - conf) BY <1>3, <2>13
      <3>8. v + 1 \in Nat OBVIOUS
      <3> QED BY <1>5, <2>9, <3>3, <3>4, <3>6, <3>7, <3>8 DEF After
    <2>14. CASE ~ (j >= len - conf)
      <3>1. n \notin SignedIn(C, id) BY <1>4, <1>7, <2>14
      <3>2. Signers(C, id, n) = Signers(B, h, n) BY <1>10, <3>1
      <3>3. Signers(C, id, n) = S BY <2>10, <3>2
      <3> QED BY <1>5, <2>9, <2>11, <2>12, <2>14, <3>3 DEF After
    <2> QED BY <2>13, <2>14
  <1> QED BY <1>11, <1>12

(* Signatures are only added.                                              *)
LEMMA StaySettled ==
    ASSUME ForkAssumption, NEW B, NEW C, NEW h, NEW x, NEW p \in Scheduled, NEW conf,
           NEW id, New(B, C, h, x, p, conf, id), NEW n, Settled(B, h, n)
    PROVE  Settled(C, id, n)
  <1>1. PICK S \in SUBSET Producer : S = Signers(B, h, n) BY SignersFinite
  <1>2. Signers(C, id, n) = S \/ Signers(C, id, n) = S \cup {p}
    <2>1. \/ Signers(C, id, n) = Signers(B, h, n)
          \/ Signers(C, id, n) = Signers(B, h, n) \cup {p}
      BY NewSigners
    <2> QED BY <1>1, <2>1
  <1>3. p \in Producer BY ScheduledFinite
  <1>4. /\ Cardinality(S) \in Nat /\ Cardinality(S \cup {p}) \in Nat
        /\ Cardinality(S) <= Cardinality(S \cup {p})
    BY <1>3, MemberFinite, VoteCounts
  <1>5. Needed \in Nat BY QuorumSize
  <1>6. n > Base => Cardinality(S) >= Needed BY <1>1 DEF Settled
  <1>7. n > Base => Cardinality(Signers(C, id, n)) >= Needed
    BY <1>2, <1>4, <1>5, <1>6
  <1> QED BY <1>7 DEF Settled

LEMMA NewCounted ==
    ASSUME ForkAssumption, NEW B, NEW C, NEW h, NEW x, NEW when, NEW p, NEW conf,
           NEW cc, NEW at, Grows(B, C, h, x, when, p, conf, cc, at),
           NEW id, id = Len(B) + 1
    PROVE  Counted(C, id)
  <1> SUFFICES ASSUME C[id].accepted
               PROVE  /\ Counts(C, id, C[id].hs.confirm_count)
                      /\ Settles(C, id, C[id].hs)
    BY DEF Counted
  <1>1. New(B, C, h, x, p, conf, id) BY NewFacts
  <1>2. C[id] = x /\ x.accepted /\ conf \in Nat BY <1>1 DEF New
  <1>3. PICK num \in Nat : num = Number(B, h) BY <1>1 DEF New
  <1>4. Numbered(B, h, num) BY <1>3 DEF Grows, Numbered
  <1>5. /\ p \in Scheduled /\ B[h].accepted /\ Number(C, id) = num + 1
        /\ Follows(B[h].hs, when, p, conf, x.hs, cc, at)
    BY <1>1, <1>2, <1>3 DEF Grows, New
  <1>6. /\ Sound(B, h) /\ Counted(B, h) /\ Regular(B[h].hs)
    BY <1>4 DEF Numbered, Tree, Sound
  <1>7. \A j, n \in Nat : CountOf(cc, num, j, n) => After(C, id, cc, conf, j, n)
    BY <1>2, <1>4, CountsAfter
  <1>8. PICK sc : sc = x.hs.confirm_count OBVIOUS
  <1>9. Pushes(B[h].hs.confirm_count, Needed, cc) /\ Lowers(cc, conf, at, sc)
    BY <1>5, <1>8 DEF Follows
  <1>10. PICK len \in Nat : len = Len(cc) BY <1>9 DEF Pushes
  <1>11. len <= num + 1
    <2>1. PICK prop, hlen \in Nat : /\ prop = ProposedNum(B[h].hs)
                                    /\ hlen = Len(B[h].hs.confirm_count)
                                    /\ prop + hlen <= num
      BY <1>3, <1>6, RegularFacts DEF Number
    <2>2. len <= hlen + 1 BY <1>9, <1>10, <2>1 DEF Pushes
    <2>3. prop + hlen <= num BY <2>1
    <2>4. hlen <= num BY <2>3
    <2> QED BY <2>2, <2>4
  <1>12. at \in 0 .. len /\ Len(sc) = len - at BY <1>9, <1>10 DEF Lowers
  <1>13. ASSUME NEW i \in 1 .. Len(sc)
         PROVE  /\ sc[i] > 0
                /\ sc[i] + Cardinality(Signers(C, id, num + 1 - (Len(sc) - i))) = Needed
    <2>1. PICK j \in Nat : j = at + i /\ j \in 1 .. len BY <1>12
    <2>2. PICK n \in Nat : n = num + 1 - (len - j) BY <1>11, <2>1
    <2>3. n = num + 1 - (Len(sc) - i) BY <1>12, <2>1, <2>2
    <2>4. CountOf(cc, num, j, n) BY <1>10, <2>1, <2>2 DEF CountOf
    <2>5. After(C, id, cc, conf, j, n) BY <1>7, <2>4
    <2>6. /\ cc[j] \in 1 .. 255
          /\ j >= len - conf => cc[j] - 1 + Cardinality(Signers(C, id, n)) = Needed
          /\ j < len - conf => cc[j] + Cardinality(Signers(C, id, n)) = Needed
      BY <1>10, <2>5 DEF After
    <2>7. i \in 1 .. len - at BY <1>12
    <2>8. cc[j] > 0 => /\ sc[i] > 0
                       /\ sc[i] = IF j >= len - conf THEN cc[j] - 1 ELSE cc[j]
      BY <1>9, <1>10, <2>1, <2>7 DEF Lowers
    <2>9. cc[j] > 0
      <3>1. \A y \in 1 .. 255 : y > 0 OBVIOUS
      <3> QED BY <2>6, <3>1
    <2>10. j >= len - conf \/ j < len - conf BY <1>2
    <2> QED BY <2>3, <2>6, <2>8, <2>9, <2>10
  <1>14. Counts(C, id, sc) BY <1>5, <1>13 DEF Counts
  <1>15. /\ Settled(B, h, ProposedNum(B[h].hs))
         /\ \A q \in Producer : Settled(B, h, B[h].hs.producer_to_last_implied_irb[q])
    BY <1>5, <1>6 DEF Counted, Settles
  <1>16. \A n : Settled(B, h, n) => Settled(C, id, n) BY <1>1, <1>5, StaySettled
  <1>17. Settled(C, id, ProposedNum(x.hs))
    <2>1. CASE at = 0
      <3>1. ProposedNum(x.hs) = ProposedNum(B[h].hs) BY <1>5, <2>1 DEF Follows
      <3> QED BY <1>15, <1>16, <3>1
    <2>2. CASE at # 0
      <3>1. at \in Nat /\ at \in 1 .. len /\ at > 0 BY <1>12, <2>2
      <3>2. PICK n \in Nat : n = num + 1 - (len - at) BY <1>11, <3>1
      <3>3. CountOf(cc, num, at, n) BY <1>10, <3>1, <3>2 DEF CountOf
      <3>4. After(C, id, cc, conf, at, n) BY <1>7, <3>1, <3>3
      <3>5. at >= len - conf /\ cc[at] = 1 BY <1>9, <1>10, <3>1 DEF Lowers
      <3>6. 1 - 1 + Cardinality(Signers(C, id, n)) = Needed
            /\ Cardinality(Signers(C, id, n)) \in Nat
        BY <1>10, <3>4, <3>5 DEF After
      <3>7. ProposedNum(x.hs) = n
        <4>1. x.hs.block_num = num + 1 BY <1>3, <1>5 DEF Follows, Number
        <4> QED BY <1>5, <1>10, <3>1, <3>2, <4>1 DEF Follows
      <3>8. Cardinality(Signers(C, id, n)) >= Needed BY <3>6
      <3> QED BY <3>7, <3>8 DEF Settled
    <2> QED BY <2>1, <2>2
  <1>18. \A q \in Producer : Settled(C, id, x.hs.producer_to_last_implied_irb[q])
    <2>1. B[h].hs.producer_to_last_implied_irb \in ProducerMap BY <1>6, RegularFacts
    <2>2. \A q \in Producer : x.hs.producer_to_last_implied_irb[q] \in
             {B[h].hs.producer_to_last_implied_irb[q], ProposedNum(B[h].hs)}
      BY <1>5, <2>1 DEF Follows, ProducerMap
    <2> QED BY <1>15, <1>16, <2>2
  <1>19. Settled(C, id, Lib(x.hs))
    <2>1. PICK q \in Producer : Lib(x.hs) = x.hs.producer_to_last_implied_irb[q]
      BY <1>5 DEF Follows
    <2> QED BY <1>18, <2>1
  <1> QED BY <1>2, <1>8, <1>14, <1>17, <1>18, <1>19 DEF Settles

LEMMA TreeGrows ==
    ASSUME ForkAssumption, NEW B, NEW C, NEW h, NEW x, NEW when, NEW p, NEW conf,
           NEW cc, NEW at, Grows(B, C, h, x, when, p, conf, cc, at)
    PROVE  Tree(C)
  <1>1. /\ C \in Seq(Block) /\ Len(C) = Len(B) + 1 /\ Len(B) \in Nat /\ Len(B) >= 1
        /\ \A i \in 1 .. Len(B) : C[i] = B[i]
    BY GrownTree
  <1>2. Tree(B) BY DEF Grows
  <1>3. Agree(B, C) BY <1>1 DEF Agree
  <1>4. ASSUME NEW b \in 1 .. Len(B)
        PROVE  Sound(C, b) /\ Branch(C, b) /\ Forward(C, b) /\ Counted(C, b)
    <2>1. Sound(B, b) /\ Branch(B, b) /\ Forward(B, b) /\ Counted(B, b) BY <1>2 DEF Tree
    <2> QED BY <1>1, <1>3, <2>1, OldBlock
  <1>5. PICK id : id = Len(B) + 1 OBVIOUS
  <1>6. Sound(C, id) /\ Branch(C, id) /\ Forward(C, id) /\ Counted(C, id)
    BY <1>5, NewBranch, NewCounted
  <1>7. \A b \in 1 .. Len(C) : b \in 1 .. Len(B) \/ b = id BY <1>1, <1>5
  <1>8. C[1].hs = Root BY <1>1, <1>2 DEF Tree
  <1>9. Len(C) >= 1 BY <1>1
  <1> QED BY <1>1, <1>4, <1>6, <1>7, <1>8, <1>9 DEF Tree
-----------------------------------------------------------------------------
(* The invariant.  R are the producers whose nodes may restart.            *)

(* The watermark of every other producer is above all it has signed, and   *)
(* above what any branch says it produced last.                            *)
Memory(R) ==
    \A p \in Scheduled \ R :
        /\ watermark[p] \in Nat
        /\ \A b \in 1 .. Len(blocks) :
              /\ blocks[b].hs.producer_to_last_produced[p] <= watermark[p]
              /\ b # 1 /\ blocks[b].hs.producer = p => Number(blocks, b) <= watermark[p]

(* So no two of its blocks, on whatever branches, sign for one number.     *)
Apart(R) ==
    \A b, c \in 2 .. Len(blocks) :
        (/\ b # c /\ blocks[b].hs.producer = blocks[c].hs.producer
         /\ blocks[b].hs.producer \notin R)
           => SignedIn(blocks, b) \cap SignedIn(blocks, c) = {}

ForkInv(R) ==
    /\ Tree(blocks)
    /\ head \in [Scheduled -> 1 .. Len(blocks)]
    /\ watermark \in [Scheduled -> Nat \cup {absent}]
    /\ slot \in Nat
    /\ Memory(R) /\ Apart(R)
    /\ R = {} => \A b \in 1 .. Len(blocks) : blocks[b].accepted

LEMMA RootTree ==
    ASSUME ForkAssumption, NEW B,
           B = <<[hs |-> Root, chain |-> {1}, confirmed |-> 0, accepted |-> TRUE]>>
    PROVE  Tree(B)
  <1>1. /\ Regular(Root) /\ Root.block_num = Base /\ ProposedNum(Root) = Base
        /\ Lib(Root) = 3 /\ Root.confirm_count = <<>>
        /\ \A q \in Producer : Root.producer_to_last_implied_irb[q] <= 3
    BY RootFacts
  <1>2. Root \in HeaderState /\ Root.producer_to_last_implied_irb \in ProducerMap
    BY <1>1, RegularFacts
  <1>3. /\ B[1].hs = Root /\ B[1].chain = {1} /\ B[1].confirmed = 0 /\ B[1].accepted = TRUE
        /\ Len(B) = 1 /\ B \in Seq(Block)
    BY <1>2 DEF Block
  <1>4. Number(B, 1) = Base /\ Base = 4 BY <1>1, <1>3 DEF Number, Base
  <1>5. Sound(B, 1)
    <2>1. 0 \in 0 .. ConfirmRange - 1 BY DEF ForkAssumption
    <2> QED BY <1>1, <1>3, <1>4, <2>1 DEF Sound
  <1>6. Branch(B, 1)
    <2>1. \A n \in Base .. Number(B, 1) : \E c \in B[1].chain : Number(B, c) = n
      BY <1>3, <1>4
    <2>2. B[1].chain \subseteq 1 .. 1 /\ 1 \in B[1].chain BY <1>3
    <2>3. \A c \in B[1].chain : c = 1 BY <1>3
    <2>4. Number(B, 1) <= Number(B, 1) BY <1>4
    <2> QED BY <2>1, <2>2, <2>3, <2>4 DEF Branch
  <1>7. Forward(B, 1) BY <1>1, <1>3, <1>4 DEF Forward
  <1>8. Counted(B, 1)
    <2>1. Counts(B, 1, <<>>) BY DEF Counts
    <2>2. \A n : ~ (n > Base) => Settled(B, 1, n) BY DEF Settled
    <2>3. \A q \in Producer : ~ (Root.producer_to_last_implied_irb[q] > Base)
      <3>1. \A q \in Producer : Root.producer_to_last_implied_irb[q] \in Int
        BY <1>2 DEF ProducerMap, absent
      <3> QED BY <1>1, <1>4, <3>1
    <2>4. ~ (ProposedNum(Root) > Base) /\ ~ (Lib(Root) > Base) BY <1>1, <1>4
    <2> QED BY <1>1, <1>3, <2>1, <2>2, <2>3, <2>4 DEF Counted, Settles
  <1>9. \A b \in 1 .. Len(B) : b = 1 BY <1>3
  <1>10. Len(B) >= 1 BY <1>3
  <1> QED BY <1>3, <1>5, <1>6, <1>7, <1>8, <1>9, <1>10 DEF Tree

LEMMA InitInv ==
    ASSUME ForkAssumption, NEW R, Init
    PROVE  ForkInv(R)
  <1>1. /\ Root.block_num = 4 /\ Root.timestamp = 3
        /\ \A q \in Scheduled : Root.producer_to_last_produced[q] = 3
    BY RootFacts DEF Base
  <1>2. Tree(blocks) BY RootTree DEF Init
  <1>3. Len(blocks) = 1 /\ blocks[1].hs = Root /\ blocks[1].accepted = TRUE BY DEF Init
  <1>4. \A b \in 1 .. Len(blocks) : b = 1 BY <1>3
  <1>5. head \in [Scheduled -> 1 .. Len(blocks)] /\ slot \in Nat BY <1>1, <1>3 DEF Init
  <1>6. watermark = [p \in Scheduled |-> 3] BY <1>1 DEF Init
  <1>7. watermark \in [Scheduled -> Nat \cup {absent}] BY <1>6
  <1>8. Memory(R) BY <1>1, <1>3, <1>4, <1>6 DEF Memory
  <1>9. Apart(R)
    <2>1. 2 .. Len(blocks) = {} BY <1>3
    <2> QED BY <2>1 DEF Apart
  <1> QED BY <1>2, <1>3, <1>4, <1>5, <1>7, <1>8, <1>9 DEF ForkInv

(* The producer of the next slot.                                          *)
LEMMA NextProducer ==
    ASSUME ForkAssumption, NEW R, ForkInv(R)
    PROVE  /\ next_producer \in Scheduled /\ slot + 1 \in Nat
           /\ \A b \in 1 .. Len(blocks) :
                 get_scheduled_producer(blocks[b].hs, slot + 1) = next_producer
  <1>1. Tree(blocks) /\ slot + 1 \in Nat BY DEF ForkInv
  <1>2. \A b \in 1 .. Len(blocks) : blocks[b].hs.active_schedule = Active
    BY <1>1 DEF Tree, Sound, Regular
  <1>3. 1 \in 1 .. Len(blocks) BY <1>1 DEF Tree
  <1> QED BY <1>1, <1>2, <1>3, ScheduledProducer DEF next_producer, root

(* What a producer confirms reaches down to its watermark at most.         *)
LEMMA ConfirmsAbove ==
    ASSUME ForkAssumption, NEW p \in Scheduled, NEW num \in Nat, NEW hs,
           hs.block_num = num, watermark \in [Scheduled -> Nat \cup {absent}],
           NEW conf, conf = blocks_to_confirm(p, hs), watermark_allows(p, hs)
    PROVE  /\ conf \in 0 .. ConfirmRange - 1 /\ conf <= num /\ conf \in Nat
           /\ watermark[p] \in Nat => watermark[p] < num + 1 - conf
  <1>1. ConfirmRange \in Nat \ {0} BY DEF ForkAssumption
  <1>2. PICK wm \in Nat \cup {absent} : wm = watermark[p] OBVIOUS
  <1>3. wm = absent \/ wm < num + 1 BY <1>2 DEF watermark_allows
  <1>4. CASE wm # absent /\ wm < num
    <2>1. conf = (num - wm) % ConfirmRange BY <1>2, <1>4 DEF blocks_to_confirm
    <2>2. num - wm \in Nat /\ wm \in Nat BY <1>4
    <2>3. conf \in 0 .. ConfirmRange - 1 /\ conf <= num - wm BY <1>1, <2>1, <2>2
    <2> QED BY <1>2, <2>2, <2>3
  <1>5. CASE ~ (wm # absent /\ wm < num)
    <2>1. conf = 0 BY <1>2, <1>5 DEF blocks_to_confirm
    <2> QED BY <1>1, <1>2, <1>3, <2>1 DEF absent
  <1> QED BY <1>4, <1>5

(* A step of Produce, in the terms of the tree.                            *)
Produces(p, h, num, conf, x, cc, at) ==
    /\ p \in Scheduled /\ h = head[p] /\ num = Number(blocks, h)
    /\ Grows(blocks, blocks', h, x, slot + 1, p, conf, cc, at)
    /\ watermark[p] \in Nat => watermark[p] < num + 1 - conf
    /\ head' = [head EXCEPT ![p] = Len(blocks) + 1]
    /\ watermark' = [watermark EXCEPT ![p] = num + 1]
    /\ slot' = slot + 1

LEMMA ProduceGrows ==
    ASSUME ForkAssumption, NEW R, ForkInv(R), Produce
    PROVE  \E p, h, conf, x, cc, at : \E num \in Nat : Produces(p, h, num, conf, x, cc, at)
  <1>1. PICK p, h, hs : p = next_producer /\ h = head[p] /\ hs = HeadState(p) OBVIOUS
  <1>2. /\ p \in Scheduled /\ slot + 1 \in Nat
        /\ \A b \in 1 .. Len(blocks) : get_scheduled_producer(blocks[b].hs, slot + 1) = p
    BY <1>1, NextProducer
  <1>3. /\ Tree(blocks) /\ h \in 1 .. Len(blocks)
        /\ watermark \in [Scheduled -> Nat \cup {absent}]
    BY <1>1, <1>2 DEF ForkInv
  <1>4. hs = blocks[h].hs BY <1>1 DEF HeadState
  <1>5. Sound(blocks, h) /\ Branch(blocks, h) BY <1>3 DEF Tree
  <1>6. Regular(hs) BY <1>4, <1>5 DEF Sound
  <1>7. PICK num \in Nat : num = hs.block_num BY <1>6, RegularFacts
  <1>8. Number(blocks, h) = num BY <1>4, <1>7 DEF Number
  <1>9. PICK conf : conf = blocks_to_confirm(p, hs) OBVIOUS
  <1>10. PICK new : new = set_confirmed(generate_next(hs, slot + 1), conf) OBVIOUS
  <1>11. PICK x : x = [hs |-> new, chain |-> blocks[h].chain \cup {Len(blocks) + 1},
                       confirmed |-> conf,
                       accepted |-> blocks[h].accepted /\ double_confirm_check(hs, p, conf)]
    OBVIOUS
  <1>12. /\ watermark_allows(p, hs)
         /\ blocks' = Append(blocks, x)
         /\ head' = [head EXCEPT ![p] = Len(blocks) + 1]
         /\ watermark' = [watermark EXCEPT ![p] = new.block_num]
         /\ slot' = slot + 1
    BY <1>1, <1>9, <1>10, <1>11 DEF Produce
  <1>13. /\ conf \in 0 .. ConfirmRange - 1 /\ conf <= num /\ conf \in Nat
         /\ watermark[p] \in Nat => watermark[p] < num + 1 - conf
    BY <1>2, <1>3, <1>7, <1>9, <1>12, ConfirmsAbove
  <1>14. p = get_scheduled_producer(hs, slot + 1) BY <1>2, <1>3, <1>4
  <1>15. PICK cc, at : Follows(hs, slot + 1, p, conf, new, cc, at)
    BY <1>2, <1>6, <1>10, <1>13, <1>14, NextHeader
  <1>16. new \in HeaderState /\ new.block_num = num + 1
    BY <1>7, <1>15 DEF Follows, Regular
  <1>17. x \in Block
    <2>1. blocks[h].chain \cup {Len(blocks) + 1} \in SUBSET Nat
      <3>1. blocks[h].chain \subseteq 1 .. h BY <1>5 DEF Branch
      <3>2. Len(blocks) \in Nat BY <1>3 DEF Tree
      <3> QED BY <1>3, <3>1, <3>2
    <2>2. (blocks[h].accepted /\ double_confirm_check(hs, p, conf)) \in BOOLEAN OBVIOUS
    <2> QED BY <1>11, <1>13, <1>16, <2>1, <2>2, Zenon DEF Block
  <1>18. /\ x.chain = blocks[h].chain \cup {Len(blocks) + 1} /\ x.confirmed = conf
         /\ x.hs = new
    BY <1>11
  <1>19. x.accepted <=> blocks[h].accepted /\ double_confirm_check(blocks[h].hs, p, conf)
    BY <1>4, <1>11, Zenon
  <1>20. Grows(blocks, blocks', h, x, slot + 1, p, conf, cc, at)
    BY <1>2, <1>3, <1>4, <1>8, <1>12, <1>13, <1>15, <1>17, <1>18, <1>19, Zenon DEF Grows
  <1>21. Produces(p, h, num, conf, x, cc, at)
    BY <1>1, <1>2, <1>8, <1>12, <1>13, <1>16, <1>20, Zenon DEF Produces
  <1> QED BY <1>7, <1>21

LEMMA ProduceMemory ==
    ASSUME ForkAssumption, NEW R, ForkInv(R),
           NEW p, NEW h, NEW num \in Nat, NEW conf, NEW x, NEW cc, NEW at,
           Produces(p, h, num, conf, x, cc, at)
    PROVE  Memory(R)'
  <1>1. PICK B, C, id : B = blocks /\ C = blocks' /\ id = Len(B) + 1 OBVIOUS
  <1>2. /\ Grows(B, C, h, x, slot + 1, p, conf, cc, at) /\ num = Number(B, h)
        /\ p \in Scheduled /\ watermark' = [watermark EXCEPT ![p] = num + 1]
        /\ watermark[p] \in Nat => watermark[p] < num + 1 - conf
    BY <1>1 DEF Produces
  <1>3. New(B, C, h, x, p, conf, id) BY <1>1, <1>2, NewFacts
  <1>4. /\ Len(C) = Len(B) + 1 /\ Len(B) \in Nat /\ \A i \in 1 .. Len(B) : C[i] = B[i]
        /\ h \in 1 .. Len(B) /\ C[id] = x
    BY <1>1, <1>2, GrownTree
  <1>5. Memory(R) /\ watermark \in [Scheduled -> Nat \cup {absent}] BY DEF ForkInv
  <1>6. /\ conf \in Nat /\ Number(C, id) = num + 1 /\ C[id].hs.producer = p
        /\ \A c \in 1 .. Len(B) : Number(C, c) = Number(B, c)
    BY <1>2, <1>3 DEF New
  <1>7. Follows(B[h].hs, slot + 1, p, conf, x.hs, cc, at) /\ Regular(B[h].hs) /\ Tree(B)
    BY <1>2 DEF Grows, Tree, Sound
  <1>8. \A q \in Producer : x.hs.producer_to_last_produced[q] =
           IF q = p THEN num + 1 ELSE B[h].hs.producer_to_last_produced[q]
    <2>1. B[h].hs.producer_to_last_produced \in ProducerMap BY <1>7, RegularFacts
    <2>2. x.hs.producer_to_last_produced =
             [B[h].hs.producer_to_last_produced EXCEPT ![p] = num + 1]
      BY <1>2, <1>7 DEF Follows, Number
    <2> QED BY <2>1, <2>2 DEF ProducerMap
  <1>9. \A b \in 1 .. Len(C) : b \in 1 .. Len(B) \/ b = id BY <1>1, <1>4
  <1>10. \A b \in 1 .. Len(B) : /\ Number(B, b) \in Nat
                                /\ B[b].hs.producer_to_last_produced \in ProducerMap
    BY <1>7, RegularFacts DEF Tree, Sound, Number
  <1> SUFFICES ASSUME NEW q \in Scheduled \ R
               PROVE  /\ watermark'[q] \in Nat
                      /\ \A b \in 1 .. Len(C) :
                            /\ C[b].hs.producer_to_last_produced[q] <= watermark'[q]
                            /\ b # 1 /\ C[b].hs.producer = q => Number(C, b) <= watermark'[q]
    BY <1>1 DEF Memory
  <1>11. q \in Producer BY ScheduledFinite
  <1>12. PICK wm : wm = watermark[q] OBVIOUS
  <1>13. /\ wm \in Nat
         /\ \A b \in 1 .. Len(B) :
               /\ B[b].hs.producer_to_last_produced[q] <= wm
               /\ b # 1 /\ B[b].hs.producer = q => Number(B, b) <= wm
    BY <1>1, <1>5, <1>12 DEF Memory
  <1>14. \A b \in 1 .. Len(B) : B[b].hs.producer_to_last_produced[q] \in Int
    BY <1>10, <1>11 DEF ProducerMap, absent
  <1>15. CASE q = p
    <2>1. watermark'[q] = num + 1 BY <1>2, <1>5, <1>15
    <2>2. wm <= num + 1 BY <1>2, <1>6, <1>12, <1>13, <1>15
    <2>3. x.hs.producer_to_last_produced[q] = num + 1 BY <1>8, <1>11, <1>15
    <2>4. ASSUME NEW b \in 1 .. Len(B)
          PROVE  /\ C[b].hs.producer_to_last_produced[q] <= num + 1
                 /\ b # 1 /\ C[b].hs.producer = q => Number(C, b) <= num + 1
      <3>1. C[b] = B[b] /\ Number(C, b) = Number(B, b) BY <1>4, <1>6
      <3>2. B[b].hs.producer_to_last_produced[q] <= num + 1 BY <1>13, <1>14, <2>2
      <3>3. b # 1 /\ B[b].hs.producer = q => Number(B, b) <= num + 1
        <4>1. Number(B, b) <= wm => Number(B, b) <= num + 1 BY <1>10, <1>13, <2>2
        <4> QED BY <1>13, <4>1
      <3> QED BY <3>1, <3>2, <3>3
    <2>5. num + 1 <= num + 1 /\ num + 1 \in Nat OBVIOUS
    <2> QED BY <1>4, <1>6, <1>9, <2>1, <2>3, <2>4, <2>5
  <1>16. CASE q # p
    <2>1. watermark'[q] = wm BY <1>2, <1>5, <1>12, <1>16
    <2>2. x.hs.producer_to_last_produced[q] <= wm BY <1>4, <1>8, <1>11, <1>13, <1>16
    <2> QED BY <1>4, <1>6, <1>9, <1>13, <1>16, <2>1, <2>2
  <1> QED BY <1>15, <1>16

LEMMA ProduceApart ==
    ASSUME ForkAssumption, NEW R, ForkInv(R),
           NEW p, NEW h, NEW num \in Nat, NEW conf, NEW x, NEW cc, NEW at,
           Produces(p, h, num, conf, x, cc, at)
    PROVE  Apart(R)'
  <1>1. PICK B, C, id : B = blocks /\ C = blocks' /\ id = Len(B) + 1 OBVIOUS
  <1>2. /\ Grows(B, C, h, x, slot + 1, p, conf, cc, at) /\ num = Number(B, h)
        /\ p \in Scheduled
        /\ watermark[p] \in Nat => watermark[p] < num + 1 - conf
    BY <1>1 DEF Produces
  <1>3. New(B, C, h, x, p, conf, id) BY <1>1, <1>2, NewFacts
  <1>4. Len(C) = Len(B) + 1 /\ Len(B) \in Nat /\ Len(B) >= 1
    BY <1>1, <1>2, GrownTree
  <1>5. \A b \in 2 .. Len(C) : b \in 2 .. Len(B) \/ b = id BY <1>1, <1>4
  <1>6. \A c \in 2 .. Len(B) : /\ c \in 1 .. Len(B) /\ c # 1 /\ C[c] = B[c]
                               /\ SignedIn(C, c) = SignedIn(B, c) /\ Number(B, c) \in Nat
    <2>1. \A c \in 2 .. Len(B) : c \in 1 .. Len(B) /\ c # 1 BY <1>4
    <2>2. \A c \in 1 .. Len(B) : Number(B, c) \in Nat
      BY <1>2, RegularFacts DEF Grows, Tree, Sound, Number
    <2> QED BY <1>3, <2>1, <2>2 DEF New
  <1>7. /\ conf \in Nat /\ C[id].hs.producer = p
        /\ SignedIn(C, id) = (num + 1 - conf) .. (num + 1)
    BY <1>2, <1>3 DEF New, SignedIn
  <1>8. ASSUME NEW c \in 2 .. Len(B), B[c].hs.producer = p, p \notin R
        PROVE  SignedIn(C, id) \cap SignedIn(C, c) = {}
    <2>1. p \in Scheduled \ R BY <1>2, <1>8
    <2>2. PICK wm \in Nat : wm = watermark[p] /\ Number(B, c) <= wm
      <3>1. Memory(R) /\ c \in 1 .. Len(blocks) /\ c # 1 /\ blocks[c].hs.producer = p
        BY <1>1, <1>6, <1>8 DEF ForkInv
      <3> QED BY <1>1, <2>1, <3>1 DEF Memory
    <2>3. wm < num + 1 - conf BY <1>2, <2>2
    <2>4. \A n \in SignedIn(B, c) : n \in Int /\ n <= Number(B, c)
      <3>1. B[c].confirmed \in Nat
        <4>1. Sound(B, c) BY <1>2, <1>6 DEF Grows, Tree
        <4> QED BY <4>1 DEF Sound
      <3> QED BY <1>6, <3>1 DEF SignedIn
    <2>5. \A n \in SignedIn(B, c) : n < num + 1 - conf BY <1>6, <1>7, <2>2, <2>3, <2>4
    <2>6. \A n \in SignedIn(C, id) : n \in Int /\ n >= num + 1 - conf BY <1>7
    <2> QED BY <1>6, <1>7, <2>4, <2>5, <2>6
  <1>9. \A b, c \in 2 .. Len(B) :
           (/\ b # c /\ B[b].hs.producer = B[c].hs.producer
            /\ B[b].hs.producer \notin R) => SignedIn(B, b) \cap SignedIn(B, c) = {}
    BY <1>1 DEF ForkInv, Apart
  <1>10. \A b, c \in 2 .. Len(C) :
           (/\ b # c /\ C[b].hs.producer = C[c].hs.producer
            /\ C[b].hs.producer \notin R) => SignedIn(C, b) \cap SignedIn(C, c) = {}
    <2> SUFFICES ASSUME NEW b \in 2 .. Len(C), NEW c \in 2 .. Len(C), b # c,
                        C[b].hs.producer = C[c].hs.producer, C[b].hs.producer \notin R
                 PROVE  SignedIn(C, b) \cap SignedIn(C, c) = {}
      OBVIOUS
    <2>1. CASE b \in 2 .. Len(B) /\ c \in 2 .. Len(B) BY <1>6, <1>9, <2>1
    <2>2. CASE b = id /\ c \in 2 .. Len(B) BY <1>6, <1>7, <1>8, <2>2
    <2>3. CASE b \in 2 .. Len(B) /\ c = id
      <3>1. SignedIn(C, c) \cap SignedIn(C, b) = {} BY <1>6, <1>7, <1>8, <2>3
      <3> QED BY <3>1
    <2> QED BY <1>5, <2>1, <2>2, <2>3
  <1> QED BY <1>1, <1>10 DEF Apart

LEMMA ChecksPast ==
    ASSUME NEW hs, NEW p, NEW conf \in Nat, NEW num \in Nat, hs.block_num = num,
           NEW last \in Int, hs.producer_to_last_produced[p] = last, last < num + 1 - conf
    PROVE  double_confirm_check(hs, p, conf)
  BY DEF double_confirm_check

LEMMA ProduceInv ==
    ASSUME ForkAssumption, NEW R, ForkInv(R), Produce
    PROVE  ForkInv(R)'
  <1>1. PICK p, h, conf, x, cc, at :
           \E num \in Nat : Produces(p, h, num, conf, x, cc, at)
    BY ProduceGrows, Zenon
  <1>2. PICK num \in Nat : Produces(p, h, num, conf, x, cc, at) BY <1>1
  <1>3. PICK B, C : B = blocks /\ C = blocks' OBVIOUS
  <1>4. /\ Grows(B, C, h, x, slot + 1, p, conf, cc, at) /\ p \in Scheduled
        /\ num = Number(B, h) /\ (watermark[p] \in Nat => watermark[p] < num + 1 - conf)
        /\ head' = [head EXCEPT ![p] = Len(B) + 1] /\ slot' = slot + 1
        /\ watermark' = [watermark EXCEPT ![p] = num + 1]
    BY <1>2, <1>3 DEF Produces
  <1>5. Tree(C) BY <1>4, TreeGrows
  <1>6. /\ Len(C) = Len(B) + 1 /\ Len(B) \in Nat /\ \A i \in 1 .. Len(B) : C[i] = B[i]
        /\ C[Len(B) + 1] = x /\ h \in 1 .. Len(B)
    BY <1>4, GrownTree
  <1>7. head' \in [Scheduled -> 1 .. Len(C)]
    <2>1. head \in [Scheduled -> 1 .. Len(B)] BY <1>3 DEF ForkInv
    <2>2. 1 .. Len(B) \subseteq 1 .. Len(C) /\ Len(B) + 1 \in 1 .. Len(C) BY <1>6
    <2> QED BY <1>4, <2>1, <2>2
  <1>8. watermark' \in [Scheduled -> Nat \cup {absent}] /\ slot' \in Nat
    BY <1>4 DEF ForkInv
  <1>9. Memory(R)' BY <1>2, ProduceMemory
  <1>10. Apart(R)' BY <1>2, ProduceApart
  <1>11. ASSUME R = {} PROVE \A b \in 1 .. Len(C) : C[b].accepted
    <2>1. \A b \in 1 .. Len(B) : B[b].accepted BY <1>3, <1>11 DEF ForkInv
    <2>2. PICK wm \in Nat : /\ wm = watermark[p] /\ wm < num + 1 - conf
                            /\ B[h].hs.producer_to_last_produced[p] <= wm
      BY <1>3, <1>4, <1>6, <1>11 DEF ForkInv, Memory
    <2>3. Regular(B[h].hs) /\ conf \in Nat BY <1>4, <1>6 DEF Grows, Tree, Sound
    <2>4. PICK last \in Int : last = B[h].hs.producer_to_last_produced[p]
      <3>1. p \in Producer BY <1>4, ScheduledFinite
      <3> QED BY <2>3, <3>1, RegularFacts DEF ProducerMap, absent
    <2>5. last < num + 1 - conf BY <2>2, <2>3, <2>4
    <2>6. double_confirm_check(B[h].hs, p, conf)
      <3>1. num = B[h].hs.block_num BY <1>4 DEF Number
      <3> QED BY <2>3, <2>4, <2>5, <3>1, ChecksPast
    <2>7. x.accepted BY <1>4, <1>6, <2>1, <2>6, Zenon DEF Grows
    <2>8. \A b \in 1 .. Len(C) : b \in 1 .. Len(B) \/ b = Len(B) + 1 BY <1>6
    <2> QED BY <1>6, <2>1, <2>7, <2>8
  <1>12. (R = {} => \A b \in 1 .. Len(blocks) : blocks[b].accepted)' BY <1>3, <1>11
  <1> QED BY <1>3, <1>5, <1>7, <1>8, <1>9, <1>10, <1>12 DEF ForkInv

(* Only the node of a producer of R restarts.                              *)
RestartsIn(R) == Restart => next_producer \in R

LEMMA SameBlocks ==
    ASSUME NEW R, ForkInv(R), blocks' = blocks, watermark' = watermark
    PROVE  /\ Memory(R)' /\ Apart(R)' /\ Tree(blocks')
           /\ (R = {} => \A b \in 1 .. Len(blocks) : blocks[b].accepted)'
  BY DEF ForkInv, Memory, Apart

LEMMA InvStep ==
    ASSUME ForkAssumption, NEW R, ForkInv(R), [Next]_vars, [RestartsIn(R)]_vars
    PROVE  ForkInv(R)'
  <1>1. CASE Receive
    <2>1. PICK b \in DOMAIN blocks : head' = [head EXCEPT ![next_producer] = b]
      BY <1>1 DEF Receive
    <2>2. UNCHANGED <<blocks, watermark, slot>> BY <1>1 DEF Receive
    <2>3. DOMAIN blocks = 1 .. Len(blocks) BY DEF ForkInv, Tree
    <2>4. head' \in [Scheduled -> 1 .. Len(blocks)] BY <2>1, <2>3 DEF ForkInv
    <2> QED BY <2>2, <2>4, SameBlocks DEF ForkInv
  <1>2. CASE Produce BY <1>2, ProduceInv
  <1>3. CASE Miss
    <2>1. UNCHANGED <<blocks, head, watermark>> /\ slot' = slot + 1 BY <1>3 DEF Miss
    <2>2. slot' \in Nat BY <2>1 DEF ForkInv
    <2> QED BY <2>1, <2>2, SameBlocks DEF ForkInv
  <1>4. CASE Restart
    <2>1. /\ UNCHANGED <<blocks, head, slot>>
          /\ watermark' = [watermark EXCEPT ![next_producer] = absent]
          /\ watermark[next_producer] # absent
      BY <1>4 DEF Restart
    <2>2. next_producer \in Scheduled BY NextProducer
    <2>3. watermark' # watermark BY <2>1, <2>2 DEF ForkInv
    <2>4. next_producer \in R BY <1>4, <2>3 DEF RestartsIn, vars
    <2>5. \A q \in Scheduled \ R : watermark'[q] = watermark[q] BY <2>1, <2>4 DEF ForkInv
    <2>6. Memory(R)' BY <2>1, <2>5 DEF ForkInv, Memory
    <2>7. Apart(R)' BY <2>1 DEF ForkInv, Apart
    <2>8. watermark' \in [Scheduled -> Nat \cup {absent}] BY <2>1 DEF ForkInv
    <2> QED BY <2>1, <2>6, <2>7, <2>8 DEF ForkInv
  <1>5. CASE UNCHANGED vars BY <1>5, SameBlocks DEF vars, ForkInv
  <1> QED BY <1>1, <1>2, <1>3, <1>4, <1>5 DEF Next
-----------------------------------------------------------------------------
(* What the invariant gives.                                               *)

LEMMA LibSettledBelow ==
    ASSUME ForkAssumption, NEW h, Regular(h)
    PROVE  Lib(h) <= ProposedNum(h)
  <1>1. PICK irb : irb = h.producer_to_last_implied_irb OBVIOUS
  <1>2. irb \in ProducerMap /\ ProposedNum(h) \in Nat BY <1>1, RegularFacts
  <1>3. \A q \in Producer : irb[q] <= ProposedNum(h) BY <1>1 DEF Regular
  <1>4. Keys(irb) # {}
    <2>1. \A q \in Scheduled : q \in Producer /\ irb[q] # absent
      BY <1>1, ScheduledFinite DEF Regular
    <2> QED BY <2>1, ScheduledFinite DEF Keys
  <1>5. calc_dpos_last_irreversible(irb) \in Cands(irb)
    BY <1>2, <1>3, <1>4, CalcIsLeast
  <1>6. PICK q \in Producer : Lib(h) = irb[q] BY <1>1, <1>5 DEF Cands, Keys, Regular
  <1> QED BY <1>3, <1>6

(* The block of number n on a branch.                                      *)
LEMMA Ancestor ==
    ASSUME ForkAssumption, Tree(blocks), NEW b \in 1 .. Len(blocks),
           NEW n \in Nat, n <= Number(blocks, b)
    PROVE  /\ n <= Base => AncestorAt(b, n) = 1
           /\ n > Base => Number(blocks, AncestorAt(b, n)) = n
           /\ n > Base => \A c \in blocks[b].chain :
                             Number(blocks, c) = n => c = AncestorAt(b, n)
  <1>1. root.block_num = Base /\ Base = 4
    BY RootFacts DEF Tree, root, Base
  <1>2. Branch(blocks, b) BY DEF Tree
  <1>3. Number(blocks, b) \in Nat BY RegularFacts DEF Tree, Sound, Number
  <1>4. n <= Base => AncestorAt(b, n) = 1 BY <1>1 DEF AncestorAt
  <1>5. ASSUME n > Base
        PROVE  /\ Number(blocks, AncestorAt(b, n)) = n
               /\ \A c \in blocks[b].chain : Number(blocks, c) = n => c = AncestorAt(b, n)
    <2>1. n \in Base .. Number(blocks, b) BY <1>1, <1>3, <1>5
    <2>2. PICK c \in blocks[b].chain : Number(blocks, c) = n BY <1>2, <2>1 DEF Branch
    <2>3. \A d \in blocks[b].chain : Number(blocks, d) = n => d = c
      BY <1>2, <2>2 DEF Branch
    <2>4. ~ (n <= root.block_num) BY <1>1, <1>5
    <2>5. AncestorAt(b, n) = CHOOSE i \in blocks[b].chain : Number(blocks, i) = n
      BY <2>4 DEF AncestorAt, Number
    <2>6. AncestorAt(b, n) = c BY <2>2, <2>3, <2>5
    <2> QED BY <2>2, <2>3, <2>6
  <1> QED BY <1>4, <1>5

(* Two branches on which a quorum signed for n have the same block n.      *)
LEMMA SameBlock ==
    ASSUME ForkAssumption, NEW R \in SUBSET Scheduled, 3 * Cardinality(R) < Len(Order),
           ForkInv(R), NEW b \in 1 .. Len(blocks), NEW c \in 1 .. Len(blocks),
           NEW n \in Nat, n > Base,
           n <= Number(blocks, b), n <= Number(blocks, c),
           Settled(blocks, b, n), Settled(blocks, c, n)
    PROVE  AncestorAt(b, n) = AncestorAt(c, n)
  <1>1. PICK B : B = blocks OBVIOUS
  <1>2. Tree(B) /\ Len(B) \in Nat BY <1>1 DEF ForkInv, Tree
  <1>3. PICK S, T \in SUBSET Scheduled : S = Signers(B, b, n) /\ T = Signers(B, c, n)
    BY SignersFinite
  <1>4. Cardinality(S) >= Needed /\ Cardinality(T) >= Needed BY <1>1, <1>3 DEF Settled
  <1>5. PICK p \in S \cap T : p \notin R BY <1>4, QuorumsMeet
  <1>6. PICK d \in B[b].chain \ {1} : B[d].hs.producer = p /\ n \in SignedIn(B, d)
    BY <1>3, <1>5 DEF Signers
  <1>7. PICK e \in B[c].chain \ {1} : B[e].hs.producer = p /\ n \in SignedIn(B, e)
    BY <1>3, <1>5 DEF Signers
  <1>8. Branch(B, b) /\ Branch(B, c) BY <1>1, <1>2 DEF Tree
  <1>9. d \in 2 .. Len(B) /\ e \in 2 .. Len(B)
    <2>1. B[b].chain \subseteq 1 .. b /\ B[c].chain \subseteq 1 .. c BY <1>8 DEF Branch
    <2> QED BY <1>1, <1>2, <1>6, <1>7, <2>1
  <1>10. d = e
    <2>1. Apart(R) BY DEF ForkInv
    <2>2. n \in SignedIn(B, d) \cap SignedIn(B, e) BY <1>6, <1>7
    <2> QED BY <1>1, <1>5, <1>6, <1>7, <1>9, <2>1, <2>2 DEF Apart
  <1>11. d \in 1 .. Len(B) BY <1>2, <1>9
  <1>12. Branch(B, d) /\ Number(B, d) \in Nat
    BY <1>2, <1>11, RegularFacts DEF Tree, Sound, Number
  <1>13. n <= Number(B, d) BY <1>6 DEF SignedIn
  <1>14. n \in Base .. Number(B, d) BY <1>12, <1>13 DEF Base
  <1>15. PICK k \in B[d].chain : Number(B, k) = n BY <1>12, <1>14 DEF Branch
  <1>16. k \in B[b].chain /\ k \in B[c].chain BY <1>6, <1>7, <1>8, <1>10, <1>15 DEF Branch
  <1>17. k = AncestorAt(b, n) BY <1>1, <1>2, <1>15, <1>16, Ancestor
  <1>18. k = AncestorAt(c, n) BY <1>1, <1>2, <1>15, <1>16, Ancestor
  <1> QED BY <1>17, <1>18

(* The block that b proposes, or that it makes irreversible.               *)
LEMMA SettledBlock ==
    ASSUME ForkAssumption, Tree(blocks), NEW b \in 1 .. Len(blocks), blocks[b].accepted,
           NEW x \in {Proposed(b), Irreversible(b)}
    PROVE  \E n \in Nat : /\ x = AncestorAt(b, n) /\ n <= Number(blocks, b)
                          /\ Settled(blocks, b, n)
  <1>1. Sound(blocks, b) /\ Counted(blocks, b) BY DEF Tree
  <1>2. PICK h : h = blocks[b].hs OBVIOUS
  <1>3. Regular(h) /\ Settled(blocks, b, ProposedNum(h)) /\ Settled(blocks, b, Lib(h))
    BY <1>1, <1>2 DEF Sound, Counted, Settles
  <1>4. /\ ProposedNum(h) \in Nat /\ Lib(h) \in Nat /\ h.block_num \in Nat
        /\ ProposedNum(h) <= h.block_num /\ Lib(h) <= ProposedNum(h)
    BY <1>3, RegularFacts, LibSettledBelow
  <1>5. Lib(h) <= h.block_num BY <1>4
  <1>6. Number(blocks, b) = h.block_num BY <1>2 DEF Number
  <1>7. x = AncestorAt(b, ProposedNum(h)) \/ x = AncestorAt(b, Lib(h))
    BY <1>2 DEF Proposed, Irreversible, ProposedNum, Lib
  <1> QED BY <1>3, <1>4, <1>5, <1>6, <1>7

LEMMA InvSettles ==
    ASSUME ForkAssumption, NEW R \in SUBSET Scheduled, 3 * Cardinality(R) < Len(Order),
           ForkInv(R)
    PROVE  SettledUnique
  <1>1. Tree(blocks) /\ DOMAIN blocks = 1 .. Len(blocks) BY DEF ForkInv, Tree
  <1> SUFFICES ASSUME NEW b \in 1 .. Len(blocks), blocks[b].accepted,
                      NEW c \in 1 .. Len(blocks), blocks[c].accepted,
                      NEW x \in {Proposed(b), Irreversible(b)},
                      NEW y \in {Proposed(c), Irreversible(c)},
                      Number(blocks, x) = Number(blocks, y)
               PROVE  x = y
    BY <1>1 DEF SettledUnique, Number
  <1>2. PICK n \in Nat : /\ x = AncestorAt(b, n) /\ n <= Number(blocks, b)
                         /\ Settled(blocks, b, n)
    BY <1>1, SettledBlock
  <1>3. PICK m \in Nat : /\ y = AncestorAt(c, m) /\ m <= Number(blocks, c)
                         /\ Settled(blocks, c, m)
    BY <1>1, SettledBlock
  <1>4. Number(blocks, 1) = Base /\ Base = 4
    BY <1>1, RootFacts DEF Tree, Number, Base
  <1>5. (n <= Base => x = 1) /\ (n > Base => Number(blocks, x) = n)
    BY <1>1, <1>2, Ancestor
  <1>6. (m <= Base => y = 1) /\ (m > Base => Number(blocks, y) = m)
    BY <1>1, <1>3, Ancestor
  <1>7. CASE n <= Base
    <2>1. ~ (m > Base) BY <1>4, <1>5, <1>6, <1>7
    <2> QED BY <1>4, <1>5, <1>6, <1>7, <2>1
  <1>8. CASE n > Base
    <2>1. m > Base BY <1>4, <1>5, <1>6, <1>8
    <2>2. m = n BY <1>5, <1>6, <1>8, <2>1
    <2> QED BY <1>2, <1>3, <1>8, <2>2, SameBlock
  <1> QED BY <1>4, <1>7, <1>8

LEMMA NoRestarts ==
    ASSUME ForkAssumption
    PROVE  {} \in SUBSET Scheduled /\ 3 * Cardinality({}) < Len(Order)
  <1>1. Cardinality({}) = 0 BY FS_EmptySet
  <1>2. Len(Order) \in Nat /\ Len(Order) > 0 BY DEF ForkAssumption
  <1> QED BY <1>1, <1>2

LEMMA InvTypes ==
    ASSUME NEW R, ForkInv(R)
    PROVE  TypeOK
  <1>1. Tree(blocks) /\ DOMAIN blocks = 1 .. Len(blocks) BY DEF ForkInv, Tree
  <1>2. ASSUME NEW b \in 1 .. Len(blocks)
        PROVE  /\ blocks[b].hs \in HeaderState /\ blocks[b].chain \subseteq 1 .. b
               /\ blocks[b].confirmed \in 0 .. ConfirmRange - 1
    BY <1>1 DEF Tree, Sound, Branch, Regular
  <1> QED BY <1>1, <1>2 DEF TypeOK, ForkInv
-----------------------------------------------------------------------------
(* The header states of all blocks, on whatever branches the producers and *)
(* their restarting nodes build, have the types of block_header_state: no  *)
(* confirmation count leaves its uint8_t, no schedule is malformed, heads  *)
(* are blocks that exist.                                                  *)
THEOREM ForkTypes ==
    ASSUME ForkAssumption
    PROVE  Spec => []TypeOK
  <1>1. Init => ForkInv(Scheduled) BY InitInv
  <1>2. ForkInv(Scheduled) /\ [Next]_vars => ForkInv(Scheduled)'
    <2> SUFFICES ASSUME ForkInv(Scheduled), [Next]_vars
                 PROVE  ForkInv(Scheduled)'
      OBVIOUS
    <2>1. next_producer \in Scheduled BY NextProducer
    <2>2. [RestartsIn(Scheduled)]_vars BY <2>1 DEF RestartsIn
    <2> QED BY <2>2, InvStep
  <1>3. ForkInv(Scheduled) => TypeOK BY InvTypes
  <1> QED BY <1>1, <1>2, <1>3, PTL DEF Spec

(* generate_next and set_confirmed never lower, along a branch, the block  *)
(* that is proposed irreversible nor the one that is irreversible, however *)
(* the producers fork and restart.                                         *)
THEOREM BranchesOnlyAdvance ==
    ASSUME ForkAssumption
    PROVE  Spec => []NeverTakenBack
  <1>1. Init => ForkInv(Scheduled) BY InitInv
  <1>2. ForkInv(Scheduled) /\ [Next]_vars => ForkInv(Scheduled)'
    <2> SUFFICES ASSUME ForkInv(Scheduled), [Next]_vars
                 PROVE  ForkInv(Scheduled)'
      OBVIOUS
    <2>1. next_producer \in Scheduled BY NextProducer
    <2>2. [RestartsIn(Scheduled)]_vars BY <2>1 DEF RestartsIn
    <2> QED BY <2>2, InvStep
  <1>3. ForkInv(Scheduled) => NeverTakenBack
    <2> SUFFICES ASSUME ForkInv(Scheduled) PROVE NeverTakenBack
      OBVIOUS
    <2>1. Tree(blocks) /\ DOMAIN blocks = 1 .. Len(blocks) BY DEF ForkInv, Tree
    <2>2. \A b \in 1 .. Len(blocks) : Forward(blocks, b) BY <2>1 DEF Tree
    <2> QED BY <2>1, <2>2 DEF NeverTakenBack, Forward, Lib, ProposedNum
  <1> QED BY <1>1, <1>2, <1>3, PTL DEF Spec

(* The uniqueness of settled blocks (block_header_state, producer_plugin): *)
(* while the nodes of fewer than a third of the producers restart, no two  *)
(* accepted branches propose, or make irreversible, different blocks of    *)
(* one number, whatever blocks are delayed, lost or built in parallel.     *)
THEOREM SettledBlocksAreUnique ==
    ASSUME ForkAssumption, NEW R \in SUBSET Scheduled, 3 * Cardinality(R) < Len(Order)
    PROVE  Spec /\ [][Restart => next_producer \in R]_vars => []SettledUnique
  <1>1. Init => ForkInv(R) BY InitInv
  <1>2. ForkInv(R) /\ [Next]_vars /\ [Restart => next_producer \in R]_vars => ForkInv(R)'
    BY InvStep DEF RestartsIn
  <1>3. ForkInv(R) => SettledUnique BY InvSettles
  <1> QED BY <1>1, <1>2, <1>3, PTL DEF Spec

(* The watermarks of producer_plugin without restarts: no producer signs   *)
(* blocks with overlapping ranges (block_header.hpp), and the check of     *)
(* block_header_state::next refuses no block that is produced.             *)
AllAccepted == \A b \in DOMAIN blocks : blocks[b].accepted

THEOREM WatermarksSuffice ==
    ASSUME ForkAssumption
    PROVE  Spec /\ [][~ Restart]_vars => [](NoOverlap /\ AllAccepted)
  <1>1. Init => ForkInv({}) BY InitInv
  <1>2. ForkInv({}) /\ [Next]_vars /\ [~ Restart]_vars => ForkInv({})'
    BY InvStep DEF RestartsIn
  <1>3. ForkInv({}) => NoOverlap /\ AllAccepted
    <2> SUFFICES ASSUME ForkInv({}) PROVE NoOverlap /\ AllAccepted
      OBVIOUS
    <2>1. Tree(blocks) /\ DOMAIN blocks = 1 .. Len(blocks) /\ Len(blocks) \in Nat
      BY DEF ForkInv, Tree
    <2>2. AllAccepted BY <2>1 DEF ForkInv, AllAccepted
    <2>3. \A b \in DOMAIN blocks \ {1} : b \in 2 .. Len(blocks) BY <2>1
    <2>4. \A b : Signed(b) = SignedIn(blocks, b) BY DEF Signed, SignedIn, Number
    <2>5. NoOverlap BY <2>3, <2>4 DEF ForkInv, Apart, NoOverlap
    <2> QED BY <2>2, <2>5
  <1> QED BY <1>1, <1>2, <1>3, PTL DEF Spec

(* Of all blocks of one number, on all branches, at most one is proposed   *)
(* irreversible while no node restarts: quorums of set_confirmed meet in a *)
(* producer whose watermark let it sign once.                              *)
THEOREM ProposedBlocksAreUnique ==
    ASSUME ForkAssumption
    PROVE  Spec /\ [][~ Restart]_vars => []ProposedUnique
  <1>1. Init => ForkInv({}) BY InitInv
  <1>2. ForkInv({}) /\ [Next]_vars /\ [~ Restart]_vars => ForkInv({})'
    BY InvStep DEF RestartsIn
  <1>3. ForkInv({}) => ProposedUnique
    <2> SUFFICES ASSUME ForkInv({}) PROVE ProposedUnique
      OBVIOUS
    <2>1. SettledUnique BY NoRestarts, InvSettles
    <2>2. \A b \in DOMAIN blocks : blocks[b].accepted BY DEF ForkInv, Tree
    <2> QED BY <2>1, <2>2 DEF SettledUnique, ProposedUnique
  <1> QED BY <1>1, <1>2, <1>3, PTL DEF Spec
=============================================================================

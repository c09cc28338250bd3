------------------------ MODULE TransactionFlowProofs ------------------------
(***************************************************************************)
(* Proofs about TransactionFlow for any transactions, requests, times and  *)
(* lengths of the chain: a request is answered once and leaves the queue   *)
(* only with its answer, no transaction is included twice, and none that   *)
(* was accepted is lost.                                                   *)
(*                                                                         *)
(* The argument for the chain is about one block: it Follows the blocks    *)
(* before it when its dedupe index holds exactly the ids of theirs that    *)
(* may still come.  Every way to get a block, from a peer, by producing    *)
(* it or by switching forks and back, makes one that follows.              *)
(***************************************************************************)
EXTENDS TransactionFlow, FiniteSetTheorems, SequenceTheorems, TLAPS

Blocks == [time : Nat, trxs : SUBSET Signed, known : SUBSET Ids]

PendingBlocks == [mode : {"none", "producing", "speculating"}, time : Nat,
                  trxs : SUBSET Signed, known : SUBSET Ids]
Works == [phase : Phases, apply : SUBSET Signed, scheduled : Int, orig : Nat,
          weight : Int]

Types ==
    /\ clock \in Nat
    /\ pend \in PendingBlocks
    /\ unapplied \in SUBSET Signed /\ persistent \in SUBSET Ids
    /\ queue \in Seq(Requests)
    /\ work \in Works
    /\ answers \in [Requests -> Seq({"trace", "error"})]
    /\ failed \in SUBSET Ids

(* start_block works on a pending block, on transactions that are still    *)
(* unapplied and on requests that are still in the queue.                  *)
Working ==
    /\ pend.mode = "none" => pend = NoBlock
    /\ work.phase # "idle" => pend.mode # "none"
    /\ work.apply \subseteq unapplied
    /\ work.phase # "unapplied" => work.apply = {}
    /\ work.orig <= Len(queue)

(* The queue holds no request twice and none with an answer.               *)
Queued ==
    /\ \A j, k \in 1 .. Len(queue) : queue[j] = queue[k] => j = k
    /\ \A j \in 1 .. Len(queue) : Len(answers[queue[j]]) = 0
    /\ \A r \in Requests : Len(answers[r]) <= 1

(* An id is in one of the first n blocks of c.                             *)
Holds(c, n, i) == \E j \in 1 .. n : \E s \in c[j].trxs : IdOf[s] = i

(* Block b may come after the first n blocks of c.                         *)
Follows(c, n, b) ==
    /\ \A j \in 1 .. n : c[j].time < b.time
    /\ \A s \in b.trxs : /\ b.time <= Expiration[IdOf[s]] /\ IdOf[s] \in b.known
                         /\ ~ Holds(c, n, IdOf[s])
    /\ \A i \in Ids : Holds(c, n, i) /\ b.time <= Expiration[i] => i \in b.known
    /\ \A i \in b.known : Holds(c, n, i) \/ \E s \in b.trxs : IdOf[s] = i

Sound(c) ==
    /\ c \in Seq(Blocks) /\ Len(c) >= 1
    /\ \A k \in 1 .. Len(c) : Follows(c, k - 1, c[k])

Included ==
    /\ Sound(chain)
    /\ pend.mode # "none" => Follows(chain, Len(chain), pend)

(* No block is later than the clock allows.                                *)
Timely ==
    /\ \A k \in 1 .. Len(chain) : chain[k].time <= clock + 1
    /\ pend.time <= clock + 2

(* An id is in the chain or in an unapplied transaction.                   *)
Kept(st, i) ==
    \/ Holds(st.chain, Len(st.chain), i)
    \/ \E s \in st.unapplied : IdOf[s] = i

(* Where an accepted id is, and what a node without producers needs to     *)
(* apply it again.                                                         *)
Somewhere(i) ==
    \/ Kept(State(chain, unapplied), i)
    \/ \E s \in pend.trxs : IdOf[s] = i
    \/ i \in failed
    \/ Gone(i)
Persisted(i) == i \in persistent \/ Expiration[i] <= Horizon

Accepted(r) == answers[r] = <<"trace">>
Id(r) == IdOf[TrxOf[r]]

Remembered ==
    \A r \in Requests : Accepted(r) =>
        /\ r \in Persist => Persisted(Id(r))
        /\ HasProducers \/ r \in Persist => Somewhere(Id(r))

(* The inductive invariant.                                                *)
FlowInv == Types /\ Working /\ Queued /\ Included /\ Timely /\ Remembered
-----------------------------------------------------------------------------
(* Chains.                                                                 *)

(* A block that follows makes the chain longer and leaves it sound.        *)
LEMMA AppendSound ==
    ASSUME NEW c, Sound(c), NEW b \in Blocks, Follows(c, Len(c), b)
    PROVE  /\ Sound(Append(c, b))
           /\ Len(Append(c, b)) = Len(c) + 1
           /\ Append(c, b)[Len(c) + 1] = b
           /\ \A j \in 1 .. Len(c) : Append(c, b)[j] = c[j]
  <1> DEFINE d == Append(c, b)
  <1>1. /\ d \in Seq(Blocks) /\ Len(d) = Len(c) + 1 /\ Len(c) \in Nat
        /\ d[Len(c) + 1] = b /\ \A j \in 1 .. Len(c) : d[j] = c[j]
    BY DEF Sound
  <1> HIDE DEF d
  <1>2. ASSUME NEW k \in 1 .. Len(d) PROVE Follows(d, k - 1, d[k])
    <2>1. \A n \in 0 .. Len(c) : \A i : Holds(d, n, i) <=> Holds(c, n, i)
      BY <1>1 DEF Holds
    <2>2. Follows(c, k - 1, d[k]) BY <1>1 DEF Sound
    <2> QED BY <1>1, <2>1, <2>2 DEF Follows
  <1> QED BY <1>1, <1>2 DEF Sound, d

(* Without its last block a chain is sound, and that block follows it.     *)
LEMMA FrontSound ==
    ASSUME NEW c, Sound(c), Len(c) > 1
    PROVE  /\ Sound(Front(c)) /\ Follows(Front(c), Len(Front(c)), Last(c))
           /\ Len(Front(c)) = Len(c) - 1 /\ Last(c) \in Blocks
           /\ \A j \in 1 .. Len(c) - 1 : Front(c)[j] = c[j]
  <1> DEFINE d == Front(c)
  <1>1. /\ d \in Seq(Blocks) /\ Len(d) = Len(c) - 1 /\ Len(c) \in Nat
        /\ \A j \in 1 .. Len(d) : d[j] = c[j]
        /\ Last(c) \in Blocks /\ Last(c) = c[Len(c)]
    BY DEF Sound, Front, Last
  <1> HIDE DEF d
  <1>2. ASSUME NEW k \in 1 .. Len(c) PROVE Follows(d, k - 1, c[k])
    <2>1. \A n \in 0 .. Len(d) : \A i : Holds(d, n, i) <=> Holds(c, n, i)
      BY <1>1 DEF Holds
    <2>2. Follows(c, k - 1, c[k]) BY DEF Sound
    <2> QED BY <1>1, <2>1, <2>2 DEF Follows
  <1>3. Len(d) >= 1 /\ Len(c) \in 1 .. Len(c) /\ Len(d) = Len(c) - 1 BY <1>1
  <1>4. \A k \in 1 .. Len(d) : Follows(d, k - 1, d[k]) BY <1>1, <1>2
  <1> QED BY <1>1, <1>2, <1>3, <1>4 DEF Sound, d

(* The last block of a sound chain is the latest.                          *)
LEMMA LastIsLatest ==
    ASSUME NEW c, Sound(c)
    PROVE  /\ Last(c) \in Blocks /\ Last(c) = c[Len(c)] /\ Len(c) \in Nat
           /\ Follows(c, Len(c) - 1, Last(c))
           /\ \A j \in 1 .. Len(c) : c[j] \in Blocks /\ c[j].time <= Last(c).time
  <1>1. /\ Len(c) \in Nat /\ Len(c) \in 1 .. Len(c)
        /\ \A j \in 1 .. Len(c) : c[j] \in Blocks
    BY DEF Sound
  <1>2. Follows(c, Len(c) - 1, c[Len(c)]) BY <1>1 DEF Sound
  <1>3. \A j \in 1 .. Len(c) - 1 : c[j].time < c[Len(c)].time BY <1>2 DEF Follows
  <1>4. \A j \in 1 .. Len(c) : c[j].time \in Nat BY <1>1 DEF Blocks
  <1> QED BY <1>1, <1>2, <1>3, <1>4 DEF Last

(* The dedupe index after clearing: exactly the ids of the chain that are  *)
(* still valid at that time, of those the last block knew.                 *)
LEMMA ClearCovers ==
    ASSUME NEW c, Sound(c), NEW t \in Nat, Last(c).time <= t
    PROVE  /\ clear_expired_input_transactions(Last(c).known, t) \in SUBSET Ids
           /\ \A i \in Ids : Holds(c, Len(c), i) /\ t <= Expiration[i]
                => i \in clear_expired_input_transactions(Last(c).known, t)
           /\ \A i \in clear_expired_input_transactions(Last(c).known, t) :
                Holds(c, Len(c), i)
  <1> USE FlowAssumption DEF Ids
  <1>1. /\ Last(c) \in Blocks /\ Last(c) = c[Len(c)] /\ Len(c) \in Nat /\ Len(c) >= 1
        /\ Follows(c, Len(c) - 1, Last(c))
    BY LastIsLatest DEF Sound
  <1>2. Last(c).known \subseteq Ids /\ Last(c).time \in Nat BY <1>1 DEF Blocks
  <1>3. \A i : Holds(c, Len(c), i)
                 <=> Holds(c, Len(c) - 1, i) \/ \E s \in Last(c).trxs : IdOf[s] = i
    <2>1. 1 .. Len(c) = (1 .. Len(c) - 1) \cup {Len(c)} BY <1>1
    <2> QED BY <1>1, <2>1 DEF Holds
  <1>4. \A i \in Last(c).known : Holds(c, Len(c), i) BY <1>1, <1>3 DEF Follows
  <1>5. ASSUME NEW i \in Ids, Holds(c, Len(c), i), t <= Expiration[i]
        PROVE  i \in Last(c).known
    <2>1. Last(c).time <= Expiration[i] BY <1>2, <1>5
    <2> QED BY <1>1, <1>3, <1>5, <2>1 DEF Follows
  <1>6. \A i \in Ids : t <= Expiration[i] => ~ (t > Expiration[i]) OBVIOUS
  <1> QED BY <1>2, <1>4, <1>5, <1>6 DEF clear_expired_input_transactions

(* A block with transactions that are valid and not in the chain follows,  *)
(* with the dedupe index that apply_block gives it.                        *)
LEMMA ApplyFollows ==
    ASSUME NEW c, Sound(c), NEW t \in Nat, Last(c).time < t, NEW S \in SUBSET Signed,
           \A s \in S : t <= Expiration[IdOf[s]] /\ ~ Holds(c, Len(c), IdOf[s])
    PROVE  LET b == Block(t, S, clear_expired_input_transactions(Last(c).known, t)
                                \cup IdsOf(S))
           IN b \in Blocks /\ Follows(c, Len(c), b)
  <1> DEFINE known == clear_expired_input_transactions(Last(c).known, t)
             b == Block(t, S, known \cup IdsOf(S))
  <1>1. /\ known \in SUBSET Ids
        /\ \A i \in Ids : Holds(c, Len(c), i) /\ t <= Expiration[i] => i \in known
        /\ \A i \in known : Holds(c, Len(c), i)
    <2>1. Last(c).time <= t BY LastIsLatest DEF Blocks
    <2> QED BY ClearCovers, <2>1
  <1> HIDE DEF known
  <1>2. IdsOf(S) \in SUBSET Ids /\ \A s \in S : IdOf[s] \in IdsOf(S)
    BY FlowAssumption DEF IdsOf, Ids
  <1>3. \A i \in IdsOf(S) : \E s \in S : IdOf[s] = i BY DEF IdsOf
  <1>4. /\ b \in Blocks
        /\ b.time = t /\ b.trxs = S /\ b.known = known \cup IdsOf(S)
    BY <1>1, <1>2 DEF Block, Blocks
  <1>5. \A j \in 1 .. Len(c) : c[j].time < t BY LastIsLatest DEF Blocks
  <1> HIDE DEF b
  <1>6. Follows(c, Len(c), b) BY <1>1, <1>2, <1>3, <1>4, <1>5 DEF Follows
  <1> QED BY <1>4, <1>6 DEF b, known

(* What a node checks of a block from a peer makes its transactions new.   *)
LEMMA ValidIsNew ==
    ASSUME NEW c, Sound(c), NEW t \in Nat, NEW S \in SUBSET Signed, ValidBlock(c, t, S)
    PROVE  /\ Last(c).time < t
           /\ \A s \in S : t <= Expiration[IdOf[s]] /\ ~ Holds(c, Len(c), IdOf[s])
  <1>1. /\ Last(c).time \in Nat /\ Last(c).time < t
        /\ \A s \in S : IdOf[s] \in Ids /\ IdOf[s] \in IdsOf(S)
                        /\ t <= Expiration[IdOf[s]]
    BY LastIsLatest, FlowAssumption DEF Blocks, ValidBlock, Ids, IdsOf
  <1>2. \A i \in Ids : Holds(c, Len(c), i) /\ t <= Expiration[i]
                => i \in clear_expired_input_transactions(Last(c).known, t)
    BY ClearCovers, <1>1
  <1> QED BY <1>1, <1>2 DEF ValidBlock
-----------------------------------------------------------------------------
(* Popping and applying blocks loses no transaction.                       *)

LEMMA PopKeeps ==
    ASSUME NEW c, Sound(c), Len(c) > 1, NEW una, NEW i, Kept(State(c, una), i)
    PROVE  Kept(pop_block(State(c, una)), i)
  <1>1. /\ Len(Front(c)) = Len(c) - 1 /\ Len(c) \in Nat /\ Last(c) = c[Len(c)]
        /\ \A j \in 1 .. Len(c) - 1 : Front(c)[j] = c[j]
    BY FrontSound, LastIsLatest
  <1> QED BY <1>1 DEF Kept, Holds, pop_block, State

LEMMA ApplyKeeps ==
    ASSUME NEW c, NEW n \in Nat, Len(c) = n, NEW una, NEW S, NEW d, NEW b, b.trxs = S,
           Len(d) = n + 1, d[n + 1] = b, \A j \in 1 .. n : d[j] = c[j],
           NEW i, Kept(State(c, una), i)
    PROVE  Kept(State(d, una \ S), i)
  BY DEF Kept, Holds, State
-----------------------------------------------------------------------------
(* One call with a transaction or a request.                               *)

(* A transaction goes into the pending block only if it is new there, and  *)
(* then the block still follows the chain.                                 *)
LEMMA PushFollows ==
    ASSUME FlowInv, pend.mode # "none", NEW s \in Signed, NEW result,
           push_transaction(s, result), UNCHANGED chain
    PROVE  /\ pend' \in PendingBlocks
           /\ pend'.mode = pend.mode /\ pend'.time = pend.time
           /\ pend.trxs \subseteq pend'.trxs
           /\ result = "accepted" => s \in pend'.trxs
           /\ Follows(chain, Len(chain), pend')
  <1>1. /\ pend \in PendingBlocks
        /\ IdOf[s] \in Ids /\ Follows(chain, Len(chain), pend)
    BY FlowAssumption DEF FlowInv, Types, Included, Ids
  <1> USE DEF PendingBlocks
  <1>2. CASE result = "accepted"
    <2>1. /\ pend.time <= Expiration[IdOf[s]] /\ IdOf[s] \notin pend.known
      BY <1>1, <1>2, FlowAssumption DEF push_transaction, Results, Ids
    <2>2. pend' = [pend EXCEPT !.trxs = pend.trxs \cup {s},
                               !.known = pend.known \cup {IdOf[s]}]
      BY <1>2 DEF push_transaction
    <2>3. /\ pend' \in PendingBlocks
          /\ pend'.mode = pend.mode /\ pend'.time = pend.time
          /\ pend'.trxs = pend.trxs \cup {s} /\ pend'.known = pend.known \cup {IdOf[s]}
      BY <1>1, <2>2
    <2>4. ~ Holds(chain, Len(chain), IdOf[s]) BY <1>1, <2>1 DEF Follows
    <2>5. Follows(chain, Len(chain), pend') BY <1>1, <2>1, <2>3, <2>4 DEF Follows
    <2> QED BY <2>3, <2>5
  <1>3. CASE result # "accepted" BY <1>1, <1>3 DEF push_transaction
  <1> QED BY <1>2, <1>3

(* The queue that a call with r finds.                                     *)
Finds(q, r) ==
    /\ q \in Seq(Requests)
    /\ \A j, k \in 1 .. Len(q) : q[j] = q[k] => j = k
    /\ \A j \in 1 .. Len(q) : q[j] # r /\ Len(answers[q[j]]) = 0
    /\ Len(answers[r]) = 0

(* The call answers r or queues it behind the others, and touches no other *)
(* request.                                                                *)
Answers(q, r) ==
    \/ queue' = q /\ \E a \in {"trace", "error"} : send_response(r, a)
    \/ queue' = Append(q, r) /\ answers' = answers

LEMMA QueueKept ==
    ASSUME Types, Queued, NEW r \in Requests, NEW q, Finds(q, r), Answers(q, r)
    PROVE  /\ queue' \in Seq(Requests) /\ Len(queue') >= Len(q) /\ Queued'
           /\ answers' \in [Requests -> Seq({"trace", "error"})]
           /\ \A x \in Requests : x # r => answers'[x] = answers[x]
           /\ \A j \in 1 .. Len(q) : Contains(queue', q[j])
           /\ Contains(queue', r) \/ answers'[r] # <<>>
  <1>0. /\ answers \in [Requests -> Seq({"trace", "error"})] BY DEF Types
  <1>1. CASE queue' = q /\ \E a \in {"trace", "error"} : send_response(r, a)
    <2>1. PICK a \in {"trace", "error"} : send_response(r, a) BY <1>1
    <2>2. answers' = [answers EXCEPT ![r] = Append(answers[r], a)]
      BY <2>1 DEF send_response
    <2>3. /\ answers' \in [Requests -> Seq({"trace", "error"})]
          /\ Len(answers'[r]) = 1
          /\ \A x \in Requests : x # r => answers'[x] = answers[x]
      BY <1>0, <2>2 DEF Finds
    <2>4. Len(<<>>) # 1 OBVIOUS
    <2>5. answers'[r] # <<>> BY <2>3, <2>4, Zenon
    <2>6. Queued'
      <3>1. \A j \in 1 .. Len(queue') : Len(answers'[queue'[j]]) = 0
        <4>1. \A j \in 1 .. Len(q) : q[j] \in Requests BY DEF Finds
        <4> QED BY <1>1, <2>3, <4>1 DEF Finds
      <3>2. ASSUME NEW x \in Requests PROVE Len(answers'[x]) <= 1
        <4>1. CASE x = r
          <5>1. Len(answers'[x]) = 1 BY <2>3, <4>1, Zenon
          <5> QED BY <5>1
        <4>2. CASE x # r
          <5>1. answers'[x] = answers[x] BY <2>3, <4>2
          <5> QED BY <5>1 DEF Queued
        <4> QED BY <4>1, <4>2
      <3>3. \A j, k \in 1 .. Len(queue') : queue'[j] = queue'[k] => j = k
        BY <1>1 DEF Finds
      <3> QED BY <3>1, <3>2, <3>3 DEF Queued
    <2> QED BY <1>0, <1>1, <2>3, <2>5, <2>6 DEF Finds, Contains
  <1>2. CASE queue' = Append(q, r) /\ answers' = answers
    <2>1. /\ queue' \in Seq(Requests) /\ Len(queue') = Len(q) + 1 /\ Len(q) \in Nat
          /\ queue'[Len(q) + 1] = r /\ \A j \in 1 .. Len(q) : queue'[j] = q[j]
          /\ \A j \in 1 .. Len(queue') : j \in 1 .. Len(q) \/ j = Len(q) + 1
      BY <1>2 DEF Finds
    <2> QED BY <1>0, <1>2, <2>1 DEF Queued, Finds, Contains
  <1> QED BY <1>1, <1>2 DEF Answers

(* What a call with a request does.                                        *)
LEMMA IncomingKeeps ==
    ASSUME FlowInv, NEW r \in Requests, NEW q, Finds(q, r),
           on_incoming_transaction_async(r, q), UNCHANGED <<clock, chain>>
    PROVE  /\ Answers(q, r)
           /\ pend' \in PendingBlocks
           /\ pend'.mode = pend.mode /\ pend'.time = pend.time
           /\ pend.mode = "none" => pend' = pend
           /\ unapplied' \in SUBSET Signed /\ persistent' \in SUBSET Ids
           /\ failed' \in SUBSET Ids
           /\ Included' /\ Remembered'
  <1>0. /\ TrxOf[r] \in Signed /\ Id(r) \in Ids /\ Types /\ Working /\ Included
        /\ Queued /\ Remembered
    BY FlowAssumption DEF FlowInv, Id, Ids
  <1>a. pend = NoBlock <=> pend.mode = "none" BY <1>0 DEF Working, NoBlock
  <1>b. Finds(q, r) /\ Answers(q, r)
           => \A x \in Requests : x # r => answers'[x] = answers[x]
    BY <1>0, QueueKept
  <1>1. CASE /\ UNCHANGED <<pend, unapplied, persistent, failed>>
             /\ \/ queue' = Append(q, r) /\ UNCHANGED answers
                \/ queue' = q /\ send_response(r, "error")
    <2>1. Answers(q, r) BY <1>1 DEF Answers
    <2>2. \A x \in Requests : Accepted(x)' => Accepted(x)
      <3>1. CASE UNCHANGED answers BY <3>1 DEF Accepted
      <3>2. CASE send_response(r, "error")
        <4>1. answers'[r] = Append(answers[r], "error")
          BY <1>0, <3>2 DEF send_response, Types
        <4>2. answers[r] = <<>> BY <1>0 DEF Finds, Types
        <4>3. answers'[r] # <<"trace">> BY <4>1, <4>2
        <4> QED BY <1>b, <2>1, <4>3 DEF Accepted
      <3> QED BY <1>1, <3>1, <3>2
    <2>3. Remembered'
      <3>1. \A i : (Somewhere(i)' <=> Somewhere(i)) /\ (Persisted(i)' <=> Persisted(i))
        BY <1>1 DEF Somewhere, Persisted, Gone, Horizon
      <3> QED BY <1>0, <2>2, <3>1 DEF Remembered, Id
    <2>4. Included' BY <1>0, <1>1 DEF Included
    <2> QED BY <1>0, <1>1, <2>1, <2>3, <2>4 DEF Types
  <1>2. CASE /\ pend # NoBlock
             /\ Expiration[Id(r)] >= pend.time
             /\ ~ is_known_unexpired_transaction(Id(r))
             /\ \E result \in Results(TrxOf[r]) :
                   /\ push_transaction(TrxOf[r], result)
                   /\ unapplied' = Unapplied(TrxOf[r], result)
                   /\ NoteFailure(TrxOf[r], result)
                   /\ Respond(r, q, result)
                   /\ persistent' = IF result = "accepted" /\ r \in Persist
                                    THEN persistent \cup {Id(r)} ELSE persistent
    <2>1. PICK result \in Results(TrxOf[r]) :
                   /\ push_transaction(TrxOf[r], result)
                   /\ unapplied' = Unapplied(TrxOf[r], result)
                   /\ NoteFailure(TrxOf[r], result)
                   /\ Respond(r, q, result)
                   /\ persistent' = IF result = "accepted" /\ r \in Persist
                                    THEN persistent \cup {Id(r)} ELSE persistent
      BY <1>2
    <2>2. /\ pend' \in PendingBlocks
          /\ pend'.mode = pend.mode /\ pend'.time = pend.time /\ pend.mode # "none"
          /\ pend.trxs \subseteq pend'.trxs
          /\ result = "accepted" => TrxOf[r] \in pend'.trxs
          /\ Follows(chain, Len(chain), pend')
      BY PushFollows, <1>0, <1>a, <1>2, <2>1
    <2>3. Answers(q, r)
      BY <2>1 DEF Respond, Answers
    <2>4. /\ unapplied' \in SUBSET Signed /\ persistent' \in SUBSET Ids
          /\ failed' \in SUBSET Ids /\ failed \subseteq failed'
          /\ persistent \subseteq persistent'
      BY <1>0, <2>1 DEF Types, Unapplied, NoteFailure, Id
    <2>5. Included' BY <1>0, <2>2 DEF Included
    <2>6. ASSUME NEW i \in Ids, Somewhere(i) PROVE Somewhere(i)'
      <3>1. CASE \E s \in unapplied : IdOf[s] = i
        <4>1. PICK s \in unapplied : IdOf[s] = i BY <3>1
        <4>2. CASE s \in unapplied' BY <4>1, <4>2 DEF Somewhere, Kept, State
        <4>3. CASE s \notin unapplied'
          <5>1. s = TrxOf[r] /\ result \in {"accepted", "failed"}
            BY <2>1, <4>1, <4>3 DEF Unapplied
          <5>2. CASE result = "accepted" BY <2>2, <4>1, <5>1, <5>2 DEF Somewhere
          <5>3. CASE result = "failed"
            BY <1>2, <2>1, <4>1, <5>1, <5>3
            DEF NoteFailure, is_known_unexpired_transaction, Id, Somewhere
          <5> QED BY <5>1, <5>2, <5>3
        <4> QED BY <4>2, <4>3
      <3>2. CASE \/ Holds(chain, Len(chain), i) \/ \E s \in pend.trxs : IdOf[s] = i
                 \/ i \in failed \/ Gone(i)
        BY <2>2, <2>4, <3>2 DEF Somewhere, Kept, State, Gone, Horizon
      <3> QED BY <2>6, <3>1, <3>2 DEF Somewhere, Kept, State
    <2>7. ASSUME NEW x \in Requests, Accepted(x)'
          PROVE  /\ x \in Persist => Persisted(Id(x))'
                 /\ HasProducers \/ x \in Persist => Somewhere(Id(x))'
      <3>0. Id(x) \in Ids BY FlowAssumption DEF Id, Ids
      <3>1. CASE Accepted(x)
        <4>1. Persisted(Id(x)) => Persisted(Id(x))'
          BY <2>4 DEF Persisted, Horizon, Id
        <4> QED BY <1>0, <2>6, <3>0, <3>1, <4>1 DEF Remembered, Id
      <3>2. CASE ~ Accepted(x)
        <4>1. x = r BY <1>b, <2>3, <2>7, <3>2 DEF Accepted
        <4>2. answers[r] = <<>> BY <1>0 DEF Finds, Types
        <4>3. result = "accepted"
          <5>1. CASE result = "noroom" BY <2>1, <2>7, <3>2, <5>1, <4>1 DEF Respond, Accepted
          <5>2. CASE result # "noroom" /\ result # "accepted"
            <6>1. answers'[r] = Append(answers[r], "error")
              BY <1>0, <2>1, <5>2 DEF Respond, send_response, Types
            <6>2. answers'[r] # <<"trace">> BY <6>1, <4>2
            <6> QED BY <2>7, <4>1, <6>2 DEF Accepted
          <5> QED BY <5>1, <5>2
        <4>4. x \in Persist => Persisted(Id(x))' BY <2>1, <4>1, <4>3 DEF Persisted, Id
        <4>5. Somewhere(Id(x))' BY <2>2, <4>1, <4>3 DEF Somewhere, Id
        <4> QED BY <4>4, <4>5
      <3> QED BY <3>1, <3>2
    <2>8. Remembered' BY <2>7 DEF Remembered
    <2> QED BY <2>2, <2>3, <2>4, <2>5, <2>8
  <1> QED BY <1>1, <1>2 DEF on_incoming_transaction_async, Id
-----------------------------------------------------------------------------
(* The steps.                                                              *)

LEMMA InitFlow == Init => FlowInv
  <1> SUFFICES ASSUME Init PROVE FlowInv OBVIOUS
  <1> USE FlowAssumption DEF Init
  <1>1. Block(0, {}, {}) \in Blocks BY DEF Block, Blocks
  <1>2. /\ chain \in Seq(Blocks) /\ Len(chain) = 1 /\ chain[1].time = 0
        /\ chain[1].trxs = {} /\ chain[1].known = {}
    BY <1>1 DEF Block
  <1>3. Sound(chain) BY <1>2 DEF Sound, Follows, Holds
  <1>4. Types BY DEF Types, PendingBlocks, NoBlock, Works, Phases
  <1>5. Working /\ Timely BY <1>2 DEF Working, Timely, NoBlock
  <1>6. Queued BY DEF Queued
  <1>7. Included BY <1>3 DEF Included, NoBlock
  <1>8. Remembered
    <2>1. \A r \in Requests : answers[r] = <<>> OBVIOUS
    <2>2. <<>> # <<"trace">> OBVIOUS
    <2> QED BY <2>1, <2>2 DEF Remembered, Accepted
  <1> QED BY <1>3, <1>4, <1>5, <1>6, <1>7, <1>8 DEF FlowInv

(* A step that changes nothing but where start_block is.                   *)
LEMMA OnlyWork ==
    ASSUME FlowInv, work' \in Works,
           UNCHANGED <<clock, chain, pend, unapplied, persistent, queue, answers, failed>>,
           work'.phase # "idle" => pend.mode # "none",
           work'.apply \subseteq unapplied,
           work'.phase # "unapplied" => work'.apply = {},
           work'.orig <= Len(queue)
    PROVE  FlowInv'
  <1>1. Types' BY DEF FlowInv, Types
  <1>2. Working' BY DEF FlowInv, Working
  <1>3. Queued' BY DEF FlowInv, Queued
  <1>4. Included' /\ Timely' BY DEF FlowInv, Included, Timely
  <1>5. Remembered'
    <2>1. \A i : (Somewhere(i)' <=> Somewhere(i)) /\ (Persisted(i)' <=> Persisted(i))
      BY DEF Somewhere, Persisted, Gone, Horizon
    <2>2. \A x \in Requests : Accepted(x)' <=> Accepted(x) BY DEF Accepted
    <2> QED BY <2>1, <2>2 DEF FlowInv, Remembered, Id
  <1> QED BY <1>1, <1>2, <1>3, <1>4, <1>5 DEF FlowInv

(* A step that calls on_incoming_transaction_async.                        *)
LEMMA RequestKeeps ==
    ASSUME FlowInv, NEW r \in Requests, NEW q, Finds(q, r),
           on_incoming_transaction_async(r, q), UNCHANGED <<clock, chain>>,
           work' \in Works, work'.phase # "idle" => work.phase # "idle",
           work'.apply = {}, work'.orig <= Len(q)
    PROVE  FlowInv' /\ Answers(q, r)
  <1>1. /\ Answers(q, r) /\ pend' \in PendingBlocks
        /\ pend'.mode = pend.mode /\ pend'.time = pend.time
        /\ pend.mode = "none" => pend' = pend
        /\ unapplied' \in SUBSET Signed /\ persistent' \in SUBSET Ids
        /\ failed' \in SUBSET Ids
        /\ Included' /\ Remembered'
    BY IncomingKeeps
  <1>2. Types /\ Queued /\ Working /\ Timely BY DEF FlowInv
  <1>3. /\ queue' \in Seq(Requests) /\ Len(queue') >= Len(q) /\ Queued'
        /\ answers' \in [Requests -> Seq({"trace", "error"})]
    BY QueueKept, <1>1, <1>2
  <1>4. Types' BY <1>1, <1>2, <1>3 DEF Types
  <1>5. Working'
    <2>1. Len(q) \in Nat /\ Len(queue') \in Nat /\ work'.orig \in Nat
      BY <1>3 DEF Finds, Works
    <2>2. work'.orig <= Len(queue') BY <1>3, <2>1
    <2> QED BY <1>1, <1>2, <2>2 DEF Working
  <1>6. Timely' BY <1>1, <1>2 DEF Timely
  <1> QED BY <1>1, <1>3, <1>4, <1>5, <1>6 DEF FlowInv

(* The first request in the queue.                                         *)
LEMMA FirstFinds ==
    ASSUME FlowInv, queue # <<>>
    PROVE  /\ Head(queue) \in Requests /\ Finds(Tail(queue), Head(queue))
           /\ Len(Tail(queue)) = Len(queue) - 1
  <1>1. queue \in Seq(Requests) /\ Len(queue) \in Nat /\ Len(queue) >= 1
    BY DEF FlowInv, Types
  <1>2. /\ Head(queue) = queue[1] /\ Head(queue) \in Requests
        /\ Tail(queue) \in Seq(Requests) /\ Len(Tail(queue)) = Len(queue) - 1
        /\ \A j \in 1 .. Len(queue) - 1 : Tail(queue)[j] = queue[j + 1]
    BY <1>1
  <1>3. \A j \in 1 .. Len(queue) - 1 : j + 1 \in 1 .. Len(queue) /\ j + 1 # 1 BY <1>1
  <1> QED BY <1>1, <1>2, <1>3 DEF FlowInv, Queued, Finds
-----------------------------------------------------------------------------
(* Blocks.                                                                 *)

(* The state after a block was applied to a sound chain.                   *)
LEMMA ApplyState ==
    ASSUME NEW c, Sound(c), NEW una \in SUBSET Signed, NEW t \in Nat,
           NEW S \in SUBSET Signed, Last(c).time < t,
           \A s \in S : t <= Expiration[IdOf[s]] /\ ~ Holds(c, Len(c), IdOf[s])
    PROVE  \E d : /\ apply_block(State(c, una), t, S) = State(d, una \ S)
                  /\ Sound(d) /\ Len(d) = Len(c) + 1 /\ Front(d) = c
                  /\ \A m \in Nat : t <= m /\ (\A k \in 1 .. Len(c) : c[k].time <= m)
                                    => \A k \in 1 .. Len(d) : d[k].time <= m
                  /\ \A i \in Ids : Kept(State(c, una), i) => Kept(State(d, una \ S), i)
  <1> DEFINE b == Block(t, S, clear_expired_input_transactions(Last(c).known, t)
                              \cup IdsOf(S))
             d == Append(c, b)
  <1>1. b \in Blocks /\ Follows(c, Len(c), b) BY ApplyFollows
  <1>2. b.trxs = S /\ b.time = t BY DEF Block
  <1>3. apply_block(State(c, una), t, S) = State(d, una \ S)
    BY DEF apply_block, State
  <1> HIDE DEF b
  <1>4. /\ Sound(d) /\ Len(d) = Len(c) + 1 /\ d[Len(c) + 1] = b
        /\ \A j \in 1 .. Len(c) : d[j] = c[j]
    BY AppendSound, <1>1
  <1> HIDE DEF d
  <1>5. c \in Seq(Blocks) /\ d \in Seq(Blocks) /\ Len(c) \in Nat /\ Len(c) >= 1
    BY <1>4 DEF Sound
  <1>6. Front(d) = c
    <2>1. /\ Front(d) \in Seq(Blocks) /\ Len(Front(d)) = Len(c)
          /\ \A j \in 1 .. Len(c) : Front(d)[j] = c[j]
      <3>1. Len(d) > 1 /\ Len(d) - 1 = Len(c) BY <1>4, <1>5
      <3>2. /\ Sound(Front(d)) /\ Len(Front(d)) = Len(c)
            /\ \A j \in 1 .. Len(c) : Front(d)[j] = d[j]
        BY <1>4, <3>1, FrontSound
      <3> QED BY <1>4, <3>2 DEF Sound
    <2> QED BY <1>5, <2>1, SeqEqual
  <1>7. \A m \in Nat : t <= m /\ (\A k \in 1 .. Len(c) : c[k].time <= m)
                       => \A k \in 1 .. Len(d) : d[k].time <= m
    <2>1. \A k \in 1 .. Len(d) : k \in 1 .. Len(c) \/ k = Len(c) + 1 BY <1>4, <1>5
    <2> QED BY <1>2, <1>4, <2>1
  <1>8. \A i \in Ids : Kept(State(c, una), i) => Kept(State(d, una \ S), i)
    BY ApplyKeeps, <1>2, <1>4, <1>5
  <1> QED BY <1>3, <1>4, <1>6, <1>7, <1>8

(* A block from outside leaves a sound chain and forgets no transaction.   *)
LEMMA BlockKeeps ==
    ASSUME FlowInv, work.phase = "idle", NEW c, Sound(c), NEW una \in SUBSET Signed,
           \A k \in 1 .. Len(c) : c[k].time <= clock + 1,
           \A i \in Ids : Kept(State(chain, unapplied \cup pend.trxs), i)
                          => Kept(State(c, una), i),
           on_incoming_block(State(c, una))
    PROVE  FlowInv'
  <1>1. /\ pend' = NoBlock /\ chain' = c /\ unapplied' = una
        /\ UNCHANGED <<clock, persistent, queue, work, answers, failed>>
    BY DEF on_incoming_block, State
  <1>2. Types' BY <1>1 DEF FlowInv, Types, PendingBlocks, NoBlock
  <1>3. Working' BY <1>1 DEF FlowInv, Working, NoBlock
  <1>4. Queued' BY <1>1 DEF FlowInv, Queued
  <1>5. Included' BY <1>1 DEF Included, NoBlock
  <1>6. Timely'
    <2>1. clock \in Nat /\ pend'.time = 0 BY <1>1 DEF FlowInv, Types, NoBlock
    <2> QED BY <1>1, <2>1 DEF Timely
  <1>7. ASSUME NEW i \in Ids, Somewhere(i) PROVE Somewhere(i)'
    <2>1. Kept(State(chain, unapplied \cup pend.trxs), i) \/ i \in failed \/ Gone(i)
      BY <1>7 DEF Somewhere, Kept, State
    <2>2. Kept(State(c, una), i) \/ i \in failed \/ Gone(i) BY <2>1
    <2> QED BY <1>1, <2>2 DEF Somewhere, Kept, State, Gone, Horizon
  <1>8. Remembered'
    <2>1. \A i : Persisted(i)' <=> Persisted(i) BY <1>1 DEF Persisted, Horizon
    <2>2. \A x \in Requests : (Accepted(x)' <=> Accepted(x)) /\ Id(x) \in Ids
      BY <1>1, FlowAssumption DEF Accepted, Id, Ids
    <2> QED BY <1>7, <2>1, <2>2 DEF FlowInv, Remembered, Id
  <1> QED BY <1>2, <1>3, <1>4, <1>5, <1>6, <1>8 DEF FlowInv

LEMMA ReceiveKeeps == FlowInv /\ ReceiveBlock => FlowInv'
  <1> SUFFICES ASSUME FlowInv, ReceiveBlock PROVE FlowInv' OBVIOUS
  <1> DEFINE una == unapplied \cup pend.trxs
  <1>1. Sound(chain) /\ una \in SUBSET Signed /\ clock \in Nat
    BY DEF FlowInv, Included, Types, PendingBlocks
  <1>2. PICK S \in SUBSET Signed, t \in BlockTimes :
          /\ work.phase = "idle" /\ ValidBlock(chain, t, S)
          /\ on_incoming_block(apply_block(State(chain, una), t, S))
    BY DEF ReceiveBlock, Aborted, abort_block
  <1> HIDE DEF una
  <1>3. t \in Nat /\ t <= clock + 1 BY <1>1 DEF BlockTimes
  <1>4. PICK d : /\ apply_block(State(chain, una), t, S) = State(d, una \ S)
                 /\ Sound(d)
                 /\ \A m \in Nat : t <= m /\ (\A k \in 1 .. Len(chain) : chain[k].time <= m)
                                   => \A k \in 1 .. Len(d) : d[k].time <= m
                 /\ \A i \in Ids : Kept(State(chain, una), i) => Kept(State(d, una \ S), i)
    BY ValidIsNew, ApplyState, <1>1, <1>2, <1>3
  <1>5. \A k \in 1 .. Len(d) : d[k].time <= clock + 1
    BY <1>1, <1>3, <1>4 DEF FlowInv, Timely
  <1>6. una \ S \in SUBSET Signed BY <1>1
  <1> QED BY BlockKeeps, <1>2, <1>4, <1>5, <1>6 DEF una

LEMMA RejectKeeps == FlowInv /\ RejectBlock => FlowInv'
  <1> SUFFICES ASSUME FlowInv, RejectBlock PROVE FlowInv' OBVIOUS
  <1>1. Sound(chain) /\ unapplied \cup pend.trxs \in SUBSET Signed
    BY DEF FlowInv, Included, Types, PendingBlocks
  <1>2. PICK S \in SUBSET Signed :
          /\ work.phase = "idle"
          /\ on_incoming_block(State(chain, ((unapplied \cup pend.trxs) \ S) \cup S))
    BY DEF RejectBlock, Aborted, abort_block, State
  <1>3. \A i \in Ids : Kept(State(chain, unapplied \cup pend.trxs), i)
           => Kept(State(chain, ((unapplied \cup pend.trxs) \ S) \cup S), i)
    BY DEF Kept, State
  <1>4. \A k \in 1 .. Len(chain) : chain[k].time <= clock + 1 BY DEF FlowInv, Timely
  <1>5. ((unapplied \cup pend.trxs) \ S) \cup S \in SUBSET Signed BY <1>1
  <1> QED BY BlockKeeps, <1>1, <1>2, <1>3, <1>4, <1>5

(* The head is popped.                                                     *)
Popped == State(Front(chain), (unapplied \cup pend.trxs) \cup head.trxs)

LEMMA PoppedSound ==
    ASSUME FlowInv, Len(chain) > 1
    PROVE  /\ pop_block(Aborted) = Popped
           /\ Sound(Front(chain)) /\ Popped.unapplied \in SUBSET Signed
           /\ head \in Blocks /\ Follows(Front(chain), Len(Front(chain)), head)
           /\ clock \in Nat /\ head.time <= clock + 1
           /\ \A k \in 1 .. Len(Front(chain)) : Front(chain)[k].time <= clock + 1
           /\ \A i \in Ids : Kept(State(chain, unapplied \cup pend.trxs), i)
                             => Kept(Popped, i)
  <1>1. Sound(chain) /\ Len(chain) \in Nat BY DEF FlowInv, Included, Sound
  <1>2. pop_block(State(chain, unapplied \cup pend.trxs)) = Popped
    BY DEF pop_block, State, Popped, head
  <1>3. pop_block(Aborted) = Popped BY <1>2 DEF Aborted, abort_block
  <1>4. /\ Sound(Front(chain)) /\ Follows(Front(chain), Len(Front(chain)), head)
        /\ Len(Front(chain)) = Len(chain) - 1 /\ head \in Blocks
        /\ head = chain[Len(chain)]
        /\ \A j \in 1 .. Len(chain) - 1 : Front(chain)[j] = chain[j]
    BY <1>1, FrontSound, LastIsLatest DEF head
  <1>5. Popped.unapplied \in SUBSET Signed
    BY <1>4 DEF FlowInv, Types, PendingBlocks, Popped, State, Blocks
  <1>6. clock \in Nat /\ \A k \in 1 .. Len(chain) : chain[k].time <= clock + 1
    BY DEF FlowInv, Types, Timely
  <1>7. \A i \in Ids : Kept(State(chain, unapplied \cup pend.trxs), i) => Kept(Popped, i)
    BY <1>1, <1>2, PopKeeps
  <1>8. /\ head.time <= clock + 1
        /\ \A k \in 1 .. Len(Front(chain)) : Front(chain)[k].time <= clock + 1
    BY <1>1, <1>4, <1>6
  <1> QED BY <1>3, <1>4, <1>5, <1>6, <1>7, <1>8

LEMMA SwitchKeeps == FlowInv /\ SwitchForks => FlowInv'
  <1> SUFFICES ASSUME FlowInv, SwitchForks PROVE FlowInv' OBVIOUS
  <1> DEFINE c == Front(chain)
             una == Popped.unapplied
  <1>1. /\ pop_block(Aborted) = Popped /\ Popped = State(c, una)
        /\ Sound(c) /\ una \in SUBSET Signed /\ clock \in Nat
        /\ \A k \in 1 .. Len(c) : c[k].time <= clock + 1
        /\ \A i \in Ids : Kept(State(chain, unapplied \cup pend.trxs), i)
                          => Kept(State(c, una), i)
    <2>1. Popped = State(c, una) BY DEF Popped, State
    <2> QED BY <2>1, PoppedSound DEF SwitchForks
  <1>2. PICK S \in SUBSET Signed, t \in BlockTimes, T \in SUBSET Signed, u \in BlockTimes :
          /\ work.phase = "idle" /\ ValidBlock(c, t, S)
          /\ ValidBlock(apply_block(State(c, una), t, S).chain, u, T)
          /\ on_incoming_block(apply_block(apply_block(State(c, una), t, S), u, T))
    <2>1. Popped.chain = c BY DEF Popped, State
    <2> HIDE DEF c, una
    <2> QED BY <1>1, <2>1 DEF SwitchForks
  <1> HIDE DEF c, una
  <1>3. t \in Nat /\ t <= clock + 1 /\ u \in Nat /\ u <= clock + 1 BY <1>1 DEF BlockTimes
  <1>4. PICK d : /\ apply_block(State(c, una), t, S) = State(d, una \ S)
                 /\ Sound(d)
                 /\ \A m \in Nat : t <= m /\ (\A k \in 1 .. Len(c) : c[k].time <= m)
                                   => \A k \in 1 .. Len(d) : d[k].time <= m
                 /\ \A i \in Ids : Kept(State(c, una), i) => Kept(State(d, una \ S), i)
    BY ValidIsNew, ApplyState, <1>1, <1>2, <1>3
  <1>5. /\ ValidBlock(d, u, T) /\ una \ S \in SUBSET Signed
        /\ on_incoming_block(apply_block(State(d, una \ S), u, T))
    <2>1. State(d, una \ S).chain = d BY DEF State
    <2>2. ValidBlock(d, u, T) BY <1>2, <1>4, <2>1
    <2>3. on_incoming_block(apply_block(State(d, una \ S), u, T)) BY <1>2, <1>4
    <2> QED BY <1>1, <2>2, <2>3
  <1>6. PICK e : /\ apply_block(State(d, una \ S), u, T) = State(e, (una \ S) \ T)
                 /\ Sound(e)
                 /\ \A m \in Nat : u <= m /\ (\A k \in 1 .. Len(d) : d[k].time <= m)
                                   => \A k \in 1 .. Len(e) : e[k].time <= m
                 /\ \A i \in Ids : Kept(State(d, una \ S), i)
                                   => Kept(State(e, (una \ S) \ T), i)
    BY ValidIsNew, ApplyState, <1>3, <1>4, <1>5
  <1>7. \A k \in 1 .. Len(e) : e[k].time <= clock + 1
    <2>1. \A k \in 1 .. Len(d) : d[k].time <= clock + 1 BY <1>1, <1>3, <1>4
    <2> QED BY <1>1, <1>3, <1>6, <2>1
  <1>8. (una \ S) \ T \in SUBSET Signed BY <1>1
  <1> QED BY BlockKeeps, <1>1, <1>2, <1>4, <1>5, <1>6, <1>7, <1>8

(* The old head is applied again to the chain that it followed.            *)
LEMMA FailKeeps == FlowInv /\ FailToSwitch => FlowInv'
  <1> SUFFICES ASSUME FlowInv, FailToSwitch PROVE FlowInv' OBVIOUS
  <1> DEFINE c == Front(chain)
             una == Popped.unapplied
  <1>1. /\ pop_block(Aborted) = Popped /\ Popped = State(c, una)
        /\ Sound(c) /\ una \in SUBSET Signed /\ clock \in Nat
        /\ head \in Blocks /\ Follows(c, Len(c), head) /\ head.time <= clock + 1
        /\ \A k \in 1 .. Len(c) : c[k].time <= clock + 1
        /\ \A i \in Ids : Kept(State(chain, unapplied \cup pend.trxs), i)
                          => Kept(State(c, una), i)
    <2>1. Popped = State(c, una) BY DEF Popped, State
    <2> QED BY <2>1, PoppedSound DEF FailToSwitch
  <1>2. PICK S \in SUBSET Signed, t \in BlockTimes, T \in SUBSET Signed :
          LET first == apply_block(State(c, una), t, S)
          IN /\ work.phase = "idle" /\ ValidBlock(c, t, S)
             /\ on_incoming_block(apply_block(pop_block(
                   State(first.chain, (first.unapplied \ T) \cup T)), head.time, head.trxs))
    <2>1. Popped.chain = c BY DEF Popped, State
    <2> HIDE DEF c, una
    <2> QED BY <1>1, <2>1 DEF FailToSwitch, abort_block
  <1> HIDE DEF c, una
  <1>3. t \in Nat BY <1>1 DEF BlockTimes
  <1>4. PICK d : /\ apply_block(State(c, una), t, S) = State(d, una \ S)
                 /\ Sound(d) /\ Len(d) = Len(c) + 1 /\ Front(d) = c
                 /\ \A i \in Ids : Kept(State(c, una), i) => Kept(State(d, una \ S), i)
    BY ValidIsNew, ApplyState, <1>1, <1>2, <1>3
  <1> DEFINE bad == ((una \ S) \ T) \cup T
             again == bad \cup Last(d).trxs
  <1>5. on_incoming_block(apply_block(pop_block(State(d, bad)), head.time, head.trxs))
    <2>1. State(d, una \ S).chain = d /\ State(d, una \ S).unapplied = una \ S
      BY DEF State
    <2> QED BY <1>2, <1>4, <2>1
  <1>6. /\ pop_block(State(d, bad)) = State(c, again)
        /\ \A i \in Ids : Kept(State(d, una \ S), i) => Kept(State(c, again), i)
    <2>1. Len(d) > 1 BY <1>1, <1>4 DEF Sound
    <2>2. pop_block(State(d, bad)) = State(c, again) BY <1>4 DEF pop_block, State
    <2>3. \A i \in Ids : Kept(State(d, una \ S), i) => Kept(State(d, bad), i)
      BY DEF Kept, State
    <2>4. \A i \in Ids : Kept(State(d, bad), i) => Kept(pop_block(State(d, bad)), i)
      BY <1>4, <2>1, PopKeeps
    <2> QED BY <2>2, <2>3, <2>4
  <1>7. bad \in SUBSET Signed /\ again \in SUBSET Signed
    <2>1. Last(d).trxs \in SUBSET Signed BY <1>4, LastIsLatest DEF Blocks
    <2> QED BY <1>1, <2>1
  <1> HIDE DEF bad, again
  <1>8. /\ head.time \in Nat /\ head.trxs \in SUBSET Signed /\ Last(c).time < head.time
        /\ \A s \in head.trxs : /\ head.time <= Expiration[IdOf[s]]
                                /\ ~ Holds(c, Len(c), IdOf[s])
    <2>1. Last(c) = c[Len(c)] /\ Len(c) \in 1 .. Len(c) BY <1>1, LastIsLatest DEF Sound
    <2> QED BY <1>1, <2>1 DEF Blocks, Follows
  <1>9. PICK e : /\ apply_block(State(c, again), head.time, head.trxs)
                        = State(e, again \ head.trxs)
                 /\ Sound(e)
                 /\ \A m \in Nat :
                       head.time <= m /\ (\A k \in 1 .. Len(c) : c[k].time <= m)
                       => \A k \in 1 .. Len(e) : e[k].time <= m
                 /\ \A i \in Ids : Kept(State(c, again), i)
                                   => Kept(State(e, again \ head.trxs), i)
    BY ApplyState, <1>1, <1>7, <1>8
  <1>10. \A k \in 1 .. Len(e) : e[k].time <= clock + 1 BY <1>1, <1>9
  <1>11. again \ head.trxs \in SUBSET Signed BY <1>7
  <1> QED BY BlockKeeps, <1>1, <1>2, <1>4, <1>5, <1>6, <1>9, <1>10, <1>11

LEMMA ProduceKeeps == FlowInv /\ produce_block => FlowInv'
  <1> SUFFICES ASSUME FlowInv, produce_block PROVE FlowInv' OBVIOUS
  <1> DEFINE b == Block(pend.time, pend.trxs, pend.known)
  <1>1. /\ work.phase = "idle" /\ pend.mode = "producing" /\ pend.time <= clock + 1
        /\ chain' = Append(chain, b) /\ pend' = NoBlock
        /\ UNCHANGED <<clock, unapplied, persistent, queue, work, answers, failed>>
    BY DEF produce_block
  <1>2. /\ b \in Blocks /\ b.time = pend.time /\ b.trxs = pend.trxs
        /\ b.known = pend.known
    BY DEF FlowInv, Types, PendingBlocks, Blocks, Block
  <1> HIDE DEF b
  <1>3. Follows(chain, Len(chain), b) BY <1>1, <1>2 DEF FlowInv, Included, Follows
  <1>4. /\ Sound(chain') /\ Len(chain') = Len(chain) + 1 /\ chain'[Len(chain) + 1] = b
        /\ \A j \in 1 .. Len(chain) : chain'[j] = chain[j]
    BY AppendSound, <1>1, <1>2, <1>3 DEF FlowInv, Included
  <1>5. Types' BY <1>1 DEF FlowInv, Types, PendingBlocks, NoBlock
  <1>6. Working' BY <1>1 DEF FlowInv, Working, NoBlock
  <1>7. Queued' BY <1>1 DEF FlowInv, Queued
  <1>8. Included' BY <1>1, <1>4 DEF Included, NoBlock
  <1>9. Timely'
    <2>1. clock \in Nat /\ pend'.time = 0 /\ Len(chain) \in Nat
      BY <1>1 DEF FlowInv, Types, NoBlock, Included, Sound
    <2>2. \A k \in 1 .. Len(chain') : k \in 1 .. Len(chain) \/ k = Len(chain) + 1
      BY <1>4, <2>1
    <2> QED BY <1>1, <1>2, <1>4, <2>1, <2>2 DEF FlowInv, Timely
  <1>10. ASSUME NEW i \in Ids, Somewhere(i) PROVE Somewhere(i)'
    <2>1. Len(chain) \in Nat BY DEF FlowInv, Included, Sound
    <2>2. Holds(chain, Len(chain), i) \/ (\E s \in pend.trxs : IdOf[s] = i)
             => Holds(chain', Len(chain'), i)
      BY <1>2, <1>4, <2>1 DEF Holds
    <2> QED BY <1>1, <1>10, <2>2 DEF Somewhere, Kept, State, Gone, Horizon
  <1>11. Remembered'
    <2>1. \A i : Persisted(i)' <=> Persisted(i) BY <1>1 DEF Persisted, Horizon
    <2>2. \A x \in Requests : (Accepted(x)' <=> Accepted(x)) /\ Id(x) \in Ids
      BY <1>1, FlowAssumption DEF Accepted, Id, Ids
    <2> QED BY <1>10, <2>1, <2>2 DEF FlowInv, Remembered, Id
  <1> QED BY <1>5, <1>6, <1>7, <1>8, <1>9, <1>11 DEF FlowInv

LEMMA TickKeeps == FlowInv /\ Tick => FlowInv'
  <1> SUFFICES ASSUME FlowInv, Tick PROVE FlowInv' OBVIOUS
  <1> USE DEF FlowInv, Tick
  <1>1. Types' BY DEF Types
  <1>2. Working' BY DEF Working
  <1>3. Queued' BY DEF Queued
  <1>4. Included' BY DEF Included
  <1>5. Timely'
    <2>1. clock \in Nat /\ pend.time \in Nat BY DEF Types, PendingBlocks
    <2>2. \A k \in 1 .. Len(chain) : chain[k].time \in Nat
      BY LastIsLatest DEF Included, Blocks
    <2> QED BY <2>1, <2>2 DEF Timely
  <1>6. Remembered'
    <2>1. \A i \in Ids : Expiration[i] \in Nat /\ clock \in Nat
      BY FlowAssumption DEF Ids, Types
    <2>2. \A i \in Ids : (Gone(i) => Gone(i)') /\ (Persisted(i) => Persisted(i)')
      BY <2>1 DEF Gone, Persisted, Horizon
    <2>3. \A i \in Ids : Somewhere(i) => Somewhere(i)' BY <2>2 DEF Somewhere
    <2>4. \A x \in Requests : (Accepted(x)' <=> Accepted(x)) /\ Id(x) \in Ids
      BY FlowAssumption DEF Accepted, Id, Ids
    <2> QED BY <2>2, <2>3, <2>4 DEF Remembered, Id
  <1> QED BY <1>1, <1>2, <1>3, <1>4, <1>5, <1>6
-----------------------------------------------------------------------------
(* start_block.                                                            *)

LEMMA WorkUpdates ==
    ASSUME NEW w \in Works, NEW p \in Phases, NEW a \in SUBSET Signed, NEW n \in Int,
           NEW o \in Nat, NEW x \in Int
    PROVE  /\ [w EXCEPT !.phase = p, !.apply = a, !.scheduled = n, !.orig = o] \in Works
           /\ [w EXCEPT !.phase = p, !.scheduled = n, !.orig = o, !.weight = x] \in Works
           /\ [w EXCEPT !.phase = p, !.scheduled = n] \in Works
           /\ [w EXCEPT !.phase = p, !.weight = x] \in Works
           /\ [w EXCEPT !.phase = p, !.orig = o] \in Works
           /\ [w EXCEPT !.phase = p] \in Works
           /\ [w EXCEPT !.apply = a] \in Works
           /\ [w EXCEPT !.orig = o] \in Works
           /\ [w EXCEPT !.weight = x] \in Works
  BY DEF Works

LEMMA PhaseNames ==
    /\ "idle" \in Phases /\ "unapplied" \in Phases /\ "scheduled" \in Phases
    /\ "ratio" \in Phases /\ "incoming" \in Phases
    /\ {} \in SUBSET Signed /\ 0 \in Nat /\ 0 \in Int
  BY DEF Phases

LEMMA MaxOfTwo ==
    ASSUME NEW a \in Nat, NEW b \in Nat
    PROVE  Max({a, b}) \in {a, b} /\ a <= Max({a, b}) /\ b <= Max({a, b})
  <1>1. \E x \in {a, b} : \A y \in {a, b} : x >= y
    <2>1. CASE a >= b BY <2>1
    <2>2. CASE b >= a BY <2>2
    <2> QED BY <2>1, <2>2
  <1> QED BY <1>1 DEF Max

(* A new pending block follows the head, and what it drops is gone.        *)
LEMMA StartKeeps ==
    ASSUME FlowInv, NEW mode \in {"producing", "speculating"}, start_block(mode)
    PROVE  FlowInv'
  <1> DEFINE time == Max({clock, head.time}) + 1
             una == unapplied \cup pend.trxs
             kept == {i \in persistent : Expiration[i] > time}
             Wanted(s) == /\ Expiration[IdOf[s]] >= time
                          /\ HasProducers \/ IdOf[s] \in kept
             known == clear_expired_input_transactions(head.known, time)
  <1>0. Types /\ Working /\ Queued /\ Included /\ Timely /\ Remembered BY DEF FlowInv
  <1>1. /\ clock \in Nat /\ head \in Blocks /\ head.time \in Nat
        /\ Sound(chain) /\ head = Last(chain) /\ head.time <= clock + 1
    <2>1. Sound(chain) /\ clock \in Nat BY <1>0 DEF Included, Types
    <2>2. head \in Blocks /\ head = chain[Len(chain)] /\ Len(chain) \in 1 .. Len(chain)
      BY <2>1, LastIsLatest DEF head, Sound
    <2> QED BY <1>0, <2>1, <2>2 DEF Timely, Blocks, head
  <1>2. time \in Nat /\ head.time < time /\ time <= clock + 2
    BY <1>1, MaxOfTwo
  <1>3. /\ work.phase = "idle" /\ persistent' = kept
        /\ pend' = [mode |-> mode, time |-> time, trxs |-> {}, known |-> known]
        /\ unapplied' = IF ~HasProducers /\ kept = {} THEN {}
                        ELSE {s \in una : Wanted(s)}
        /\ \E A \in SUBSET unapplied' :
              work' = [work EXCEPT !.phase = "unapplied", !.orig = Len(queue), !.apply = A]
        /\ UNCHANGED <<clock, chain, queue, answers, failed>>
    BY DEF start_block, abort_block
  <1> HIDE DEF time
  <1>4. /\ una \in SUBSET Signed /\ kept \in SUBSET Ids /\ unapplied' \in SUBSET Signed
    BY <1>0, <1>3 DEF Types, PendingBlocks
  <1>5. /\ known \in SUBSET Ids
        /\ \A i \in Ids : Holds(chain, Len(chain), i) /\ time <= Expiration[i]
                          => i \in known
        /\ \A i \in known : Holds(chain, Len(chain), i)
    <2>1. Last(chain).time <= time BY <1>1, <1>2
    <2> QED BY <1>1, <1>2, <2>1, ClearCovers
  <1> HIDE DEF known
  <1>6. pend' \in PendingBlocks BY <1>2, <1>3, <1>5 DEF PendingBlocks
  <1>7. PICK A \in SUBSET unapplied' :
              work' = [work EXCEPT !.phase = "unapplied", !.orig = Len(queue), !.apply = A]
    BY <1>3
  <1>8. /\ work' \in Works /\ work'.phase = "unapplied" /\ work'.orig = Len(queue)
        /\ work'.apply = A
    <2>1. work \in Works /\ Len(queue) \in Nat /\ A \in SUBSET Signed
      BY <1>0, <1>4 DEF Types
    <2> QED BY <1>7, <2>1 DEF Works, Phases
  <1>9. Types' BY <1>0, <1>3, <1>4, <1>6, <1>8 DEF Types
  <1>10. Working'
    <2>1. pend'.mode # "none" BY <1>3
    <2>2. work'.orig <= Len(queue') BY <1>0, <1>3, <1>8 DEF Types
    <2> QED BY <1>8, <2>1, <2>2 DEF Working
  <1>11. Queued' BY <1>0, <1>3 DEF Queued
  <1>12. Included'
    <2>1. \A j \in 1 .. Len(chain) : chain[j].time < time
      BY <1>1, <1>2, LastIsLatest DEF Blocks
    <2>2. pend'.time = time /\ pend'.trxs = {} /\ pend'.known = known BY <1>3
    <2>3. Follows(chain, Len(chain), pend') BY <1>5, <2>1, <2>2 DEF Follows
    <2> QED BY <1>0, <1>3, <2>3 DEF Included
  <1>13. Timely' BY <1>0, <1>2, <1>3 DEF Timely
  <1>14. ASSUME NEW x \in Requests, Accepted(x)'
         PROVE  /\ x \in Persist => Persisted(Id(x))'
                /\ HasProducers \/ x \in Persist => Somewhere(Id(x))'
    <2> DEFINE i == Id(x)
    <2>1. i \in Ids /\ Expiration[i] \in Nat BY FlowAssumption DEF Id, Ids
    <2>2. Accepted(x) BY <1>3, <1>14 DEF Accepted
    <2>3. /\ x \in Persist => Persisted(i)
          /\ HasProducers \/ x \in Persist => Somewhere(i)
      BY <1>0, <2>2 DEF Remembered
    <2> HIDE DEF i
    <2>4. x \in Persist => i \in kept \/ Expiration[i] <= clock + 2
      BY <1>1, <1>2, <2>1, <2>3 DEF Persisted, Horizon
    <2>5. x \in Persist => Persisted(i)' BY <1>3, <2>4 DEF Persisted, Horizon
    <2>6. ASSUME HasProducers \/ x \in Persist PROVE Somewhere(i)'
      <3>1. CASE Holds(chain, Len(chain), i) \/ i \in failed \/ Gone(i)
        BY <1>3, <3>1 DEF Somewhere, Kept, State, Gone, Horizon
      <3>2. CASE \E s \in una : IdOf[s] = i
        <4>1. PICK s \in una : IdOf[s] = i BY <3>2
        <4>2. CASE s \in unapplied' BY <4>1, <4>2 DEF Somewhere, Kept, State
        <4>3. CASE s \notin unapplied'
          <5>1. \/ Expiration[i] < time
                \/ ~ HasProducers /\ i \notin kept
            BY <1>1, <1>2, <1>3, <2>1, <4>1, <4>3
          <5>2. Gone(i)
            <6>1. CASE Expiration[i] < time
              BY <1>1, <1>2, <2>1, <6>1 DEF Gone, Horizon
            <6>2. CASE ~ HasProducers /\ i \notin kept
              <7>1. Expiration[i] <= clock + 2 BY <2>4, <2>6, <6>2
              <7> QED BY <1>1, <2>1, <6>2, <7>1 DEF Gone, Horizon
            <6> QED BY <5>1, <6>1, <6>2
          <5>3. Gone(i)' BY <1>3, <5>2 DEF Gone, Horizon
          <5> QED BY <5>3 DEF Somewhere
        <4> QED BY <4>2, <4>3
      <3> QED BY <2>3, <2>6, <3>1, <3>2 DEF Somewhere, Kept, State
    <2> QED BY <2>5, <2>6 DEF i, Id
  <1>15. Remembered' BY <1>14 DEF Remembered
  <1> QED BY <1>9, <1>10, <1>11, <1>12, <1>13, <1>15 DEF FlowInv

(* One unapplied transaction is in the block, stays, or failed for good.   *)
LEMMA ApplyUnappliedKeeps ==
    ASSUME FlowInv, NEW s \in Signed, ApplyUnapplied(s)
    PROVE  FlowInv'
  <1>0. Types /\ Working /\ Queued /\ Included /\ Timely /\ Remembered BY DEF FlowInv
  <1>1. PICK result \in Results(s) :
          /\ push_transaction(s, result)
          /\ IF result = "noroom"
             THEN Exit /\ UNCHANGED <<unapplied, failed>>
             ELSE /\ work' = [work EXCEPT !.apply = work.apply \ {s}]
                  /\ unapplied' = unapplied \ {s}
                  /\ NoteFailure(s, IF result = "refused" THEN "failed" ELSE result)
    BY DEF ApplyUnapplied
  <1>2. /\ work.phase = "unapplied" /\ s \in work.apply
        /\ UNCHANGED <<clock, chain, persistent, queue, answers>>
    BY DEF ApplyUnapplied
  <1>3. pend.mode # "none" BY <1>0, <1>2 DEF Working
  <1>4. /\ pend' \in PendingBlocks /\ pend'.mode = pend.mode /\ pend'.time = pend.time
        /\ pend.trxs \subseteq pend'.trxs
        /\ result = "accepted" => s \in pend'.trxs
        /\ Follows(chain, Len(chain), pend')
    BY PushFollows, <1>1, <1>2, <1>3
  <1>5. /\ unapplied' \in SUBSET Signed /\ failed' \in SUBSET Ids
        /\ failed \subseteq failed' /\ unapplied \subseteq unapplied' \cup {s}
    BY <1>0, <1>1, FlowAssumption DEF Types, NoteFailure, Ids
  <1>6. /\ work' \in Works /\ work'.apply \subseteq unapplied'
        /\ work'.phase # "unapplied" => work'.apply = {}
        /\ work'.orig <= Len(queue)
    <2>1. /\ work \in Works /\ Len(queue) \in Nat /\ work.apply \subseteq unapplied
          /\ work.orig <= Len(queue)
      BY <1>0 DEF Types, Working
    <2>2. CASE result = "noroom"
      <3>1. work' = [work EXCEPT !.phase = "idle", !.apply = {}, !.scheduled = 0, !.orig = 0]
        BY <1>1, <2>2 DEF Exit
      <3>2. work' \in Works BY <2>1, <3>1, WorkUpdates, PhaseNames
      <3>3. work'.apply = {} /\ work'.orig = 0 BY <2>1, <3>1 DEF Works
      <3> QED BY <2>1, <3>2, <3>3
    <2>3. CASE result # "noroom" BY <1>1, <1>2, <2>1, <2>3 DEF Works
    <2> QED BY <2>2, <2>3
  <1>7. Types' BY <1>0, <1>2, <1>4, <1>5, <1>6 DEF Types
  <1>8. Working' BY <1>0, <1>2, <1>3, <1>4, <1>6 DEF Working
  <1>9. Queued' BY <1>0, <1>2 DEF Queued
  <1>10. Included' BY <1>0, <1>2, <1>4 DEF Included
  <1>11. Timely' BY <1>0, <1>2, <1>4 DEF Timely
  <1>12. ASSUME NEW i \in Ids, Somewhere(i) PROVE Somewhere(i)'
    <2>1. CASE \E u \in unapplied : IdOf[u] = i
      <3>1. PICK u \in unapplied : IdOf[u] = i BY <2>1
      <3>2. CASE u \in unapplied' BY <3>1, <3>2 DEF Somewhere, Kept, State
      <3>3. CASE u \notin unapplied'
        <4>1. u = s /\ result # "noroom" BY <1>1, <1>5, <3>1, <3>3
        <4>2. CASE result = "accepted" BY <1>4, <3>1, <4>1, <4>2 DEF Somewhere
        <4>3. CASE result # "accepted"
          <5>1. CASE i \in pend.known
            <6>1. Holds(chain, Len(chain), i) \/ \E v \in pend.trxs : IdOf[v] = i
              BY <1>0, <1>3, <5>1 DEF Included, Follows
            <6> QED BY <1>2, <1>4, <6>1 DEF Somewhere, Kept, State
          <5>2. CASE i \notin pend.known
            <6>1. result \in {"failed", "refused"}
              BY <1>1, <4>1, <4>3 DEF Results
            <6>2. i \in failed'
              BY <1>1, <3>1, <4>1, <5>2, <6>1 DEF NoteFailure
            <6> QED BY <6>2 DEF Somewhere
          <5> QED BY <5>1, <5>2
        <4> QED BY <4>2, <4>3
      <3> QED BY <3>2, <3>3
    <2>2. CASE \/ Holds(chain, Len(chain), i) \/ \E u \in pend.trxs : IdOf[u] = i
               \/ i \in failed \/ Gone(i)
      BY <1>2, <1>4, <1>5, <2>2 DEF Somewhere, Kept, State, Gone, Horizon
    <2> QED BY <1>12, <2>1, <2>2 DEF Somewhere, Kept, State
  <1>13. Remembered'
    <2>1. \A i : Persisted(i)' <=> Persisted(i) BY <1>2 DEF Persisted, Horizon
    <2>2. \A x \in Requests : (Accepted(x)' <=> Accepted(x)) /\ Id(x) \in Ids
      BY <1>2, FlowAssumption DEF Accepted, Id, Ids
    <2> QED BY <1>0, <1>12, <2>1, <2>2 DEF Remembered, Id
  <1> QED BY <1>7, <1>8, <1>9, <1>10, <1>11, <1>13 DEF FlowInv

(* The steps of start_block that only count, and those that take a request *)
(* from the queue.                                                         *)
LEMMA CountingKeeps ==
    ASSUME FlowInv, UnappliedDone \/ ScheduledLoopHead \/ RunScheduled
                    \/ IncomingDone \/ OutOfTime
    PROVE  FlowInv'
  <1>1. /\ work \in Works /\ queue \in Seq(Requests) /\ Len(queue) \in Nat
        /\ work.apply \subseteq unapplied /\ work.orig <= Len(queue)
        /\ work.phase # "idle" => pend.mode # "none"
        /\ work.phase # "unapplied" => work.apply = {}
    BY DEF FlowInv, Types, Working
  <1>2. /\ work' \in Works /\ work.phase # "idle"
        /\ work'.apply = {}
        /\ work'.orig <= Len(queue)
    <2>1. CASE UnappliedDone
      <3>1. /\ work.phase = "unapplied" /\ work.apply = {}
            /\ \/ \E n \in 0 .. MaxScheduled :
                     work' = [work EXCEPT !.phase = "scheduled", !.scheduled = n]
               \/ work' = [work EXCEPT !.phase = "incoming", !.weight = 0]
        BY <2>1 DEF UnappliedDone
      <3>2. ASSUME NEW n \in 0 .. MaxScheduled,
                   work' = [work EXCEPT !.phase = "scheduled", !.scheduled = n]
            PROVE  work' \in Works /\ work'.apply = {} /\ work'.orig = work.orig
        <4>1. n \in Int BY FlowAssumption
        <4>2. work' \in Works BY <1>1, <3>2, <4>1, WorkUpdates, PhaseNames
        <4> QED BY <1>1, <3>1, <3>2, <4>2 DEF Works
      <3>3. CASE work' = [work EXCEPT !.phase = "incoming", !.weight = 0]
        <4>1. work' \in Works BY <1>1, <3>3, WorkUpdates, PhaseNames
        <4>2. work'.apply = {} /\ work'.orig = work.orig BY <1>1, <3>1, <3>3 DEF Works
        <4> QED BY <1>1, <3>1, <4>1, <4>2
      <3> QED BY <1>1, <3>1, <3>2, <3>3
    <2>2. CASE ScheduledLoopHead
      <3>1. /\ work.phase = "scheduled"
            /\ \/ work' = [work EXCEPT !.phase = "ratio", !.weight = work.weight]
               \/ work' = [work EXCEPT !.phase = "incoming", !.weight = 0]
        BY <2>2 DEF ScheduledLoopHead
      <3>2. work.weight \in Int BY <1>1 DEF Works
      <3>3. /\ [work EXCEPT !.phase = "ratio", !.weight = work.weight] \in Works
            /\ [work EXCEPT !.phase = "incoming", !.weight = 0] \in Works
        <4>1. PICK x \in Int : x = work.weight BY <3>2
        <4>2. [work EXCEPT !.phase = "ratio", !.weight = x] \in Works
          BY <1>1, WorkUpdates, PhaseNames
        <4>3. [work EXCEPT !.phase = "incoming", !.weight = 0] \in Works
          BY <1>1, WorkUpdates, PhaseNames
        <4> QED BY <4>1, <4>2, <4>3
      <3>4. work'.apply = work.apply /\ work'.orig = work.orig BY <1>1, <3>1 DEF Works
      <3>5. work' \in Works BY <3>1, <3>3
      <3> QED BY <1>1, <3>1, <3>4, <3>5
    <2>3. CASE RunScheduled
      <3> DEFINE w == IF work.orig = 0 THEN 0 ELSE work.weight + DeferRatio
                 next == [work EXCEPT !.phase = "scheduled",
                                      !.scheduled = work.scheduled - 1]
      <3>1. w \in Int BY <1>1, FlowAssumption DEF Works
      <3>2. next \in Works /\ next.apply = work.apply /\ next.orig = work.orig
        <4>1. work.scheduled - 1 \in Int BY <1>1 DEF Works
        <4>2. next \in Works BY <1>1, <4>1, WorkUpdates, PhaseNames
        <4> QED BY <1>1, <4>2 DEF Works
      <3>3. /\ work.phase = "ratio"
            /\ work' \in {next, [next EXCEPT !.weight = w],
                          [work EXCEPT !.phase = "idle", !.scheduled = 0, !.orig = 0,
                                       !.weight = w]}
        BY <2>3 DEF RunScheduled
      <3> HIDE DEF w, next
      <3>4. CASE work' = next BY <1>1, <3>2, <3>3, <3>4
      <3>5. CASE work' = [next EXCEPT !.weight = w]
        <4>1. work' \in Works BY <3>1, <3>2, <3>5, WorkUpdates, PhaseNames
        <4>2. work'.apply = next.apply /\ work'.orig = next.orig BY <3>2, <3>5 DEF Works
        <4> QED BY <1>1, <3>2, <3>3, <4>1, <4>2
      <3>6. CASE work' = [work EXCEPT !.phase = "idle", !.scheduled = 0, !.orig = 0,
                                      !.weight = w]
        <4>1. work' \in Works BY <1>1, <3>1, <3>6, WorkUpdates, PhaseNames
        <4>2. work'.apply = work.apply /\ work'.orig = 0 BY <1>1, <3>6 DEF Works
        <4> QED BY <1>1, <3>3, <4>1, <4>2
      <3> QED BY <3>3, <3>4, <3>5, <3>6
    <2>4. CASE IncomingDone \/ OutOfTime
      <3>1. /\ work.phase # "idle"
            /\ work' = [work EXCEPT !.phase = "idle", !.apply = {}, !.scheduled = 0,
                                    !.orig = 0]
        BY <2>4 DEF IncomingDone, OutOfTime, Exit
      <3>2. work' \in Works BY <1>1, <3>1, WorkUpdates, PhaseNames
      <3>3. work'.apply = {} /\ work'.orig = 0 BY <1>1, <3>1 DEF Works
      <3> QED BY <1>1, <3>1, <3>2, <3>3
    <2> QED BY <2>1, <2>2, <2>3, <2>4
  <1>3. UNCHANGED <<clock, chain, pend, unapplied, persistent, queue, answers, failed>>
    BY DEF UnappliedDone, ScheduledLoopHead, RunScheduled, IncomingDone, OutOfTime
  <1> QED BY <1>1, <1>2, <1>3, OnlyWork

LEMMA TakingKeeps ==
    ASSUME FlowInv, InterleaveIncoming \/ ProcessIncoming
    PROVE  /\ FlowInv' /\ Finds(Tail(queue), Head(queue))
           /\ Answers(Tail(queue), Head(queue)) /\ queue # <<>>
  <1>1. /\ work.phase \in {"ratio", "incoming"} /\ work.orig > 0 /\ queue # <<>>
        /\ on_incoming_transaction_async(Head(queue), Tail(queue))
        /\ UNCHANGED <<clock, chain>>
    BY DEF InterleaveIncoming, MoreToInterleave, ProcessIncoming
  <1>2. /\ Head(queue) \in Requests /\ Finds(Tail(queue), Head(queue))
        /\ Len(Tail(queue)) = Len(queue) - 1
    BY <1>1, FirstFinds
  <1>3. /\ work \in Works /\ Len(queue) \in Nat /\ work.orig <= Len(queue)
        /\ work.apply = {} /\ work.orig \in Nat
    BY <1>1 DEF FlowInv, Types, Working, Works
  <1>4. /\ Taken(work) \in Works /\ Taken(work).apply = {}
        /\ Taken(work).orig = work.orig - 1 /\ Taken(work).phase = work.phase
        /\ Taken(work).weight = work.weight
    BY <1>1, <1>3 DEF Taken, Works
  <1>5. /\ work' \in Works /\ work'.apply = {} /\ work'.orig <= Len(Tail(queue))
    <2>1. CASE InterleaveIncoming
      <3>1. work' = [Taken(work) EXCEPT !.weight = work.weight - 1]
        BY <1>4, <2>1 DEF InterleaveIncoming
      <3>2. work.weight - 1 \in Int BY <1>3 DEF Works
      <3>3. work' \in Works BY <1>4, <3>1, <3>2, WorkUpdates, PhaseNames
      <3>4. work'.apply = {} /\ work'.orig = work.orig - 1 BY <1>4, <3>1 DEF Works
      <3> QED BY <1>2, <1>3, <3>3, <3>4
    <2>2. CASE ProcessIncoming
      <3>1. CASE work' = Taken(work) BY <1>2, <1>3, <1>4, <3>1
      <3>2. CASE work' = [work EXCEPT !.phase = "idle", !.orig = 0]
        <4>1. work' \in Works BY <1>3, <3>2, WorkUpdates, PhaseNames
        <4>2. work'.apply = {} /\ work'.orig = 0 BY <1>3, <3>2 DEF Works
        <4> QED BY <1>1, <1>2, <1>3, <4>1, <4>2
      <3> QED BY <2>2, <3>1, <3>2 DEF ProcessIncoming
    <2> QED BY <2>1, <2>2
  <1>6. work.phase # "idle" BY <1>1
  <1> QED BY <1>1, <1>2, <1>5, <1>6, RequestKeeps

LEMMA SubmitKeeps ==
    ASSUME FlowInv, NEW r \in Requests, Submit(r)
    PROVE  FlowInv' /\ Finds(queue, r) /\ Answers(queue, r)
  <1>1. /\ Types /\ Working /\ Queued BY DEF FlowInv
  <1>2. /\ work.phase = "idle" /\ answers[r] = <<>> /\ ~ Contains(queue, r)
        /\ on_incoming_transaction_async(r, queue) /\ UNCHANGED <<clock, chain, work>>
    BY DEF Submit
  <1>3. Finds(queue, r) BY <1>1, <1>2 DEF Types, Queued, Finds, Contains
  <1>4. /\ work' \in Works /\ work'.apply = {} /\ work'.orig <= Len(queue)
        /\ work'.phase = "idle"
    BY <1>1, <1>2 DEF Types, Working
  <1> QED BY <1>2, <1>3, <1>4, RequestKeeps

LEMMA NextFlow == FlowInv /\ [Next]_vars => FlowInv'
  <1> SUFFICES ASSUME FlowInv, [Next]_vars PROVE FlowInv' OBVIOUS
  <1>1. ASSUME NEW r \in Requests, Submit(r) PROVE FlowInv' BY <1>1, SubmitKeeps
  <1>2. CASE start_block("producing") BY <1>2, StartKeeps
  <1>3. CASE start_block("speculating") BY <1>3, StartKeeps
  <1>4. CASE Step
    <2>1. ASSUME NEW s \in Signed, ApplyUnapplied(s) PROVE FlowInv'
      BY <2>1, ApplyUnappliedKeeps
    <2> QED BY <1>4, <2>1, CountingKeeps, TakingKeeps DEF Step
  <1>5. CASE produce_block BY <1>5, ProduceKeeps
  <1>6. CASE ReceiveBlock BY <1>6, ReceiveKeeps
  <1>7. CASE RejectBlock BY <1>7, RejectKeeps
  <1>8. CASE SwitchForks BY <1>8, SwitchKeeps
  <1>9. CASE FailToSwitch BY <1>9, FailKeeps
  <1>10. CASE Tick BY <1>10, TickKeeps
  <1>11. CASE UNCHANGED vars
    <2>1. /\ work \in Works /\ work.apply \subseteq unapplied /\ work.orig <= Len(queue)
          /\ work.phase # "idle" => pend.mode # "none"
          /\ work.phase # "unapplied" => work.apply = {}
      BY DEF FlowInv, Types, Working
    <2> QED BY <1>11, <2>1, OnlyWork DEF vars
  <1> QED BY <1>1, <1>2, <1>3, <1>4, <1>5, <1>6, <1>7, <1>8, <1>9, <1>10, <1>11 DEF Next
-----------------------------------------------------------------------------
(* The inductive invariant holds in every reachable state.                 *)
THEOREM FlowIsSound == Spec => []FlowInv
  BY InitFlow, NextFlow, PTL DEF Spec

(* on_incoming_transaction_async answers every request once, however often *)
(* it was put back into the queue because the block was full.              *)
THEOREM OneAnswer == Spec => []AnsweredOnce
  <1>1. FlowInv => AnsweredOnce
    <2> SUFFICES ASSUME FlowInv, NEW r \in Requests
                 PROVE  Len(answers[r]) + Cardinality({j \in DOMAIN queue : queue[j] = r}) <= 1
      BY DEF AnsweredOnce
    <2> DEFINE P == {j \in DOMAIN queue : queue[j] = r}
    <2>1. /\ DOMAIN queue = 1 .. Len(queue)
          /\ Len(answers[r]) \in Nat /\ Len(answers[r]) <= 1
      BY DEF FlowInv, Types, Queued
    <2>2. CASE P = {}
      <3>1. Cardinality(P) = 0 BY <2>2, FS_EmptySet
      <3> QED BY <2>1, <3>1
    <2>3. CASE P # {}
      <3>1. PICK j \in 1 .. Len(queue) : queue[j] = r BY <2>1, <2>3
      <3>2. P = {j} BY <2>1, <3>1 DEF FlowInv, Queued
      <3>3. Cardinality(P) = 1 BY <3>2, FS_Singleton
      <3>4. Len(answers[r]) = 0 BY <3>1 DEF FlowInv, Queued
      <3> QED BY <3>3, <3>4
    <2> QED BY <2>2, <2>3
  <1> QED BY <1>1, FlowIsSound, PTL

(* No transaction is in two blocks of the chain, or in the chain and the   *)
(* pending block, whatever blocks are received, produced or switched to.   *)
THEOREM OneInclusion == Spec => []IncludedOnce
  <1>1. FlowInv => IncludedOnce
    <2> SUFFICES ASSUME FlowInv PROVE IncludedOnce OBVIOUS
    <2> DEFINE blocks == Append(chain, pend)
    <2>0. chain \in Seq(Blocks) /\ Len(chain) \in Nat /\ Sound(chain)
      BY DEF FlowInv, Included, Sound
    <2>1. /\ DOMAIN blocks = 1 .. Len(chain) + 1 /\ blocks[Len(chain) + 1] = pend
          /\ \A j \in 1 .. Len(chain) : blocks[j] = chain[j]
      BY <2>0
    <2> HIDE DEF blocks
    <2>2. ASSUME NEW j \in DOMAIN blocks, NEW k \in DOMAIN blocks, j < k,
                 NEW s \in blocks[j].trxs, NEW u \in blocks[k].trxs
          PROVE  IdOf[s] # IdOf[u]
      <3>1. j \in 1 .. Len(chain) /\ s \in chain[j].trxs BY <2>0, <2>1, <2>2
      <3>2. CASE k \in 1 .. Len(chain)
        <4>1. Follows(chain, k - 1, chain[k]) /\ u \in chain[k].trxs
          BY <2>0, <2>1, <3>2 DEF Sound
        <4>2. j \in 1 .. k - 1 BY <2>0, <2>2, <3>1, <3>2
        <4> QED BY <3>1, <4>1, <4>2 DEF Follows, Holds
      <3>3. CASE k = Len(chain) + 1
        <4>1. u \in pend.trxs BY <2>1, <3>3
        <4>2. pend.mode # "none" BY <4>1 DEF FlowInv, Working, NoBlock
        <4>3. Follows(chain, Len(chain), pend) BY <4>2 DEF FlowInv, Included
        <4> QED BY <3>1, <4>1, <4>3 DEF Follows, Holds
      <3> QED BY <2>0, <2>1, <3>2, <3>3
    <2>3. ASSUME NEW j \in DOMAIN blocks, NEW k \in DOMAIN blocks, j # k
          PROVE  IdsOf(blocks[j].trxs) \cap IdsOf(blocks[k].trxs) = {}
      <3>1. j < k \/ k < j BY <2>0, <2>1, <2>3
      <3> QED BY <2>2, <3>1 DEF IdsOf
    <2> QED BY <2>3 DEF IncludedOnce, blocks
  <1> QED BY <1>1, FlowIsSound, PTL

(* A transaction that the node accepted and has to keep is in the chain,   *)
(* the pending block or the unapplied transactions until it fails or       *)
(* expires, across aborted blocks, full blocks and fork switches.          *)
THEOREM AcceptedIsKept == Spec => []AcceptedNotLost
  <1>1. FlowInv => AcceptedNotLost
    <2> SUFFICES ASSUME FlowInv, NEW r \in Requests, answers[r] = <<"trace">>,
                        HasProducers \/ r \in Persist
                 PROVE  \/ Id(r) \in IdsOf(UNION {b.trxs : b \in ToSet(Append(chain, pend))})
                        \/ Id(r) \in IdsOf(unapplied)
                        \/ Id(r) \in failed
                        \/ Gone(Id(r))
      BY DEF AcceptedNotLost, Id
    <2> DEFINE blocks == Append(chain, pend)
    <2>0. chain \in Seq(Blocks) /\ Len(chain) \in Nat
      BY DEF FlowInv, Included, Sound
    <2>1. /\ DOMAIN blocks = 1 .. Len(chain) + 1 /\ blocks[Len(chain) + 1] = pend
          /\ \A j \in 1 .. Len(chain) : blocks[j] = chain[j]
      BY <2>0
    <2> HIDE DEF blocks
    <2>2. pend \in ToSet(blocks) /\ \A j \in 1 .. Len(chain) : chain[j] \in ToSet(blocks)
      BY <2>0, <2>1 DEF ToSet
    <2>3. Somewhere(Id(r)) BY DEF FlowInv, Remembered, Accepted
    <2>4. \A b \in ToSet(blocks) : \A s \in b.trxs :
             IdOf[s] \in IdsOf(UNION {x.trxs : x \in ToSet(blocks)})
      BY DEF IdsOf
    <2>5. \A s \in unapplied : IdOf[s] \in IdsOf(unapplied) BY DEF IdsOf
    <2> QED BY <2>2, <2>3, <2>4, <2>5 DEF Somewhere, Kept, State, Holds, blocks
  <1> QED BY <1>1, FlowIsSound, PTL

(* A request leaves the queue only with its answer.                        *)
THEOREM QueueLosesNothing == Spec => LeavesWithAnswer
  <1> DEFINE Leaves == \A r \in Requests :
                Contains(queue, r) /\ ~ Contains(queue', r) => answers'[r] # <<>>
  <1>1. FlowInv /\ [Next]_vars => [Leaves]_vars
    <2> SUFFICES ASSUME FlowInv, Next, NEW r \in Requests, Contains(queue, r),
                        ~ Contains(queue', r)
                 PROVE  answers'[r] # <<>>
      OBVIOUS
    <2>1. ASSUME NEW x \in Requests, Submit(x) PROVE FALSE
      <3>1. PICK j \in 1 .. Len(queue) : queue[j] = r BY DEF Contains
      <3> QED BY <2>1, <3>1, SubmitKeeps, QueueKept DEF FlowInv
    <2>2. CASE InterleaveIncoming \/ ProcessIncoming
      <3>1. /\ Finds(Tail(queue), Head(queue)) /\ Answers(Tail(queue), Head(queue))
            /\ queue # <<>> /\ Head(queue) \in Requests
        BY <2>2, TakingKeeps, FirstFinds
      <3>2. /\ \A j \in 1 .. Len(Tail(queue)) : Contains(queue', Tail(queue)[j])
            /\ Contains(queue', Head(queue)) \/ answers'[Head(queue)] # <<>>
        BY <3>1, QueueKept DEF FlowInv
      <3>3. PICK j \in 1 .. Len(queue) : queue[j] = r BY DEF Contains
      <3>4. CASE j = 1
        <4>1. Head(queue) = r BY <3>3, <3>4
        <4> QED BY <3>2, <4>1
      <3>5. CASE j # 1
        <4>1. /\ j - 1 \in 1 .. Len(Tail(queue)) /\ Tail(queue)[j - 1] = r
          BY <3>1, <3>3, <3>5 DEF FlowInv, Types
        <4> QED BY <3>2, <4>1
      <3> QED BY <3>4, <3>5
    <2>3. CASE UNCHANGED queue BY <2>3
    <2>4. UNCHANGED queue \/ InterleaveIncoming \/ ProcessIncoming
          \/ \E x \in Requests : Submit(x)
      BY DEF Next, Step, start_block, UnappliedDone, ApplyUnapplied, ScheduledLoopHead,
             RunScheduled, IncomingDone, OutOfTime, produce_block, ReceiveBlock,
             RejectBlock, SwitchForks, FailToSwitch, on_incoming_block, Tick
    <2> QED BY <2>1, <2>2, <2>3, <2>4
  <1> QED BY <1>1, FlowIsSound, PTL DEF Spec, LeavesWithAnswer
=============================================================================

-------------------------- MODULE MongoQueueProofs --------------------------
(***************************************************************************)
(* Proofs about MongoQueue for queues of any size, any number of blocks    *)
(* and any start block: documents are stored in the order in which they    *)
(* refer to each other, and shutting down loses nothing that was queued.   *)
(*                                                                         *)
(* The argument follows an entry by counting.  Of the entries of a kind    *)
(* that were signalled one may still be in the main thread's hands, some   *)
(* wait in the queue, some in the consumer's copy, and the rest is done:   *)
(* the contents of both queues are determined by these numbers.            *)
(***************************************************************************)
EXTENDS MongoQueue, TLAPS

MainStates == {"running", "queue", "full", "sleep", "notify", "notify done",
               "join", "joined"}
ConsumerStates == {"check", "to wait", "waiting", "process", "ended"}

Typed ==
    /\ mutex \in {"free", "consumer"}
    /\ signals \in [KindSet -> Nat]
    /\ main \in [pc : MainStates, entry : [kind : KindSet \cup {"none"}, num : Nat]]
    /\ queues \in [KindSet -> Seq(Nat)]
    /\ consumer \in [pc : ConsumerStates, work : [KindSet -> Seq(Nat)], empty : BOOLEAN]
    /\ done \in BOOLEAN /\ reached \in BOOLEAN
    /\ stored \in [KindSet \cup {"accounts", "missed"} -> SUBSET Nat]

(* The main thread has an entry that is not in its queue yet.              *)
Queueing == main.pc \in {"queue", "full", "sleep"}
Held(k) == IF Queueing /\ main.entry.kind = k THEN 1 ELSE 0

(* The last entry of a kind that was queued, captured and worked on.       *)
Queued(k) == signals[k] - Held(k)
Captured(k) == Queued(k) - Len(queues[k])
Worked(k) == Captured(k) - Len(consumer.work[k])

HeldIsLast ==
    Queueing => /\ main.entry.kind \in KindSet
                /\ main.entry.num = signals[main.entry.kind]

(* A sequence holds the entries after a number, without gaps.              *)
Follows(s, n) == \A i \in 1 .. Len(s) : s[i] = n + i

Contiguous ==
    \A k \in KindSet : /\ Worked(k) \in Nat
                       /\ Follows(queues[k], Captured(k))
                       /\ Follows(consumer.work[k], Worked(k))

(* How far the kinds are: nothing overtakes what it refers to.             *)
InOrder(irreversible, block, trace, trx) ==
    irreversible <= block /\ block <= trace /\ trace <= trx

Ordered ==
    /\ InOrder(signals["irreversible"], signals["block"], signals["trace"], signals["trx"])
    /\ signals["trx"] <= signals["block"] + 1
    /\ InOrder(Queued("irreversible"), Queued("block"), Queued("trace"), Queued("trx"))
    /\ InOrder(Captured("irreversible"), Captured("block"), Captured("trace"), Captured("trx"))

ReachedStart == reached <=> signals["block"] >= StartBlock

(* What has been worked on is in the database.                             *)
WorkedStored ==
    /\ \A n \in Nat : 1 <= n /\ n <= Worked("trace") => n \in stored["accounts"]
    /\ \A k \in KindSet, n \in Nat :
          StartBlock < n /\ n <= Worked(k) => n \in stored[k]

(* A stored block comes after its trace and transaction, and no mark is    *)
(* missed.                                                                 *)
StoredWorked ==
    /\ \A n \in stored["block"] : n <= Worked("trace") /\ n <= Worked("trx")
    /\ \A n \in stored["missed"] : n <= StartBlock

(* Where the threads can be while the plugin shuts down.                   *)
Stopping ==
    /\ done => main.pc \in {"notify done", "join", "joined"}
    /\ consumer.pc # "process" => AllEmpty(consumer.work)
    /\ consumer.pc = "process" /\ consumer.empty
          => done /\ AllEmpty(queues) /\ AllEmpty(consumer.work)
    /\ consumer.pc = "ended" => done /\ AllEmpty(queues)

(* The inductive invariant.                                                *)
QueueInv ==
    /\ Typed /\ HeldIsLast /\ Contiguous /\ Ordered /\ ReachedStart
    /\ WorkedStored /\ StoredWorked /\ Stopping
-----------------------------------------------------------------------------
LEMMA KindFacts ==
    /\ KindSet = {"trace", "trx", "block", "irreversible"}
    /\ DOMAIN Kinds = 1 .. 4 /\ \A i \in 1 .. 4 : Kinds[i] \in KindSet
    /\ Kinds[1] = "trace" /\ Kinds[2] = "trx" /\ Kinds[3] = "block"
    /\ Kinds[4] = "irreversible"
<1>1. DOMAIN Kinds = 1 .. 4 /\ Kinds[1] = "trace" /\ Kinds[2] = "trx"
      /\ Kinds[3] = "block" /\ Kinds[4] = "irreversible"
  BY DEF Kinds
<1>2. 1 .. 4 = {1, 2, 3, 4}
  OBVIOUS
<1> QED BY <1>1, <1>2, Zenon DEF KindSet, ToSet

(* The invariant without the part about shutting down.                     *)
Data ==
    HeldIsLast /\ Contiguous /\ Ordered /\ ReachedStart /\ WorkedStored /\ StoredWorked

LEMMA TailFacts ==
    ASSUME NEW s \in Seq(Nat), s # <<>>
    PROVE  /\ Tail(s) \in Seq(Nat) /\ Len(Tail(s)) = Len(s) - 1
           /\ \A m \in 1 .. Len(s) - 1 : Tail(s)[m] = s[m + 1]
  OBVIOUS

LEMMA ProcessedType ==
    ASSUME stored \in [KindSet \cup {"accounts", "missed"} -> SUBSET Nat],
           NEW k \in KindSet, NEW n \in Nat
    PROVE  Processed(k, n) \in [KindSet \cup {"accounts", "missed"} -> SUBSET Nat]
<1>1. CASE k = "trace"
  BY <1>1, KindFacts DEF Processed
<1>2. CASE k # "trace" /\ ~reached
  BY <1>2, KindFacts DEF Processed
<1>3. CASE k = "irreversible" /\ reached
  BY <1>3, KindFacts DEF Processed
<1>4. CASE k \notin {"trace", "irreversible"} /\ reached
  BY <1>4, KindFacts DEF Processed
<1> QED BY <1>1, <1>2, <1>3, <1>4

(* Steps that move no entry keep what depends on the entries only.         *)
LEMMA NothingMoves ==
    ASSUME Typed, Data, UNCHANGED <<signals, queues, reached, stored>>,
           consumer'.work = consumer.work, Queueing' <=> Queueing,
           Queueing => main'.entry = main.entry
    PROVE  Data'
<1>1. \A k : Held(k)' = Held(k)
  BY DEF Held
<1>2. \A k : Queued(k)' = Queued(k) /\ Captured(k)' = Captured(k) /\ Worked(k)' = Worked(k)
  BY <1>1 DEF Queued, Captured, Worked
<1> QED
  BY <1>2 DEF Data, HeldIsLast, Contiguous, Ordered, ReachedStart, WorkedStored, StoredWorked

LEMMA InitQueue == Init => QueueInv
<1> SUFFICES ASSUME Init PROVE QueueInv
  OBVIOUS
<1>1. \A k \in KindSet : /\ signals[k] = 0 /\ queues[k] = <<>>
                         /\ consumer.work[k] = <<>> /\ Held(k) = 0
  BY DEF Init, Held, Queueing, EmptyQueues
<1>2. \A k \in KindSet : Queued(k) = 0 /\ Captured(k) = 0 /\ Worked(k) = 0
  BY <1>1 DEF Queued, Captured, Worked
<1>3. Typed
  <2>1. done \in BOOLEAN /\ reached \in BOOLEAN
    BY Zenon DEF Init
  <2>2. consumer \in [pc : ConsumerStates, work : [KindSet -> Seq(Nat)], empty : BOOLEAN]
    BY DEF Init, ConsumerStates, EmptyQueues
  <2>3. main \in [pc : MainStates, entry : [kind : KindSet \cup {"none"}, num : Nat]]
    BY DEF Init, MainStates, NoEntry
  <2>4. /\ mutex \in {"free", "consumer"}
        /\ signals \in [KindSet -> Nat] /\ queues \in [KindSet -> Seq(Nat)]
        /\ stored \in [KindSet \cup {"accounts", "missed"} -> SUBSET Nat]
    BY DEF Init, EmptyQueues
  <2> QED BY <2>1, <2>2, <2>3, <2>4 DEF Typed
<1>4. HeldIsLast /\ Contiguous
  BY <1>1, <1>2 DEF Init, HeldIsLast, Queueing, Contiguous, Follows
<1>5. Ordered /\ ReachedStart
  <2>1. Ordered
    BY <1>1, <1>2, KindFacts DEF Ordered, InOrder
  <2>2. signals["block"] >= StartBlock <=> StartBlock = 0
    BY <1>1, KindFacts, QueueAssumption
  <2> QED BY <2>1, <2>2, Zenon DEF Init, ReachedStart
<1>6. WorkedStored /\ StoredWorked
  BY <1>2, KindFacts, QueueAssumption DEF Init, WorkedStored, StoredWorked
<1>7. Stopping
  BY <1>1 DEF Init, Stopping, AllEmpty
<1> QED BY <1>3, <1>4, <1>5, <1>6, <1>7 DEF QueueInv

(* The chain signals an entry: the main thread holds it, and nothing that  *)
(* was queued before changes.                                              *)
LEMMA SignalKeeps ==
    ASSUME QueueInv, NEW k \in KindSet, Signal(k)
    PROVE  QueueInv'
<1> USE DEF QueueInv
<1>1. /\ signals[k] \in Nat /\ signals'[k] = signals[k] + 1
      /\ \A j \in KindSet \ {k} : signals'[j] = signals[j]
      /\ signals' \in [KindSet -> Nat]
  BY DEF Signal, Typed
<1>2. \A j \in KindSet : Held(j) = 0 /\ Held(j)' = IF j = k THEN 1 ELSE 0
  BY DEF Signal, Held, Queueing
<1>3. ASSUME NEW j \in KindSet PROVE Queued(j)' = Queued(j)
  <2>1. CASE j = k
    BY <2>1, <1>1, <1>2 DEF Queued
  <2>2. CASE j # k
    BY <2>2, <1>1, <1>2 DEF Queued
  <2> QED BY <2>1, <2>2
<1>4. \A j \in KindSet : Captured(j)' = Captured(j) /\ Worked(j)' = Worked(j)
  BY <1>3 DEF Captured, Worked, Signal
<1>5. Typed'
  BY <1>1 DEF Typed, Signal, MainStates
<1>6. HeldIsLast' /\ Contiguous'
  BY <1>4 DEF Signal, HeldIsLast, Queueing, Contiguous
<1>7. ReachedStart'
  <2>1. signals'["block"] >= StartBlock
           <=> \/ signals["block"] >= StartBlock
               \/ k = "block" /\ signals'[k] >= StartBlock
    <3>1. CASE k = "block"
      BY <3>1, <1>1, QueueAssumption
    <3>2. CASE k # "block"
      BY <3>2, <1>1, KindFacts
    <3> QED BY <3>1, <3>2
  <2>2. reached' <=> reached \/ (k = "block" /\ signals'[k] >= StartBlock)
    BY Zenon DEF Signal
  <2> QED BY <2>1, <2>2, Zenon DEF ReachedStart
<1>8. Ordered'
  <2>1. InOrder(signals["irreversible"], signals["block"], signals["trace"], signals["trx"])'
        /\ signals'["trx"] <= signals'["block"] + 1
    <3> HIDE DEF QueueInv
    <3>0. \A j \in KindSet : signals[j] \in Nat
      BY DEF QueueInv, Typed
    <3>1. /\ InOrder(signals["irreversible"], signals["block"], signals["trace"],
                     signals["trx"])
          /\ signals["trx"] <= signals["block"] + 1
      BY Zenon DEF QueueInv, Ordered
    <3>2. CanSignal(k)
      BY DEF Signal
    <3>3. CASE k = "trx"
      BY <3>0, <3>1, <3>2, <3>3, <1>1, KindFacts DEF InOrder, CanSignal
    <3>4. CASE k = "trace"
      BY <3>0, <3>1, <3>2, <3>4, <1>1, KindFacts DEF InOrder, CanSignal
    <3>5. CASE k = "block"
      BY <3>0, <3>1, <3>2, <3>5, <1>1, KindFacts DEF InOrder, CanSignal
    <3>6. CASE k = "irreversible"
      BY <3>0, <3>1, <3>2, <3>6, <1>1, KindFacts DEF InOrder, CanSignal
    <3> QED BY <3>3, <3>4, <3>5, <3>6, KindFacts
  <2> QED
    BY <2>1, <1>3, <1>4, KindFacts DEF Ordered, InOrder
<1>9. WorkedStored' /\ StoredWorked'
  BY <1>4, KindFacts DEF Signal, WorkedStored, StoredWorked
<1>10. Stopping'
  BY DEF Signal, Stopping, AllEmpty
<1> QED BY <1>5, <1>6, <1>7, <1>8, <1>9, <1>10

(* The main thread puts its entry at the end of the queue.                 *)
LEMMA PushKeeps ==
    ASSUME QueueInv, Queueing, Push, main' = [main EXCEPT !.pc = "notify"],
           UNCHANGED <<mutex, signals, consumer, done, reached, stored>>
    PROVE  QueueInv'
<1> USE DEF QueueInv
<1>1. PICK k \in KindSet :
         k = main.entry.kind /\ main.entry.num = signals[k] /\ signals[k] \in Nat
  BY DEF HeldIsLast, Typed
<1>2. /\ queues'[k] = Append(queues[k], signals[k]) /\ queues[k] \in Seq(Nat)
      /\ \A j \in KindSet \ {k} : queues'[j] = queues[j]
      /\ queues' \in [KindSet -> Seq(Nat)]
  BY <1>1 DEF Push, Typed
<1>3. \A j \in KindSet : Held(j)' = 0 /\ Held(j) = IF j = k THEN 1 ELSE 0
  BY <1>1 DEF Held, Queueing, Typed
<1>4. \A j \in KindSet : Queued(j)' = signals[j] /\ Queued(j) = signals[j] - Held(j)
                         /\ signals[j] \in Nat /\ Len(queues[j]) \in Nat
  BY <1>3 DEF Queued, Typed
<1>5. Len(queues'[k]) = Len(queues[k]) + 1
  BY <1>2
<1>6. ASSUME NEW j \in KindSet PROVE Captured(j)' = Captured(j)
  <2>1. CASE j = k
    BY <2>1, <1>3, <1>4, <1>5 DEF Captured
  <2>2. CASE j # k
    BY <2>2, <1>2, <1>3, <1>4 DEF Captured
  <2> QED BY <2>1, <2>2
<1>7. \A j \in KindSet : Worked(j)' = Worked(j)
  BY <1>6 DEF Worked
<1>8. Typed'
  BY <1>2 DEF Typed, MainStates
<1>9. Contiguous'
  <2>1. Follows(queues[k], Captured(k))'
    <3>1. Captured(k) + Len(queues[k]) + 1 = signals[k] /\ Captured(k) \in Int
      <4>1. Queued(k) = signals[k] - 1 /\ Len(queues[k]) \in Nat
        BY <1>1, <1>3, <1>4
      <4> QED BY <4>1, <1>1 DEF Captured
    <3>2. \A i \in 1 .. Len(queues[k]) + 1 :
             queues'[k][i] = IF i <= Len(queues[k]) THEN queues[k][i] ELSE signals[k]
      BY <1>1, <1>2
    <3>3. \A i \in 1 .. Len(queues[k]) : queues[k][i] = Captured(k) + i
      BY <1>1 DEF Contiguous, Follows
    <3>4. ASSUME NEW i \in 1 .. Len(queues'[k]) PROVE queues'[k][i] = Captured(k) + i
      <4>1. i \in 1 .. Len(queues[k]) + 1 /\ Len(queues[k]) \in Nat
        BY <1>4, <1>5, <1>1
      <4>2. CASE i <= Len(queues[k])
        BY <4>1, <4>2, <3>2, <3>3
      <4>3. CASE i = Len(queues[k]) + 1
        <5>1. queues'[k][i] = signals[k]
          BY <4>1, <4>3, <3>2
        <5> QED BY <5>1, <4>1, <4>3, <3>1
      <4> QED BY <4>1, <4>2, <4>3
    <3> QED BY <3>4, <1>6, <1>1 DEF Follows
  <2>2. ASSUME NEW j \in KindSet \ {k} PROVE Follows(queues[j], Captured(j))'
    BY <1>2, <1>6 DEF Contiguous, Follows
  <2>3. ASSUME NEW j \in KindSet
        PROVE Worked(j)' \in Nat /\ Follows(consumer.work[j], Worked(j))'
    BY <1>7 DEF Contiguous, Follows
  <2>4. ASSUME NEW j \in KindSet PROVE Follows(queues[j], Captured(j))'
    <3>1. CASE j = k
      BY <2>1, <3>1
    <3> QED BY <2>2, <3>1
  <2> QED BY <2>3, <2>4 DEF Contiguous
<1>10. HeldIsLast' /\ ReachedStart'
  BY DEF HeldIsLast, Queueing, ReachedStart, Typed
<1>11. Ordered'
  BY <1>4, <1>6, KindFacts DEF Ordered, InOrder
<1>12. WorkedStored' /\ StoredWorked'
  BY <1>7, KindFacts DEF WorkedStored, StoredWorked
<1>13. Stopping'
  BY DEF Stopping, Queueing, Typed
<1> QED BY <1>8, <1>9, <1>10, <1>11, <1>12, <1>13

(* The consumer takes all queues: what was queued is now captured.         *)
LEMMA CaptureKeeps ==
    ASSUME QueueInv, Capture
    PROVE  QueueInv'
<1> USE DEF QueueInv
<1>1. /\ AllEmpty(consumer.work)
      /\ \A k \in KindSet : queues'[k] = <<>> /\ consumer'.work[k] = queues[k]
      /\ consumer'.work = queues
  BY DEF Capture, Stopping, EmptyQueues
<1>2. \A k \in KindSet : /\ Queued(k)' = Queued(k) /\ Queued(k) \in Int
                         /\ Len(queues[k]) \in Nat /\ Len(consumer.work[k]) = 0
  BY <1>1 DEF Queued, Held, Queueing, Capture, Typed, AllEmpty
<1>3. \A k \in KindSet : Captured(k)' = Queued(k)
  BY <1>1, <1>2 DEF Captured
<1>4. \A k \in KindSet : Worked(k)' = Captured(k) /\ Worked(k) = Captured(k)
  BY <1>1, <1>2, <1>3 DEF Captured, Worked
<1>5. Typed'
  <2>1. queues' \in [KindSet -> Seq(Nat)]
    BY DEF Capture, EmptyQueues
  <2>2. AllEmpty(queues) \in BOOLEAN
    BY DEF AllEmpty
  <2>3. consumer' \in [pc : ConsumerStates, work : [KindSet -> Seq(Nat)], empty : BOOLEAN]
    BY <2>2 DEF Capture, Typed, ConsumerStates
  <2> QED BY <2>1, <2>3 DEF Capture, Typed
<1>6. Contiguous'
  BY <1>1, <1>3, <1>4 DEF Contiguous, Follows
<1>7. HeldIsLast' /\ ReachedStart' /\ Ordered'
  BY <1>2, <1>3, KindFacts DEF Capture, HeldIsLast, Queueing, ReachedStart, Ordered
<1>8. WorkedStored' /\ StoredWorked'
  BY <1>4, KindFacts DEF Capture, WorkedStored, StoredWorked
<1>9. Stopping'
  BY <1>1 DEF Capture, Stopping, AllEmpty, EmptyQueues
<1> QED BY <1>5, <1>6, <1>7, <1>8, <1>9

(* The consumer works on the first entry of the first queue that is not    *)
(* empty: everything the entry refers to has been worked on.               *)
LEMMA ProcessKeeps ==
    ASSUME QueueInv, Process
    PROVE  QueueInv'
<1> USE DEF QueueInv
<1>1. PICK i \in DOMAIN Kinds :
         /\ consumer.work[Kinds[i]] # <<>>
         /\ \A j \in 1 .. i - 1 : consumer.work[Kinds[j]] = <<>>
         /\ stored' = Processed(Kinds[i], Head(consumer.work[Kinds[i]]))
         /\ consumer' = [consumer EXCEPT !.work[Kinds[i]] = Tail(@)]
  BY DEF Process
<1> DEFINE k == Kinds[i]
           n == Head(consumer.work[k])
<1>2. k \in KindSet /\ i \in 1 .. 4
  BY KindFacts
<1>3. /\ consumer.work[k] \in Seq(Nat) /\ Len(consumer.work[k]) \in Nat \ {0}
      /\ n = consumer.work[k][1] /\ n \in Nat
  BY <1>1, <1>2 DEF Typed
<1>4. /\ consumer'.pc = consumer.pc /\ consumer'.empty = consumer.empty
      /\ consumer'.work = [consumer.work EXCEPT ![k] = Tail(consumer.work[k])]
      /\ consumer'.work[k] = Tail(consumer.work[k])
      /\ \A j \in KindSet \ {k} : consumer'.work[j] = consumer.work[j]
  BY <1>1, <1>2 DEF Typed
<1>5. /\ Len(consumer'.work[k]) = Len(consumer.work[k]) - 1
      /\ consumer'.work[k] \in Seq(Nat)
      /\ \A m \in 1 .. Len(consumer'.work[k]) :
            consumer'.work[k][m] = consumer.work[k][m + 1]
  <2>1. /\ Tail(consumer.work[k]) \in Seq(Nat)
        /\ Len(Tail(consumer.work[k])) = Len(consumer.work[k]) - 1
        /\ \A m \in 1 .. Len(consumer.work[k]) - 1 :
              Tail(consumer.work[k])[m] = consumer.work[k][m + 1]
    BY <1>1, <1>3, TailFacts
  <2> QED BY <2>1, <1>4
<1>6. \A j \in KindSet : /\ Queued(j)' = Queued(j) /\ Captured(j)' = Captured(j)
                         /\ Captured(j) \in Int /\ Len(consumer.work[j]) \in Nat
                         /\ Worked(j) = Captured(j) - Len(consumer.work[j])
  BY DEF Process, Queued, Captured, Held, Queueing, Typed, Worked
<1>7. /\ \A j \in KindSet \ {k} : Worked(j)' = Worked(j)
      /\ Worked(k)' = Worked(k) + 1 /\ Worked(k) \in Nat
      /\ n = Worked(k) + 1 /\ n <= Captured(k)
  <2>1. \A j \in KindSet \ {k} : Worked(j)' = Worked(j)
    BY <1>4, <1>6 DEF Worked
  <2>2. Worked(k)' = Worked(k) + 1
    BY <1>2, <1>3, <1>5, <1>6 DEF Worked
  <2>3. Worked(k) \in Nat /\ n = Worked(k) + 1
    BY <1>2, <1>3 DEF Contiguous, Follows
  <2>4. n <= Captured(k)
    BY <2>3, <1>2, <1>3, <1>6
  <2> QED BY <2>1, <2>2, <2>3, <2>4
<1>8. Typed'
  <2>1. consumer' \in [pc : ConsumerStates, work : [KindSet -> Seq(Nat)], empty : BOOLEAN]
    <3>1. [consumer.work EXCEPT ![k] = Tail(consumer.work[k])] \in [KindSet -> Seq(Nat)]
      BY <1>2, <1>4, <1>5 DEF Typed
    <3> QED BY <3>1, <1>1, <1>4 DEF Typed
  <2>2. stored' \in [KindSet \cup {"accounts", "missed"} -> SUBSET Nat]
    BY <1>1, <1>2, <1>3, ProcessedType DEF Typed
  <2> QED BY <2>1, <2>2 DEF Process, Typed
<1>9. Contiguous'
  <2>1. ASSUME NEW j \in KindSet \ {k} PROVE Follows(consumer.work[j], Worked(j))'
    BY <1>4, <1>7 DEF Contiguous, Follows
  <2>2. Follows(consumer.work[k], Worked(k))'
    <3>1. \A m \in 1 .. Len(consumer.work[k]) : consumer.work[k][m] = Worked(k) + m
      BY <1>2 DEF Contiguous, Follows
    <3>2. ASSUME NEW m \in 1 .. Len(consumer'.work[k])
          PROVE  consumer'.work[k][m] = Worked(k)' + m
      <4>1. m + 1 \in 1 .. Len(consumer.work[k]) /\ m \in Nat
        BY <1>3, <1>5
      <4>2. consumer'.work[k][m] = consumer.work[k][m + 1]
        BY <1>5
      <4>3. consumer.work[k][m + 1] = Worked(k) + (m + 1)
        BY <4>1, <3>1
      <4> QED BY <4>1, <4>2, <4>3, <1>7
    <3> QED BY <3>2 DEF Follows
  <2>3. ASSUME NEW j \in KindSet
        PROVE  Worked(j)' \in Nat /\ Follows(queues[j], Captured(j))'
    BY <1>6, <1>7 DEF Process, Contiguous, Follows
  <2> QED BY <2>1, <2>2, <2>3 DEF Contiguous
<1>10. HeldIsLast' /\ ReachedStart' /\ Ordered'
  BY <1>6, KindFacts DEF Process, HeldIsLast, Queueing, ReachedStart, Ordered
<1>11. StartBlock < n => reached
  <2> HIDE DEF k, n
  <2>1. Captured(k) <= signals[k] /\ \A j \in KindSet : signals[j] \in Nat
    BY <1>2 DEF Captured, Queued, Held, Typed
  <2>2. signals[k] <= signals["block"] + 1
    BY <1>2, <2>1, KindFacts DEF Ordered, InOrder
  <2>3. signals[k] \in Nat /\ signals["block"] \in Nat /\ Captured(k) \in Int
    BY <2>1, <1>2, <1>6, KindFacts
  <2>4. StartBlock < n => signals["block"] >= StartBlock
    <3>1. n \in Nat /\ n <= Captured(k) /\ StartBlock \in Nat
      BY <1>3, <1>7, QueueAssumption
    <3> QED BY <3>1, <2>1, <2>2, <2>3
  <2> QED BY <2>4, Zenon DEF ReachedStart
<1>12. /\ k = "irreversible" => n <= Worked("trx")
       /\ k \in {"irreversible", "block"} => n <= Worked("trace") /\ n <= Worked("trx")
  <2>1. k \in {"irreversible", "block"} => i >= 3
    BY <1>2, KindFacts
  <2>2. i >= 3 => consumer.work["trace"] = <<>> /\ consumer.work["trx"] = <<>>
    BY <1>1, <1>2, KindFacts
  <2>3. i >= 3 => Worked("trace") = Captured("trace") /\ Worked("trx") = Captured("trx")
    BY <2>2, <1>6, KindFacts
  <2>4. k \in {"irreversible", "block"} =>
           Captured(k) <= Captured("trace") /\ Captured(k) <= Captured("trx")
    BY <1>6, KindFacts DEF Ordered, InOrder
  <2>5. Captured(k) \in Int /\ Captured("trace") \in Int /\ Captured("trx") \in Int
    BY <1>2, <1>6, KindFacts
  <2> QED BY <2>1, <2>3, <2>4, <2>5, <1>3, <1>7
<1>13. /\ \A j \in KindSet \cup {"accounts"} : stored[j] \subseteq stored'[j]
       /\ k = "trace" => n \in stored'["accounts"]
       /\ reached => n \in stored'[k]
  BY <1>1, <1>2, KindFacts DEF Typed, Processed
<1>14. WorkedStored'
  <2>1. ASSUME NEW m \in Nat, 1 <= m, m <= Worked("trace")'
        PROVE  m \in stored'["accounts"]
    BY <2>1, <1>2, <1>7, <1>13, KindFacts DEF WorkedStored, Contiguous
  <2>2. ASSUME NEW j \in KindSet, NEW m \in Nat, StartBlock < m, m <= Worked(j)'
        PROVE  m \in stored'[j]
    <3>1. CASE m <= Worked(j)
      BY <3>1, <2>2, <1>13 DEF WorkedStored
    <3>2. CASE j = k /\ m = n
      BY <3>2, <2>2, <1>11, <1>13
    <3> QED BY <3>1, <3>2, <2>2, <1>7
  <2> QED BY <2>1, <2>2 DEF WorkedStored
<1>15. StoredWorked'
  <2>1. \A j \in KindSet : Worked(j) \in Nat /\ Worked(j)' \in Nat /\ Worked(j) <= Worked(j)'
    BY <1>2, <1>7 DEF Contiguous
  <2>2. ASSUME NEW m \in stored'["block"]
        PROVE  m \in stored["block"] \/ (m = n /\ k \in {"irreversible", "block"})
    BY <1>1, <1>2, KindFacts DEF Typed, Processed
  <2>3. ASSUME NEW m \in stored'["missed"]
        PROVE  m \in stored["missed"]
               \/ (m = n /\ k = "irreversible" /\ n \notin stored["trx"])
    BY <1>1, <1>2, KindFacts DEF Typed, Processed
  <2>4. \A m \in stored'["block"] : m <= Worked("trace")' /\ m <= Worked("trx")'
    <3> SUFFICES ASSUME NEW m \in stored'["block"]
                 PROVE  m <= Worked("trace")' /\ m <= Worked("trx")'
      OBVIOUS
    <3>1. m <= Worked("trace") /\ m <= Worked("trx") /\ m \in Nat
      BY <2>2, <1>3, <1>12, KindFacts DEF StoredWorked, Typed
    <3> QED BY <3>1, <2>1, KindFacts
  <2>5. \A m \in stored'["missed"] : m <= StartBlock
    <3> SUFFICES ASSUME NEW m \in stored'["missed"] PROVE m <= StartBlock
      OBVIOUS
    <3>1. CASE m = n /\ k = "irreversible" /\ n \notin stored["trx"]
      BY <3>1, <1>3, <1>12, KindFacts, QueueAssumption DEF WorkedStored
    <3> QED BY <3>1, <2>3 DEF StoredWorked
  <2> QED BY <2>4, <2>5 DEF StoredWorked
<1>16. Stopping'
  BY <1>1, <1>2, <1>4 DEF Process, Stopping, AllEmpty
<1> QED BY <1>8, <1>9, <1>10, <1>14, <1>15, <1>16

LEMMA NextQueue == QueueInv /\ [Next]_vars => QueueInv'
<1> SUFFICES ASSUME QueueInv, [Next]_vars PROVE QueueInv'
  OBVIOUS
<1> USE DEF QueueInv
<1>0. Data
  BY DEF Data
<1>1. ASSUME Data', Typed', Stopping' PROVE QueueInv'
  BY <1>1 DEF Data
<1>2. CASE \E k \in KindSet : Signal(k)
  BY <1>2, SignalKeeps
<1>3. CASE Shutdown
  <2>1. Data'
    BY <1>0, <1>3, NothingMoves DEF Shutdown, Queueing, Typed
  <2>2. Typed' /\ Stopping'
    BY <1>3 DEF Shutdown, Typed, MainStates, Stopping, AllEmpty
  <2> QED BY <2>1, <2>2, <1>1
<1>4. CASE queue
  <2>1. CASE Len(queues[main.entry.kind]) > MaxQueue
    <3>1. Data'
      BY <1>0, <1>4, <2>1, NothingMoves DEF queue, Queueing, Typed
    <3>2. Typed' /\ Stopping'
      BY <1>4, <2>1 DEF queue, Typed, MainStates, Stopping, AllEmpty
    <3> QED BY <3>1, <3>2, <1>1
  <2>2. CASE ~ Len(queues[main.entry.kind]) > MaxQueue
    BY <1>4, <2>2, PushKeeps DEF queue, Queueing
  <2> QED BY <2>1, <2>2
<1>5. CASE QueueFull
  <2>1. consumer' \in [pc : ConsumerStates, work : [KindSet -> Seq(Nat)], empty : BOOLEAN]
        /\ consumer'.work = consumer.work
    BY <1>5 DEF QueueFull, notify_one, Typed, ConsumerStates
  <2>2. Data'
    BY <1>0, <1>5, <2>1, NothingMoves DEF QueueFull, Queueing, Typed
  <2>3. Typed' /\ Stopping'
    BY <1>5, <2>1 DEF QueueFull, notify_one, Typed, MainStates, Stopping, AllEmpty
  <2> QED BY <2>2, <2>3, <1>1
<1>6. CASE QueueAfterSleep
  BY <1>6, PushKeeps DEF QueueAfterSleep, Queueing
<1>7. CASE Notify
  <2>1. consumer' \in [pc : ConsumerStates, work : [KindSet -> Seq(Nat)], empty : BOOLEAN]
        /\ consumer'.work = consumer.work
    BY <1>7 DEF Notify, notify_one, Typed, ConsumerStates
  <2>2. Data'
    BY <1>0, <1>7, <2>1, NothingMoves DEF Notify, Queueing
  <2>3. Typed' /\ Stopping'
    BY <1>7, <2>1 DEF Notify, notify_one, Typed, NoEntry, MainStates, Stopping, AllEmpty
  <2> QED BY <2>2, <2>3, <1>1
<1>8. CASE NotifyDone
  <2>1. consumer' \in [pc : ConsumerStates, work : [KindSet -> Seq(Nat)], empty : BOOLEAN]
        /\ consumer'.work = consumer.work
    BY <1>8 DEF NotifyDone, notify_one, Typed, ConsumerStates
  <2>2. Data'
    BY <1>0, <1>8, <2>1, NothingMoves DEF NotifyDone, Queueing, Typed
  <2>3. Typed' /\ Stopping'
    BY <1>8, <2>1 DEF NotifyDone, notify_one, Typed, MainStates, Stopping, AllEmpty
  <2> QED BY <2>2, <2>3, <1>1
<1>9. CASE Join
  <2>1. Data'
    BY <1>0, <1>9, NothingMoves DEF Join, Queueing, Typed
  <2>2. Typed' /\ Stopping'
    BY <1>9 DEF Join, Typed, MainStates, Stopping, AllEmpty
  <2> QED BY <2>1, <2>2, <1>1
<1>10. CASE Check
  <2>1. Data'
    BY <1>0, <1>10, NothingMoves DEF Check, Queueing, Typed
  <2>2. Typed' /\ Stopping'
    BY <1>10 DEF Check, Typed, ConsumerStates, Stopping, AllEmpty
  <2> QED BY <2>1, <2>2, <1>1
<1>11. CASE Wait
  <2>1. Data'
    BY <1>0, <1>11, NothingMoves DEF Wait, Queueing, Typed
  <2>2. Typed' /\ Stopping'
    BY <1>11 DEF Wait, Typed, ConsumerStates, Stopping, AllEmpty
  <2> QED BY <2>1, <2>2, <1>1
<1>12. CASE Capture
  BY <1>12, CaptureKeeps
<1>13. CASE Process
  BY <1>13, ProcessKeeps
<1>14. CASE EndOfRound
  <2>1. consumer'.work = consumer.work
    BY <1>14 DEF EndOfRound, Typed
  <2>2. Data'
    BY <1>0, <1>14, <2>1, NothingMoves DEF EndOfRound, Queueing
  <2>3. Typed' /\ Stopping'
    BY <1>14, <2>1 DEF EndOfRound, Typed, ConsumerStates, Stopping, AllEmpty
  <2> QED BY <2>2, <2>3, <1>1
<1>15. CASE UNCHANGED vars
  <2>1. Data'
    BY <1>0, <1>15, NothingMoves DEF vars, Queueing
  <2>2. Typed' /\ Stopping'
    BY <1>15 DEF vars, Typed, Stopping, AllEmpty
  <2> QED BY <2>1, <2>2, <1>1
<1> QED
  BY <1>2, <1>3, <1>4, <1>5, <1>6, <1>7, <1>8, <1>9, <1>10, <1>11, <1>12,
     <1>13, <1>14, <1>15 DEF Next, Main, Consumer
-----------------------------------------------------------------------------
(* The database is always in order: for queues of any size and any start   *)
(* block, consume_blocks never stores a block before its transaction, its  *)
(* trace and the accounts of all blocks up to it, nor marks a transaction  *)
(* irreversible that is not there.                                         *)
THEOREM DatabaseInOrder == Spec => []StoredInOrder
<1>1. QueueInv => StoredInOrder
  <2> SUFFICES ASSUME QueueInv, NEW n \in StartBlock + 1 .. LastBlock
               PROVE  /\ n \in stored.block => /\ n \in stored.trace \cap stored.trx
                                              /\ 1 .. n \subseteq stored.accounts
                      /\ n \notin stored.missed
    BY DEF StoredInOrder
  <2>1. n \in Nat /\ StartBlock < n
    BY QueueAssumption
  <2>2. n \notin stored.missed
    BY <2>1, QueueAssumption DEF QueueInv, StoredWorked
  <2>3. ASSUME n \in stored.block
        PROVE  n \in stored.trace /\ n \in stored.trx /\ 1 .. n \subseteq stored.accounts
    <3>1. n <= Worked("trace") /\ n <= Worked("trx")
      BY <2>3 DEF QueueInv, StoredWorked
    <3>2. n \in stored.trace /\ n \in stored.trx
      BY <2>1, <3>1, KindFacts DEF QueueInv, WorkedStored
    <3>3. Worked("trace") \in Nat
      BY KindFacts DEF QueueInv, Contiguous
    <3>4. ASSUME NEW m \in 1 .. n PROVE m \in stored.accounts
      BY <2>1, <3>1, <3>3 DEF QueueInv, WorkedStored
    <3> QED BY <3>2, <3>4
  <2> QED BY <2>2, <2>3
<1> QED BY <1>1, InitQueue, NextQueue, PTL DEF Spec

(* Shutting down loses nothing: when the thread that consume_blocks runs   *)
(* on has ended, everything queued after the start block is stored.        *)
THEOREM ShutdownDrains == Spec => []Drained
<1>1. QueueInv => Drained
  <2> SUFFICES ASSUME QueueInv, consumer.pc = "ended", NEW k \in KindSet,
                      NEW n \in StartBlock + 1 .. signals[k]
               PROVE  n \in stored[k]
    BY DEF Drained
  <2>1. n \in Nat /\ StartBlock < n /\ n <= signals[k] /\ signals[k] \in Nat
    BY QueueAssumption DEF QueueInv, Typed
  <2>2. queues[k] = <<>> /\ consumer.work[k] = <<>> /\ ~Queueing
    BY DEF QueueInv, Stopping, AllEmpty, Queueing
  <2>3. Worked(k) = signals[k]
    BY <2>1, <2>2 DEF Worked, Captured, Queued, Held
  <2> QED BY <2>1, <2>3 DEF QueueInv, WorkedStored
<1> QED BY <1>1, InitQueue, NextQueue, PTL DEF Spec

(* Types, and: what waits to be written never exceeds what was signalled.  *)
THEOREM QueueTypes == Spec => []TypeOK
<1>1. QueueInv => TypeOK
  <2> SUFFICES ASSUME QueueInv PROVE TypeOK
    OBVIOUS
  <2>1. ASSUME NEW k \in KindSet
        PROVE  Len(queues[k]) + Len(consumer.work[k]) <= signals[k]
    <3>1. Worked(k) \in Nat /\ signals[k] \in Nat /\ Held(k) \in Nat
          /\ Len(queues[k]) \in Nat /\ Len(consumer.work[k]) \in Nat
      BY DEF QueueInv, Contiguous, Typed, Held
    <3>2. Worked(k) = signals[k] - Held(k) - Len(queues[k]) - Len(consumer.work[k])
      BY DEF Worked, Captured, Queued
    <3>3. \A w, s, h, q, c \in Nat : w = s - h - q - c => q + c <= s
      OBVIOUS
    <3> QED BY <3>1, <3>2, <3>3
  <2> QED BY <2>1 DEF QueueInv, Typed, TypeOK, MainStates, ConsumerStates
<1> QED BY <1>1, InitQueue, NextQueue, PTL DEF Spec

=============================================================================

----------------------------- MODULE MongoQueue -----------------------------
(***************************************************************************)
(* mongo_db_plugin: the main thread queues what the chain signals, a       *)
(* consumer thread takes all queues at once and writes their entries to    *)
(* the database.  The two share one mutex and one condition variable.      *)
(*                                                                         *)
(* An entry is the number of its block: the trace and the transaction in   *)
(* it, the accepted block, the irreversible block.  Filters and the        *)
(* options that leave out collections are not modelled.                    *)
(***************************************************************************)
EXTENDS Naturals, Sequences, FiniteSets, SequencesExt

CONSTANTS
    MaxQueue,    \* max_queue_size, from which on the main thread sleeps
    StartBlock,  \* start_block_num
    LastBlock,   \* bound: blocks
    Lag,         \* how many blocks at most are not irreversible
    ShutsDown    \* whether the plugin is shut down

ASSUME QueueAssumption ==
    /\ {MaxQueue, StartBlock, LastBlock, Lag} \subseteq Nat
    /\ ShutsDown \in BOOLEAN

(* The queues, in the order in which the consumer works on them.           *)
Kinds == <<"trace", "trx", "block", "irreversible">>
KindSet == ToSet(Kinds)

VARIABLES
    mutex,      \* mtx: who holds it
    signals,    \* the last entry of each kind that the chain has signalled
    main,       \* the main thread: where it is, and the entry it queues
    queues,     \* the four queues
    consumer,   \* the consumer thread: where it is, its process queues
    done, reached,  \* the atomic flags done and start_block_reached
    stored      \* the database: entries of each kind, the accounts of the
                \* traces, and the transactions whose final mark was missed

vars == <<mutex, signals, main, queues, consumer, done, reached, stored>>

NoEntry == [kind |-> "none", num |-> 0]
EmptyQueues == [k \in KindSet |-> <<>>]
AllEmpty(q) == \A k \in KindSet : q[k] = <<>>

Init ==
    /\ mutex = "free"
    /\ signals = [k \in KindSet |-> 0]
    /\ main = [pc |-> "running", entry |-> NoEntry]
    /\ queues = EmptyQueues
    /\ consumer = [pc |-> "check", work |-> EmptyQueues, empty |-> FALSE]
    /\ done = FALSE /\ reached = (StartBlock = 0)
    /\ stored = [k \in KindSet \cup {"accounts", "missed"} |-> {}]
-----------------------------------------------------------------------------
(* condition.notify_one(): nothing is remembered when nobody waits.        *)
notify_one ==
    consumer' = IF consumer.pc = "waiting"
                THEN [consumer EXCEPT !.pc = "check"] ELSE consumer

(* The signals of a block: transaction and trace, then the block, then     *)
(* blocks that became irreversible.                                        *)
CanSignal(k) ==
    /\ signals[k] < LastBlock
    /\ CASE k = "trx" -> signals.trx = signals.block
         [] k = "trace" -> signals.trace < signals.trx
         [] k = "block" -> signals.block < signals.trace
         [] k = "irreversible" -> signals.irreversible < signals.block
    /\ k = "block" => signals.block - signals.irreversible < Lag

(* accepted_transaction, applied_transaction, accepted_block and           *)
(* applied_irreversible_block, up to the call of queue.                    *)
Signal(k) ==
    /\ main.pc = "running" /\ CanSignal(k)
    /\ signals' = [signals EXCEPT ![k] = @ + 1]
    /\ reached' = (reached \/ (k = "block" /\ signals'[k] >= StartBlock))
    /\ main' = [pc |-> "queue", entry |-> [kind |-> k, num |-> signals'[k]]]
    /\ UNCHANGED <<mutex, queues, consumer, done, stored>>

Push == queues' = [queues EXCEPT ![main.entry.kind] = Append(@, main.entry.num)]

queue ==
    /\ main.pc = "queue" /\ mutex = "free"
    /\ IF Len(queues[main.entry.kind]) > MaxQueue
       THEN main' = [main EXCEPT !.pc = "full"] /\ UNCHANGED queues
       ELSE Push /\ main' = [main EXCEPT !.pc = "notify"]
    /\ UNCHANGED <<mutex, signals, consumer, done, reached, stored>>

(* Too long a queue: the consumer is woken and the main thread sleeps once *)
(* before it adds the entry.                                               *)
QueueFull ==
    /\ main.pc = "full"
    /\ notify_one
    /\ main' = [main EXCEPT !.pc = "sleep"]
    /\ UNCHANGED <<mutex, signals, queues, done, reached, stored>>

QueueAfterSleep ==
    /\ main.pc = "sleep" /\ mutex = "free"
    /\ Push
    /\ main' = [main EXCEPT !.pc = "notify"]
    /\ UNCHANGED <<mutex, signals, consumer, done, reached, stored>>

Notify_forgotten ==
    /\ main.pc = "notify"
    /\ main' = [pc |-> "running", entry |-> NoEntry]
    /\ UNCHANGED <<mutex, signals, queues, consumer, done, reached, stored>>
Notify ==
    /\ main.pc = "notify"
    /\ notify_one
    /\ main' = [pc |-> "running", entry |-> NoEntry]
    /\ UNCHANGED <<mutex, signals, queues, done, reached, stored>>

(* The destructor, after the signals are disconnected: done is set without *)
(* the mutex.                                                              *)
Shutdown ==
    /\ ShutsDown /\ main.pc = "running"
    /\ done' = TRUE
    /\ main' = [main EXCEPT !.pc = "notify done"]
    /\ UNCHANGED <<mutex, signals, queues, consumer, reached, stored>>

NotifyDone ==
    /\ main.pc = "notify done"
    /\ notify_one
    /\ main' = [main EXCEPT !.pc = "join"]
    /\ UNCHANGED <<mutex, signals, queues, done, reached, stored>>

Join ==
    /\ main.pc = "join" /\ consumer.pc = "ended"
    /\ main' = [main EXCEPT !.pc = "joined"]
    /\ UNCHANGED <<mutex, signals, queues, consumer, done, reached, stored>>
-----------------------------------------------------------------------------
(* consume_blocks, with the mutex: look, then wait or take every queue.    *)
Check ==
    /\ consumer.pc = "check" /\ mutex = "free"
    /\ AllEmpty(queues) /\ ~done
    /\ mutex' = "consumer"
    /\ consumer' = [consumer EXCEPT !.pc = "to wait"]
    /\ UNCHANGED <<signals, main, queues, done, reached, stored>>

(* condition.wait lets the mutex go when it waits.                         *)
Wait ==
    /\ consumer.pc = "to wait"
    /\ mutex' = "free"
    /\ consumer' = [consumer EXCEPT !.pc = "waiting"]
    /\ UNCHANGED <<signals, main, queues, done, reached, stored>>

Capture ==
    /\ consumer.pc = "check" /\ mutex = "free"
    /\ ~ AllEmpty(queues) \/ done
    /\ consumer' = [pc |-> "process", work |-> queues, empty |-> AllEmpty(queues)]
    /\ queues' = EmptyQueues
    /\ UNCHANGED <<mutex, signals, main, done, reached, stored>>

(* What processing one entry does to the database.  Before the start block *)
(* only the accounts of a trace are stored.  The irreversible block is     *)
(* stored if it was not; its mark on the transaction needs the document.   *)
Processed_early(k, n) ==
    IF ~reached THEN stored
    ELSE CASE k = "trace" ->
                [stored EXCEPT !.accounts = @ \cup {n}, !.trace = @ \cup {n}]
           [] k = "irreversible" ->
                [stored EXCEPT !.irreversible = @ \cup {n}, !.block = @ \cup {n},
                               !.missed = IF n \in stored.trx THEN @ ELSE @ \cup {n}]
           [] OTHER -> [stored EXCEPT ![k] = @ \cup {n}]
Processed(k, n) ==
    CASE k = "trace" ->
            [stored EXCEPT !.accounts = @ \cup {n},
                           !.trace = IF reached THEN @ \cup {n} ELSE @]
      [] k # "trace" /\ ~reached -> stored
      [] k = "irreversible" /\ reached ->
            [stored EXCEPT !.irreversible = @ \cup {n}, !.block = @ \cup {n},
                           !.missed = IF n \in stored.trx THEN @ ELSE @ \cup {n}]
      [] OTHER -> [stored EXCEPT ![k] = @ \cup {n}]

Process ==
    /\ consumer.pc = "process"
    /\ \E i \in DOMAIN Kinds :
          LET k == Kinds[i]
          IN /\ consumer.work[k] # <<>>
             /\ \A j \in 1 .. i - 1 : consumer.work[Kinds[j]] = <<>>
             /\ stored' = Processed(k, Head(consumer.work[k]))
             /\ consumer' = [consumer EXCEPT !.work[k] = Tail(@)]
    /\ UNCHANGED <<mutex, signals, main, queues, done, reached>>

(* The end of a round: the thread ends when it found nothing and is done.  *)
EndOfRound_early ==
    /\ consumer.pc = "process" /\ AllEmpty(consumer.work)
    /\ consumer' = [consumer EXCEPT !.pc = IF done THEN "ended" ELSE "check"]
    /\ UNCHANGED <<mutex, signals, main, queues, done, reached, stored>>
EndOfRound ==
    /\ consumer.pc = "process" /\ AllEmpty(consumer.work)
    /\ consumer' = [consumer EXCEPT !.pc = IF consumer.empty /\ done
                                           THEN "ended" ELSE "check"]
    /\ UNCHANGED <<mutex, signals, main, queues, done, reached, stored>>

Main ==
    \/ queue \/ QueueFull \/ QueueAfterSleep \/ Notify
    \/ NotifyDone \/ Join
Consumer == Check \/ Wait \/ Capture \/ Process \/ EndOfRound

Next ==
    \/ \E k \in KindSet : Signal(k)
    \/ Shutdown
    \/ Main
    \/ Consumer

Spec == Init /\ [][Next]_vars

(* Both threads run whenever they can.  The chain need not signal, and     *)
(* nobody need shut the plugin down.                                       *)
FairSpec == Spec /\ WF_vars(Main) /\ WF_vars(Consumer)
-----------------------------------------------------------------------------
TypeOK ==
    /\ mutex \in {"free", "consumer"}
    /\ main.pc \in {"running", "queue", "full", "sleep", "notify", "notify done",
                    "join", "joined"}
    /\ consumer.pc \in {"check", "to wait", "waiting", "process", "ended"}
    /\ \A k \in KindSet : Len(queues[k]) + Len(consumer.work[k]) <= signals[k]

(* A block after the start block is stored after its transaction and its   *)
(* trace, and after the accounts (the ABIs it is written with) of all      *)
(* blocks up to it; when it becomes irreversible the transaction's         *)
(* document is there to be marked.                                         *)
StoredInOrder ==
    \A n \in StartBlock + 1 .. LastBlock :
        /\ n \in stored.block => /\ n \in stored.trace \cap stored.trx
                                 /\ 1 .. n \subseteq stored.accounts
        /\ n \notin stored.missed

(* Shutting down loses nothing: when the thread has ended, everything that *)
(* was queued is in the database.                                          *)
Drained ==
    consumer.pc = "ended"
       => \A k \in KindSet : \A n \in StartBlock + 1 .. signals[k] : n \in stored[k]

(* What is signalled is stored, even if it comes while the consumer is     *)
(* about to wait or the queue is full.                                     *)
EventuallyStored ==
    \A k \in KindSet : \A n \in StartBlock + 1 .. LastBlock :
        signals[k] = n ~> n \in stored[k]

=============================================================================

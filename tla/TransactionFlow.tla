-------------------------- MODULE TransactionFlow --------------------------
(***************************************************************************)
(* The way of a transaction that a client or a peer sends: the queue of    *)
(* the producer plugin, the pending block, the controller's unapplied      *)
(* transactions, the chain and its forks, until it expires.                *)
(*                                                                         *)
(* All of it runs on one thread.  start_block is a loop over transactions  *)
(* whose results and whose time are not known in advance, so it takes one  *)
(* step per transaction, and nothing else happens between two of them.     *)
(* The node reads in the mode SPECULATIVE, the only one with unapplied     *)
(* transactions.                                                           *)
(***************************************************************************)
EXTENDS Naturals, Sequences, FiniteSets, FiniteSetsExt, SequencesExt

CONSTANTS
    Signed,        \* signed transactions
    IdOf,          \* their ids, which the signatures are no part of
    Expiration,    \* the last block time at which an id may be in a block
    Requests,      \* calls of on_incoming_transaction_async
    TrxOf,         \* the signed transaction of each
    Persist,       \* those with persist_until_expired
    HasProducers,  \* whether _producers is not empty
    DeferRatio,    \* _incoming_defer_ratio
    MaxScheduled,  \* bound: deferred transactions ready at one time
    MaxClock,      \* bound: block slots
    MaxBlocks      \* bound: length of the chain

ASSUME FlowAssumption ==
    /\ IdOf \in [Signed -> DOMAIN Expiration]
    /\ \A i \in DOMAIN Expiration : Expiration[i] \in Nat
    /\ TrxOf \in [Requests -> Signed] /\ Persist \subseteq Requests
    /\ HasProducers \in BOOLEAN
    /\ {DeferRatio, MaxScheduled, MaxClock, MaxBlocks} \subseteq Nat

VARIABLES
    clock,       \* now, in block slots
    chain,       \* the blocks up to the head: time, transactions, dedupe index
    pend,        \* the pending block of the controller
    unapplied,   \* unapplied_transactions, keyed by signed id
    persistent,  \* _persistent_transactions
    queue,       \* _pending_incoming_transactions
    work,        \* where start_block is, and _incoming_trx_weight
    answers,     \* history: the answers each request got
    failed       \* history: ids that failed, other than as duplicates

vars == <<clock, chain, pend, unapplied, persistent, queue, work, answers, failed>>

Ids == DOMAIN Expiration
IdsOf(S) == {IdOf[s] : s \in S}
NoBlock == [mode |-> "none", time |-> 0, trxs |-> {}, known |-> {}]
Block(time, trxs, known) == [time |-> time, trxs |-> trxs, known |-> known]
Phases == {"idle", "unapplied", "scheduled", "ratio", "incoming"}

Init ==
    /\ clock = 0
    /\ chain = <<Block(0, {}, {})>>
    /\ pend = NoBlock
    /\ unapplied = {} /\ persistent = {} /\ queue = <<>>
    /\ work = [phase |-> "idle", apply |-> {}, scheduled |-> 0, orig |-> 0, weight |-> 0]
    /\ answers = [r \in Requests |-> <<>>]
    /\ failed = {}
-----------------------------------------------------------------------------
(* The controller.                                                         *)
head == Last(chain)

(* now > expiration: the dedupe index keeps an id while it is valid.       *)
clear_at_expiration(known, time) == {i \in known : ~ time >= Expiration[i]}
clear_expired_input_transactions(known, time) ==
    {i \in known : ~ time > Expiration[i]}

is_known_unexpired_transaction(i) == i \in pend.known

(* What push_transaction may return for s in the pending block: expiration *)
(* is checked first, then the limits of the block, then duplicates; an     *)
(* action may fail, and a node may refuse by its own rules, at any time.   *)
Results(s) ==
    IF Expiration[IdOf[s]] < pend.time THEN {"failed"}
    ELSE {"failed", "refused", "noroom"}
         \cup (IF IdOf[s] \in pend.known THEN {} ELSE {"accepted"})

push_transaction(s, result) ==
    /\ result \in Results(s)
    /\ pend' = IF result = "accepted"
               THEN [pend EXCEPT !.trxs = @ \cup {s}, !.known = @ \cup {IdOf[s]}]
               ELSE pend

(* A transaction that was applied, or that failed for good, is no longer   *)
(* unapplied; one that failed by a rule of this node still is.             *)
Unapplied(s, result) ==
    IF result \in {"accepted", "failed"} THEN unapplied \ {s} ELSE unapplied

NoteFailure(s, result) ==
    failed' = IF result = "failed" /\ IdOf[s] \notin pend.known
              THEN failed \cup {IdOf[s]} ELSE failed

abort_block_forgets(p, una) == una
abort_block(p, una) == una \cup p.trxs

(* Chains and unapplied transactions, while blocks are popped and applied. *)
State(c, una) == [chain |-> c, unapplied |-> una]

pop_block(st) ==
    State(Front(st.chain), st.unapplied \cup Last(st.chain).trxs)

ValidBlock(c, time, S) ==
    /\ time > Last(c).time
    /\ \A s \in S : Expiration[IdOf[s]] >= time
    /\ IdsOf(S) \cap clear_expired_input_transactions(Last(c).known, time) = {}
    /\ Cardinality(IdsOf(S)) = Cardinality(S)

apply_block(st, time, S) ==
    State(Append(st.chain,
                 Block(time, S,
                       clear_expired_input_transactions(Last(st.chain).known, time)
                       \cup IdsOf(S))),
          st.unapplied \ S)
-----------------------------------------------------------------------------
(* The producer plugin: one call with a request.                           *)
send_response(r, answer) == answers' = [answers EXCEPT ![r] = Append(@, answer)]

(* What the caller and the queue q see of a result: without room in the    *)
(* block the request waits for another block.                              *)
Respond_both(r, q, result) ==
    /\ queue' = IF result = "noroom" THEN Append(q, r) ELSE q
    /\ send_response(r, IF result = "accepted" THEN "trace" ELSE "error")
Respond(r, q, result) ==
    IF result = "noroom"
    THEN queue' = Append(q, r) /\ UNCHANGED answers
    ELSE /\ queue' = q
         /\ send_response(r, IF result = "accepted" THEN "trace" ELSE "error")

(* on_incoming_transaction_async, where q is the queue it finds.           *)
on_incoming_transaction_async(r, q) ==
    LET s == TrxOf[r]
        i == IdOf[s]
    IN \/ /\ pend = NoBlock
          /\ queue' = Append(q, r)
          /\ UNCHANGED <<pend, unapplied, persistent, answers, failed>>
       \/ /\ pend # NoBlock
          /\ Expiration[i] < pend.time \/ is_known_unexpired_transaction(i)
          /\ send_response(r, "error")
          /\ queue' = q
          /\ UNCHANGED <<pend, unapplied, persistent, failed>>
       \/ /\ pend # NoBlock
          /\ Expiration[i] >= pend.time /\ ~ is_known_unexpired_transaction(i)
          /\ \E result \in Results(s) :
                /\ push_transaction(s, result)
                /\ unapplied' = Unapplied(s, result)
                /\ NoteFailure(s, result)
                /\ Respond(r, q, result)
                /\ persistent' = IF result = "accepted" /\ r \in Persist
                                 THEN persistent \cup {i} ELSE persistent

Submit(r) ==
    /\ work.phase = "idle"
    /\ answers[r] = <<>> /\ ~ Contains(queue, r)
    /\ on_incoming_transaction_async(r, queue)
    /\ UNCHANGED <<clock, chain, work>>
-----------------------------------------------------------------------------
(* start_block.                                                            *)
Exit == work' = [work EXCEPT !.phase = "idle", !.apply = {}, !.scheduled = 0, !.orig = 0]

(* The part before the transactions: the old pending block is aborted and  *)
(* the persisted transactions that expire with the new one are forgotten.  *)
(* What is unapplied is then dropped, kept, or put on the list to apply.   *)
start_block(mode) ==
    LET time == Max({clock, head.time}) + 1
        una == abort_block(pend, unapplied)
        kept == {i \in persistent : Expiration[i] > time}
        Valid(s) == Expiration[IdOf[s]] >= time
        Wanted(s) == Valid(s) /\ (HasProducers \/ IdOf[s] \in kept)
        Apply(s) == Wanted(s) /\ (mode = "producing" \/ IdOf[s] \in kept)
    IN /\ work.phase = "idle"
       /\ mode = "producing" => HasProducers
       /\ pend' = [mode |-> mode, time |-> time, trxs |-> {},
                   known |-> clear_expired_input_transactions(head.known, time)]
       /\ persistent' = kept
       /\ IF ~HasProducers /\ kept = {}
          THEN unapplied' = {}
          ELSE unapplied' = {s \in una : Wanted(s)}
       /\ work' = [work EXCEPT !.phase = "unapplied", !.orig = Len(queue),
                               !.apply = {s \in unapplied' : Apply(s)}]
       /\ UNCHANGED <<clock, chain, queue, answers, failed>>

UnappliedDone ==
    /\ work.phase = "unapplied" /\ work.apply = {}
    /\ IF pend.mode = "producing"
       THEN \E n \in 0 .. MaxScheduled :
               work' = [work EXCEPT !.phase = "scheduled", !.scheduled = n]
       ELSE work' = [work EXCEPT !.phase = "incoming", !.weight = 0]
    /\ UNCHANGED <<clock, chain, pend, unapplied, persistent, queue, answers, failed>>

(* One transaction of apply_trxs.  Whatever failed for another reason than *)
(* the room in the block is dropped.                                       *)
ApplyUnapplied(s) ==
    /\ work.phase = "unapplied" /\ s \in work.apply
    /\ \E result \in Results(s) :
          /\ push_transaction(s, result)
          /\ IF result = "noroom"
             THEN /\ Exit
                  /\ UNCHANGED <<unapplied, failed>>
             ELSE /\ work' = [work EXCEPT !.apply = @ \ {s}]
                  /\ unapplied' = unapplied \ {s}
                  /\ NoteFailure(s, IF result = "refused" THEN "failed" ELSE result)
    /\ UNCHANGED <<clock, chain, persistent, queue, answers>>

(* Only the requests that were there when start_block began are taken.     *)
Taken(w) == [w EXCEPT !.orig = @ - 1]

MoreToInterleave == work.weight >= 1 /\ work.orig > 0 /\ queue # <<>>

ScheduledLoopHead ==
    /\ work.phase = "scheduled"
    /\ work' = [work EXCEPT !.phase = IF work.scheduled > 0 THEN "ratio" ELSE "incoming",
                            !.weight = IF work.scheduled > 0 THEN @ ELSE 0]
    /\ UNCHANGED <<clock, chain, pend, unapplied, persistent, queue, answers, failed>>

(* Incoming transactions between two deferred ones, by the ratio.          *)
InterleaveIncoming ==
    /\ work.phase = "ratio" /\ MoreToInterleave
    /\ work' = [Taken(work) EXCEPT !.weight = @ - 1]
    /\ on_incoming_transaction_async(Head(queue), Tail(queue))
    /\ UNCHANGED <<clock, chain>>

(* One deferred transaction, of which only the weight matters here: a      *)
(* blacklisted one is skipped, one that finds no room ends the loop.       *)
RunScheduled ==
    /\ work.phase = "ratio" /\ ~MoreToInterleave
    /\ LET weight == IF work.orig = 0 THEN 0 ELSE work.weight + DeferRatio
           next == [work EXCEPT !.phase = "scheduled", !.scheduled = @ - 1]
       IN work' \in { next, [next EXCEPT !.weight = weight],
                      [work EXCEPT !.phase = "idle", !.scheduled = 0, !.orig = 0,
                                   !.weight = weight] }
    /\ UNCHANGED <<clock, chain, pend, unapplied, persistent, queue, answers, failed>>

ProcessIncoming ==
    /\ work.phase = "incoming" /\ work.orig > 0 /\ queue # <<>>
    /\ on_incoming_transaction_async(Head(queue), Tail(queue))
    /\ work' \in {Taken(work), [work EXCEPT !.phase = "idle", !.orig = 0]}
    /\ UNCHANGED <<clock, chain>>

IncomingDone ==
    /\ work.phase = "incoming" /\ ~ (work.orig > 0 /\ queue # <<>>)
    /\ Exit
    /\ UNCHANGED <<clock, chain, pend, unapplied, persistent, queue, answers, failed>>

(* block_time <= now: the time of the block is used up.                    *)
OutOfTime ==
    /\ \/ work.phase = "unapplied" /\ (work.apply # {} \/ pend.mode # "producing")
       \/ work.phase = "scheduled"
       \/ work.phase = "ratio" /\ ~MoreToInterleave
    /\ Exit
    /\ UNCHANGED <<clock, chain, pend, unapplied, persistent, queue, answers, failed>>

Step ==
    \/ UnappliedDone
    \/ \E s \in Signed : ApplyUnapplied(s)
    \/ ScheduledLoopHead \/ InterleaveIncoming \/ RunScheduled
    \/ ProcessIncoming \/ IncomingDone
    \/ OutOfTime
-----------------------------------------------------------------------------
(* Blocks.  The timer of the production loop fires in the slot before the  *)
(* block's time, when its start says that is when to produce.              *)
produce_block ==
    /\ work.phase = "idle" /\ pend.mode = "producing"
    /\ pend.time <= clock + 1
    /\ Len(chain) < MaxBlocks
    /\ chain' = Append(chain, Block(pend.time, pend.trxs, pend.known))
    /\ pend' = NoBlock
    /\ UNCHANGED <<clock, unapplied, persistent, queue, work, answers, failed>>

BlockTimes == 1 .. clock + 1

(* Every block from outside first aborts the pending one.                  *)
on_incoming_block(st) ==
    /\ pend' = NoBlock
    /\ chain' = st.chain /\ unapplied' = st.unapplied
    /\ UNCHANGED <<clock, persistent, queue, work, answers, failed>>

Aborted == State(chain, abort_block(pend, unapplied))

ReceiveBlock ==
    /\ work.phase = "idle" /\ Len(chain) < MaxBlocks
    /\ \E S \in SUBSET Signed, t \in BlockTimes :
          /\ ValidBlock(chain, t, S)
          /\ on_incoming_block(apply_block(Aborted, t, S))

(* A block that fails after the transactions S: it is aborted too.         *)
RejectBlock ==
    /\ work.phase = "idle"
    /\ \E S \in SUBSET Signed, t \in BlockTimes :
          /\ ValidBlock(chain, t, S)
          /\ on_incoming_block(State(chain,
                abort_block([trxs |-> S], Aborted.unapplied \ S)))

(* maybe_switch_forks: the head is popped and two blocks of another branch *)
(* are applied.                                                            *)
SwitchForks ==
    /\ work.phase = "idle" /\ Len(chain) > 1 /\ Len(chain) < MaxBlocks
    /\ LET popped == pop_block(Aborted)
       IN \E S \in SUBSET Signed, t \in BlockTimes :
            /\ ValidBlock(popped.chain, t, S)
            /\ LET first == apply_block(popped, t, S)
               IN \E T \in SUBSET Signed, u \in BlockTimes :
                    /\ ValidBlock(first.chain, u, T)
                    /\ on_incoming_block(apply_block(first, u, T))

(* The same when the second block fails after the transactions T: the bad  *)
(* branch is popped and the old head applied again.                        *)
FailToSwitch ==
    /\ work.phase = "idle" /\ Len(chain) > 1
    /\ LET popped == pop_block(Aborted)
       IN \E S \in SUBSET Signed, t \in BlockTimes :
            /\ ValidBlock(popped.chain, t, S)
            /\ LET first == apply_block(popped, t, S)
               IN \E T \in SUBSET Signed, u \in BlockTimes :
                    /\ ValidBlock(first.chain, u, T)
                    /\ LET bad == State(first.chain,
                                       abort_block([trxs |-> T], first.unapplied \ T))
                       IN on_incoming_block(apply_block(pop_block(bad), head.time, head.trxs))

Tick ==
    /\ work.phase = "idle" /\ clock < MaxClock
    /\ clock' = clock + 1
    /\ UNCHANGED <<chain, pend, unapplied, persistent, queue, work, answers, failed>>

Next ==
    \/ \E r \in Requests : Submit(r)
    \/ start_block("producing") \/ start_block("speculating")
    \/ Step
    \/ produce_block
    \/ ReceiveBlock \/ RejectBlock \/ SwitchForks \/ FailToSwitch
    \/ Tick

Spec == Init /\ [][Next]_vars

-----------------------------------------------------------------------------
TypeOK ==
    /\ clock \in 0 .. MaxClock
    /\ \A b \in ToSet(chain) : b.trxs \subseteq Signed /\ b.known \subseteq Ids
    /\ pend.mode \in {"none", "producing", "speculating"}
    /\ pend.trxs \subseteq Signed /\ pend.known \subseteq Ids
    /\ unapplied \subseteq Signed /\ persistent \subseteq Ids
    /\ queue \in Seq(Requests) /\ work.phase \in Phases
    /\ work.apply \subseteq unapplied
    /\ work.orig <= Len(queue)

(* A request gets one answer: while it is in the queue it has none yet,    *)
(* and it is there once, however often the block was full.                 *)
AnsweredOnce ==
    \A r \in Requests :
        Len(answers[r]) + Cardinality({j \in DOMAIN queue : queue[j] = r}) <= 1

(* A request leaves the queue of start_block only with an answer.          *)
LeavesWithAnswer ==
    [][\A r \in Requests :
          Contains(queue, r) /\ ~ Contains(queue', r) => answers'[r] # <<>>]_vars

(* No transaction is twice in the chain or once more in the pending block, *)
(* whichever signatures it has, across forks and up to its expiration: the *)
(* dedupe index forgets an id only when no block may hold it any more.     *)
IncludedOnce ==
    LET blocks == Append(chain, pend)
    IN \A j, k \in DOMAIN blocks :
          j # k => IdsOf(blocks[j].trxs) \cap IdsOf(blocks[k].trxs) = {}

(* No pending block is later than this.                                    *)
Horizon == clock + 2
Gone(i) == Expiration[i] < Horizon \/ (~HasProducers /\ Expiration[i] = Horizon)

(* A transaction that was accepted, on a node with producers or with the   *)
(* persist flag, stays in the chain, the pending block or the unapplied    *)
(* transactions until it fails when it is applied again or expires:        *)
(* aborted blocks, full blocks and fork switches do not lose it.           *)
AcceptedNotLost ==
    \A r \in Requests :
        LET s == TrxOf[r]
            i == IdOf[s]
        IN answers[r] = <<"trace">> /\ (HasProducers \/ r \in Persist)
           => \/ i \in IdsOf(UNION {b.trxs : b \in ToSet(Append(chain, pend))})
              \/ i \in IdsOf(unapplied)
              \/ i \in failed
              \/ Gone(i)

=============================================================================

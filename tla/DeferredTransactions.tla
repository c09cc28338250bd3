------------------------ MODULE DeferredTransactions ------------------------
(***************************************************************************)
(* Deferred transactions: a contract or a delayed transaction puts one in  *)
(* the table, a later block retires it with a receipt (executed, soft or   *)
(* hard failure, expired), or it is cancelled.  The producer decides which *)
(* ones to try and remembers those that failed; a validating node follows  *)
(* the receipts of the block.                                              *)
(*                                                                         *)
(* Times are block slots relative to the pending block's time and the      *)
(* table is kept in the order of the index by_delay, so that neither time  *)
(* nor object ids need a bound.                                            *)
(***************************************************************************)
EXTENDS Integers, Sequences, FiniteSets, FiniteSetsExt, SequencesExt, Functions

CONSTANTS
    Keys,      \* sender and sender_id
    Delayed,   \* the keys of delayed input transactions, which have no sender
    TrxIds,    \* transaction ids
    Payers,    \* accounts that pay for the table's memory
    MaxDelay,  \* the longest delay
    Window,    \* deferred_trx_expiration_window
    MaxReplaced \* bound: deferred transactions replaced along a chain

DeferredAssumption ==
    /\ Delayed \subseteq Keys
    /\ MaxDelay \in Nat /\ Window \in Nat \ {0}
    /\ MaxReplaced \in Nat

VARIABLES
    base,       \* the database at the head: the table, its memory (ram) and,
                \* as history, the memory of replaced objects (lost)
    db,         \* the database of the pending block
    block,      \* mode of the pending block, scheduled ids to try, receipts
    blacklist   \* _blacklisted_transactions: slots until each id may be tried

vars == <<base, db, block, blacklist>>

NoBlock == [mode |-> "none", todo |-> <<>>, receipts |-> <<>>]

Init ==
    /\ base = [gtos |-> <<>>, ram |-> [p \in Payers |-> 0],
               lost |-> [p \in Payers |-> 0]]
    /\ db = base
    /\ block = NoBlock
    /\ blacklist = [t \in TrxIds |-> 0]
-----------------------------------------------------------------------------
(* The table.                                                              *)
At(d, t) == CHOOSE n \in DOMAIN d.gtos : d.gtos[n].trx_id = t
UsedIds(d) == {g.trx_id : g \in ToSet(d.gtos)}
WithKey(d, k) == {n \in DOMAIN d.gtos : d.gtos[n].key = k}

remove_scheduled_transaction(d, n) ==
    [d EXCEPT !.gtos = RemoveAt(@, n), !.ram[d.gtos[n].payer] = @ - 1]

(* The place of a new object in by_delay: after those that are ready       *)
(* before or at the same time.                                             *)
Insert(gtos, g) ==
    LET before == Cardinality({n \in DOMAIN gtos : gtos[n].delay <= g.delay})
    IN InsertAt(gtos, before + 1, g)

Object(t, k, p, delay) ==
    [trx_id |-> t, key |-> k, payer |-> p, delay |-> delay,
     expiration |-> delay + Window]

(* A new object of a contract or of a delayed transaction.                 *)
create(d, g) ==
    [d EXCEPT !.gtos = Insert(@, g), !.ram[g.payer] = @ + 1]

(* An existing one: the id stays that of the old transaction, and the      *)
(* memory of the old one is not given back.                                *)
replace(d, n, g) ==
    [d EXCEPT !.gtos = Insert(RemoveAt(@, n), [g EXCEPT !.trx_id = d.gtos[n].trx_id]),
              !.ram[g.payer] = @ + 1,
              !.lost[d.gtos[n].payer] = @ + 1]

(* Only in a block of another node, whose code allowed it: a producer      *)
(* refuses to.                                                             *)
CanReplace(d) ==
    /\ block.mode # "producing"
    /\ FoldFunction(+, 0, d.lost) < MaxReplaced

(* An id names the block it was made in, so it is none of an earlier one   *)
(* that is still remembered.                                               *)
FreshIds(d) ==
    TrxIds \ (UsedIds(d) \cup UsedIds(base) \cup {t \in TrxIds : blacklist[t] > 0}
              \cup {r.trx_id : r \in ToSet(block.receipts)})

(* What the actions of a transaction may do to the table, when none fails. *)
schedule_deferred_transaction(d) ==
    {create(d, Object(t, k, p, delay)) :
        t \in FreshIds(d),
        k \in {x \in Keys : WithKey(d, x) = {}},
        p \in Payers, delay \in 0 .. MaxDelay}
    \cup
    {replace(d, n, Object(d.gtos[n].trx_id, d.gtos[n].key, p, delay)) :
        n \in {x \in DOMAIN d.gtos : CanReplace(d) /\ d.gtos[x].key \notin Delayed},
        p \in Payers, delay \in 0 .. MaxDelay}

cancel_deferred_transaction(d) ==
    {remove_scheduled_transaction(d, n) :
        n \in {x \in DOMAIN d.gtos : d.gtos[x].key \notin Delayed}}

Effects(d) ==
    {d} \cup schedule_deferred_transaction(d) \cup cancel_deferred_transaction(d)
-----------------------------------------------------------------------------
(* push_scheduled_transaction for the object n: the states it may leave    *)
(* and the receipt, "none" when the session is undone.  The object is      *)
(* taken out first; what the failed transaction did is undone before its   *)
(* sender's onerror runs or the hard failure is billed.                    *)
Retire(d, n) == remove_scheduled_transaction(d, n)

Undone(d, n, after) == Retire(d, n)

Expire_restored(d, n) == {[db |-> d, status |-> "none"]}
Expire(d, n) == {[db |-> Retire(d, n), status |-> "expired"]}
Executed(d, n) ==
    {[db |-> e, status |-> "executed"] : e \in Effects(Retire(d, n))}
SoftFail(d, n) ==
    IF d.gtos[n].key \in Delayed THEN {}
    ELSE {[db |-> f, status |-> "soft_fail"] :
             f \in UNION {Effects(Undone(d, n, e)) : e \in Effects(Retire(d, n))}}
HardFail(d, n) ==
    {[db |-> Undone(d, n, e), status |-> "hard_fail"] : e \in Effects(Retire(d, n))}
Subjective(d, n) == {[db |-> d, status |-> "none"]}
NotReady(d, n) == {[db |-> d, status |-> "thrown"]}

push_scheduled_transaction(d, n) ==
    IF d.gtos[n].delay > 0 THEN NotReady(d, n)
    ELSE IF d.gtos[n].expiration < 0 THEN Expire(d, n)
    ELSE Executed(d, n) \cup SoftFail(d, n) \cup HardFail(d, n) \cup Subjective(d, n)

Receipt(t, status) == [trx_id |-> t, status |-> status]
AddReceipt(b, t, status) ==
    IF status \in {"none", "thrown"} THEN b ELSE [b EXCEPT !.receipts = Append(@, Receipt(t, status))]
-----------------------------------------------------------------------------
(* Time.                                                                   *)
Later(g) == [g EXCEPT !.delay = Max({@ - 1, 0}), !.expiration = Max({@ - 1, -1})]
NextSlot(d) == [d EXCEPT !.gtos = [n \in DOMAIN d.gtos |-> Later(d.gtos[n])]]

get_scheduled_transactions(d) ==
    LET ready == SelectSeq(d.gtos, LAMBDA g : g.delay <= 0)
    IN [n \in DOMAIN ready |-> ready[n].trx_id]

Count(bl) == [t \in TrxIds |-> Max({bl[t] - 1, 0})]

(* A pending block for the next slot.  Its sessions over the last one are  *)
(* undone when that one was not committed.                                 *)
start_block(mode) ==
    /\ block.todo = <<>>
    /\ base' = NextSlot(base)
    /\ db' = base'
    /\ blacklist' = Count(blacklist)
    /\ block' = [mode |-> mode, receipts |-> <<>>,
                 todo |-> IF mode = "producing"
                          THEN get_scheduled_transactions(base') ELSE <<>>]
-----------------------------------------------------------------------------
(* One scheduled transaction of a block this node produces.                *)
NextTodo == [block EXCEPT !.todo = Tail(@)]

(* Cancelled in this block: push_scheduled_transaction throws, and the     *)
(* exception is logged and dropped.  Blacklisted: not tried.               *)
Skip ==
    /\ block.mode = "producing" /\ block.todo # <<>>
    /\ Head(block.todo) \notin UsedIds(db) \/ blacklist[Head(block.todo)] > 0
    /\ block' = NextTodo
    /\ UNCHANGED <<base, db, blacklist>>

(* A failure that is not for want of room in the block puts the id on the  *)
(* blacklist, the retired hard failures too.                               *)
RunScheduled ==
    /\ block.mode = "producing" /\ block.todo # <<>>
    /\ LET t == Head(block.todo)
       IN /\ t \in UsedIds(db) /\ blacklist[t] = 0
          /\ \E r \in push_scheduled_transaction(db, At(db, t)) :
                /\ db' = r.db
                /\ blacklist' = IF r.status \in {"none", "hard_fail"}
                                THEN [blacklist EXCEPT ![t] = Window] ELSE blacklist
                /\ block' = AddReceipt(NextTodo, t, r.status)
    /\ UNCHANGED base

(* The block is full, or its time is used up.                              *)
Exhausted ==
    /\ block.mode = "producing" /\ block.todo # <<>>
    /\ block' = [block EXCEPT !.todo = <<>>]
    /\ UNCHANGED <<base, db, blacklist>>

(* An input transaction in a block of either kind.                         *)
InputTransaction ==
    /\ block.mode # "none" /\ block.todo = <<>>
    /\ db' \in Effects(db) \ {db}
    /\ UNCHANGED <<base, block, blacklist>>

(* A receipt of a block from another node.  apply_block would also run an  *)
(* object that the same block scheduled, but no block has such a receipt:  *)
(* producers collect the ids to try before the block's first transaction.  *)
ApplyReceipt ==
    /\ block.mode = "validating"
    /\ \E n \in DOMAIN db.gtos : \E r \in push_scheduled_transaction(db, n) :
          /\ db.gtos[n].trx_id \in UsedIds(base)
          /\ r.status \notin {"none", "thrown"}
          /\ db' = r.db
          /\ block' = AddReceipt(block, db.gtos[n].trx_id, r.status)
    /\ UNCHANGED <<base, blacklist>>

commit_block ==
    /\ block.mode # "none" /\ block.todo = <<>>
    /\ base' = db
    /\ block' = NoBlock
    /\ UNCHANGED <<db, blacklist>>

Next ==
    \/ start_block("producing") \/ start_block("validating")
    \/ Skip \/ RunScheduled \/ Exhausted
    \/ InputTransaction \/ ApplyReceipt
    \/ commit_block

Spec == Init /\ [][Next]_vars

(* start_block runs to its end, the node goes on starting blocks, and not  *)
(* every block of its own that has time for a deferred transaction is      *)
(* given up.                                                               *)
CommitRetired == commit_block /\ block.mode = "producing" /\ block.receipts # <<>>
FairSpec ==
    /\ Spec
    /\ WF_vars(Skip \/ RunScheduled \/ Exhausted)
    /\ SF_vars(start_block("producing"))
    /\ SF_vars(RunScheduled)
    /\ SF_vars(CommitRetired)
-----------------------------------------------------------------------------
TypeOK ==
    \A d \in {base, db} :
        /\ \A m, n \in DOMAIN d.gtos :
              m # n => /\ d.gtos[m].trx_id # d.gtos[n].trx_id
                       /\ d.gtos[m].key # d.gtos[n].key
        /\ \A n \in DOMAIN d.gtos : d.gtos[n].delay \in 0 .. MaxDelay
        /\ \A m, n \in DOMAIN d.gtos : m < n => d.gtos[m].delay <= d.gtos[n].delay

(* Every account is charged for exactly its objects in the table and, for  *)
(* good, for those that were replaced, through scheduling, replacing,      *)
(* cancelling, every way of retiring and every undone session.             *)
RamBalanced ==
    \A p \in Payers :
        db.ram[p] = db.lost[p]
                      + Cardinality({n \in DOMAIN db.gtos : db.gtos[n].payer = p})

Received(t) == {n \in DOMAIN block.receipts : block.receipts[n].trx_id = t}

(* A block holds at most one receipt for a deferred transaction, and only  *)
(* when it has left the table; one that nobody can cancel never leaves the *)
(* table without a receipt, whatever failed on the way.                    *)
RetiredOnce ==
    \A t \in TrxIds :
        /\ Cardinality(Received(t)) <= 1
        /\ Received(t) # {} => t \notin UsedIds(db)
        /\ \A g \in ToSet(base.gtos) :
              g.trx_id = t /\ g.key \in Delayed /\ t \notin UsedIds(db)
                 => Received(t) # {}

(* Every deferred transaction is retired or cancelled in the end, even if  *)
(* it fails whenever it is tried, stays on the blacklist until after it    *)
(* has expired, or stands behind others that fill the blocks.  One that is *)
(* replaced for ever waits for ever: MaxReplaced is part of the claim.     *)
EventuallyRetired ==
    \A t \in TrxIds : t \in UsedIds(base) ~> t \notin UsedIds(base)
=============================================================================

---------------------------- MODULE GenericIndex ----------------------------
(***************************************************************************)
(* chainbase::generic_index: one table of objects with a unique key, and a *)
(* stack of undo states from which earlier contents can be restored        *)
(* (libraries/chainbase/include/chainbase/chainbase.hpp).                  *)
(*                                                                         *)
(* An object is a record of its unique key and of the rest of its value.   *)
(* A table maps every id to an object or to none.                          *)
(***************************************************************************)
EXTENDS Integers, Sequences

CONSTANTS
    Key,        \* values of the unique key
    Value,      \* values of the other fields
    none,       \* no object
    KeyStable,  \* whether modifiers leave the unique key alone
    MaxId,      \* bound: ids 0..MaxId are handed out
    MaxDepth,   \* bound: open sessions
    MaxRevision \* bound: revision numbers

Object == [key : Key, value : Value]

ASSUME IndexAssumption ==
    /\ none \notin Object
    /\ KeyStable \in BOOLEAN
    /\ MaxId \in Nat /\ MaxDepth \in Nat /\ MaxRevision \in Nat

Id == 0..MaxId
Table == [Id -> Object \cup {none}]
Empty == [i \in Id |-> none]

UndoState ==
    [old_values : Table, removed_values : Table, new_ids : SUBSET Id,
     old_next_id : Nat, revision : Int]

VARIABLES
    indices,   \* _indices: the objects by id
    next_id,   \* _next_id
    stack,     \* _stack of undo states
    revision,  \* _revision
    broken,    \* undo() threw, or used an iterator that is end()
    saved      \* history: <<indices, next_id>> when each session started

vars == <<indices, next_id, stack, revision, broken, saved>>

Init ==
    /\ indices = Empty
    /\ next_id = 0
    /\ stack = <<>>
    /\ revision = 0
    /\ broken = FALSE
    /\ saved = <<>>
-----------------------------------------------------------------------------
Has(t, i) == t[i] # none

(* Whether object o would collide with an object of t other than i.        *)
Collides(t, i, o) ==
    \E j \in Id : j # i /\ Has(t, j) /\ t[j].key = o.key

Top == stack[Len(stack)]
SetTop(s) == [stack EXCEPT ![Len(stack)] = s]
Front == SubSeq(stack, 1, Len(stack) - 1)
enabled == stack # <<>>

(* What the newest undo state records before an object changes.            *)
on_create(i) ==
    IF ~enabled THEN stack
    ELSE SetTop([Top EXCEPT !.new_ids = @ \cup {i}])

(* Mutant: every modification is recorded, not only the first.             *)
on_modify_latest(i) ==
    IF ~enabled \/ i \in Top.new_ids THEN stack
    ELSE SetTop([Top EXCEPT !.old_values[i] = indices[i]])

on_modify(i) ==
    IF ~enabled \/ i \in Top.new_ids \/ Has(Top.old_values, i) THEN stack
    ELSE SetTop([Top EXCEPT !.old_values[i] = indices[i]])

on_remove(i) ==
    IF ~enabled THEN stack
    ELSE IF i \in Top.new_ids
         THEN SetTop([Top EXCEPT !.new_ids = @ \ {i}])
    ELSE IF Has(Top.old_values, i)
         THEN SetTop([Top EXCEPT !.removed_values[i] =
                                     IF Has(Top.removed_values, i) THEN @
                                     ELSE Top.old_values[i],
                                 !.old_values[i] = none])
    ELSE IF Has(Top.removed_values, i) THEN stack
    ELSE SetTop([Top EXCEPT !.removed_values[i] = indices[i]])

(* emplace throws, and changes nothing, when the key is taken.             *)
emplace(o) ==
    /\ ~broken
    /\ next_id \in Id
    /\ ~Collides(indices, next_id, o)
    /\ indices' = [indices EXCEPT ![next_id] = o]
    /\ stack' = on_create(next_id)
    /\ next_id' = next_id + 1
    /\ UNCHANGED <<revision, broken, saved>>

(* modify records the old value first; if the new key is taken the         *)
(* multi_index container erases the object and modify throws.              *)
modify(i, o) ==
    /\ ~broken
    /\ Has(indices, i)
    /\ KeyStable => o.key = indices[i].key
    /\ indices' = [indices EXCEPT ![i] = IF Collides(indices, i, o) THEN none ELSE o]
    /\ stack' = on_modify(i)
    /\ UNCHANGED <<next_id, revision, broken, saved>>

remove(i) ==
    /\ ~broken
    /\ Has(indices, i)
    /\ indices' = [indices EXCEPT ![i] = none]
    /\ stack' = on_remove(i)
    /\ UNCHANGED <<next_id, revision, broken, saved>>

start_undo_session ==
    /\ ~broken
    /\ Len(stack) < MaxDepth
    /\ revision < MaxRevision
    /\ stack' = Append(stack, [old_values |-> Empty, removed_values |-> Empty,
                               new_ids |-> {}, old_next_id |-> next_id,
                               revision |-> revision + 1])
    /\ revision' = revision + 1
    /\ saved' = Append(saved, <<indices, next_id>>)
    /\ UNCHANGED <<indices, next_id, broken>>

(* undo() restores old values one by one in the order of their ids, then   *)
(* erases the new objects, then puts the removed ones back.  The table as  *)
(* it is when the turn of id i comes:                                      *)
RestoredBelow(s, t, i) ==
    [j \in Id |-> IF j < i /\ Has(s.old_values, j) THEN s.old_values[j] ELSE t[j]]

(* Restoring i fails if i is no longer there or its old key is taken.      *)
RestoreFails(s, t) ==
    \E i \in Id :
        /\ Has(s.old_values, i)
        /\ ~Has(t, i) \/ Collides(RestoredBelow(s, t, i), i, s.old_values[i])

Restore(s, t) ==
    [i \in Id |-> IF Has(s.removed_values, i) THEN s.removed_values[i]
                  ELSE IF i \in s.new_ids THEN none
                  ELSE IF Has(s.old_values, i) THEN s.old_values[i]
                  ELSE t[i]]

Pop == SubSeq(saved, 1, Len(saved) - 1)

(* Mutant: _next_id is not reset.                                          *)
undo_keeps_next_id ==
    /\ ~broken
    /\ enabled
    /\ indices' = Restore(Top, indices)
    /\ stack' = Front
    /\ revision' = revision - 1
    /\ saved' = Pop
    /\ UNCHANGED <<broken, next_id>>

undo ==
    /\ ~broken
    /\ enabled
    /\ IF RestoreFails(Top, indices)
       THEN /\ broken' = TRUE
            /\ UNCHANGED <<indices, next_id, stack, revision, saved>>
       ELSE /\ indices' = Restore(Top, indices)
            /\ next_id' = Top.old_next_id
            /\ stack' = Front
            /\ revision' = revision - 1
            /\ saved' = Pop
            /\ UNCHANGED broken

(* Mutant: an object that the older session modified and the newer one     *)
(* removed is put back with the value of the newer session's start.        *)
Merge_newer_value(A, B) ==
    LET new == A.new_ids \cup B.new_ids
        del(i) == Has(B.removed_values, i) /\ i \notin new
    IN  [A EXCEPT
           !.new_ids = {i \in new : ~Has(B.removed_values, i)},
           !.old_values = [i \in Id |-> IF del(i) THEN none
                                        ELSE IF i \notin A.new_ids /\ ~Has(A.old_values, i)
                                        THEN B.old_values[i] ELSE A.old_values[i]],
           !.removed_values = [i \in Id |-> IF del(i) THEN B.removed_values[i]
                                            ELSE A.removed_values[i]]]

(* The undo state that takes back first B and then A: the 4x4 matrix in    *)
(* the comment of squash().                                                *)
Merge(A, B) ==
    LET new == A.new_ids \cup B.new_ids
        old == [i \in Id |-> IF Has(B.old_values, i) /\ i \notin A.new_ids
                                /\ ~Has(A.old_values, i)
                             THEN B.old_values[i] ELSE A.old_values[i]]
        del(i) == Has(B.removed_values, i) /\ i \notin new
    IN  [A EXCEPT
           !.new_ids = {i \in new : ~Has(B.removed_values, i)},
           !.old_values = [i \in Id |-> IF del(i) THEN none ELSE old[i]],
           !.removed_values =
               [i \in Id |-> IF Has(A.removed_values, i) \/ ~del(i)
                             THEN A.removed_values[i]
                             ELSE IF Has(old, i) THEN old[i] ELSE B.removed_values[i]]]

squash ==
    /\ ~broken
    /\ enabled
    /\ stack' = IF Len(stack) = 1 THEN <<>>
                ELSE [Front EXCEPT ![Len(stack) - 1] = Merge(@, Top)]
    /\ revision' = revision - 1
    /\ saved' = Pop
    /\ UNCHANGED <<indices, next_id, broken>>

(* commit drops the oldest states up to and including revision r.          *)
commit(r) ==
    /\ ~broken
    /\ \E n \in 0..Len(stack) :
         /\ \A i \in 1..n : stack[i].revision <= r
         /\ n < Len(stack) => stack[n + 1].revision > r
         /\ stack' = SubSeq(stack, n + 1, Len(stack))
         /\ saved' = SubSeq(saved, n + 1, Len(saved))
    /\ UNCHANGED <<indices, next_id, revision, broken>>

(* set_revision throws while there is an undo stack.                       *)
set_revision(r) ==
    /\ ~broken
    /\ ~enabled
    /\ revision' = r
    /\ UNCHANGED <<indices, next_id, stack, broken, saved>>

Next ==
    \/ \E o \in Object : emplace(o)
    \/ \E i \in Id, o \in Object : modify(i, o)
    \/ \E i \in Id : remove(i)
    \/ start_undo_session
    \/ undo
    \/ squash
    \/ \E r \in 0..MaxRevision : commit(r)
    \/ \E r \in 0..MaxRevision : set_revision(r)

Spec == Init /\ [][Next]_vars
-----------------------------------------------------------------------------
(* Every variable has the type the code gives it, and the history has one  *)
(* entry per undo state.                                                   *)
TypeOK ==
    /\ indices \in Table
    /\ next_id \in 0..(MaxId + 1)
    /\ stack \in Seq(UndoState)
    /\ revision \in Int
    /\ broken \in BOOLEAN
    /\ saved \in Seq(Table \X (0..(MaxId + 1)))
    /\ Len(saved) = Len(stack)

(* "Restores the state to how it was prior to the current session": undo   *)
(* brings back the contents and the next id of the session's start, and    *)
(* never throws.                                                           *)
UndoRestores ==
    [][undo => /\ ~broken'
               /\ indices' = saved[Len(saved)][1]
               /\ next_id' = saved[Len(saved)][2]]_vars

(* The table after undoing every session above level i.                    *)
After(i) == IF i = Len(saved) THEN indices ELSE saved[i + 1][1]

(* Every undo state leads back to the contents its session started from,   *)
(* although squash merges states and modify/remove record only the first   *)
(* change of an object.                                                    *)
StackRestores ==
    ~broken => \A i \in 1..Len(stack) : Restore(stack[i], After(i)) = saved[i][1]

(* The revision of each undo state is one more than that of the state      *)
(* below, and the newest is the table's revision: commit(r) relies on it   *)
(* to stop at the right state.                                             *)
RevisionsContiguous ==
    \A i \in 1..Len(stack) : stack[i].revision = revision - (Len(stack) - i)

(* The table implements the abstract undo history.                         *)
H == INSTANCE UndoHistory WITH contents <- <<indices, next_id>>,
                               history <- saved

Refines == H!HSpec
=============================================================================

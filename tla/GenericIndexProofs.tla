------------------------- MODULE GenericIndexProofs -------------------------
(***************************************************************************)
(* Proofs about GenericIndex for any number of ids, keys, values and       *)
(* sessions: when modifiers leave the unique key alone, undo never fails   *)
(* and brings back the contents from which the session started, and the    *)
(* table implements the abstract undo history.                             *)
(*                                                                         *)
(* The argument is pointwise.  For every level of the undo stack and every *)
(* id, what the undo state records is determined by whether the object     *)
(* existed before the level's session (S) and exists after it (T).         *)
(***************************************************************************)
EXTENDS GenericIndex, TLAPS

Point == Table \X (0..(MaxId + 1))

(* A table and its next id: keys are unique and later ids are free.        *)
WellFormed(P) ==
    /\ \A i, j \in Id : /\ Has(P[1], i) /\ Has(P[1], j)
                        /\ P[1][i].key = P[1][j].key
                        => i = j
    /\ \A i \in Id : i >= P[2] => P[1][i] = none

(* Undo state u leads from point T back to point S, at one id.             *)
LinkAt(u, S, T, i) ==
    /\ i \in u.new_ids <=> S[1][i] = none /\ T[1][i] # none
    /\ u.removed_values[i] =
          IF S[1][i] # none /\ T[1][i] = none THEN S[1][i] ELSE none
    /\ u.old_values[i] # none =>
          S[1][i] # none /\ T[1][i] # none /\ u.old_values[i] = S[1][i]
    /\ S[1][i] # none /\ T[1][i] # none =>
          /\ S[1][i].key = T[1][i].key
          /\ u.old_values[i] = none => S[1][i] = T[1][i]
    /\ i < S[2] /\ S[1][i] = none => T[1][i] = none

Link(u, S, T) ==
    /\ S[2] <= T[2]
    /\ u.old_next_id = S[2]
    /\ \A i \in Id : LinkAt(u, S, T, i)

Current == <<indices, next_id>>
PointAfter(i) == IF i = Len(saved) THEN Current ELSE saved[i + 1]

(* The inductive invariant.                                                *)
IndexInv ==
    /\ TypeOK
    /\ broken = FALSE
    /\ RevisionsContiguous
    /\ WellFormed(Current)
    /\ \A i \in 1..Len(saved) : WellFormed(saved[i])
    /\ \A i \in 1..Len(stack) : Link(stack[i], saved[i], PointAfter(i))
-----------------------------------------------------------------------------
(* What the undo state records keeps the link when the newest session      *)
(* creates an object (on_create).                                          *)
LEMMA CreateLink ==
    ASSUME NEW u \in UndoState, NEW S \in Point, NEW T \in Point,
           Link(u, S, T), WellFormed(S), WellFormed(T),
           T[2] \in Id, NEW o \in Object
    PROVE  Link([u EXCEPT !.new_ids = @ \cup {T[2]}], S,
                <<[T[1] EXCEPT ![T[2]] = o], T[2] + 1>>)
<1> DEFINE R == <<[T[1] EXCEPT ![T[2]] = o], T[2] + 1>>
           w == [u EXCEPT !.new_ids = @ \cup {T[2]}]
<1>1. S[2] <= T[2] + 1 /\ w.old_next_id = S[2]
  BY DEF Link, UndoState, Point, Id
<1>2. ASSUME NEW i \in Id PROVE LinkAt(w, S, R, i)
  <2>1. LinkAt(u, S, T, i) /\ (i >= T[2] => S[1][i] = none /\ T[1][i] = none)
    BY DEF Link, WellFormed, Point, Id
  <2>2. /\ w.new_ids = u.new_ids \cup {T[2]}
        /\ w.old_values = u.old_values /\ w.removed_values = u.removed_values
        /\ R[1][i] = IF i = T[2] THEN o ELSE T[1][i]
    BY DEF UndoState, Point, Table
  <2>3. CASE i = T[2]
    <3>1. o # none /\ i >= T[2] /\ ~(i < S[2])
      BY <2>3, IndexAssumption DEF Id, Link, Point
    <3> QED
      BY <2>1, <2>2, <2>3, <3>1 DEF LinkAt
  <2>4. CASE i # T[2]
    BY <2>1, <2>2, <2>4 DEF LinkAt
  <2> QED BY <2>3, <2>4
<1> QED BY <1>1, <1>2 DEF Link

(* The record that on_modify keeps when object i of T becomes o.           *)
ModifyRecord(u, T, i) ==
    IF i \in u.new_ids \/ u.old_values[i] # none THEN u
    ELSE [u EXCEPT !.old_values[i] = T[1][i]]

(* It keeps the link: only the first change of an object matters.          *)
LEMMA ModifyLink ==
    ASSUME NEW u \in UndoState, NEW S \in Point, NEW T \in Point,
           Link(u, S, T), NEW k \in Id, T[1][k] # none,
           NEW o \in Object, o.key = T[1][k].key
    PROVE  Link(ModifyRecord(u, T, k), S, <<[T[1] EXCEPT ![k] = o], T[2]>>)
<1> DEFINE R == <<[T[1] EXCEPT ![k] = o], T[2]>>
           w == ModifyRecord(u, T, k)
<1> SUFFICES Link(w, S, R)
  OBVIOUS
<1>1. /\ w.new_ids = u.new_ids /\ w.removed_values = u.removed_values
      /\ w.old_next_id = u.old_next_id
      /\ \A i \in Id : w.old_values[i] =
            IF i = k /\ k \notin u.new_ids /\ u.old_values[k] = none
            THEN T[1][k] ELSE u.old_values[i]
  BY DEF ModifyRecord, UndoState, Point, Table
<1>2. ASSUME NEW i \in Id PROVE LinkAt(w, S, R, i)
  <2>1. LinkAt(u, S, T, i)
    BY DEF Link
  <2>2. R[1][i] = (IF i = k THEN o ELSE T[1][i]) /\ R[2] = T[2]
    BY DEF Point, Table
  <2>3. CASE i = k
    <3>1. o # none
      BY IndexAssumption
    <3> QED BY <1>1, <2>1, <2>2, <2>3, <3>1 DEF LinkAt
  <2>4. CASE i # k
    BY <1>1, <2>1, <2>2, <2>4 DEF LinkAt
  <2> QED BY <2>3, <2>4
<1>9. S[2] <= R[2] /\ w.old_next_id = S[2] /\ R[2] = T[2]
  BY <1>1 DEF Link, Point
<1> HIDE DEF w, R
<1> QED BY <1>9, <1>2 DEF Link

(* The record that on_remove keeps when object i of T goes.                *)
RemoveRecord(u, T, i) ==
    IF i \in u.new_ids THEN [u EXCEPT !.new_ids = @ \ {i}]
    ELSE IF u.old_values[i] # none
         THEN [u EXCEPT !.removed_values[i] =
                           IF u.removed_values[i] # none THEN @
                           ELSE u.old_values[i],
                        !.old_values[i] = none]
    ELSE IF u.removed_values[i] # none THEN u
    ELSE [u EXCEPT !.removed_values[i] = T[1][i]]

(* It keeps the link: a removed object is remembered with its oldest value *)
(* of the session, and one that the session created is forgotten.          *)
LEMMA RemoveLink ==
    ASSUME NEW u \in UndoState, NEW S \in Point, NEW T \in Point,
           Link(u, S, T), NEW k \in Id, T[1][k] # none
    PROVE  Link(RemoveRecord(u, T, k), S, <<[T[1] EXCEPT ![k] = none], T[2]>>)
<1> DEFINE R == <<[T[1] EXCEPT ![k] = none], T[2]>>
           w == RemoveRecord(u, T, k)
<1> SUFFICES Link(w, S, R)
  OBVIOUS
<1>1. /\ w.old_next_id = u.old_next_id
      /\ w.new_ids = u.new_ids \ {k}
      /\ \A i \in Id : i # k => /\ w.old_values[i] = u.old_values[i]
                                /\ w.removed_values[i] = u.removed_values[i]
  BY DEF RemoveRecord, UndoState, Point, Table
<1>2. LinkAt(u, S, T, k)
  BY DEF Link
<1>3. u.removed_values[k] = none
  BY <1>2 DEF LinkAt
<1>4. /\ w.old_values[k] = (IF k \in u.new_ids THEN u.old_values[k] ELSE none)
      /\ w.removed_values[k] =
           IF k \in u.new_ids THEN none
           ELSE IF u.old_values[k] # none THEN u.old_values[k] ELSE T[1][k]
  BY <1>3 DEF RemoveRecord, UndoState, Point, Table
<1>5. ASSUME NEW i \in Id PROVE LinkAt(w, S, R, i)
  <2>1. LinkAt(u, S, T, i)
    BY DEF Link
  <2>2. R[1][i] = (IF i = k THEN none ELSE T[1][i]) /\ R[2] = T[2]
    BY DEF Point, Table
  <2> HIDE DEF w
  <2>3. CASE i = k
    BY <1>1, <1>4, <2>1, <2>2, <2>3 DEF LinkAt
  <2>4. CASE i # k
    BY <1>1, <2>1, <2>2, <2>4 DEF LinkAt
  <2> QED BY <2>3, <2>4
<1>9. S[2] <= R[2] /\ w.old_next_id = S[2] /\ R[2] = T[2]
  BY <1>1 DEF Link, Point
<1> HIDE DEF w, R
<1> QED BY <1>9, <1>5 DEF Link

(* squash merges the undo states of two adjacent sessions into one that    *)
(* leads from the end of the second back to the start of the first.        *)
LEMMA MergeLink ==
    ASSUME NEW A \in UndoState, NEW B \in UndoState,
           NEW S \in Point, NEW M \in Point, NEW T \in Point,
           Link(A, S, M), Link(B, M, T), WellFormed(S)
    PROVE  Link(Merge(A, B), S, T)
<1> DEFINE w == Merge(A, B)
<1> SUFFICES Link(w, S, T)
  OBVIOUS
<1>1. /\ w.old_next_id = A.old_next_id
      /\ w.new_ids = {i \in A.new_ids \cup B.new_ids : ~Has(B.removed_values, i)}
  BY DEF Merge, UndoState
<1>2. ASSUME NEW i \in Id PROVE LinkAt(w, S, T, i)
  <2> DEFINE old  == IF B.old_values[i] # none /\ i \notin A.new_ids
                        /\ A.old_values[i] = none
                     THEN B.old_values[i] ELSE A.old_values[i]
             del  == /\ B.removed_values[i] # none
                     /\ i \notin A.new_ids /\ i \notin B.new_ids
  <2>1. /\ LinkAt(A, S, M, i) /\ LinkAt(B, M, T, i)
        /\ i >= S[2] => S[1][i] = none
        /\ i < S[2] => i < M[2]
        /\ i \in Int /\ S[2] \in Int
    BY DEF Link, WellFormed, Point, Id
  <2>2. /\ w.old_values[i] = IF del THEN none ELSE old
        /\ w.removed_values[i] =
              IF A.removed_values[i] # none \/ ~del THEN A.removed_values[i]
              ELSE IF old # none THEN old ELSE B.removed_values[i]
        /\ i \in w.new_ids <=>
              (i \in A.new_ids \/ i \in B.new_ids) /\ B.removed_values[i] = none
    BY DEF Merge, UndoState, Has
  <2> HIDE DEF w
  <2>3. S[1][i] # none => i < S[2]
    BY <2>1
  <2>4. M[1][i] = none /\ S[1][i] # none => T[1][i] = none
    BY <2>1, <2>3 DEF LinkAt
  <2>5. i < S[2] /\ S[1][i] = none => T[1][i] = none
    BY <2>1 DEF LinkAt
  <2> QED BY <2>1, <2>2, <2>4, <2>5 DEF LinkAt
<1>9. S[2] <= T[2] /\ w.old_next_id = S[2]
  BY <1>1 DEF Link, Point, Id
<1> HIDE DEF w
<1> QED BY <1>9, <1>2 DEF Link

(* Along a link undo fails nowhere and restores the session's start.       *)
LEMMA RestoreLink ==
    ASSUME NEW u \in UndoState, NEW S \in Point, NEW T \in Point,
           Link(u, S, T), WellFormed(T)
    PROVE  ~RestoreFails(u, T[1]) /\ Restore(u, T[1]) = S[1]
<1>1. ASSUME NEW i \in Id, Has(u.old_values, i),
             ~Has(T[1], i) \/ Collides(RestoredBelow(u, T[1], i), i, u.old_values[i])
      PROVE  FALSE
  <2>1. LinkAt(u, S, T, i)
    BY DEF Link
  <2>2. T[1][i] # none /\ u.old_values[i].key = T[1][i].key
    BY <2>1, <1>1 DEF LinkAt, Has
  <2>3. PICK j \in Id : /\ j # i /\ Has(RestoredBelow(u, T[1], i), j)
                        /\ RestoredBelow(u, T[1], i)[j].key = u.old_values[i].key
    BY <1>1, <2>2 DEF Collides, Has
  <2>4. LinkAt(u, S, T, j)
    BY DEF Link
  <2>5. T[1][j] # none /\ T[1][j].key = T[1][i].key
    BY <2>2, <2>3, <2>4 DEF LinkAt, RestoredBelow, Has
  <2> QED BY <2>2, <2>3, <2>5 DEF WellFormed, Has
<1>2. ASSUME NEW i \in Id PROVE Restore(u, T[1])[i] = S[1][i]
  BY DEF Restore, Has, Link, LinkAt
<1>3. S[1] = [i \in Id |-> S[1][i]] /\ Restore(u, T[1]) = [i \in Id |-> Restore(u, T[1])[i]]
  BY DEF Restore, Point, Table
<1>4. Restore(u, T[1]) = S[1]
  BY <1>2, <1>3
<1> QED BY <1>1, <1>4 DEF RestoreFails

-----------------------------------------------------------------------------
(* The step of an action that changes the contents and only the newest     *)
(* undo state.                                                             *)
LEMMA TopStep ==
    ASSUME IndexInv, saved' = saved, revision' = revision, broken' = broken,
           Current' \in Point, WellFormed(Current'),
           \/ stack = <<>> /\ stack' = <<>>
           \/ /\ stack # <<>>
              /\ \E u \in UndoState : /\ stack' = SetTop(u)
                                      /\ u.revision = Top.revision
                                      /\ Link(u, saved[Len(stack)], Current')
    PROVE  IndexInv'
<1>1. indices' \in Table /\ next_id' \in 0..(MaxId + 1)
  BY DEF Current, Point
<1>2. CASE stack = <<>> /\ stack' = <<>>
  BY <1>1, <1>2 DEF IndexInv, TypeOK, RevisionsContiguous
<1>3. CASE stack # <<>> /\ \E u \in UndoState :
             stack' = SetTop(u) /\ u.revision = Top.revision
             /\ Link(u, saved[Len(stack)], Current')
  <2>1. PICK u \in UndoState : /\ stack' = SetTop(u)
                               /\ u.revision = Top.revision
                               /\ Link(u, saved[Len(stack)], Current')
    BY <1>3
  <2>2. /\ stack \in Seq(UndoState) /\ Len(stack) \in Nat \ {0}
        /\ Len(saved) = Len(stack)
    BY <1>3 DEF IndexInv, TypeOK
  <2>3. /\ stack' \in Seq(UndoState) /\ Len(stack') = Len(stack)
        /\ \A i \in 1..Len(stack) :
             stack'[i] = IF i = Len(stack) THEN u ELSE stack[i]
    BY <2>1, <2>2 DEF SetTop
  <2>4. TypeOK'
    BY <1>1, <2>2, <2>3 DEF IndexInv, TypeOK
  <2>5. RevisionsContiguous'
    BY <2>1, <2>2, <2>3 DEF IndexInv, RevisionsContiguous, Top
  <2>6. ASSUME NEW i \in 1..Len(stack)
        PROVE  Link(stack'[i], saved'[i], PointAfter(i)')
    <3>1. CASE i = Len(stack)
      BY <2>1, <2>2, <2>3, <3>1 DEF PointAfter
    <3>2. CASE i # Len(stack)
      <4>1. PointAfter(i)' = PointAfter(i) /\ stack'[i] = stack[i]
        BY <2>2, <2>3, <3>2 DEF PointAfter
      <4> QED BY <4>1 DEF IndexInv
    <3> QED BY <3>1, <3>2
  <2> QED BY <2>3, <2>4, <2>5, <2>6 DEF IndexInv
<1> QED BY <1>2, <1>3

(* The newest undo state and the link it is part of.                       *)
LEMMA TopLink ==
    ASSUME IndexInv, stack # <<>>
    PROVE  /\ Len(stack) \in Nat \ {0} /\ Top \in UndoState
           /\ Len(saved) = Len(stack)
           /\ saved[Len(stack)] \in Point /\ WellFormed(saved[Len(stack)])
           /\ Link(Top, saved[Len(stack)], Current)
BY DEF IndexInv, TypeOK, Top, Point, PointAfter

(* emplace preserves the invariant: the new object takes a free id and a   *)
(* free key.                                                               *)
LEMMA EmplaceStep ==
    ASSUME IndexInv, NEW o \in Object, emplace(o) PROVE IndexInv'
<1>1. /\ indices \in Table /\ next_id \in Id /\ Current \in Point
      /\ indices' = [indices EXCEPT ![next_id] = o] /\ next_id' = next_id + 1
      /\ WellFormed(Current)
  BY DEF IndexInv, TypeOK, emplace, Current, Point
<1>2. Current' \in Point
  <2>1. indices' \in Table
    BY <1>1 DEF Table
  <2>2. next_id' \in 0..(MaxId + 1)
    BY <1>1, IndexAssumption DEF Id
  <2> QED BY <2>1, <2>2 DEF Current, Point
<1>3. WellFormed(Current')
  <2>1. \A i \in Id : indices'[i] = IF i = next_id THEN o ELSE indices[i]
    BY <1>1 DEF Table
  <2>2. \A i \in Id : i >= next_id + 1 => indices'[i] = none
    BY <1>1, <2>1 DEF WellFormed, Current, Id
  <2>3. \A j \in Id : j # next_id /\ indices[j] # none => indices[j].key # o.key
    BY DEF emplace, Collides, Has
  <2>4. ASSUME NEW i \in Id, NEW j \in Id, Has(indices', i), Has(indices', j),
               indices'[i].key = indices'[j].key
        PROVE  i = j
    <3>1. Current[1] = indices
      BY DEF Current
    <3>2. CASE i = next_id
      BY <2>1, <2>3, <2>4, <3>2 DEF Has
    <3>3. CASE j = next_id
      BY <2>1, <2>3, <2>4, <3>3 DEF Has
    <3>4. CASE i # next_id /\ j # next_id
      BY <1>1, <2>1, <2>4, <3>1, <3>4 DEF Has, WellFormed
    <3> QED BY <3>2, <3>3, <3>4
  <2> QED BY <1>1, <2>2, <2>4 DEF WellFormed, Current
<1>4. CASE stack = <<>>
  BY <1>2, <1>3, <1>4, TopStep DEF emplace, on_create, enabled
<1>5. CASE stack # <<>>
  <2> DEFINE u == [Top EXCEPT !.new_ids = @ \cup {next_id}]
  <2>1. stack' = SetTop(u)
    BY <1>5 DEF emplace, on_create, enabled
  <2>2. u \in UndoState /\ u.revision = Top.revision
    BY <1>1, <1>5, TopLink DEF UndoState
  <2>3. Current[1] = indices /\ Current[2] = next_id
        /\ Current' = <<[Current[1] EXCEPT ![Current[2]] = o], Current[2] + 1>>
    BY <1>1 DEF Current
  <2>4. Link(u, saved[Len(stack)], Current')
    BY <1>1, <1>5, <2>3, TopLink, CreateLink
  <2> QED BY <1>2, <1>3, <1>5, <2>1, <2>2, <2>4, TopStep DEF emplace
<1> QED BY <1>4, <1>5

(* modify preserves the invariant: with a stable key it never collides, so *)
(* the object is not lost.                                                 *)
LEMMA ModifyStep ==
    ASSUME KeyStable, IndexInv, NEW k \in Id, NEW o \in Object, modify(k, o)
    PROVE  IndexInv'
<1>1. /\ indices \in Table /\ next_id' = next_id /\ Current \in Point
      /\ indices[k] # none /\ o.key = indices[k].key /\ WellFormed(Current)
  BY DEF IndexInv, TypeOK, modify, Current, Point, Has
<1>2. ~Collides(indices, k, o)
  BY <1>1 DEF Collides, WellFormed, Current, Has
<1>3. indices' = [indices EXCEPT ![k] = o]
  BY <1>2 DEF modify
<1>4. Current' \in Point
  BY <1>1, <1>3 DEF Current, Point, Table
<1>5. WellFormed(Current')
  <2>1. \A i \in Id : indices'[i] = IF i = k THEN o ELSE indices[i]
    BY <1>1, <1>3 DEF Table
  <2>2. \A i \in Id : Has(indices', i) =>
           Has(indices, i) /\ indices'[i].key = indices[i].key
    BY <1>1, <2>1 DEF Has
  <2>3. \A i \in Id : i >= next_id => indices'[i] = none
    BY <1>1, <2>1 DEF WellFormed, Current
  <2> QED BY <1>1, <2>2, <2>3 DEF WellFormed, Current
<1>6. CASE stack = <<>>
  BY <1>4, <1>5, <1>6, TopStep DEF modify, on_modify, enabled
<1>7. CASE stack # <<>>
  <2> DEFINE u == ModifyRecord(Top, Current, k)
  <2>0. Current[1] = indices /\ Current[2] = next_id
        /\ Current' = <<[Current[1] EXCEPT ![k] = o], Current[2]>>
    BY <1>1, <1>3 DEF Current
  <2>1. stack' = SetTop(u)
    <3>1. SetTop(Top) = stack
      BY <1>7 DEF SetTop, Top, IndexInv, TypeOK
    <3> QED BY <1>7, <2>0, <3>1 DEF modify, on_modify, enabled, ModifyRecord, Has
  <2>2. u \in UndoState /\ u.revision = Top.revision
    BY <1>1, <1>7, <2>0, TopLink DEF UndoState, ModifyRecord, Table
  <2>3. Link(u, saved[Len(stack)], Current')
    BY <1>1, <1>7, <2>0, TopLink, ModifyLink
  <2> QED BY <1>4, <1>5, <1>7, <2>1, <2>2, <2>3, TopStep DEF modify
<1> QED BY <1>6, <1>7

(* remove preserves the invariant.                                         *)
LEMMA RemoveStep ==
    ASSUME IndexInv, NEW k \in Id, remove(k) PROVE IndexInv'
<1>1. /\ indices \in Table /\ next_id' = next_id /\ Current \in Point
      /\ indices[k] # none /\ indices' = [indices EXCEPT ![k] = none]
      /\ WellFormed(Current)
  BY DEF IndexInv, TypeOK, remove, Current, Point, Has
<1>2. Current' \in Point
  BY <1>1 DEF Current, Point, Table
<1>3. WellFormed(Current')
  BY <1>1 DEF WellFormed, Current, Has, Table
<1>4. CASE stack = <<>>
  BY <1>2, <1>3, <1>4, TopStep DEF remove, on_remove, enabled
<1>5. CASE stack # <<>>
  <2> DEFINE u == RemoveRecord(Top, Current, k)
  <2>0. Current[1] = indices /\ Current[2] = next_id
        /\ Current' = <<[Current[1] EXCEPT ![k] = none], Current[2]>>
    BY <1>1 DEF Current
  <2>1. stack' = SetTop(u)
    <3>1. SetTop(Top) = stack
      BY <1>5 DEF SetTop, Top, IndexInv, TypeOK
    <3> QED BY <1>5, <2>0, <3>1 DEF remove, on_remove, enabled, RemoveRecord, Has
  <2>2. u \in UndoState /\ u.revision = Top.revision
    BY <1>1, <1>5, <2>0, TopLink DEF UndoState, RemoveRecord, Table
  <2>3. Link(u, saved[Len(stack)], Current')
    BY <1>1, <1>5, <2>0, TopLink, RemoveLink
  <2> QED BY <1>2, <1>3, <1>5, <2>1, <2>2, <2>3, TopStep DEF remove
<1> QED BY <1>4, <1>5

(* start_undo_session preserves the invariant: an empty undo state links   *)
(* the current contents to themselves.                                     *)
LEMMA StartStep ==
    ASSUME IndexInv, start_undo_session PROVE IndexInv'
<1> DEFINE n == Len(stack)
           u == [old_values |-> Empty, removed_values |-> Empty, new_ids |-> {},
                 old_next_id |-> next_id, revision |-> revision + 1]
<1>1. /\ stack \in Seq(UndoState) /\ n \in Nat /\ Len(saved) = n
      /\ saved \in Seq(Point) /\ Current \in Point /\ revision \in Int
      /\ stack' = Append(stack, u) /\ saved' = Append(saved, Current)
      /\ Current' = Current /\ revision' = revision + 1 /\ broken' = broken
  BY DEF IndexInv, TypeOK, start_undo_session, Current, Point
<1>2. u \in UndoState
  BY <1>1, IndexAssumption DEF UndoState, Empty, Table, Current, Point
<1>3. /\ stack' \in Seq(UndoState) /\ Len(stack') = n + 1 /\ stack'[n + 1] = u
      /\ \A i \in 1..n : stack'[i] = stack[i]
  BY <1>1, <1>2
<1>4. /\ saved' \in Seq(Point) /\ Len(saved') = n + 1 /\ saved'[n + 1] = Current
      /\ \A i \in 1..n : saved'[i] = saved[i]
  BY <1>1
<1>5. TypeOK'
  BY <1>1, <1>3, <1>4 DEF IndexInv, TypeOK, Point, start_undo_session
<1>6. RevisionsContiguous'
  BY <1>1, <1>3 DEF IndexInv, RevisionsContiguous
<1>7. \A i \in 1..Len(saved') : WellFormed(saved'[i])
  BY <1>1, <1>4 DEF IndexInv
<1>8. Link(u, Current, Current)
  <2>1. Current[1] = indices /\ Current[2] = next_id /\ next_id \in Nat
    BY <1>1, IndexAssumption DEF Current, Point
  <2> QED BY <1>1, <2>1 DEF Link, LinkAt, Empty
<1>9. ASSUME NEW i \in 1..Len(stack')
      PROVE  Link(stack'[i], saved'[i], PointAfter(i)')
  <2>1. CASE i = n + 1
    BY <1>1, <1>3, <1>4, <1>8, <2>1 DEF PointAfter
  <2>2. CASE i # n + 1
    <3>1. i \in 1..n /\ i + 1 \in 1..(n + 1)
      BY <1>1, <1>3, <2>2
    <3>2. PointAfter(i)' = PointAfter(i)
      BY <1>1, <1>4, <2>2, <3>1 DEF PointAfter
    <3> QED BY <1>3, <1>4, <3>1, <3>2 DEF IndexInv
  <2> QED BY <2>1, <2>2
<1> QED BY <1>1, <1>5, <1>6, <1>7, <1>9 DEF IndexInv

(* The stack without its newest level, seen from the point below.          *)
LEMMA PopStep ==
    ASSUME IndexInv, stack # <<>>, stack' \in Seq(UndoState),
           Len(stack') = Len(stack) - 1, saved' = Pop,
           \A i \in 1..(Len(stack) - 1) : stack'[i].revision = stack[i].revision,
           \A i \in 1..(Len(stack) - 1) : i < Len(stack) - 1 => stack'[i] = stack[i],
           Len(stack) > 1 => Link(stack'[Len(stack) - 1], saved[Len(stack) - 1], Current'),
           revision' = revision - 1, broken' = broken,
           Current' \in Point, WellFormed(Current')
    PROVE  IndexInv'
<1> DEFINE n == Len(stack)
<1>1. /\ n \in Nat \ {0} /\ Len(saved) = n /\ saved \in Seq(Point)
      /\ revision \in Int
  BY DEF IndexInv, TypeOK, Point
<1>2. /\ saved' \in Seq(Point) /\ Len(saved') = n - 1
      /\ \A i \in 1..(n - 1) : saved'[i] = saved[i]
  BY <1>1 DEF Pop
<1>3. TypeOK'
  <2>1. indices' \in Table /\ next_id' \in 0..(MaxId + 1)
    BY DEF Current, Point
  <2> QED BY <1>1, <1>2, <2>1 DEF IndexInv, TypeOK, Point
<1>4. RevisionsContiguous'
  BY <1>1 DEF IndexInv, RevisionsContiguous
<1>5. ASSUME NEW i \in 1..Len(saved') PROVE WellFormed(saved'[i])
  <2>1. i \in 1..(n - 1) /\ i \in 1..Len(saved)
    BY <1>1, <1>2
  <2>2. WellFormed(saved[i])
    BY <2>1 DEF IndexInv
  <2> QED BY <1>2, <2>1, <2>2
<1>6. ASSUME NEW i \in 1..Len(stack')
      PROVE  Link(stack'[i], saved'[i], PointAfter(i)')
  <2>1. i \in 1..(n - 1) /\ i \in 1..n
    BY <1>1
  <2>2. CASE i = n - 1
    BY <1>1, <1>2, <2>1, <2>2 DEF PointAfter
  <2>3. CASE i # n - 1
    <3>1. i < n - 1 /\ i + 1 \in 1..(n - 1)
      BY <1>1, <2>1, <2>3
    <3>2. PointAfter(i)' = PointAfter(i)
      BY <1>1, <1>2, <2>3, <3>1 DEF PointAfter
    <3> QED BY <1>2, <2>1, <3>1, <3>2 DEF IndexInv
  <2> QED BY <2>2, <2>3
<1> QED BY <1>3, <1>4, <1>5, <1>6 DEF IndexInv

(* undo does not fail and restores what the session started from.          *)
LEMMA UndoSucceeds ==
    ASSUME IndexInv, undo
    PROVE  /\ broken' = FALSE
           /\ Current' = saved[Len(saved)]
           /\ stack' = Front /\ saved' = Pop /\ revision' = revision - 1
<1>1. stack # <<>>
  BY DEF undo, enabled
<1>2. /\ Current \in Point /\ WellFormed(Current) /\ Current[1] = indices
      /\ broken = FALSE
  BY DEF IndexInv, TypeOK, Current, Point
<1>3. ~RestoreFails(Top, indices) /\ Restore(Top, indices) = saved[Len(saved)][1]
  BY <1>1, <1>2, TopLink, RestoreLink
<1>4. Top.old_next_id = saved[Len(saved)][2]
  BY <1>1, TopLink DEF Link
<1>5. saved[Len(saved)] = <<saved[Len(saved)][1], saved[Len(saved)][2]>>
  BY <1>1, TopLink DEF Point
<1> QED BY <1>2, <1>3, <1>4, <1>5 DEF undo, Current

(* undo preserves the invariant: the restored point is the one the level   *)
(* below ends at.                                                          *)
LEMMA UndoStep ==
    ASSUME IndexInv, undo PROVE IndexInv'
<1> DEFINE n == Len(stack)
<1>1. stack # <<>>
  BY DEF undo, enabled
<1>2. /\ n \in Nat \ {0} /\ Len(saved) = n /\ stack \in Seq(UndoState)
      /\ Current' \in Point /\ WellFormed(Current') /\ Current' = saved[n]
  BY <1>1, TopLink, UndoSucceeds DEF IndexInv, TypeOK
<1>3. /\ stack' \in Seq(UndoState) /\ Len(stack') = n - 1
      /\ \A i \in 1..(n - 1) : stack'[i] = stack[i]
  BY <1>2, UndoSucceeds DEF Front
<1>4. n > 1 => Link(stack'[n - 1], saved[n - 1], Current')
  <2> SUFFICES ASSUME n > 1 PROVE Link(stack'[n - 1], saved[n - 1], Current')
    OBVIOUS
  <2>1. n - 1 \in 1..n /\ n - 1 # n /\ PointAfter(n - 1) = saved[n]
    BY <1>2 DEF PointAfter
  <2> QED BY <1>2, <1>3, <2>1 DEF IndexInv
<1>5. broken' = broken
  BY UndoSucceeds DEF IndexInv
<1> QED BY <1>1, <1>2, <1>3, <1>4, <1>5, UndoSucceeds, PopStep

(* squash's merged undo state is an undo state of the older session.       *)
LEMMA MergeType ==
    ASSUME NEW A \in UndoState, NEW B \in UndoState
    PROVE  Merge(A, B) \in UndoState /\ Merge(A, B).revision = A.revision
<1> DEFINE w == Merge(A, B)
           V == Object \cup {none}
<1>1. /\ A.old_values \in [Id -> V] /\ A.removed_values \in [Id -> V]
      /\ B.old_values \in [Id -> V] /\ B.removed_values \in [Id -> V]
      /\ A.new_ids \subseteq Id /\ B.new_ids \subseteq Id
      /\ none \in V
  BY DEF UndoState, Table
<1> HIDE DEF V
<1>2. w.old_values \in [Id -> V] /\ w.removed_values \in [Id -> V]
  BY <1>1 DEF Merge, UndoState
<1>3. /\ w.new_ids \subseteq Id /\ w.old_next_id = A.old_next_id
      /\ w.revision = A.revision
  BY <1>1 DEF Merge, UndoState
<1>4. ASSUME NEW x \in SUBSET Id, NEW y \in Table, NEW z \in Table
      PROVE  [A EXCEPT !.new_ids = x, !.old_values = y, !.removed_values = z]
                \in UndoState
  BY DEF UndoState
<1>5. w = [A EXCEPT !.new_ids = w.new_ids, !.old_values = w.old_values,
                    !.removed_values = w.removed_values]
  BY DEF Merge, UndoState
<1>6. w.new_ids \in SUBSET Id /\ w.old_values \in Table /\ w.removed_values \in Table
  BY <1>2, <1>3 DEF Table, V
<1> HIDE DEF w
<1>7. w \in UndoState
  BY <1>4, <1>5, <1>6
<1> QED BY <1>3, <1>7 DEF w

(* squash preserves the invariant: the two newest links become one.        *)
LEMMA SquashStep ==
    ASSUME IndexInv, squash PROVE IndexInv'
<1> DEFINE n == Len(stack)
           m == Merge(stack[n - 1], Top)
<1>1. stack # <<>> /\ Current' = Current /\ saved' = Pop
      /\ revision' = revision - 1 /\ broken' = broken
  BY DEF squash, enabled, Current
<1>2. /\ n \in Nat \ {0} /\ Len(saved) = n /\ stack \in Seq(UndoState)
      /\ Current \in Point /\ WellFormed(Current)
  BY <1>1 DEF IndexInv, TypeOK, Current, Point
<1>3. CASE n = 1
  <2>1. stack' = <<>>
    BY <1>3 DEF squash
  <2> QED BY <1>1, <1>2, <1>3, <2>1, PopStep
<1>4. CASE n > 1
  <2>1. /\ n - 1 \in 1..n /\ n - 1 # n /\ PointAfter(n - 1) = saved[n]
        /\ stack[n - 1] \in UndoState
    BY <1>2, <1>4 DEF PointAfter
  <2>2. /\ saved[n - 1] \in Point /\ WellFormed(saved[n - 1])
        /\ Link(stack[n - 1], saved[n - 1], saved[n])
    BY <1>2, <2>1 DEF IndexInv, TypeOK, Point
  <2>3. Link(m, saved[n - 1], Current)
    BY <1>1, <1>2, <2>1, <2>2, TopLink, MergeLink
  <2>4. m \in UndoState /\ m.revision = stack[n - 1].revision
    BY <1>1, <2>1, TopLink, MergeType
  <2>5. /\ Len(Front) = n - 1 /\ Front \in Seq(UndoState)
        /\ \A i \in 1..(n - 1) : Front[i] = stack[i]
    BY <1>2 DEF Front
  <2>6. stack' = [Front EXCEPT ![n - 1] = m]
    <3>1. n - 1 \in 1..(n - 1) /\ Front[n - 1] = stack[n - 1]
      BY <1>2, <1>4, <2>5
    <3>2. Len(stack) # 1
      BY <1>2, <1>4
    <3> QED BY <3>1, <3>2 DEF squash
  <2>7. /\ stack' \in Seq(UndoState) /\ Len(stack') = n - 1
        /\ \A i \in 1..(n - 1) : stack'[i] = IF i = n - 1 THEN m ELSE stack[i]
    BY <1>4, <1>2, <2>4, <2>5, <2>6
  <2> HIDE DEF m
  <2> QED BY <1>1, <1>2, <1>4, <2>1, <2>3, <2>4, <2>7, PopStep
<1> QED BY <1>2, <1>3, <1>4

(* commit preserves the invariant: the oldest links are dropped.           *)
LEMMA CommitStep ==
    ASSUME IndexInv, NEW r, commit(r) PROVE IndexInv'
<1>1. PICK n \in 0..Len(stack) : /\ stack' = SubSeq(stack, n + 1, Len(stack))
                                 /\ saved' = SubSeq(saved, n + 1, Len(saved))
  BY DEF commit
<1>2. /\ Len(stack) \in Nat /\ Len(saved) = Len(stack) /\ stack \in Seq(UndoState)
      /\ saved \in Seq(Point) /\ revision \in Int
      /\ Current' = Current /\ revision' = revision /\ broken' = broken
      /\ indices' = indices /\ next_id' = next_id
  BY DEF IndexInv, TypeOK, Point, commit, Current
<1>3. /\ stack' \in Seq(UndoState) /\ Len(stack') = Len(stack) - n
      /\ \A i \in 1..(Len(stack) - n) : stack'[i] = stack[i + n]
  BY <1>1, <1>2
<1>4. /\ saved' \in Seq(Point) /\ Len(saved') = Len(stack) - n
      /\ \A i \in 1..(Len(stack) - n) : saved'[i] = saved[i + n]
  BY <1>1, <1>2
<1>5. TypeOK'
  BY <1>2, <1>3, <1>4 DEF IndexInv, TypeOK, Point
<1>6. RevisionsContiguous'
  BY <1>2, <1>3 DEF IndexInv, RevisionsContiguous
<1>7. \A i \in 1..Len(saved') : WellFormed(saved'[i])
  BY <1>2, <1>4 DEF IndexInv
<1>8. ASSUME NEW i \in 1..Len(stack')
      PROVE  Link(stack'[i], saved'[i], PointAfter(i)')
  <2>1. i + n \in 1..Len(stack) /\ i \in 1..(Len(stack) - n)
    BY <1>2, <1>3
  <2>2. PointAfter(i)' = PointAfter(i + n)
    BY <1>2, <1>4, <2>1 DEF PointAfter
  <2> QED BY <1>3, <1>4, <2>1, <2>2 DEF IndexInv
<1> QED BY <1>2, <1>5, <1>6, <1>7, <1>8 DEF IndexInv

(* set_revision preserves the invariant: it only runs with an empty stack. *)
LEMMA SetRevisionStep ==
    ASSUME IndexInv, NEW r \in Int, set_revision(r) PROVE IndexInv'
<1>1. stack = <<>> /\ stack' = stack /\ saved' = saved /\ Current' = Current
      /\ indices' = indices /\ next_id' = next_id
  BY DEF set_revision, enabled, Current
<1>2. Len(stack) = 0 /\ saved \in Seq(Point) /\ Len(saved) = 0
  BY <1>1 DEF IndexInv, TypeOK, Point
<1> QED BY <1>1, <1>2 DEF IndexInv, TypeOK, set_revision, RevisionsContiguous

-----------------------------------------------------------------------------
(* The empty table satisfies the invariant.                                *)
LEMMA IndexInit ==
    ASSUME Init PROVE IndexInv
<1>1. Empty \in Table /\ 0 \in 0..(MaxId + 1)
  BY IndexAssumption DEF Empty, Table
<1>2. WellFormed(Current)
  BY DEF Init, Current, WellFormed, Has, Empty
<1>3. stack = <<>> /\ saved = <<>> /\ Len(stack) = 0 /\ Len(saved) = 0
  BY DEF Init
<1>4. broken = FALSE /\ broken \in BOOLEAN
  BY DEF Init
<1>5. TypeOK
  <2>1. stack \in Seq(UndoState) /\ saved \in Seq(Table \X (0..(MaxId + 1)))
    BY <1>3
  <2>2. indices \in Table /\ next_id \in 0..(MaxId + 1) /\ revision \in Int
    BY <1>1 DEF Init
  <2> QED BY <1>3, <1>4, <2>1, <2>2 DEF TypeOK
<1>6. RevisionsContiguous /\ 1..Len(stack) = {} /\ 1..Len(saved) = {}
  BY <1>3 DEF RevisionsContiguous
<1> QED BY <1>2, <1>4, <1>5, <1>6 DEF IndexInv

(* Every step of a table with stable keys preserves the invariant.         *)
LEMMA IndexNext ==
    ASSUME KeyStable, IndexInv, [Next]_vars PROVE IndexInv'
<1>1. CASE UNCHANGED vars
  BY <1>1 DEF vars, IndexInv, TypeOK, RevisionsContiguous, WellFormed, Current,
              Link, LinkAt, PointAfter
<1>2. CASE \E o \in Object : emplace(o)
  BY <1>2, EmplaceStep
<1>3. CASE \E i \in Id, o \in Object : modify(i, o)
  BY <1>3, ModifyStep
<1>4. CASE \E i \in Id : remove(i)
  BY <1>4, RemoveStep
<1>5. CASE start_undo_session
  BY <1>5, StartStep
<1>6. CASE undo
  BY <1>6, UndoStep
<1>7. CASE squash
  BY <1>7, SquashStep
<1>8. CASE \E r \in 0..MaxRevision : commit(r)
  BY <1>8, CommitStep
<1>9. CASE \E r \in 0..MaxRevision : set_revision(r)
  <2>1. \A r \in 0..MaxRevision : r \in Int
    BY IndexAssumption
  <2> QED BY <1>9, <2>1, SetRevisionStep
<1> QED BY <1>1, <1>2, <1>3, <1>4, <1>5, <1>6, <1>7, <1>8, <1>9 DEF Next

(* The inductive invariant holds in every reachable state of a table whose *)
(* modifiers leave the unique key alone.                                   *)
THEOREM IndexInvariant ==
    ASSUME KeyStable PROVE Spec => []IndexInv
<1>1. Init => IndexInv
  BY IndexInit
<1>2. IndexInv /\ [Next]_vars => IndexInv'
  BY IndexNext
<1> QED BY <1>1, <1>2, PTL DEF Spec

(* Every undo state on the stack leads back to the contents its session    *)
(* started from, whatever was created, modified, removed, squashed and     *)
(* committed since.                                                        *)
THEOREM StackAlwaysRestores ==
    ASSUME KeyStable PROVE Spec => []StackRestores
<1>1. IndexInv => StackRestores
  <2> SUFFICES ASSUME IndexInv, NEW i \in 1..Len(stack)
               PROVE  Restore(stack[i], After(i)) = saved[i][1]
    BY DEF StackRestores
  <2>1. /\ stack[i] \in UndoState /\ saved[i] \in Point
        /\ Len(saved) = Len(stack) /\ Len(stack) \in Nat
        /\ saved \in Seq(Point) /\ Current \in Point
    BY DEF IndexInv, TypeOK, Point, Current
  <2>2. PointAfter(i) \in Point /\ WellFormed(PointAfter(i))
    <3>1. CASE i = Len(saved)
      BY <2>1, <3>1 DEF PointAfter, IndexInv
    <3>2. CASE i # Len(saved)
      <4>1. i + 1 \in 1..Len(saved)
        BY <2>1, <3>2
      <4> QED BY <2>1, <3>2, <4>1 DEF PointAfter, IndexInv
    <3> QED BY <3>1, <3>2
  <2>3. After(i) = PointAfter(i)[1]
    BY DEF After, PointAfter, Current
  <2>4. Link(stack[i], saved[i], PointAfter(i))
    BY DEF IndexInv
  <2> QED BY <2>1, <2>2, <2>3, <2>4, RestoreLink
<1> QED BY <1>1, IndexInvariant, PTL

(* undo() never throws and restores the contents and the next id from      *)
(* which the newest session started.                                       *)
THEOREM UndoAlwaysRestores ==
    ASSUME KeyStable PROVE Spec => UndoRestores
<1>1. IndexInv /\ [Next]_vars =>
        [undo => /\ ~broken'
                 /\ indices' = saved[Len(saved)][1]
                 /\ next_id' = saved[Len(saved)][2]]_vars
  <2> SUFFICES ASSUME IndexInv, undo
               PROVE  /\ ~broken'
                      /\ indices' = saved[Len(saved)][1]
                      /\ next_id' = saved[Len(saved)][2]
    OBVIOUS
  <2>1. broken' = FALSE /\ Current' = saved[Len(saved)]
    BY UndoSucceeds
  <2>2. Current'[1] = indices' /\ Current'[2] = next_id'
    BY DEF Current
  <2> QED BY <2>1, <2>2
<1> QED BY <1>1, IndexInvariant, PTL DEF Spec, UndoRestores

(* The revisions of the undo states are contiguous and end in the table's  *)
(* revision.                                                               *)
THEOREM RevisionsAlwaysContiguous ==
    ASSUME KeyStable PROVE Spec => []RevisionsContiguous
<1>1. IndexInv => RevisionsContiguous
  BY DEF IndexInv
<1> QED BY <1>1, IndexInvariant, PTL

(* A table whose modifiers leave the unique key alone implements the       *)
(* abstract undo history.                                                  *)
THEOREM ImplementsUndoHistory ==
    ASSUME KeyStable PROVE Spec => Refines
<1>1. Init => H!HInit
  BY DEF Init, H!HInit
<1>2. IndexInv /\ [Next]_vars => [H!HNext]_(H!hvars)
  <2> SUFFICES ASSUME IndexInv, [Next]_vars PROVE [H!HNext]_(H!hvars)
    OBVIOUS
  <2> USE DEF H!HNext, H!hvars
  <2>1. CASE UNCHANGED vars
    BY <2>1 DEF vars
  <2>2. CASE \/ \E o \in Object : emplace(o)
             \/ \E i \in Id, o \in Object : modify(i, o)
             \/ \E i \in Id : remove(i)
    BY <2>2 DEF emplace, modify, remove, H!Change
  <2>3. CASE start_undo_session
    BY <2>3 DEF start_undo_session, H!Start
  <2>4. CASE undo
    <3>1. saved # <<>>
      BY <2>4 DEF undo, enabled, IndexInv, TypeOK
    <3> QED BY <2>4, <3>1, UndoSucceeds DEF H!Undo, Current, Pop
  <2>5. CASE squash
    <3>1. saved # <<>>
      BY <2>5 DEF squash, enabled, IndexInv, TypeOK
    <3> QED BY <2>5, <3>1 DEF squash, H!Squash, Pop
  <2>6. CASE \E r \in 0..MaxRevision : commit(r)
    <3>1. PICK r \in 0..MaxRevision : commit(r)
      BY <2>6
    <3>2. PICK n \in 0..Len(stack) : saved' = SubSeq(saved, n + 1, Len(saved))
      BY <3>1 DEF commit
    <3>3. Len(saved) = Len(stack)
      BY DEF IndexInv, TypeOK
    <3>4. Current' = Current /\ revision' = revision
      BY <3>1 DEF commit, Current
    <3> QED BY <3>2, <3>3, <3>4 DEF H!Commit, Current
  <2>7. CASE \E r \in 0..MaxRevision : set_revision(r)
    <3>1. stack = <<>> /\ saved \in Seq(Point) /\ Len(saved) = Len(stack)
      BY <2>7 DEF set_revision, enabled, IndexInv, TypeOK, Point
    <3>2. saved = <<>>
      BY <3>1
    <3> QED BY <2>7, <3>2 DEF set_revision, H!SetRevision
  <2> QED BY <2>1, <2>2, <2>3, <2>4, <2>5, <2>6, <2>7 DEF Next
<1> QED BY <1>1, <1>2, IndexInvariant, PTL DEF Spec, Refines, H!HSpec
=============================================================================

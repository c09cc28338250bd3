----------------------------- MODULE UndoHistory -----------------------------
(***************************************************************************)
(* What chainbase promises the controller about one table: sessions nest,  *)
(* undoing the newest session brings back exactly the contents the table   *)
(* had when that session started, squashing it forgets that point without  *)
(* touching the contents, and committing forgets the oldest points.  The   *)
(* contents are an opaque value.                                           *)
(***************************************************************************)
EXTENDS Integers, Sequences

VARIABLES
    contents,  \* what the table holds now
    history,   \* its contents at the start of each open session
    revision   \* the revision number of the newest session

hvars == <<contents, history, revision>>

HInit == history = <<>> /\ revision = 0

Change ==
    UNCHANGED <<history, revision>>

Start ==
    /\ history' = Append(history, contents)
    /\ revision' = revision + 1
    /\ UNCHANGED contents

Undo ==
    /\ history # <<>>
    /\ contents' = history[Len(history)]
    /\ history' = SubSeq(history, 1, Len(history) - 1)
    /\ revision' = revision - 1

Squash ==
    /\ history # <<>>
    /\ history' = SubSeq(history, 1, Len(history) - 1)
    /\ revision' = revision - 1
    /\ UNCHANGED contents

Commit ==
    /\ \E n \in 0..Len(history) : history' = SubSeq(history, n + 1, Len(history))
    /\ UNCHANGED <<contents, revision>>

SetRevision ==
    /\ history = <<>>
    /\ UNCHANGED <<contents, history>>

HNext == Change \/ Start \/ Undo \/ Squash \/ Commit \/ SetRevision

HSpec == HInit /\ [][HNext]_hvars
=============================================================================

------------------------------ MODULE BlockLog ------------------------------
(***************************************************************************)
(* The log of irreversible blocks and its index (block_log.cpp), as the    *)
(* controller and chain_plugin use them: opened at every start, reset when *)
(* there are no blocks, appended to, and repaired by                       *)
(* --hard-replay-blockchain.                                               *)
(*                                                                         *)
(* A file is a sequence of cells, and a position in it the number of cells *)
(* before it.  A block takes two cells, so that it can be torn.  What a    *)
(* stream has not flushed is in a buffer; any beginning of the buffer may  *)
(* have reached the file when the process dies.  Data read where a         *)
(* position or a block is expected makes the reading code throw: bytes     *)
(* that look like another block by chance are left out.                    *)
(***************************************************************************)
EXTENDS Integers, Sequences, FiniteSetsExt, SequencesExt

CONSTANTS
    MaxBlock,    \* bound on block numbers
    Snapshots,   \* head blocks of snapshots a node may start from
    MaxCrashes,  \* bound on crashes
    MaxLost      \* cells of a file that a power failure may take

LogAssumption ==
    /\ {MaxBlock, MaxCrashes, MaxLost} \subseteq Nat
    /\ Snapshots \subseteq 1..MaxBlock

None == 0
Npos == -1
Version(v) == [cell |-> "version", n |-> v]
First(n)   == [cell |-> "first", n |-> n]
Genesis    == [cell |-> "genesis", n |-> 0]
Pos(p)     == [cell |-> "pos", n |-> p]
Half(k, n) == [cell |-> k, n |-> n]

VARIABLES
    log, index,    \* blocks.log and blocks.index
    lbuf, ibuf,    \* what their streams have not flushed
    my,            \* the open log: number of the first block and of the head
    phase,         \* what the node is doing
    appended,      \* the last block whose append returned
    crashes        \* crashes so far

vars == <<log, index, lbuf, ibuf, my, phase, appended, crashes>>

----------------------------------------------------------------------------
(* Files *)

Header(v, first) == <<Version(v), First(first), Genesis, Pos(Npos)>>
HeaderLength == 4

Block(n, pos) == <<Half("top", n), Half("bottom", n), Pos(pos)>>
BlockLength == 3

cells(file, pos, n) ==
    IF 0 <= pos /\ pos + n <= Len(file) THEN SubSeq(file, pos + 1, pos + n)
    ELSE <<>>

\* read_block: the block at a position, or None if it cannot be unpacked
read_block(file, pos) ==
    LET c == cells(file, pos, 2)
    IN  IF Len(c) = 2 /\ c[1].cell = "top" /\ c[2] = Half("bottom", c[1].n)
        THEN c[1].n ELSE None

\* The blocks that are whole and followed by their position, from the first
\* on: how many they are, and where they start.
start(i) == HeaderLength + (i - 1) * BlockLength

whole(file, i) ==
    /\ read_block(file, start(i)) # None
    /\ cells(file, start(i) + 2, 1) = <<Pos(start(i))>>

whole_blocks(file) ==
    LET runs == {k \in 0..Len(file) : \A i \in 1..k : whole(file, i)}
    IN  [i \in 1..Max(runs) |-> start(i)]

header_whole(file) ==
    /\ Len(file) >= HeaderLength
    /\ cells(file, 0, HeaderLength) = Header(file[1].n, file[2].n)

----------------------------------------------------------------------------
(* Opening *)

\* block_log::open of a log that is not empty.  A log without a block has
\* no head, and the code then reads the id of a null pointer.
opens(file) ==
    /\ file[1].n > 0
    /\ Last(file).cell = "pos" /\ Last(file).n # Npos
    /\ read_block(file, Last(file).n) # None

\* construct_index, when the last entries of the two files differ: the
\* index file is removed and the new one written to the stream's buffer.
stale_index(file, idx) == idx = <<>> \/ Last(idx) # Last(file).n

open ==
    /\ my' = [first |-> log[2].n, head |-> read_block(log, Last(log).n)]
    /\ IF stale_index(log, index)
       THEN index' = <<>> /\ ibuf' = whole_blocks(log)
       ELSE UNCHANGED <<index, ibuf>>
    /\ phase' = "running"
    /\ UNCHANGED <<log, lbuf>>

NoLog == [first |-> 1, head |-> None]

Start ==
    /\ phase \in {"down", "repair failed"}
    /\ \/ /\ log = <<>>
          /\ index' = <<>>
          /\ my' = NoLog
          /\ phase' = "empty"
          /\ UNCHANGED <<log, lbuf, ibuf>>
       \/ /\ log # <<>> /\ ~opens(log)
          /\ phase' = "refused"
          /\ UNCHANGED <<log, index, lbuf, ibuf, my>>
       \/ /\ log # <<>> /\ opens(log)
          /\ open
    /\ UNCHANGED <<appended, crashes>>

----------------------------------------------------------------------------
(* Writing *)

\* block_log::reset from controller_impl::init: at genesis with the first
\* block, from a snapshot without one.  The version stays 0 until the end.
Reset(first) ==
    /\ phase = "empty"
    /\ log' = <<>> /\ index' = <<>>
    /\ lbuf' = Header(0, first) /\ ibuf' = <<>>
    /\ my' = [first |-> first, head |-> None]
    /\ phase' = IF first = 1 THEN "first block" ELSE "close"
    /\ UNCHANGED <<appended, crashes>>

\* block_log::append of block n; its assertion on the index must hold.
write(n) ==
    LET pos == Len(log \o lbuf)
    IN  /\ lbuf' = lbuf \o Block(n, pos)
        /\ ibuf' = Append(ibuf, pos)
        /\ my' = [my EXCEPT !.head = n]

index_in_step(n) == Len(index \o ibuf) = n - my.first

NextBlock == IF my.head = None THEN my.first ELSE my.head + 1

AppendBlock ==
    /\ phase \in {"running", "first block"}
    /\ NextBlock <= MaxBlock
    /\ IF index_in_step(NextBlock)
       THEN /\ write(NextBlock)
            /\ phase' = IF phase = "running" THEN "flush" ELSE "flush first"
       ELSE /\ phase' = "append failed"
            /\ UNCHANGED <<lbuf, ibuf, my>>
    /\ UNCHANGED <<log, index, appended, crashes>>

flush_block ==
    /\ log' = log \o lbuf
    /\ lbuf' = <<>>

flush_index ==
    /\ index' = index \o ibuf
    /\ ibuf' = <<>>

Flush ==
    \/ /\ phase \in {"flush", "flush first"} /\ lbuf # <<>>
       /\ flush_block
       /\ UNCHANGED <<index, ibuf, my, phase, appended, crashes>>
    \/ /\ phase \in {"flush", "flush first"} /\ lbuf = <<>>
       /\ flush_index
       /\ appended' = my.head
       /\ phase' = IF phase = "flush" THEN "running" ELSE "close"
       /\ UNCHANGED <<log, lbuf, my, crashes>>

\* The end of reset: close the stream, then write the version in place.
Close ==
    /\ phase = "close"
    /\ flush_block
    /\ phase' = "version"
    /\ UNCHANGED <<index, ibuf, my, appended, crashes>>

SetVersion ==
    /\ phase = "version"
    /\ log' = [log EXCEPT ![1] = Version(2)]
    /\ flush_index
    /\ phase' = "running"
    /\ UNCHANGED <<lbuf, my, appended, crashes>>

\* read_block_by_num closes a stream that was open for writing.
Read ==
    /\ phase = "running" /\ ibuf # <<>>
    /\ flush_block /\ flush_index
    /\ UNCHANGED <<my, phase, appended, crashes>>

\* ~block_log
Stop ==
    /\ phase \in {"running", "empty", "append failed"}
    /\ flush_block /\ flush_index
    /\ phase' = "down"
    /\ UNCHANGED <<my, appended, crashes>>

----------------------------------------------------------------------------
(* Failures and repair *)

Exited == {"down", "refused", "repair failed"}

Beginnings(file, least) == {SubSeq(file, 1, n) : n \in least..Len(file)}

Crash ==
    /\ phase \notin Exited /\ crashes < MaxCrashes
    /\ \E l \in Beginnings(lbuf, 0) : log' = log \o l
    /\ \E i \in Beginnings(ibuf, 0) : index' = index \o i
    /\ lbuf' = <<>> /\ ibuf' = <<>>
    /\ phase' = "down"
    /\ crashes' = crashes + 1
    /\ UNCHANGED <<my, appended>>

\* Nothing is synced: each file may lose cells at its end on its own.
PowerFailure ==
    LET least(file) == IF Len(file) > MaxLost THEN Len(file) - MaxLost ELSE 0
    IN  /\ MaxLost > 0 /\ crashes < MaxCrashes
        /\ log' \in Beginnings(log \o lbuf, least(log))
        /\ index' \in Beginnings(index \o ibuf, least(index))
        /\ lbuf' = <<>> /\ ibuf' = <<>>
        /\ phase' = "down"
        /\ crashes' = crashes + 1
        /\ appended' = None
        /\ UNCHANGED my

\* block_log::repair_log with --truncate-at-block t (0: none).  The blocks
\* directory has been moved when a broken header is found, and the new log
\* keeps what was written before.
recovered_one_short(file, t) ==
    LET found == whole_blocks(file)
    IN  SubSeq(file, 1, HeaderLength +
                        (IF Len(found) > 1 THEN Len(found) - 1 ELSE Len(found))
                           * BlockLength)

recovered(file, t) ==
    LET found == whole_blocks(file)
        stop  == {i \in 1..Len(found) : read_block(file, found[i]) = t}
        kept  == IF stop = {} THEN Len(found) ELSE CHOOSE i \in stop : TRUE
    IN  SubSeq(file, 1, HeaderLength + kept * BlockLength)

Repair(t) ==
    /\ phase \in Exited /\ log # <<>>
    /\ index' = <<>>
    /\ \/ /\ header_whole(log) /\ log[1].n > 0
          /\ log' = recovered(log, t)
          /\ phase' = "down"
       \/ /\ ~(header_whole(log) /\ log[1].n > 0)
          /\ log' = IF log[1].n = 0 THEN <<>>
                    ELSE Front(Header(log[1].n, IF Len(log) > 1 THEN log[2].n ELSE 1))
          /\ phase' = "repair failed"
    /\ appended' = IF t \in 1..appended THEN t ELSE appended
    /\ UNCHANGED <<lbuf, ibuf, my, crashes>>

\* --delete-all-blocks
DeleteAll ==
    /\ phase \in Exited
    /\ log' = <<>> /\ index' = <<>>
    /\ phase' = "down"
    /\ appended' = None
    /\ UNCHANGED <<lbuf, ibuf, my, crashes>>

Init ==
    /\ log = <<>> /\ index = <<>> /\ lbuf = <<>> /\ ibuf = <<>>
    /\ my = NoLog
    /\ phase = "down"
    /\ appended = None
    /\ crashes = 0

Next ==
    \/ Start \/ AppendBlock \/ Flush \/ Close \/ SetVersion \/ Read \/ Stop
    \/ \E first \in {1} \cup {s + 1 : s \in Snapshots} : Reset(first)
    \/ Crash \/ PowerFailure
    \/ \E t \in 0..MaxBlock : Repair(t)
    \/ DeleteAll

Spec == Init /\ [][Next]_vars

----------------------------------------------------------------------------
(* Properties *)

\* What the index and the log hold while the node runs, buffers included.
Working == phase \in {"running", "flush", "flush first", "close", "version"}

\* Every block from the first to the head is found through the index at its
\* position, whatever crash, rebuilt index or repair came before
\* (get_block_pos, read_block_by_num, construct_index).
ReadsBack ==
    Working /\ my.head # None =>
       /\ Len(index \o ibuf) = my.head - my.first + 1
       /\ \A n \in my.first..my.head :
             read_block(log \o lbuf, (index \o ibuf)[n - my.first + 1]) = n

\* A block whose append returned survives the death of the process, also
\* when the log must be repaired (append, repair_log).
NothingLost == phase = "running" => my.head >= appended

\* The index is always in step with the log when a block is appended
\* (the assertion in append).
AppendNeverFails == phase # "append failed"

=============================================================================

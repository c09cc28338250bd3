------------------------------ MODULE MCNetwork ------------------------------
(***************************************************************************)
(* The network plugins for TLC: MessageBuffer, SyncManager,                *)
(* TransactionRelay and BnetSession.  One part of the suite runs, the      *)
(* others stay in their initial state.                                     *)
(*   "bytes"   messages of four sizes through buffers of three bytes;      *)
(*   "sync"    a node that is five blocks behind dials the producer;       *)
(*   "faults"  the same with two lost connections, late answers or blocks  *)
(*             from the future;                                            *)
(*   "flood"   a transaction handed to two of three nodes, one of which is *)
(*             syncing, while blocks carry it and it may expire;           *)
(*   "ring"    a transaction in a ring of three nodes that breaks once;    *)
(*   "bnet"    two nodes at the same head, whose chain grows and forks;    *)
(*   "behind"  the same with a peer that lacks our irreversible block.     *)
(***************************************************************************)
EXTENDS SyncManager

Dial == {<<1, 2>>}
Heads == <<2, 7>>

Faulty == INSTANCE SyncManager WITH Faults <- 2
Lossy == INSTANCE SyncManager WITH Faults <- 1

VARIABLES buffers, read_ind, write_ind, wire, outstanding, handling, sent, received

Bytes == INSTANCE MessageBuffer WITH
    buffer_len <- 3, header_size <- 2, Sizes <- {1, 2, 4, 7}, MaxMessages <- 4

VARIABLES
    offered, queue, acks, received_txns, local_txns, trx_state, known_trxs, chan,
    active, syncing, down, expired, breaks, copies

CONSTANTS n1, n2, n3, trx, client

Ring == {p \in {n1, n2, n3} \X {n1, n2, n3} : p[1] # p[2]}

Flood == INSTANCE TransactionRelay WITH
    received <- received_txns, known <- known_trxs,
    Nodes <- {n1, n2, n3}, Connections <- Ring,
    Trxs <- {trx}, Client <- client, Entries <- {n1, n2}, Behind <- {n3},
    Chain <- TRUE, MaxBreaks <- 0, MaxCopies <- 2
Breaking == INSTANCE TransactionRelay WITH
    received <- received_txns, known <- known_trxs,
    Nodes <- {n1, n2, n3}, Connections <- Ring,
    Trxs <- {trx}, Client <- client, Entries <- {n1}, Behind <- {},
    Chain <- FALSE, MaxBreaks <- 1, MaxCopies <- 2

VARIABLES head, lib_block, pool, libs, hello, asked, got, session, outbox, inbox, peer, notices, refused

At(irreversible, top) == [lib |-> irreversible, head |-> top]

Bnet == INSTANCE BnetSession WITH
    s <- session, lib <- lib_block, wire <- outbox,
    Fork <- 2, MaxNum <- 4, MaxLib <- 2, MaxPings <- 1, MaxNotices <- 1,
    LocalStart <- At(1, 2), PeerStart <- At(1, 2), IrreversibleOnly <- FALSE
Behind == INSTANCE BnetSession WITH
    s <- session, lib <- lib_block, wire <- outbox,
    Fork <- 2, MaxNum <- 4, MaxLib <- 3, MaxPings <- 1, MaxNotices <- 0,
    LocalStart <- At(2, 2), PeerStart <- At(1, 1), IrreversibleOnly <- FALSE

ASSUME Bytes!BufferAssumption
    /\ Flood!RelayAssumption /\ Breaking!RelayAssumption
    /\ Bnet!BnetAssumption /\ Behind!BnetAssumption

VARIABLE part

buffer_vars == <<buffers, read_ind, write_ind, wire, outstanding, handling, sent, received>>
relay_vars == <<offered, queue, acks, received_txns, local_txns, trx_state, known_trxs,
                chan, active, syncing, down, expired, breaks, copies>>
bnet_vars == <<head, lib_block, pool, libs, hello, asked, got, session, outbox, inbox,
               peer, notices, refused>>
all == <<part, vars, buffer_vars, relay_vars, bnet_vars>>

MCInit ==
    /\ part \in {"bytes", "sync", "faults", "flood", "ring", "bnet", "behind"}
    /\ Bytes!Init
    /\ IF part = "behind" THEN Behind!Init ELSE Bnet!Init
    /\ IF part = "faults" THEN Faulty!Init ELSE Init
    /\ IF part = "ring" THEN Breaking!Init ELSE Flood!Init

(* The part p runs and the others stay as they are.                        *)
Part(p, A, others) == part = p /\ A /\ UNCHANGED <<part, others>>

MCNext ==
    \/ Part("bytes", Bytes!Next, <<vars, relay_vars, bnet_vars>>)
    \/ Part("sync", Next, <<buffer_vars, relay_vars, bnet_vars>>)
    \/ Part("faults", Faulty!Next, <<buffer_vars, relay_vars, bnet_vars>>)
    \/ Part("flood", Flood!Next, <<vars, buffer_vars, bnet_vars>>)
    \/ Part("ring", Breaking!Next, <<vars, buffer_vars, bnet_vars>>)
    \/ Part("bnet", Bnet!Next, <<vars, buffer_vars, relay_vars>>)
    \/ Part("behind", Behind!Next, <<vars, buffer_vars, relay_vars>>)

(* Some handler of the component runs as long as there is one to run.      *)
MCProgress ==
    \/ Part("sync", Progress, <<buffer_vars, relay_vars, bnet_vars>>)
    \/ Part("ring", Breaking!Progress, <<vars, buffer_vars, bnet_vars>>)
    \/ Part("bnet", Bnet!Progress, <<vars, buffer_vars, relay_vars>>)
    \/ Part("behind", Behind!Progress, <<vars, buffer_vars, relay_vars>>)

MCSpec ==
    /\ MCInit /\ [][MCNext]_all
    /\ WF_all(MCProgress)
    /\ WF_all(\/ Part("bnet", Bnet!Fetching, <<vars, buffer_vars, relay_vars>>)
              \/ Part("behind", Behind!Fetching, <<vars, buffer_vars, relay_vars>>))

(* A lost connection between a node that fetches blocks and its peer.      *)
LossySpec ==
    /\ part = "lossy" /\ Lossy!Init /\ Bytes!Init /\ Flood!Init /\ Bnet!Init
    /\ [][Lossy!Next /\ UNCHANGED <<part, buffer_vars, relay_vars, bnet_vars>>]_all
    /\ WF_all(Lossy!Progress /\ UNCHANGED <<part, buffer_vars, relay_vars, bnet_vars>>)

(* Every message comes out of the buffers once, in order and with its own  *)
(* bytes, however the stream was cut into reads; no byte is lost and there *)
(* is always room for the next read.                                       *)
BytesInOrder == Bytes!MessagesIntact /\ Bytes!RoomToRead /\ Bytes!BytesConserved

(* The sync manager asks for the blocks after its head and for no others,  *)
(* waits for every answer it needs, and while nothing fails closes no      *)
(* connection.                                                             *)
SyncConsistent ==
    /\ NextFollowsHead /\ WaitsForAnswer
    /\ part = "sync" => OrderlyPeerKept

(* A connection carries what the other side can use: the peer has the      *)
(* parent of every block, except of one directly after an irreversible     *)
(* block that a bnet session was set back to and its peer lacks, and a     *)
(* transaction comes at most once before it expires.                       *)
SentOrderly ==
    /\ part = "faults" => Faulty!BlocksLink
    /\ part = "bnet" => Bnet!Open
    /\ Behind!Linkable
    /\ part = "flood" => Flood!OneCopyPerLink

(* All nodes end up with the last block that is produced, whatever they    *)
(* had when they connected.                                                *)
AllResync == part = "sync" => Resyncs

(* A transaction that has come to one chain comes to all of them, if one   *)
(* connection of a ring breaks at any moment.                              *)
Delivered == part = "ring" => Breaking!Delivered

(* A bnet peer ends up with the head of this node, through fork switches,  *)
(* advances of the irreversible block, notices and pings, if it has the    *)
(* irreversible block the session was set back to, there is one, and a     *)
(* block has been accepted.                                                *)
PeerCatchesUp ==
    /\ part = "bnet" => Bnet!PeerCatchesUp
    /\ part = "behind" => Behind!PeerCatchesUp

(* tests/restart-scenarios-test.py gives up with "Cluster never            *)
(* synchronized" when nodes that are connected again do not catch up.      *)
ResyncsAfterLoss == Lossy!Resyncs
=============================================================================

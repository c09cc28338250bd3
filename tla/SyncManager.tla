---------------------------- MODULE SyncManager ----------------------------
(***************************************************************************)
(* How nodes catch up with each other over net_plugin: every node runs the *)
(* same sync_manager and the same message handlers                         *)
(* (plugins/net_plugin/net_plugin.cpp), and TCP connections between them   *)
(* may be lost and are dialed again by the connection monitor.             *)
(*                                                                         *)
(* All nodes hold prefixes of one chain, so a block, its number and its id *)
(* are the same thing here, and the block after the head is the only one   *)
(* that links.  A node's irreversible block trails its head by Lag.        *)
(* Transactions, go_away messages (no node here has a reason to send one)  *)
(* and notices of single blocks (large_msg_notify is false) are left out.  *)
(***************************************************************************)
EXTENDS Integers, Sequences, FiniteSets, SequencesExt, FiniteSetsExt

CONSTANTS
    N,         \* the nodes are 1 .. N; connections are ordered by peer
    Links,     \* pairs <<dialer, acceptor>> (p2p-peer-address of the dialer)
    InitHead,  \* the head of each node when it starts
    Producer,  \* the node that produces blocks
    LastBlock, \* bound: the last block it produces
    Lag,       \* how far the irreversible block trails the head
    Span,      \* sync-fetch-span
    Faults     \* bound: connections lost, answers later than the time limit

Nodes == 1 .. N
None == 0      \* a null connection_ptr
Gone == -1     \* a connection object that left the list of connections

ASSUME NetAssumption ==
    /\ N \in Nat \ {0} /\ Lag \in Nat /\ Span \in Nat \ {0} /\ Faults \in Nat
    /\ Links \subseteq Nodes \X Nodes
    /\ \A l \in Links : l[1] # l[2] /\ <<l[2], l[1]>> \notin Links
    /\ InitHead \in [Nodes -> Nat \ {0}]
    /\ Producer \in Nodes /\ LastBlock \in Nat

VARIABLES
    node,   \* the state of each node, see Node
    net,    \* net[n][p]: what n wrote to p and p has not read
    faults  \* faults that may still happen
vars == <<node, net, faults>>

Peers(n) == {p \in Nodes : <<n, p>> \in Links \/ <<p, n>> \in Links}

\* A connection object.  write is the state of out_queue: empty, handed to
\* the socket, or left behind by a write that failed; handshakes counts
\* sent_handshake_count up to 2, requested is peer_requested without its
\* start (the last block queued and the last one asked for), timer says
\* whether response_expected runs and expired whether its handler is queued
\* with no error; got are blocks of received_blocks.
NewConnection ==
    [open |-> FALSE, connecting |-> FALSE, syncing |-> FALSE, handshakes |-> 0,
     sent_lib |-> 0, recv_head |-> 0, recv_lib |-> 0, fork_head |-> 0,
     requested |-> <<>>, timer |-> FALSE, expired |-> FALSE, got |-> {},
     write_queue |-> <<>>, write |-> "idle"]

\* A node: its chain head and the members of sync_manager; conns are the
\* peers whose connection is in my_impl->connections.
Node(n) ==
    [head |-> InitHead[n], stage |-> "in_sync", known_lib |-> 0,
     last_requested |-> 0, next_expected |-> 1, source |-> None,
     conns |-> {p \in Peers(n) : <<n, p>> \in Links},
     c |-> [p \in Peers(n) |-> NewConnection]]

lib_num(s) == IF s.head > Lag THEN s.head - Lag ELSE 1

connected(s, p) == s.c[p].open /\ ~s.c[p].connecting

current(s, p) == p \in s.conns /\ connected(s, p) /\ ~s.c[p].syncing

enqueue(s, p, msg) == [s EXCEPT !.c[p].write_queue = Append(@, msg)]

cancel_wait(s, p) == [s EXCEPT !.c[p].timer = FALSE]

sync_wait(s, p) == [s EXCEPT !.c[p].timer = TRUE]

request_sync_blocks(s, p, start, end) ==
    sync_wait(enqueue(s, p, [type |-> "sync_request", start |-> start, end |-> end]), p)

send_handshake_on(s, conn) ==
    LET count == IF conn.handshakes < 2 THEN conn.handshakes + 1 ELSE 2 IN
    [conn EXCEPT !.handshakes = count, !.sent_lib = lib_num(s),
                 !.write_queue = Append(@, [type |-> "handshake", generation |-> count,
                                            head |-> s.head, lib |-> lib_num(s)])]

send_handshake(s, p) == [s EXCEPT !.c[p] = send_handshake_on(s, @)]

send_handshakes(s) ==
    [s EXCEPT !.c = [p \in DOMAIN s.c |->
        IF current(s, p) THEN send_handshake_on(s, s.c[p]) ELSE s.c[p]]]

----------------------------------------------------------------------------
(***************************************************************************)
(* sync_manager                                                            *)
(***************************************************************************)

sync_required(s) == s.last_requested < s.known_lib \/ s.head < s.last_requested

\* The source of the next chunk: the connection supplied if it is current,
\* otherwise the next current one of the list after the present source.
next_source(s, conn) ==
    LET usable == {p \in s.conns : current(s, p)}
        later  == {p \in usable : p > s.source}
    IN  CASE conn # None /\ current(s, conn) -> conn
          [] Cardinality(s.conns) = 1 ->
                IF s.source = None THEN CHOOSE p \in s.conns : TRUE ELSE s.source
          [] usable = {} -> IF s.source \in s.conns THEN s.source ELSE None
          [] OTHER -> IF later # {} THEN Min(later) ELSE Min(usable)

request_next_chunk(s, conn) ==
    LET src == next_source(s, conn)
        s1  == [s EXCEPT !.source = src]
        end == Min({s.next_expected + Span - 1, s.known_lib})
    IN  IF s.head < s.last_requested /\ s.source > 0 /\ current(s, s.source)
        THEN s
        ELSE IF src \notin s.conns \/ ~current(s, src)
        THEN [s1 EXCEPT !.known_lib = lib_num(s), !.last_requested = 0, !.stage = "in_sync"]
        ELSE IF s.last_requested # s.known_lib /\ end > 0 /\ end >= s.next_expected
        THEN [request_sync_blocks(s1, src, s.next_expected, end) EXCEPT !.last_requested = end]
        ELSE s1

reset_lib_num(s, p) ==
    LET s1 == IF s.stage = "in_sync" THEN [s EXCEPT !.source = None] ELSE s
    IN  IF current(s1, p)
        THEN [s1 EXCEPT !.known_lib = Max({@, s1.c[p].recv_lib})]
        ELSE IF s1.source = p
        THEN request_next_chunk([s1 EXCEPT !.last_requested = 0], None)
        ELSE s1

\* connection::close; what the peer sees of it is in Commit.
close(s, p) ==
    LET s1 == [s EXCEPT !.c[p] = [@ EXCEPT
                  !.open = FALSE, !.connecting = FALSE, !.syncing = FALSE,
                  !.requested = <<>>, !.handshakes = 0, !.sent_lib = 0,
                  !.recv_head = 0, !.recv_lib = 0, !.write_queue = <<>>]]
    IN  cancel_wait(reset_lib_num(s1, p), p)

\* A message for a socket that is not open closes the connection again.
cancel_sync(s, p) ==
    LET s1 == [cancel_wait(s, p) EXCEPT !.c[p].write_queue = <<>>] IN
    IF s.c[p].open \/ s.c[p].write # "idle"
    THEN enqueue(s1, p, [type |-> "sync_request", start |-> 0, end |-> 0])
    ELSE close(s1, p)

\* Mutant: fetching starts at the peer's irreversible block.
start_sync_at_target(s, p, target) ==
    LET s1 == [s EXCEPT !.known_lib = Max({@, target})]
        s2 == IF s1.stage = "in_sync"
              THEN [s1 EXCEPT !.stage = "lib_catchup", !.next_expected = target]
              ELSE s1
    IN  IF sync_required(s1) THEN request_next_chunk(s2, p) ELSE s1

start_sync(s, p, target) ==
    LET s1 == [s EXCEPT !.known_lib = Max({@, target})]
        s2 == IF s1.stage = "in_sync"
              THEN [s1 EXCEPT !.stage = "lib_catchup", !.next_expected = lib_num(s) + 1]
              ELSE s1
    IN  IF sync_required(s1) THEN request_next_chunk(s2, p) ELSE s1

reassign_fetch(s, p) ==
    IF s.source # p THEN s
    ELSE request_next_chunk([cancel_sync(s, p) EXCEPT !.last_requested = 0], None)

\* The loop over the connections ends after the first one.
verify_catchup(s, p, num) ==
    LET known   == s.c[Min(s.conns)].fork_head >= num
        request == [type |-> "request", mode |-> IF known THEN "none" ELSE "catch_up"]
        s1      == [s EXCEPT !.c[p].fork_head = IF known THEN 0 ELSE num]
    IN  IF ~known /\ s.stage = "lib_catchup" THEN s1
        ELSE enqueue([s1 EXCEPT !.stage = IF known THEN @ ELSE "head_catchup"], p, request)

recv_handshake(s0, p, msg) ==
    LET s == [reset_lib_num(s0, p) EXCEPT !.c[p].syncing = FALSE]
        answer(note) == [enqueue(s, p, note) EXCEPT !.c[p].syncing = TRUE]
    IN  CASE s.head = msg.head -> enqueue(s, p, [type |-> "trx_notice"])
          [] s.head < msg.lib  -> s
          [] lib_num(s) > msg.head -> answer([type |-> "lib_notice", lib |-> lib_num(s)])
          [] s.head < msg.head -> verify_catchup(s, p, msg.head)
          [] OTHER             -> answer([type |-> "head_notice", head |-> s.head])

rejected_block(s, p) ==
    IF s.stage = "in_sync" THEN s
    ELSE LET s1 == close([s EXCEPT !.last_requested = 0, !.source = None], p)
         IN  send_handshakes([s1 EXCEPT !.stage = "in_sync"])

\* The loop of the head catch-up clears fork_head of the connection that
\* delivered the block, whichever connection it looks at.
recv_block_head_catchup(s, p, num) ==
    LET reached == {q \in s.conns : s.c[q].fork_head \in 1 .. num}
        ahead   == {q \in s.conns : s.c[q].fork_head > num}
                       \ (IF \E q \in reached : q < p THEN {p} ELSE {})
    IN  [s EXCEPT !.stage = IF ahead = {} THEN "in_sync" ELSE "head_catchup",
                  !.source = None,
                  !.c[p].fork_head = IF reached = {} THEN @ ELSE 0]

\* Mutant: no handshake after the last irreversible block.
recv_block_lib_catchup_silent(s0, p, num) ==
    LET s == [s0 EXCEPT !.next_expected = num + 1] IN
    CASE num = s.known_lib      -> [s EXCEPT !.stage = "in_sync"]
      [] num = s.last_requested -> request_next_chunk(s, None)
      [] OTHER                  -> sync_wait(s, p)

recv_block_lib_catchup(s0, p, num) ==
    LET s == [s0 EXCEPT !.next_expected = num + 1] IN
    CASE num = s.known_lib      -> send_handshakes([s EXCEPT !.stage = "in_sync"])
      [] num = s.last_requested -> request_next_chunk(s, None)
      [] OTHER                  -> sync_wait(s, p)

recv_block(s, p, num) ==
    CASE s.stage = "lib_catchup" /\ num # s.next_expected -> close(s, p)
      [] s.stage = "lib_catchup"  -> recv_block_lib_catchup(s, p, num)
      [] s.stage = "head_catchup" -> recv_block_head_catchup(s, p, num)
      [] s.stage = "in_sync"      -> s

----------------------------------------------------------------------------
(***************************************************************************)
(* Message handlers of net_plugin_impl, and of the connection that serves  *)
(* a request                                                               *)
(***************************************************************************)

\* dispatch_manager::bcast_block, on the controller's accepted_block signal.
bcast_block(s, num) ==
    [s EXCEPT !.c = [q \in DOMAIN s.c |->
        IF num \in s.c[q].got THEN [s.c[q] EXCEPT !.got = @ \ {num}]
        ELSE IF current(s, q)
        THEN [s.c[q] EXCEPT !.write_queue = Append(@, [type |-> "block", num |-> num])]
        ELSE s.c[q]]]

\* accept_block: a block that does not link is refused by the controller,
\* but producer_plugin's on_incoming_block does not pass the exception on.
accept_block(s, num) ==
    IF num = s.head + 1 THEN bcast_block([s EXCEPT !.head = num], num) ELSE s

handle_block(s0, p, num, future) ==
    LET s  == cancel_wait(s0, p)
        s1 == [s EXCEPT !.c[p].got = @ \cup {num}]
    IN  CASE num <= s.head -> recv_block(s, p, num)
          [] num > s.head /\ future -> rejected_block(s1, p)
          [] OTHER -> recv_block(accept_block(s1, num), p, num)

handle_handshake(s, p, msg) ==
    LET s1 == [s EXCEPT !.c[p].connecting = FALSE]
        s2 == IF msg.generation = 1 /\ s1.c[p].handshakes = 0
              THEN send_handshake(s1, p) ELSE s1
        s3 == [s2 EXCEPT !.c[p].recv_head = msg.head, !.c[p].recv_lib = msg.lib]
    IN  recv_handshake(s3, p, msg)

handle_notice(s0, p, msg) ==
    LET s == [s0 EXCEPT !.c[p].connecting = FALSE] IN
    CASE msg.type = "trx_notice"  -> s
      [] msg.type = "head_notice" -> verify_catchup(s, p, msg.head)
      [] msg.type = "lib_notice"  ->
            start_sync(reset_lib_num([s EXCEPT !.c[p].recv_lib = msg.lib], p), p, msg.lib)

\* blk_send_branch: the blocks after the irreversible block of our last
\* handshake, or after the peer's head when that is on our branch.
blk_send_branch(s, p) ==
    LET conn  == s.c[p]
        base  == IF conn.handshakes > 0 THEN conn.sent_lib ELSE lib_num(s)
        floor == IF conn.recv_head \in base .. s.head THEN conn.recv_head ELSE base
        branch == [i \in 1 .. s.head - floor |-> [type |-> "block", num |-> floor + i]]
    IN  [s EXCEPT !.c[p].syncing = FALSE, !.c[p].write_queue = @ \o branch]

handle_request(s, p, msg) ==
    IF msg.mode = "catch_up" THEN blk_send_branch(s, p)
    ELSE [s EXCEPT !.c[p].syncing = FALSE]

\* enqueue_sync_block: the position advances even if there is no such block.
enqueue_sync_block(s, p) ==
    IF s.c[p].requested = <<>> THEN s
    ELSE LET num == s.c[p].requested[1] + 1
             end == s.c[p].requested[2]
             s1  == [s EXCEPT !.c[p].requested = IF num = end THEN <<>> ELSE <<num, end>>]
         IN  IF num <= s.head THEN enqueue(s1, p, [type |-> "block", num |-> num]) ELSE s1

handle_sync_request(s, p, msg) ==
    IF msg.end = 0 THEN [s EXCEPT !.c[p].requested = <<>>, !.c[p].write_queue = <<>>]
    ELSE enqueue_sync_block([s EXCEPT !.c[p].requested = <<msg.start - 1, msg.end>>], p)

handle_message(s, p, msg, future) ==
    CASE msg.type = "handshake"    -> handle_handshake(s, p, msg)
      [] msg.type \in {"trx_notice", "head_notice", "lib_notice"} -> handle_notice(s, p, msg)
      [] msg.type = "request"      -> handle_request(s, p, msg)
      [] msg.type = "sync_request" -> handle_sync_request(s, p, msg)
      [] msg.type = "block"        -> handle_block(s, p, msg.num, future)
      [] msg.type = "eof"          -> close(s, p)

----------------------------------------------------------------------------
(***************************************************************************)
(* The sockets                                                             *)
(***************************************************************************)

eof == [type |-> "eof"]

\* do_queue_write hands the whole write_queue to the socket unless a write
\* is under way.
starts_write(conn) == conn.open /\ conn.write = "idle" /\ conn.write_queue # <<>>

do_queue_write(s) ==
    [s EXCEPT !.c = [p \in DOMAIN s.c |->
        IF starts_write(s.c[p])
        THEN [s.c[p] EXCEPT !.write_queue = <<>>, !.write = "writing"] ELSE s.c[p]]]

\* A handler of node n leaves it in state s: what it queued is written, and
\* a socket it closed delivers an end of file after what was written before
\* and drops what n has not read.  old is net without the message n read.
Commit(n, s, old) ==
    LET sent(p) == IF starts_write(s.c[p]) THEN s.c[p].write_queue ELSE <<>>
        closed(p) == node[n].c[p].open /\ ~s.c[p].open
    IN  /\ node' = [node EXCEPT ![n] = do_queue_write(s)]
        /\ net' = [a \in Nodes |-> [b \in Nodes |->
              CASE a = n /\ b \in Peers(n) /\ node[b].c[n].open ->
                      old[a][b] \o sent(b) \o (IF closed(b) THEN <<eof>> ELSE <<>>)
                [] b = n /\ a \in Peers(n) /\ ~s.c[a].open -> <<>>
                [] OTHER -> old[a][b]]]

\* The two directions between n and p hold nothing: an answer that has not
\* come by now will not come.
Quiet(n, p) ==
    /\ net[n][p] = <<>> /\ net[p][n] = <<>>
    /\ node[n].c[p].write # "writing" /\ node[p].c[n].write # "writing"

Broken(n, p) ==
    \/ ~node[n].c[p].open \/ ~node[p].c[n].open
    \/ eof \in Range(net[p][n])

----------------------------------------------------------------------------
Init ==
    /\ node = [n \in Nodes |-> Node(n)]
    /\ net = [a \in Nodes |-> [b \in Nodes |-> <<>>]]
    /\ faults = Faults

\* start_read_message's handler: n reads a message of p.  A block whose
\* timestamp is ahead of the reader's clock makes accept_block throw.
Deliver(n, p) ==
    /\ node[n].c[p].open /\ net[p][n] # <<>>
    /\ \E future \in BOOLEAN :
          /\ future => faults > 0 /\ Head(net[p][n]).type = "block"
          /\ faults' = IF future THEN faults - 1 ELSE faults
          /\ Commit(n, handle_message(node[n], p, Head(net[p][n]), future),
                    [net EXCEPT ![p][n] = Tail(@)])

\* The completion handler of async_write.
Written(n, p) ==
    /\ node[n].c[p].write = "writing"
    /\ Commit(n, enqueue_sync_block([node[n] EXCEPT !.c[p].write = "idle"], p), net)
    /\ UNCHANGED faults

\* The same handler with an error: the connection is closed, and out_queue
\* keeps what it held.
WriteFailed(n, p) ==
    /\ node[n].c[p].write = "writing" /\ Broken(n, p)
    /\ Commit(n, close([node[n] EXCEPT !.c[p].write = "failed"], p), net)
    /\ UNCHANGED faults

\* response_expected runs out: its handler is queued, and a later cancel
\* does not take it back.
TimerExpires(n, p) ==
    /\ node[n].c[p].timer
    /\ ~Quiet(n, p) => faults > 0
    /\ faults' = IF Quiet(n, p) THEN faults ELSE faults - 1
    /\ node' = [node EXCEPT ![n].c[p].timer = FALSE, ![n].c[p].expired = TRUE]
    /\ UNCHANGED net

SyncTimeout(n, p) ==
    /\ node[n].c[p].expired
    /\ Commit(n, reassign_fetch([node[n] EXCEPT !.c[p].expired = FALSE], p), net)
    /\ UNCHANGED faults

\* The producer plugin of the producing node commits a block.
ProduceBlock ==
    /\ node[Producer].head < LastBlock
    /\ Commit(Producer, accept_block(node[Producer], node[Producer].head + 1), net)
    /\ UNCHANGED faults

\* plugin_startup and connection_monitor dial; the acceptor makes a new
\* connection object.
Connect(n, p) ==
    LET dialed   == [node[n].c[p] EXCEPT !.open = TRUE, !.connecting = TRUE]
        accepted == [NewConnection EXCEPT !.open = TRUE, !.connecting = TRUE]
    IN  /\ <<n, p>> \in Links
        /\ ~node[n].c[p].open /\ ~node[p].c[n].open
        /\ node[n].c[p].write # "writing" /\ node[p].c[n].write # "writing"
        /\ node' = [node EXCEPT
              ![n] = do_queue_write(send_handshake([@ EXCEPT !.c[p] = dialed], p)),
              ![p] = [@ EXCEPT !.c[n] = accepted, !.conns = @ \cup {n},
                               !.source = IF @ = n THEN Gone ELSE @]]
        /\ net' = [net EXCEPT ![p][n] = <<>>,
              ![n][p] = IF dialed.write = "idle"
                        THEN send_handshake_on(node[n], dialed).write_queue ELSE <<>>]
        /\ UNCHANGED faults

\* connection_monitor drops a closed connection that the peer had dialed.
EraseConnection(n, p) ==
    /\ <<p, n>> \in Links /\ p \in node[n].conns
    /\ ~node[n].c[p].open /\ ~node[n].c[p].expired /\ node[n].c[p].write # "writing"
    /\ node' = [node EXCEPT ![n].conns = @ \ {p}, ![n].c[p] = NewConnection,
                            ![n].source = IF @ = p THEN Gone ELSE @]
    /\ UNCHANGED <<net, faults>>

\* The network breaks the connection: both ends read an error next.
ConnectionLost(n, p) ==
    /\ <<n, p>> \in Links /\ faults > 0
    /\ node[n].c[p].open /\ node[p].c[n].open
    /\ net' = [net EXCEPT ![n][p] = <<eof>>, ![p][n] = <<eof>>]
    /\ faults' = faults - 1
    /\ UNCHANGED node

Next ==
    \/ ProduceBlock
    \/ \E n \in Nodes : \E p \in Peers(n) :
          \/ Deliver(n, p) \/ Written(n, p) \/ WriteFailed(n, p)
          \/ TimerExpires(n, p) \/ SyncTimeout(n, p)
          \/ Connect(n, p) \/ EraseConnection(n, p) \/ ConnectionLost(n, p)

Spec == Init /\ [][Next]_vars

----------------------------------------------------------------------------
\* The types; a node asks for no block past the irreversible block it knows.
TypeOK ==
    /\ faults \in 0 .. Faults
    /\ \A n \in Nodes :
        LET s == node[n] IN
        /\ s.stage \in {"in_sync", "lib_catchup", "head_catchup"}
        /\ s.source \in Peers(n) \cup {None, Gone} /\ s.conns \subseteq Peers(n)
        /\ {s.head, s.known_lib, s.next_expected} \subseteq Nat
        /\ s.last_requested \in 0 .. s.known_lib
        /\ \A p \in Peers(n) : s.c[p].write \in {"idle", "writing", "failed"}

\* A node that fetches irreversible blocks never counts past a block it does
\* not have: next_expected also advances for a block the controller refused,
\* because on_incoming_block does not report that to the network, and then
\* the missing block would never be requested again.
NextFollowsHead ==
    \A n \in Nodes : node[n].stage = "lib_catchup" => node[n].next_expected <= node[n].head + 1

\* A node that fetches irreversible blocks always has a response timer that
\* runs or has run out, so that a peer that stops answering is replaced;
\* request_next_chunk returns without a request, and without a timer, when
\* it believes that one is under way.
WaitsForAnswer ==
    \A n \in Nodes : node[n].stage = "lib_catchup" =>
        \E p \in node[n].conns : node[n].c[p].timer \/ node[n].c[p].expired

\* While nothing fails, a node reads only blocks it has or that follow its
\* head: new blocks are not sent to a peer that is catching up (syncing), and
\* blk_send_branch starts where the peer can link.
BlocksLink ==
    faults = Faults =>
        \A n \in Nodes : \A p \in Peers(n) :
            LET msgs == net[p][n] IN
            node[n].c[p].open /\ msgs # <<>> /\ Head(msgs).type = "block"
                => Head(msgs).num <= node[n].head + 1

\* While nothing fails, no node closes a connection: the blocks of a range
\* and the blocks broadcast never reach a node that is catching up in an
\* order for which recv_block disconnects the peer.
OrderlyPeerKept ==
    faults = Faults => \A a, b \in Nodes : eof \notin Range(net[a][b])

\* What the nodes' event loops, timers and the connection monitor keep doing.
Progress ==
    \/ ProduceBlock
    \/ \E n \in Nodes : \E p \in Peers(n) :
          Deliver(n, p) \/ Written(n, p) \/ TimerExpires(n, p) \/ SyncTimeout(n, p) \/ Connect(n, p)

FairSpec == Spec /\ WF_vars(Progress)

\* All nodes end up with the last block that is produced, whatever they had
\* when they connected.
Resyncs == <>[](\A n \in Nodes : node[n].head = LastBlock)
=============================================================================

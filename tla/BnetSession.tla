---------------------------- MODULE BnetSession ----------------------------
(***************************************************************************)
(* A session of bnet_plugin.cpp, on the side that sends blocks.            *)
(*                                                                         *)
(* The session's handlers run one at a time in its strand; the chain lives *)
(* in the main thread.  The two talk by posting: what the main thread      *)
(* learns reaches the strand in order, except that accepted blocks and     *)
(* headers take a way round through the thread pool, and a block to be     *)
(* sent is asked for by number and comes back later, when the chain may    *)
(* have switched forks.                                                    *)
(*                                                                         *)
(* Blocks are a trunk up to Fork and two branches from there.  The peer    *)
(* takes a block if it has its parent and hangs up otherwise.              *)
(*                                                                         *)
(* Transactions, and notices and pongs on their way out, are left out:     *)
(* they only take their turn before a block.                               *)
(***************************************************************************)
EXTENDS Integers, Sequences, FiniteSetsExt, SequencesExt

CONSTANTS
    Fork,            \* number of the last block of the trunk
    MaxNum,          \* bound on block numbers
    MaxPings,        \* bound on the pings that become due
    MaxNotices,      \* bound on the blocks the peer has from somebody else
    MaxLib,          \* bound on the irreversible block's number
    LocalStart,      \* irreversible number and head number of this node
    PeerStart,       \* irreversible number and head number of the peer
    IrreversibleOnly \* the peer has asked for irreversible blocks only

BnetAssumption ==
    /\ {Fork, MaxNum, MaxLib, MaxPings, MaxNotices} \subseteq Nat /\ {Fork, MaxLib} \subseteq 0..MaxNum
    /\ \A s \in {LocalStart, PeerStart} : s.lib \in 1..s.head /\ s.head <= Fork
    /\ IrreversibleOnly \in BOOLEAN

----------------------------------------------------------------------------
(* Blocks *)

Block(n, branch) == [num |-> n, branch |-> IF n <= Fork THEN "" ELSE branch]
NoBlock == [num |-> 0, branch |-> ""]

previous(b) == IF b.num = 1 THEN NoBlock ELSE Block(b.num - 1, b.branch)

chain(b) == {Block(n, b.branch) : n \in 1..b.num}

VARIABLES
    head, lib,     \* the chain: its head and its last irreversible block
    pool,          \* accepted blocks and headers on their way to the session
    libs,          \* irreversible blocks on their way
    hello,         \* how far do_hello is, and the number it has read
    asked, got,    \* the block asked for, and the one found
    s,             \* the session
    wire,          \* messages to the peer
    inbox,         \* messages from the peer
    peer,          \* blocks the peer has
    notices,       \* blocks the peer has had from somebody else
    refused        \* the block that did not link and made the peer hang up

chain_vars == <<head, lib>>
peer_vars == <<peer, notices, refused>>
vars == <<chain_vars, pool, libs, hello, asked, got, s, wire, inbox, peer_vars>>

\* The connection is open: a peer that gets a block it cannot link hangs up.
Open == refused = NoBlock

----------------------------------------------------------------------------
(* Sending *)

is_known_by_peer(x, b) == b \in x.known

mark_block_status(x, b) ==
    LET min_block_num == Min({x.local_lib, x.last_num})
    IN  IF b \in x.tracked \/ b.num > min_block_num
        THEN [x EXCEPT !.tracked = @ \cup {b}, !.known = @ \cup {b}] ELSE x

NotFound == [found |-> FALSE, block |-> NoBlock]

nothing(x) == [s |-> x, msg |-> <<>>, ask |-> 0]

send(x, msg) == [s |-> [x EXCEPT !.busy = "write"], msg |-> <<msg>>, ask |-> 0]

caught_up(x) ==
    \/ IrreversibleOnly /\ x.last_id = x.local_lib_id
    \/ x.last_id = x.local_head

send_next_block(x) ==
    IF caught_up(x) THEN nothing(x)
    ELSE [s |-> [x EXCEPT !.busy = "fetch"], msg |-> <<>>, ask |-> x.last_num + 1]

\* A ping that is due but not answered yet keeps everything else waiting.
maybe_send_next_message(x) ==
    IF x.busy # "idle" \/ ~x.recv_hello \/ ~x.sent_hello THEN nothing(x)
    ELSE IF x.ping_due /\ ~x.pinged
    THEN send([x EXCEPT !.ping_due = FALSE, !.pinged = TRUE], [kind |-> "ping"])
    ELSE IF x.ping_due \/ x.local_head = NoBlock THEN nothing(x)
    ELSE send_next_block(x)

\* Take over what a handler leads to.
Take(r) ==
    /\ s' = r.s
    /\ wire' = wire \o r.msg
    /\ asked' = IF r.ask # 0 THEN r.ask ELSE asked

\* Mutant: only the id is set back.
rewound_id(x) ==
    [x EXCEPT !.last_id = x.local_lib_id, !.backs = @ \cup {x.local_lib_id}]

\* Back to the irreversible block.  backs is history: the blocks it went back to.
rewound(x) ==
    [x EXCEPT !.last_id = x.local_lib_id, !.last_num = x.local_lib,
              !.backs = @ \cup {x.local_lib_id}]

on_async_get_block(x, b) ==
    LET idle == [x EXCEPT !.busy = "idle"]
        sent == [idle EXCEPT !.last_id = b, !.last_num = b.num]
    IN  IF b = NoBlock THEN maybe_send_next_message(idle)
        ELSE IF previous(b) # x.last_id /\ ~is_known_by_peer(x, previous(b))
        THEN maybe_send_next_message(rewound(idle))
        ELSE IF is_known_by_peer(x, b) THEN maybe_send_next_message(sent)
        ELSE send([mark_block_status(idle, b) EXCEPT
                      !.last_id = b, !.last_num = b.num],
                  [kind |-> "block", block |-> b])

----------------------------------------------------------------------------
(* Handlers in the strand *)

\* The second half of do_hello.  The id of the irreversible block stays unset.
on_hello_ready(x, n) ==
    send([x EXCEPT !.local_lib = n, !.sent_hello = TRUE], [kind |-> "hello"])

on_new_lib(x, b) ==
    LET y == [x EXCEPT !.local_lib = b.num, !.local_lib_id = b]
        purge_to == Min({b.num, x.last_num})
        kept == {c \in x.tracked : c.num >= purge_to}
    IN  maybe_send_next_message([y EXCEPT !.tracked = kept,
                                          !.known = @ \cap kept])

on_accepted_block_header(x, b) == nothing([x EXCEPT !.tracked = @ \cup {b}])

on_accepted_block(x, b) ==
    LET y == [x EXCEPT !.local_head = b]
    IN  maybe_send_next_message(IF b.num < x.last_num THEN rewound(y) ELSE y)

HelloReady ==
    /\ Open /\ hello.step = "ready"
    /\ Take(on_hello_ready(s, hello.lib))
    /\ hello' = [hello EXCEPT !.step = "done"]
    /\ UNCHANGED <<chain_vars, pool, libs, got, inbox, peer_vars>>

NewLib ==
    /\ Open /\ libs # <<>> /\ hello.step # "ready"
    /\ Take(on_new_lib(s, Head(libs)))
    /\ libs' = Tail(libs)
    /\ UNCHANGED <<chain_vars, pool, hello, got, inbox, peer_vars>>

Accepted ==
    /\ Open /\ pool # <<>>
    /\ LET e == Head(pool)
       IN  Take(IF e.kind = "header" THEN on_accepted_block_header(s, e.block)
                ELSE on_accepted_block(s, e.block))
    /\ pool' = Tail(pool)
    /\ UNCHANGED <<chain_vars, libs, hello, got, inbox, peer_vars>>

GotBlock ==
    /\ Open /\ got.found
    /\ Take(on_async_get_block(s, got.block))
    /\ got' = NotFound
    /\ UNCHANGED <<chain_vars, pool, libs, hello, inbox, peer_vars>>

\* on_write
Written ==
    /\ Open /\ s.busy = "write"
    /\ Take(maybe_send_next_message([s EXCEPT !.busy = "idle"]))
    /\ UNCHANGED <<chain_vars, pool, libs, hello, got, inbox, peer_vars>>

\* on( hello ), on( block_notice ), on( pong )
on_message(x, m) ==
    CASE m.kind = "hello" ->
            FoldLeft(mark_block_status,
               [x EXCEPT !.recv_hello = TRUE, !.last_num = m.lib], m.ids)
      [] m.kind = "notice" -> mark_block_status(x, m.block)
      [] m.kind = "pong"   -> [x EXCEPT !.pinged = FALSE]

Read ==
    /\ Open /\ inbox # <<>>
    /\ Take(maybe_send_next_message(on_message(s, Head(inbox))))
    /\ inbox' = Tail(inbox)
    /\ UNCHANGED <<chain_vars, pool, libs, hello, got, peer_vars>>

\* Three seconds have passed since the last ping.
PingDue ==
    /\ Open /\ ~s.ping_due /\ s.pings < MaxPings
    /\ s' = [s EXCEPT !.ping_due = TRUE, !.pings = @ + 1]
    /\ UNCHANGED <<chain_vars, pool, libs, hello, asked, got, wire, inbox,
                   peer_vars>>

----------------------------------------------------------------------------
(* The main thread *)

\* The first half of do_hello
PrepareHello ==
    /\ hello.step = "asked"
    /\ hello' = [step |-> "ready", lib |-> lib.num]
    /\ UNCHANGED <<chain_vars, pool, libs, asked, got, s, wire, inbox,
                   peer_vars>>

\* async_get_block_num
FetchBlock ==
    /\ asked # 0
    /\ got' = [found |-> TRUE,
               block |-> IF asked <= head.num THEN Block(asked, head.branch)
                         ELSE NoBlock]
    /\ asked' = 0
    /\ UNCHANGED <<chain_vars, pool, libs, hello, s, wire, inbox, peer_vars>>

announced(bs) ==
    LET event(kind, b) == [kind |-> kind, block |-> b]
    IN  [i \in 1..Len(bs) |-> event("header", bs[i])] \o
        [i \in 1..Len(bs) |-> event("block", bs[i])]

\* A block on the head is accepted.  Which branch comes first is immaterial.
Extend ==
    /\ head.num < MaxNum
    /\ head' = Block(head.num + 1, IF head.num <= Fork THEN "a" ELSE head.branch)
    /\ pool' = pool \o announced(<<head'>>)
    /\ UNCHANGED <<lib, libs, hello, asked, got, s, wire, inbox, peer_vars>>

\* The other branch has become longer: its blocks are applied one by one.
SwitchForks ==
    /\ head.num \in Fork + 1..MaxNum - 1 /\ lib.num <= Fork
    /\ LET other == IF head.branch = "a" THEN "b" ELSE "a"
           to == Block(head.num + 1, other)
       IN  /\ head' = to
           /\ pool' = pool \o announced([i \in 1..to.num - Fork |->
                                            Block(Fork + i, other)])
    /\ UNCHANGED <<lib, libs, hello, asked, got, s, wire, inbox, peer_vars>>

AdvanceLib ==
    /\ lib.num < Min({head.num - 1, MaxLib})
    /\ lib' = Block(lib.num + 1, head.branch)
    /\ libs' = Append(libs, lib')
    /\ UNCHANGED <<head, pool, hello, asked, got, s, wire, inbox, peer_vars>>

----------------------------------------------------------------------------
(* The peer *)

Receive ==
    /\ Open /\ wire # <<>>
    /\ wire' = Tail(wire)
    /\ LET m == Head(wire)
       IN  \/ /\ m.kind = "block"
              /\ \/ /\ previous(m.block) \in peer
                    /\ peer' = peer \cup {m.block} /\ UNCHANGED <<notices, refused>>
                 \/ /\ previous(m.block) \notin peer
                    /\ refused' = m.block /\ UNCHANGED <<peer, notices>>
              /\ UNCHANGED inbox
           \/ /\ m.kind = "ping"
              /\ inbox' = Append(inbox, [kind |-> "pong"])
              /\ UNCHANGED peer_vars
           \/ /\ m.kind = "hello"
              /\ UNCHANGED <<inbox, peer_vars>>
    /\ UNCHANGED <<chain_vars, pool, libs, hello, asked, got, s>>

\* The peer has the next block of this node from somebody else.
PeerLearns ==
    /\ Open /\ notices < MaxNotices
    /\ \E b \in chain(head) \ peer :
          /\ previous(b) \in peer
          /\ peer' = peer \cup {b}
          /\ inbox' = Append(inbox, [kind |-> "notice", block |-> b])
    /\ notices' = notices + 1
    /\ UNCHANGED <<chain_vars, pool, libs, hello, asked, got, s, wire, refused>>

----------------------------------------------------------------------------

Init ==
    /\ head = Block(LocalStart.head, "a") /\ lib = Block(LocalStart.lib, "a")
    /\ pool = <<>> /\ libs = <<>>
    /\ hello = [step |-> "asked", lib |-> 0]
    /\ asked = 0 /\ got = NotFound
    /\ s = [local_lib |-> 0, local_lib_id |-> NoBlock, local_head |-> NoBlock,
            last_num |-> 0, last_id |-> NoBlock, backs |-> {}, tracked |-> {}, known |-> {},
            recv_hello |-> FALSE, sent_hello |-> FALSE, busy |-> "idle",
            ping_due |-> TRUE, pinged |-> FALSE, pings |-> 1]
    /\ wire = <<>>
    /\ inbox = <<[kind |-> "hello", lib |-> PeerStart.lib,
                  ids |-> [i \in 1..PeerStart.head - PeerStart.lib + 1 |->
                             Block(PeerStart.lib + i - 1, "a")]]>>
    /\ peer = chain(Block(PeerStart.head, "a")) /\ notices = 0 /\ refused = NoBlock

Session == HelloReady \/ NewLib \/ Accepted \/ Written \/ Read
Fetching == FetchBlock \/ GotBlock
Chain == Extend \/ SwitchForks \/ AdvanceLib

Next == Session \/ PrepareHello \/ Fetching \/ Chain \/ PingDue \/ Receive \/ PeerLearns

Spec == Init /\ [][Next]_vars

\* The strand, the main thread and the connection go on with what they have.
\* Fetching may go on for ever: a block that is not found is asked for again.
Progress == Session \/ PrepareHello \/ Receive

FairSpec == Spec /\ WF_vars(Progress) /\ WF_vars(Fetching)

----------------------------------------------------------------------------
(* Properties *)

\* The peer hangs up on a block only because it lacks an irreversible block of
\* this node that the session was set back to, and the block comes directly
\* after it.  Otherwise it has the parent of every block that is sent to it (the
\* comment in on_async_get_block: "at this point we know the peer can link this
\* block").
BehindLib == previous(refused) \in s.backs \ {NoBlock}
Linkable == Open \/ BehindLib

\* The session was set back before on_new_lib has told it an irreversible block:
\* it asks for the same block again until there is one.
NoLibYet == s.last_id = NoBlock /\ s.local_lib_id = NoBlock

\* The peer ends up with the head of this node, through fork switches, advances
\* of the irreversible block, notices and pings, unless it lacks an irreversible
\* block the session was set back to, the session was set back before it knew
\* of one, or no block has been accepted since the session began.
PeerCatchesUp ==
    <>[](\/ head \in peer
         \/ ~Open /\ BehindLib
         \/ NoLibYet
         \/ s.local_head = NoBlock)

=============================================================================

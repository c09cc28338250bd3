-------------------------- MODULE TransactionRelay --------------------------
(***************************************************************************)
(* How transactions spread over the nodes: dispatch_manager and the        *)
(* transaction part of net_plugin_impl, with what producer_plugin answers. *)
(*                                                                         *)
(* A transaction that a peer or a client hands in waits for the chain.     *)
(* The answer is reported twice, to the caller at once and to the channel  *)
(* of acknowledgements later, and both reports pass the transaction on or  *)
(* drop it.  Connections may break and come back, peers may be syncing,    *)
(* transactions expire, and their blocks become irreversible.              *)
(***************************************************************************)
EXTENDS Integers, Sequences, FiniteSets

CONSTANTS
    Nodes,
    Connections, \* the pairs of nodes that are connected, in both orders
    Trxs,      \* the transactions clients hand in
    Client,    \* where transactions come from that no peer has sent
    Entries,   \* the nodes clients hand transactions to
    Behind,    \* the nodes that are still syncing at the start
    Chain,     \* blocks carry transactions to the other nodes, and time passes
    MaxBreaks, \* bound on the connections that break
    MaxCopies  \* bound on the copies that are counted

RelayAssumption ==
    /\ IsFiniteSet(Nodes) /\ Client \notin Nodes
    /\ Connections \subseteq {p \in Nodes \X Nodes : p[1] # p[2]}
    /\ \A p \in Connections : <<p[2], p[1]>> \in Connections
    /\ Entries \cup Behind \subseteq Nodes
    /\ Chain \in BOOLEAN /\ {MaxBreaks, MaxCopies} \subseteq Nat

VARIABLES
    offered,     \* transactions clients have handed in, and to whom
    queue,       \* what waits for the chain, with who sent it
    acks,        \* answers on their way to the acknowledgement channel
    received,    \* received_transactions: who has sent what
    local_txns,  \* the transactions a node has passed on
    trx_state,   \* what a node has sent over a connection
    known,       \* the transactions in a node's chain
    chan,        \* messages on their way
    active,      \* the nodes that are syncing (sync_manager::is_active)
    syncing,     \* the connections to a peer that is taken to be behind
    down,        \* the connections that are broken
    expired,     \* transactions whose time has passed
    breaks,      \* how many connections have broken
    copies       \* how often a transaction was sent to a node by another

net == <<received, local_txns, trx_state, chan, copies>>
links == <<active, syncing, down, breaks>>
vars == <<offered, queue, acks, net, known, links, expired>>

pair(p) == {p, <<p[2], p[1]>>}

Init ==
    /\ offered = {}
    /\ queue = [n \in Nodes |-> <<>>]
    /\ acks = [n \in Nodes |-> <<>>]
    /\ received = [n \in Nodes |-> {}]
    /\ local_txns = [n \in Nodes |-> {}]
    /\ trx_state = [p \in Connections |-> {}]
    /\ known = [n \in Nodes |-> {}]
    /\ chan = [p \in Connections |-> <<>>]
    /\ active = Behind
    /\ syncing = {p \in Connections : p[2] \in Behind}
    /\ down = {} /\ breaks = 0
    /\ expired = {}
    /\ copies = [p \in Connections |-> [t \in Trxs |-> 0]]

----------------------------------------------------------------------------
(* dispatch_manager *)

recv_transaction(n, t, from) ==
    received' = [received EXCEPT ![n] = @ \cup {<<t, from>>}]

forget(n, t) == {r \in received[n] : r[1] # t}

rejected_transaction(n, t) ==
    /\ received' = [received EXCEPT ![n] = forget(n, t)]
    /\ UNCHANGED <<local_txns, trx_state, chan, copies>>

\* The connections bcast_transaction sends to
targets(n, t) ==
    {p \in Connections :
        /\ p[1] = n
        /\ <<t, p[2]>> \notin received[n]
        /\ p \notin syncing \cup down
        /\ t \notin trx_state[p]}

send_to(ps, t) ==
    /\ trx_state' = [p \in Connections |-> trx_state[p] \cup (IF p \in ps THEN {t} ELSE {})]
    /\ chan' = [p \in Connections |-> IF p \in ps THEN Append(chan[p], t) ELSE chan[p]]
    /\ copies' = [p \in Connections |->
                     IF p \in ps /\ copies[p][t] < MaxCopies
                     THEN [copies[p] EXCEPT ![t] = @ + 1] ELSE copies[p]]

bcast_transaction(n, t) ==
    /\ received' = [received EXCEPT ![n] = forget(n, t)]
    /\ local_txns' = [local_txns EXCEPT ![n] = @ \cup {t}]
    /\ send_to(IF t \in local_txns[n] THEN {} ELSE targets(n, t), t)

report(n, t, accepted) ==
    IF accepted THEN bcast_transaction(n, t) ELSE rejected_transaction(n, t)

----------------------------------------------------------------------------
(* net_plugin_impl and producer_plugin *)

\* A client hands in a transaction; only the channel hears of the answer.
Submit(n, t) ==
    /\ <<n, t>> \notin offered
    /\ offered' = offered \cup {<<n, t>>}
    /\ queue' = [queue EXCEPT ![n] = Append(@, [trx |-> t, from |-> Client])]
    /\ UNCHANGED <<acks, net, known, links, expired>>

\* Mutant: the transaction counts as passed on from the moment it comes.
Receive_marks(n, from) ==
    /\ chan[<<from, n>>] # <<>>
    /\ chan' = [chan EXCEPT ![<<from, n>>] = Tail(@)]
    /\ LET t == Head(chan[<<from, n>>])
       IN  IF t \in local_txns[n] \/ n \in active
           THEN UNCHANGED <<queue, received, local_txns>>
           ELSE /\ recv_transaction(n, t, from)
                /\ local_txns' = [local_txns EXCEPT ![n] = @ \cup {t}]
                /\ queue' = [queue EXCEPT ![n] =
                               Append(@, [trx |-> t, from |-> from])]
    /\ UNCHANGED <<offered, acks, trx_state, copies, known, links, expired>>

\* handle_message( packed_transaction )
Receive(n, from) ==
    /\ chan[<<from, n>>] # <<>>
    /\ chan' = [chan EXCEPT ![<<from, n>>] = Tail(@)]
    /\ LET t == Head(chan[<<from, n>>])
       IN  IF t \in local_txns[n] \/ n \in active
           THEN UNCHANGED <<queue, received>>
           ELSE /\ recv_transaction(n, t, from)
                /\ queue' = [queue EXCEPT ![n] =
                               Append(@, [trx |-> t, from |-> from])]
    /\ UNCHANGED <<offered, acks, local_txns, trx_state, copies, known, links,
                   expired>>

\* Mutant: a transaction that is in the chain already is taken again.
accepts_again(n, t) == t \notin expired

\* on_incoming_transaction_async: what the chain says of a transaction.  One
\* that fails for good never gets beyond the first node and is left out.
accepts(n, t) == t \notin expired /\ t \notin known[n]

\* A transaction is tried; the peer's callback runs at once.
Process(n) ==
    /\ queue[n] # <<>>
    /\ LET e == Head(queue[n])
           ok == accepts(n, e.trx)
       IN  /\ queue' = [queue EXCEPT ![n] = Tail(@)]
           /\ acks' = [acks EXCEPT ![n] = Append(@, [trx |-> e.trx, ok |-> ok])]
           /\ known' = [known EXCEPT ![n] = @ \cup (IF ok THEN {e.trx} ELSE {})]
           /\ IF e.from = Client THEN UNCHANGED net ELSE report(n, e.trx, ok)
    /\ UNCHANGED <<offered, links, expired>>

\* transaction_ack
Ack(n) ==
    /\ acks[n] # <<>>
    /\ report(n, Head(acks[n]).trx, Head(acks[n]).ok)
    /\ acks' = [acks EXCEPT ![n] = Tail(@)]
    /\ UNCHANGED <<offered, queue, known, links, expired>>

\* expire_txns, for a transaction that has expired or whose block has become
\* irreversible; the answers that are due come before either.
ExpireTxn(n, t) ==
    /\ Chain /\ t \in local_txns[n] /\ acks[n] = <<>>
    /\ t \in expired \/ t \in known[n]
    /\ local_txns' = [local_txns EXCEPT ![n] = @ \ {t}]
    /\ trx_state' = [p \in Connections |-> IF p[1] = n THEN trx_state[p] \ {t}
                                     ELSE trx_state[p]]
    /\ UNCHANGED <<offered, queue, acks, received, chan, copies, known, links,
                   expired>>

\* connection::close; the node that has been dialled gets a new connection and
\* does not recognize the peer in received_transactions any more.
Break(p) ==
    /\ breaks < MaxBreaks /\ p \notin down
    /\ breaks' = breaks + 1
    /\ down' = down \cup pair(p)
    /\ chan' = [q \in Connections |-> IF q \in pair(p) THEN <<>> ELSE chan[q]]
    /\ trx_state' = [q \in Connections |-> IF q \in pair(p) THEN {} ELSE trx_state[q]]
    /\ received' = [received EXCEPT ![p[2]] = {r \in @ : r[2] # p[1]}]
    /\ UNCHANGED <<offered, queue, acks, local_txns, copies, known, active,
                   syncing, expired>>

Reconnect(p) ==
    /\ p \in down
    /\ down' = down \ pair(p)
    /\ UNCHANGED <<offered, queue, acks, net, known, active, syncing, breaks,
                   expired>>

\* The node has caught up; its peers learn it from its next handshake.
CaughtUp(n) ==
    /\ n \in active
    /\ active' = active \ {n}
    /\ UNCHANGED <<offered, queue, acks, net, known, syncing, down, breaks,
                   expired>>

LearnCaughtUp(p) ==
    /\ p \in syncing /\ p[2] \notin active
    /\ syncing' = syncing \ {p}
    /\ UNCHANGED <<offered, queue, acks, net, known, active, down, breaks,
                   expired>>

\* A block brings a transaction some chain has.
Block(n, t) ==
    /\ Chain /\ t \notin known[n] /\ \E m \in Nodes : t \in known[m]
    /\ known' = [known EXCEPT ![n] = @ \cup {t}]
    /\ UNCHANGED <<offered, queue, acks, net, links, expired>>

Expire(t) ==
    /\ Chain /\ t \notin expired
    /\ expired' = expired \cup {t}
    /\ UNCHANGED <<offered, queue, acks, net, known, links>>

----------------------------------------------------------------------------

Next ==
    \/ \E n \in Nodes :
          \/ Process(n) \/ Ack(n) \/ CaughtUp(n)
          \/ \E t \in Trxs : ExpireTxn(n, t) \/ Block(n, t)
    \/ \E n \in Entries, t \in Trxs : Submit(n, t)
    \/ \E p \in Connections :
          Receive(p[2], p[1]) \/ Break(p) \/ Reconnect(p) \/ LearnCaughtUp(p)
    \/ \E t \in Trxs : Expire(t)

Spec == Init /\ [][Next]_vars

\* Some node goes on as long as one has something to do.
Progress ==
    \/ \E n \in Nodes : Process(n) \/ Ack(n)
    \/ \E p \in Connections : Receive(p[2], p[1])

FairSpec == Spec /\ WF_vars(Progress)

----------------------------------------------------------------------------
(* Properties *)

\* A transaction goes over a connection at most once in each direction, though
\* its acceptance is reported twice, copies come from several peers and the
\* tables that remember it are emptied (bcast_transaction).  Once it has
\* expired the chain has to stop it.
OneCopyPerLink ==
    \A p \in Connections, t \in Trxs : copies[p][t] <= 1 \/ t \in expired

\* A transaction that has come to one chain comes to all of them, if one
\* connection of a ring breaks at any moment (recv_transaction, bcast_transaction).
Delivered ==
    \A t \in Trxs, n \in Nodes :
       (\E m \in Nodes : t \in known[m]) ~> t \in known[n]
=============================================================================

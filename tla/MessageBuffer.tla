--------------------------- MODULE MessageBuffer ---------------------------
(***************************************************************************)
(* How net_plugin cuts the bytes of a TCP stream into messages:            *)
(* fc::message_buffer (libraries/fc/include/fc/network/message_buffer.hpp) *)
(* keeps bytes in a chain of fixed-size buffers with a read and a write    *)
(* index, and start_read_message (plugins/net_plugin/net_plugin.cpp) reads *)
(* any number of bytes into it and takes whole messages out.               *)
(*                                                                         *)
(* A byte of message m is <<m, i>>; the header bytes of a message hold its *)
(* length in the first place, so a byte of the header is <<length, 0>>.    *)
(***************************************************************************)
EXTENDS Integers, Sequences, SequencesExt

CONSTANTS
    buffer_len,   \* bytes per buffer of the chain
    header_size,  \* message_header_size
    Sizes,        \* payload sizes of messages
    MaxMessages   \* bound: messages sent

BufferAssumption ==
    /\ buffer_len \in Nat \ {0} /\ header_size \in Nat \ {0}
    /\ Sizes \subseteq Nat \ {0} /\ MaxMessages \in Nat

VARIABLES
    buffers,     \* the chain: a sequence of buffers, each of buffer_len bytes
    read_ind,    \* <<buffer, byte>>, counted from 0
    write_ind,
    wire,        \* bytes the peer sent that have not been read
    outstanding, \* outstanding_read_bytes, 0 when it is not set
    handling,    \* the completion handler of async_read is running
    sent,        \* the sizes of the messages sent
    received     \* the payloads handed to process_next_message
vars == <<buffers, read_ind, write_ind, wire, outstanding, handling, sent, received>>

Blank == <<0, 0>>
NewBuffer == [i \in 0 .. buffer_len - 1 |-> Blank]

----------------------------------------------------------------------------
(***************************************************************************)
(* message_buffer                                                          *)
(***************************************************************************)

advance_index(ind, bytes) ==
    <<ind[1] + (bytes + ind[2]) \div buffer_len, (bytes + ind[2]) % buffer_len>>

bytes_to_read == (write_ind[1] - read_ind[1]) * buffer_len + write_ind[2] - read_ind[2]

bytes_to_write == buffer_len * Len(buffers) - write_ind[1] * buffer_len - write_ind[2]

\* The bytes that peek copies from an index on.
peek(ind, size) ==
    [i \in 1 .. size |-> LET at == advance_index(ind, i - 1) IN buffers[at[1] + 1][at[2]]]

\* async_read fills the buffer sequence from the write index on, and
\* advance_write_ptr moves the index over what was read.
write(bytes) ==
    LET from == write_ind[1] * buffer_len + write_ind[2]
        end  == advance_index(write_ind, Len(bytes))
        byte(b, i) == LET k == (b - 1) * buffer_len + i - from IN
                      IF k \in 0 .. Len(bytes) - 1 THEN bytes[k + 1] ELSE buffers[b][i]
        filled == [b \in 1 .. Len(buffers) |-> [i \in 0 .. buffer_len - 1 |-> byte(b, i)]]
    IN  /\ write_ind' = end
        /\ buffers' = filled \o [b \in 1 .. end[1] + 1 - Len(buffers) |-> NewBuffer]

\* Mutant: the buffers are dropped from the wrong end.
advance_read_ptr_pops_back(bytes) ==
    LET ind == advance_index(read_ind, bytes) IN
    IF ind = write_ind
    THEN buffers' = <<buffers[1]>> /\ read_ind' = <<0, 0>> /\ write_ind' = <<0, 0>>
    ELSE /\ buffers' = SubSeq(buffers, 1, Len(buffers) - ind[1])
         /\ read_ind' = <<0, ind[2]>>
         /\ write_ind' = <<write_ind[1] - ind[1], write_ind[2]>>

\* advance_read_ptr drops the buffers it leaves, and everything when it
\* reaches the write index.
advance_read_ptr(bytes) ==
    LET ind == advance_index(read_ind, bytes) IN
    IF ind = write_ind
    THEN /\ buffers' = <<buffers[1]>>
         /\ read_ind' = <<0, 0>> /\ write_ind' = <<0, 0>>
    ELSE /\ buffers' = SubSeq(buffers, ind[1] + 1, Len(buffers))
         /\ read_ind' = <<0, ind[2]>>
         /\ write_ind' = <<write_ind[1] - ind[1], write_ind[2]>>

add_space(bytes) ==
    buffers' = buffers \o [b \in 1 .. bytes \div buffer_len + 1 |-> NewBuffer]

----------------------------------------------------------------------------
Init ==
    /\ buffers = <<NewBuffer>> /\ read_ind = <<0, 0>> /\ write_ind = <<0, 0>>
    /\ wire = <<>> /\ outstanding = 0 /\ handling = FALSE
    /\ sent = <<>> /\ received = <<>>

\* The peer enqueues a message: its length and its bytes.
payload(m, size) == [i \in 1 .. size |-> <<m, i>>]

Send ==
    /\ Len(sent) < MaxMessages
    /\ \E size \in Sizes :
          /\ sent' = Append(sent, size)
          /\ wire' = wire \o [i \in 1 .. header_size |-> <<size, 0>>]
                          \o payload(Len(sent) + 1, size)
    /\ UNCHANGED <<buffers, read_ind, write_ind, outstanding, handling, received>>

\* async_read completes: with at least the minimum, or with all the bytes
\* the buffer sequence has room for.
minimum_read == IF outstanding > 0 THEN outstanding ELSE header_size

Read ==
    /\ ~handling
    /\ \E n \in 1 .. Len(wire) :
          /\ n <= bytes_to_write
          /\ n >= minimum_read \/ n = bytes_to_write
          /\ write(SubSeq(wire, 1, n))
          /\ wire' = SubSeq(wire, n + 1, Len(wire))
    /\ outstanding' = 0 /\ handling' = TRUE
    /\ UNCHANGED <<read_ind, sent, received>>

\* The loop of the handler ends, and the next read is started.
HeaderIncomplete ==
    /\ handling /\ bytes_to_read < header_size
    /\ outstanding' = IF bytes_to_read > 0 THEN header_size - bytes_to_read ELSE outstanding
    /\ handling' = FALSE
    /\ UNCHANGED <<buffers, read_ind, write_ind, wire, sent, received>>

message_length == peek(read_ind, header_size)[1][1]

MessageIncomplete ==
    LET missing == message_length + header_size - bytes_to_read IN
    /\ handling /\ bytes_to_read >= header_size /\ missing > 0
    /\ IF missing > bytes_to_write THEN add_space(missing - bytes_to_write) ELSE UNCHANGED buffers
    /\ outstanding' = missing /\ handling' = FALSE
    /\ UNCHANGED <<read_ind, write_ind, wire, sent, received>>

\* One round of the loop with a whole message: process_next_message unpacks
\* its bytes through mb_datastream, which advances the read index.
Process ==
    /\ handling /\ bytes_to_read >= header_size
    /\ message_length + header_size <= bytes_to_read
    /\ received' = Append(received, peek(advance_index(read_ind, header_size), message_length))
    /\ advance_read_ptr(header_size + message_length)
    /\ UNCHANGED <<wire, outstanding, handling, sent>>

Next == Send \/ Read \/ HeaderIncomplete \/ MessageIncomplete \/ Process

Spec == Init /\ [][Next]_vars

----------------------------------------------------------------------------
\* The types; an index stays inside a buffer.
TypeOK ==
    /\ read_ind \in Nat \X (0 .. buffer_len - 1)
    /\ write_ind \in Nat \X (0 .. buffer_len - 1)
    /\ outstanding \in Nat /\ handling \in BOOLEAN
    /\ Len(buffers) >= 1 /\ Len(sent) <= MaxMessages

\* Every message comes out once, in order and with its own bytes, however
\* the stream was cut into reads and however it lay across the buffers.
MessagesIntact ==
    \A m \in 1 .. Len(received) : m <= Len(sent) /\ received[m] = payload(m, sent[m])

\* get_buffer_sequence_for_boost_async_read asserts that the write index is
\* inside the chain; a read into an empty sequence would return at once and
\* for ever.
RoomToRead == write_ind[1] < Len(buffers) /\ bytes_to_write > 0

\* No byte is lost or kept between the peer and the handler: what is in the
\* buffer and on the wire are the messages that have not been received.
BytesConserved ==
    LET rest == FoldSeq(LAMBDA size, n : n + header_size + size, 0,
                        SubSeq(sent, Len(received) + 1, Len(sent)))
    IN  bytes_to_read + Len(wire) = rest

=============================================================================

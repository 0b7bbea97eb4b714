------------------------------ MODULE GameStream ------------------------------
(***************************************************************************)
(* The server-to-client bytes of one game-service connection, read twice:  *)
(* live, from the socket (aoeo_market/client.py), and offline, from the    *)
(* packets a sniffer wrote to a capture (aoeo_market/pcap_source.py).      *)
(*                                                                         *)
(* A cell stands for the bytes one reader can tell apart: the 0xF2 header, *)
(* the status byte after it, the head of a zlib member, or one listing     *)
(* inside it.  TCP is external: it sends the stream in segments and may    *)
(* send one again, cut as it was at first; the sniffer may miss a segment  *)
(* or see two in the other order.  The length field of the frames is       *)
(* ignored by every reader (protocol.py: "not reliable") and left out with *)
(* the frames themselves.                                                  *)
(***************************************************************************)
EXTENDS Integers, FiniteSets, SequencesExt

CONSTANTS
    Isn,             \* sequence number of the stream's first cell
    SeqWrap,         \* TCP sequence numbers are counted modulo SeqWrap (2^32)
    MaxLength,       \* bound on the cells of a segment
    MaxTroubles      \* bound on the segments missed, swapped or sent again

ASSUME StreamAssumption ==
    /\ SeqWrap \in Nat \ {0} /\ Isn \in 0 .. SeqWrap - 1
    /\ MaxLength \in Nat /\ MaxTroubles \in Nat

VARIABLES
    stream,          \* what the server has written, a sequence of cells
    segments,        \* the segments TCP has cut the stream into, in order
    troubles,        \* how many were missed, swapped or sent again
    capture          \* the packets of the capture, in the order they were seen

streamVars == <<stream, segments, troubles, capture>>

\* Message 0 is the login reply; part 1 of a message is its header.
Cell(message, part, parts) == [message |-> message, part |-> part, parts |-> parts]
Header == Cell(0, 1, 2)
Status == Cell(0, 2, 2)
Member(message, count) == [part \in 1 .. count + 1 |-> Cell(message, part, count + 1)]

IsListing(cell) == cell.message > 0 /\ cell.part > 1

-----------------------------------------------------------------------------
(* iter_zlib_members and parse_listings *)

\* data[i + k] is still the member begun at i.
Continues(data, i, k) ==
    /\ i + k \in DOMAIN data
    /\ \A d \in 0 .. k : data[i + d] = [data[i] EXCEPT !.part = 1 + d]

\* decompressobj gives what it has when the member is whole or the buffer ends
\* inside it; other bytes in between are an error and the member is skipped.
\* The inflater is trusted to notice them.
Inflates(data, i) ==
    /\ data[i].message > 0 /\ data[i].part = 1
    /\ \E k \in 0 .. data[i].parts - 1 :
        /\ Continues(data, i, k)
        /\ k = data[i].parts - 1 \/ i + k = Len(data)

\* Mutant: a member is only taken when it is whole.
ListingsOfWhole(data) ==
    UNION {{data[i + k] : k \in {k \in 1 .. data[i].parts - 1 : Continues(data, i, k)}} :
        i \in {i \in DOMAIN data : Inflates(data, i) /\ Continues(data, i, data[i].parts - 1)}}

\* Mutant: the scan ends at the first member that does not inflate.
ListingsUntilError(data) ==
    UNION {{data[i + k] : k \in {k \in 1 .. data[i].parts - 1 : Continues(data, i, k)}} :
        i \in {i \in DOMAIN data : Inflates(data, i) /\ \A j \in 1 .. i - 1 :
                data[j].message > 0 /\ data[j].part = 1 => Inflates(data, j)}}

\* The listings of every member found; fewer than 8 bytes of output, a header
\* alone, count for nothing.
Listings(data) ==
    UNION {{data[i + k] : k \in {k \in 1 .. data[i].parts - 1 : Continues(data, i, k)}} :
        i \in {i \in DOMAIN data : Inflates(data, i)}}

-----------------------------------------------------------------------------
(* _reassemble *)

Number(packet) == (Isn + packet.off) % SeqWrap
Payload(packet) == SubSeq(stream, packet.off + 1, packet.off + packet.len)

\* Mutant: the packets in the order they were seen.
ReassembledAsSeen ==
    FlattenSeq([i \in DOMAIN capture |-> Payload(capture[i])])

\* The packets sorted by sequence number and then by payload; of those with
\* one number the first, which is the shortest, is kept.
Reassembled ==
    LET packets == {capture[i] : i \in DOMAIN capture}
        numbers == {Number(p) : p \in packets}
        nth(k) == CHOOSE n \in numbers : Cardinality({m \in numbers : m <= n}) = k
        kept(n) == CHOOSE p \in packets :
            Number(p) = n /\ \A q \in packets : Number(q) = n => p.len <= q.len
    IN  FlattenSeq([k \in 1 .. Cardinality(numbers) |-> Payload(kept(nth(k)))])

-----------------------------------------------------------------------------
StreamInit ==
    /\ stream = <<>> /\ segments = <<>> /\ troubles = 0 /\ capture = <<>>

\* The server writes to the connection.
Write(cells) ==
    /\ stream' = stream \o cells
    /\ UNCHANGED <<segments, troubles, capture>>

\* How much of the stream has been sent.
Sent == IF segments = <<>> THEN 0 ELSE Last(segments).off + Last(segments).len

Trouble == troubles < MaxTroubles /\ troubles' = troubles + 1

\* The next segment is sent; the sniffer sees it, sees it before the one sent
\* before it, or misses it.
Transmit ==
    /\ \E len \in 1 .. MaxLength :
        LET packet == [off |-> Sent, len |-> len]
        IN  /\ Sent + len <= Len(stream)
            /\ segments' = Append(segments, packet)
            /\ \/ capture' = Append(capture, packet) /\ UNCHANGED troubles
               \/ /\ Trouble /\ capture # <<>>
                  /\ capture' = Front(capture) \o <<packet, Last(capture)>>
               \/ Trouble /\ UNCHANGED capture
    /\ UNCHANGED stream

Retransmit ==
    /\ Trouble
    /\ \E i \in DOMAIN segments : capture' = Append(capture, segments[i])
    /\ UNCHANGED <<stream, segments>>

-----------------------------------------------------------------------------
(* Properties *)

\* The cells some packet of the capture carries.
Seen == UNION {capture[i].off + 1 .. capture[i].off + capture[i].len : i \in DOMAIN capture}

\* The numbers have not wrapped: _reassemble needs it and does not check it.
Orderly == Isn + Sent <= SeqWrap

\* However the packets are reordered and repeated on the way, an orderly
\* capture that saw everything reassembles to the stream itself.
CaptureIsTheStream ==
    Orderly /\ Seen = 1 .. Sent => Reassembled = SubSeq(stream, 1, Sent)

\* A packet the sniffer missed costs no listing but those of the messages it
\* carried: `dump` finds every listing of every message seen whole.
LossIsLocal ==
    Orderly =>
        {stream[i] : i \in {i \in DOMAIN stream :
            /\ IsListing(stream[i])
            /\ {j \in DOMAIN stream : stream[j].message = stream[i].message} \subseteq Seen}}
        \subseteq Listings(Reassembled)
=============================================================================

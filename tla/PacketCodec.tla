---------------------------- MODULE PacketCodec ----------------------------
(***************************************************************************)
(* infrastructure/Net/PacketCodec.cpp: frames of a fixed header, which     *)
(* holds the payload's length, and the payload.                            *)
(*                                                                         *)
(* A byte is known by the packet it was encoded for and its place in the   *)
(* frame.  The bytes of a header, read at their place, give back the       *)
(* length; HeaderSize bytes from anywhere else give any length.            *)
(***************************************************************************)
EXTENDS Integers, Sequences

CONSTANTS
    HeaderSize,        \* kHeaderSize
    MaxPacketSize,     \* kMaxPacketSize
    PayloadLengths     \* the payload sizes of the packets a peer sends

ASSUME CodecAssumption ==
    /\ HeaderSize \in Nat \ {0}
    /\ MaxPacketSize \in Nat
    /\ PayloadLengths \in Seq(Nat)

Numbers == 1 .. Len(PayloadLengths)
Garbage == 0

\* PacketCodec::Encode of packet n
Encode(n) ==
    [k \in 1 .. HeaderSize + PayloadLengths[n] |-> [number |-> n, at |-> k]]

\* What the peer sends: its packets one after the other
StreamOf[n \in 0 .. Len(PayloadLengths)] ==
    IF n = 0 THEN << >> ELSE StreamOf[n - 1] \o Encode(n)
Stream == StreamOf[Len(PayloadLengths)]

----------------------------------------------------------------------------
(* PacketCodec::Decode, as the set of its possible results: whether it     *)
(* returned true, the packet, and what is left in the receive buffer.      *)

\* frame.payloadLength, copied from the first HeaderSize bytes
LengthsRead(buffer) ==
    IF buffer[1].at = 1 THEN {PayloadLengths[buffer[1].number]}
                        ELSE 0 .. MaxPacketSize + 1

\* The packet a frame's bytes make
Carried(bytes) ==
    IF bytes = Encode(bytes[1].number) THEN bytes[1].number ELSE Garbage

NotDecoded(rest) == [ok |-> FALSE, number |-> Garbage, rest |-> rest]

\* Mutant: the consumed bytes are not erased.
DecodeFrameKeeps(buffer, length) ==
    LET total == HeaderSize + length
    IN IF length > MaxPacketSize THEN NotDecoded(<< >>)
       ELSE IF Len(buffer) < total THEN NotDecoded(buffer)
       ELSE [ok |-> TRUE, number |-> Carried(SubSeq(buffer, 1, total)), rest |-> buffer]

\* Mutant: a frame that ends the buffer is taken for an incomplete one.
DecodeFrameWaits(buffer, length) ==
    LET total == HeaderSize + length
    IN IF length > MaxPacketSize THEN NotDecoded(<< >>)
       ELSE IF Len(buffer) <= total THEN NotDecoded(buffer)
       ELSE [ok     |-> TRUE,
             number |-> Carried(SubSeq(buffer, 1, total)),
             rest   |-> SubSeq(buffer, total + 1, Len(buffer))]

\* An oversized length clears the buffer; an incomplete frame waits.
DecodeFrame(buffer, length) ==
    LET total == HeaderSize + length
    IN IF length > MaxPacketSize THEN NotDecoded(<< >>)
       ELSE IF Len(buffer) < total THEN NotDecoded(buffer)
       ELSE [ok     |-> TRUE,
             number |-> Carried(SubSeq(buffer, 1, total)),
             rest   |-> SubSeq(buffer, total + 1, Len(buffer))]

Decode(buffer) ==
    IF Len(buffer) < HeaderSize THEN {NotDecoded(buffer)}
    ELSE {DecodeFrame(buffer, length) : length \in LengthsRead(buffer)}
============================================================================

------------------------------- MODULE Packet ------------------------------
(***************************************************************************)
(* infrastructure/packet: a PacketBuffer, the PacketWriter that borrows it *)
(* and a PacketReader over a PacketView of it.                             *)
(*                                                                         *)
(* The code is used by one thread at a time, and a buffer is not written   *)
(* while a view of it is being read (behavior.md, "Invalid Usage"), so a   *)
(* call is one action.  What can go wrong lies in the order of the calls:  *)
(* writes that fail half-way, cursors that are reset or left behind, views *)
(* that hold more or less than one message, and lengths that lie.          *)
(***************************************************************************)
EXTENDS Integers, Sequences, SequencesExt

CONSTANTS
    MaxPacketSize,   \* kMaxPacketSize
    ByteBase,        \* the number of values of a byte
    PrefixSize,      \* sizeof(std::uint32_t)
    Blobs,           \* what is passed to WriteBytes, WriteSpan and Write<T>
    Strings,         \* what is passed to WriteString
    MaxFields        \* bound: fields in a message

ASSUME PacketAssumption ==
    /\ MaxPacketSize \in Nat
    /\ ByteBase \in Nat \ {0}
    /\ PrefixSize \in Nat
    /\ Blobs \cup Strings \subseteq Seq(0 .. ByteBase - 1)

\* What the bytes of a length count for, the lowest first: powers of ByteBase
Weight[k \in 0 .. PrefixSize] == IF k = 0 THEN 1 ELSE ByteBase * Weight[k - 1]

LengthModulus == Weight[PrefixSize]

\* The sizes of blobs, and so the sizes anyone asks ReadBytes for.
ReadSizes == {Len(b) : b \in Blobs}

VARIABLES
    stream,   \* the buffer's bytes, the writer's m_offset, the last result
    reader,   \* the reader: view, m_offset (place), the caller's variable, last result
    fields,   \* history: what was written with success since the last Reset
    torn      \* history: the bytes up to m_offset are no longer those of fields

vars == <<stream, reader, fields, torn>>

Closed == [open |-> FALSE, view |-> << >>, place |-> 0, value |-> << >>, ok |-> TRUE,
           next |-> 0, aligned |-> FALSE]

Init ==
    /\ stream = [bytes |-> << >>, offset |-> 0, ok |-> TRUE]
    /\ reader = Closed
    /\ fields = << >>
    /\ torn = FALSE

----------------------------------------------------------------------------
(* The conversions.                                                        *)

\* A length as it lies in memory: truncated to 32 bits, little endian.
LengthBytes(n) == [k \in 1 .. PrefixSize |-> (n \div Weight[k - 1]) % ByteBase]

\* The length that PrefixSize bytes say: any of them are the bytes of one.
LengthOf(bytes) ==
    LET said == {n \in 0 .. LengthModulus - 1 : LengthBytes(n) = bytes}
    IN CHOOSE n \in 0 .. LengthModulus - 1 : said # {} => n \in said

\* std::vector::resize: new bytes are zero.
Resized(bytes, size) ==
    [i \in 1 .. size |-> IF i <= Len(bytes) THEN bytes[i] ELSE 0]

\* memcpy of data over the bytes behind offset
Overwritten(bytes, offset, data) ==
    [i \in DOMAIN bytes |->
        IF i > offset /\ i <= offset + Len(data) THEN data[i - offset] ELSE bytes[i]]

----------------------------------------------------------------------------
(* PacketWriter, as functions of the stream.                               *)

\* PacketWriter::WriteBytes
WriteBytes(s, data) ==
    LET required == s.offset + Len(data)
        room == IF required > Len(s.bytes) THEN Resized(s.bytes, required) ELSE s.bytes
    IN IF Len(data) = 0 THEN [s EXCEPT !.ok = TRUE]
       ELSE IF required > MaxPacketSize THEN [s EXCEPT !.ok = FALSE]
       ELSE [bytes |-> Overwritten(room, s.offset, data), offset |-> required, ok |-> TRUE]

\* Mutant: the cursor is not put back when the characters do not fit.
WriteStringNoRollback(s, str) ==
    LET prefixed == WriteBytes(s, LengthBytes(Len(str)))
    IN IF prefixed.ok THEN WriteBytes(prefixed, str) ELSE prefixed

\* PacketWriter::WriteString: on failure only the cursor goes back
WriteString(s, str) ==
    LET prefixed == WriteBytes(s, LengthBytes(Len(str)))
        written == WriteBytes(prefixed, str)
    IN IF ~prefixed.ok THEN prefixed
       ELSE IF written.ok THEN written
       ELSE [written EXCEPT !.offset = s.offset]

BytesField(data) == [kind |-> "bytes", value |-> data]
StringField(str) == [kind |-> "string", value |-> str]

\* A write of the field is over: a successful one is a field of the message.
Wrote(result, field) ==
    /\ ~reader.open
    /\ Len(fields) < MaxFields
    /\ stream' = result
    /\ fields' = IF result.ok THEN Append(fields, field) ELSE fields
    /\ UNCHANGED reader

PacketWriteBytes(data) ==
    /\ Wrote(WriteBytes(stream, data), BytesField(data))
    /\ UNCHANGED torn

PacketWriteString(str) ==
    /\ Wrote(WriteString(stream, str), StringField(str))
    /\ UNCHANGED torn

\* PacketWriter::Reset: the next message is written over the bytes of this one
WriterReset ==
    /\ ~reader.open
    /\ stream' = [stream EXCEPT !.offset = 0]
    /\ fields' = << >>
    /\ torn' = FALSE
    /\ UNCHANGED reader

\* PacketBuffer::Resize (Clear is Resize(0)); the writer's cursor stays where it is
BufferResize(size) ==
    /\ ~reader.open
    /\ size <= MaxPacketSize    \* else std::length_error
    /\ stream' = [stream EXCEPT !.bytes = Resized(stream.bytes, size)]
    /\ torn' = (torn \/ size < stream.offset)
    /\ UNCHANGED <<reader, fields>>

----------------------------------------------------------------------------
(* PacketView and PacketReader, as functions of the reader.                *)

\* PacketView::SubView: the empty view unless the range lies within
SubView(bytes, offset, size) ==
    IF offset > Len(bytes) \/ size > Len(bytes) - offset THEN << >>
    ELSE SubSeq(bytes, offset + 1, offset + size)

\* PacketReader(view): all of the buffer, or the bytes up to GetOffset()
OpenReader(offset, size) ==
    /\ ~reader.open
    /\ reader' = [Closed EXCEPT !.open = TRUE, !.view = SubView(stream.bytes, offset, size),
                      !.aligned = ~torn /\ offset = 0 /\ size >= stream.offset]
    /\ UNCHANGED <<stream, fields, torn>>

CloseReader ==
    /\ reader.open
    /\ reader' = Closed
    /\ UNCHANGED <<stream, fields, torn>>

\* GetRemainingBytes, an unsigned difference
Remaining(r) == Len(r.view) - r.place
Ahead(r, size) == SubSeq(r.view, r.place + 1, r.place + size)
Advanced(r, size) == [r EXCEPT !.place = @ + size, !.ok = TRUE]
Refused(r) == [r EXCEPT !.ok = FALSE]

\* PacketReader::ReadBytes
ReadBytes(r, size) ==
    IF size = 0 \/ size > Remaining(r) THEN Refused(r)
    ELSE [Advanced(r, size) EXCEPT !.value = Ahead(r, size)]

\* Mutant: the length on the wire is believed.
ReadStringTrusting(r) ==
    IF PrefixSize > Remaining(r) THEN Refused(r)
    ELSE LET length == LengthOf(Ahead(r, PrefixSize))
             body == Advanced(r, PrefixSize)
         IN [Advanced(body, length) EXCEPT !.value = << >>]

\* PacketReader::ReadString
ReadString(r) ==
    IF PrefixSize > Remaining(r) THEN Refused(r)
    ELSE LET length == LengthOf(Ahead(r, PrefixSize))
             body == Advanced(r, PrefixSize)
         IN IF length > Remaining(body) THEN Refused(r)
            ELSE [Advanced(body, length) EXCEPT !.value = Ahead(body, length)]

\* The reader asks for the kind of field that was written next.
Asks(kind, size) ==
    /\ reader.aligned
    /\ reader.next < Len(fields)
    /\ LET field == fields[reader.next + 1]
       IN field.kind = kind /\ (kind = "bytes" => Len(field.value) = size)

\* A read is over; expected says whether it asked for the next field.
Read(result, expected) ==
    /\ reader.open
    /\ reader' = [result EXCEPT !.aligned = expected,
                                !.next = IF expected THEN @ + 1 ELSE @]
    /\ UNCHANGED <<stream, fields, torn>>

\* A field of no bytes is refused here, although WriteBytes accepts it.
PacketReadBytes(size) ==
    Read(ReadBytes(reader, size), size # 0 /\ Asks("bytes", size))

PacketReadString == Read(ReadString(reader), Asks("string", 0))
============================================================================

--------------------------- MODULE Serialization ---------------------------
(***************************************************************************)
(* infrastructure/serialization on top of the packet layer: BinaryWriter   *)
(* and BinaryReader with PrimitiveSerializer and StringSerializer.  A      *)
(* value of a primitive type is its bytes (the code copies memory, and     *)
(* refuses to compile on a big-endian machine).                            *)
(***************************************************************************)
EXTENDS Packet

CONSTANT MaxStringLength    \* more than a packet holds, less than a length can say
ASSUME LimitsAssumption ==
    /\ MaxStringLength \in Nat
    /\ PrefixSize <= MaxPacketSize
    /\ MaxPacketSize < MaxStringLength
    /\ MaxStringLength < LengthModulus - 1

----------------------------------------------------------------------------
(* BinaryWriter                                                            *)

\* StringSerializer::Serialize: a length that was written stays written
Serialize(s, str) ==
    LET prefixed == WriteBytes(s, LengthBytes(Len(str)))
    IN IF Len(str) > MaxStringLength THEN [s EXCEPT !.ok = FALSE]
       ELSE IF prefixed.ok /\ Len(str) # 0 THEN WriteBytes(prefixed, str)
       ELSE prefixed

\* BinaryWriter::WriteString
BinaryWriteString(str) ==
    LET result == Serialize(stream, str)
    IN /\ Wrote(result, StringField(str))
       /\ torn' = (torn \/ (~result.ok /\ result.offset # stream.offset))

----------------------------------------------------------------------------
(* BinaryReader                                                            *)

\* BinaryReader::ReadBytes accepts a read of nothing.
BinaryReadBytes(size) ==
    Read(IF size = 0 THEN [reader EXCEPT !.ok = TRUE, !.value = << >>]
         ELSE ReadBytes(reader, size),
         Asks("bytes", size))

\* Mutant: the half-filled string is left to the caller.
DeserializeKeepsHalf(r) ==
    IF PrefixSize > Remaining(r) THEN Refused(r)
    ELSE LET length == LengthOf(Ahead(r, PrefixSize))
             body == Advanced(r, PrefixSize)
         IN IF length > MaxStringLength THEN Refused(body)
            ELSE IF length > Remaining(body)
                 THEN Refused([body EXCEPT !.value = Resized(r.value, length)])
                 ELSE [Advanced(body, length) EXCEPT !.value = Ahead(body, length)]

\* Mutant: the characters are copied and the cursor is not moved past them.
DeserializeNoAdvance(r) ==
    IF PrefixSize > Remaining(r) THEN Refused(r)
    ELSE LET length == LengthOf(Ahead(r, PrefixSize))
             body == Advanced(r, PrefixSize)
         IN IF length > MaxStringLength THEN Refused(body)
            ELSE IF length > Remaining(body) THEN Refused([body EXCEPT !.value = << >>])
                 ELSE [body EXCEPT !.value = Ahead(body, length)]

\* StringSerializer::Deserialize: the length stays consumed on failure
Deserialize(r) ==
    IF PrefixSize > Remaining(r) THEN Refused(r)
    ELSE LET length == LengthOf(Ahead(r, PrefixSize))
             body == Advanced(r, PrefixSize)
         IN IF length > MaxStringLength THEN Refused(body)
            ELSE IF length > Remaining(body) THEN Refused([body EXCEPT !.value = << >>])
                 ELSE [Advanced(body, length) EXCEPT !.value = Ahead(body, length)]

\* BinaryReader::ReadString
BinaryReadString == Read(Deserialize(reader), Asks("string", 0))

----------------------------------------------------------------------------
\* BinaryWriter::Write<T> and WriteBytes are PacketWriter::WriteBytes.
WriterNext ==
    \/ \E data \in Blobs : PacketWriteBytes(data)
    \/ \E str \in Strings : PacketWriteString(str) \/ BinaryWriteString(str)
    \/ WriterReset
    \/ \E size \in 0 .. MaxPacketSize : BufferResize(size)

ReaderNext ==
    \/ \E offset \in 0 .. 1 :
          \/ OpenReader(offset, stream.offset)
          \/ OpenReader(offset, Len(stream.bytes))
    \/ \E size \in ReadSizes : PacketReadBytes(size) \/ BinaryReadBytes(size)
    \/ PacketReadString \/ BinaryReadString
    \/ CloseReader

Next == WriterNext \/ ReaderNext

Spec == Init /\ [][Next]_vars
----------------------------------------------------------------------------
\* What a message is on the wire: its fields one after the other, a string
\* behind its length.
Encoding(field) ==
    IF field.kind = "string" THEN LengthBytes(Len(field.value)) \o field.value
    ELSE field.value

Encoded(message) == FlattenSeq([k \in 1 .. Len(message) |-> Encoding(message[k])])

(* "PacketWriter advances write position only after successful write" and  *)
(* "never writes beyond capacity": whatever failed, was reset or was       *)
(* resized before, the bytes up to the cursor are exactly the fields       *)
(* written with success, within the size limit.  Excepted is a message in  *)
(* which StringSerializer failed behind its length, or whose buffer the    *)
(* owner cut off below the cursor.                                         *)
WireFormat ==
    /\ Len(stream.bytes) <= MaxPacketSize
    /\ ~torn => SubSeq(stream.bytes, 1, stream.offset) = Encoded(fields)

(* "deserialize_restores_original_value": a reader that asks for the       *)
(* fields in the order they were written is given their values and stops   *)
(* where each field stops, whichever layer wrote and whichever layer reads *)
(* each of them, and whatever lies behind the message in the view.         *)
RoundTrip ==
    reader.aligned /\ reader.next > 0 =>
        /\ reader.ok
        /\ reader.value = fields[reader.next].value
        /\ reader.place = Len(Encoded(SubSeq(fields, 1, reader.next)))

(* "reader_never_reads_out_of_bounds": on any bytes, with any order of     *)
(* calls, the cursor stays within the view; GetRemainingBytes would wrap   *)
(* otherwise and every later bounds check would pass.                      *)
ReadsWithin == reader.place <= Len(reader.view)

(* No half of a value reaches the caller: a read of PacketReader that      *)
(* fails keeps the cursor and the caller's variable, and a string that     *)
(* StringSerializer refuses is the old one or empty, whatever length stood *)
(* in front of it.  Where BinaryReader's cursor is then is RollbackSafe.   *)
FailedReadLeavesNoTrace ==
    [][/\ (PacketReadString \/ \E size \in ReadSizes : PacketReadBytes(size)) /\ ~reader'.ok
            => reader'.place = reader.place /\ reader'.value = reader.value
       /\ BinaryReadString /\ ~reader'.ok => reader'.value \in {reader.value, << >>}]_reader

(* "deserialize_is_rollback_safe" (docs/Layer1/Serialization/behavior.md): *)
(* BinaryReader::ReadString puts its cursor back when it fails.  It does   *)
(* not: the length stays consumed.                                         *)
RollbackSafe == [][BinaryReadString /\ ~reader'.ok => reader'.place = reader.place]_reader
============================================================================

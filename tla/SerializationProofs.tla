------------------------- MODULE SerializationProofs ------------------------
(***************************************************************************)
(* Packets and readers for every packet size, every length prefix and      *)
(* every set of values: a buffer never grows past MaxPacketSize, a         *)
(* reader's cursor never leaves its view, and the bytes up to a writer's   *)
(* cursor are the encoding of the fields written with success, whatever    *)
(* calls were made before; and fields that are read in the order they were *)
(* written are those that were written.                                    *)
(***************************************************************************)
EXTENDS Serialization, WellFoundedInduction, TLAPS

\* What the bytes are is of no concern: a sequence is a function on 1 .. n.
IsSeq(s) == \E n \in Nat : s = [i \in 1 .. n |-> s[i]]

\* A writer's cursor may lie behind the end of the buffer (Resize leaves it
\* there), never behind the limit.
StreamOK(s) ==
    /\ s = [bytes |-> s.bytes, offset |-> s.offset, ok |-> s.ok]
    /\ IsSeq(s.bytes) /\ Len(s.bytes) <= MaxPacketSize
    /\ s.offset \in 0 .. MaxPacketSize

ReaderOK(r) ==
    /\ r = [open |-> r.open, view |-> r.view, place |-> r.place, value |-> r.value,
            ok |-> r.ok, next |-> r.next, aligned |-> r.aligned]
    /\ Len(r.view) \in Nat
    /\ r.place \in 0 .. Len(r.view)

Inv == StreamOK(stream) /\ ReaderOK(reader)

(* "never writes beyond capacity": a buffer and a writer's cursor stay     *)
(* within kMaxPacketSize, however often the buffer was resized under the   *)
(* writer and whichever write failed half-way.                             *)
WithinCapacity ==
    Len(stream.bytes) <= MaxPacketSize /\ stream.offset <= MaxPacketSize

----------------------------------------------------------------------------
\* The length and the domain of a sequence
LEMMA SeqFacts ==
    ASSUME NEW s, IsSeq(s)
    PROVE  Len(s) \in Nat /\ DOMAIN s = 1 .. Len(s) /\ s \in Seq({s[i] : i \in DOMAIN s})
<1>1. PICK n \in Nat : s = [i \in 1 .. n |-> s[i]]
  BY DEF IsSeq
<1>2. DOMAIN s = 1 .. n
  BY <1>1
<1>3. s \in Seq({s[i] : i \in DOMAIN s})
  BY <1>1, <1>2
<1> QED
  BY <1>2, <1>3

\* A function on 1 .. n is a sequence of length n.
LEMMA FunctionIsSeq ==
    ASSUME NEW n \in Nat, NEW s, s = [i \in 1 .. n |-> s[i]]
    PROVE  IsSeq(s) /\ Len(s) = n
<1>1. IsSeq(s)
  BY DEF IsSeq
<1>2. DOMAIN s = 1 .. n
  OBVIOUS
<1>3. Len(s) \in Nat /\ DOMAIN s = 1 .. Len(s)
  BY <1>1, SeqFacts
<1> QED
  BY <1>1, <1>2, <1>3

----------------------------------------------------------------------------
(* Numbers: induction, quotients and the weights of a length's bytes      *)

\* A set that holds 0 and with each number the next one holds them all.
LEMMA Induction ==
    ASSUME NEW n \in Nat, NEW T \in SUBSET (0 .. n), 0 \in T,
           \A k \in 1 .. n : k - 1 \in T => k \in T
    PROVE  T = 0 .. n
<1> DEFINE R == OpToRel(<, Nat)
           U == (0 .. n) \ T
<1>1. IsWellFoundedOn(R, Nat)
  BY NatLessThanWellFounded
<1>2. \A x, y \in Nat : x < y => <<x, y>> \in R
  BY DEF OpToRel
<1> HIDE DEF R
<1>3. SUFFICES ASSUME U # {} PROVE FALSE
  OBVIOUS
<1>4. U \subseteq Nat
  OBVIOUS
<1>5. PICK x \in U : \A y \in U : ~(<<y, x>> \in R)
  BY <1>1, <1>3, <1>4, WFMin
<1>6. x \in 1 .. n /\ x - 1 \in 0 .. n /\ x - 1 \in Nat /\ x - 1 < x
  OBVIOUS
<1>7. x - 1 \in T
  <2>1. <<x - 1, x>> \in R
    BY <1>2, <1>6
  <2> QED
    BY <1>5, <1>6, <2>1
<1> QED
  BY <1>6, <1>7

\* What \div and % are, for a positive divisor
LEMMA DivFacts ==
    ASSUME NEW n \in Nat, NEW d \in Nat \ {0}
    PROVE  /\ n \div d \in Nat /\ n % d \in Nat /\ n % d < d
           /\ n = d * (n \div d) + (n % d)
<1>1. n % d \in Nat /\ n % d < d
  OBVIOUS
<1>2. n \div d \in Int /\ n \div d >= 0
  OBVIOUS
<1>3. n % d = n - d * (n \div d)
  OBVIOUS
<1>4. d * (n \div d) \in Int
  BY <1>2
<1> DEFINE m == d * (n \div d)
           r == n % d
<1>5. n = m + r
  <2>1. m \in Int /\ r \in Int /\ r = n - m
    BY <1>1, <1>3, <1>4
  <2> HIDE DEF m, r
  <2> QED
    BY <2>1
<1> QED
  BY <1>1, <1>2, <1>5

\* Quotient and remainder are unique.
LEMMA DivUnique ==
    ASSUME NEW n \in Nat, NEW d \in Nat \ {0}, NEW q \in Nat, NEW r \in Nat,
           n = d * q + r, r < d
    PROVE  n \div d = q
  OBVIOUS

\* A quotient of a quotient
LEMMA DivTwice ==
    ASSUME NEW n \in Nat, NEW w \in Nat \ {0}, NEW b \in Nat \ {0}
    PROVE  n \div (b * w) = (n \div w) \div b
<1> DEFINE q == n \div w
           r == n % w
           p == q \div b
           s == q % b
<1>1. q \in Nat /\ r \in Nat /\ r < w /\ n = w * q + r
  BY DivFacts
<1>2. p \in Nat /\ s \in Nat /\ s < b /\ q = b * p + s
  BY <1>1, DivFacts
<1> HIDE DEF q, r, p, s
<1>3. n = (b * w) * p + (w * s + r)
  BY <1>1, <1>2
<1>4. w * s + r \in Nat /\ w * s + r < b * w /\ b * w \in Nat \ {0}
  BY <1>1, <1>2
<1>5. n \div (b * w) = p
  BY <1>2, <1>3, <1>4, DivUnique
<1> QED
  BY <1>5 DEF p, q

\* The weights exist, by induction on their number, ...
LEMMA WeightsExist ==
    \E f \in [0 .. PrefixSize -> Nat \ {0}] :
        f[0] = 1 /\ \A k \in 1 .. PrefixSize : f[k] = ByteBase * f[k - 1]
<1> DEFINE Powers(f, m) == f[0] = 1 /\ \A k \in 1 .. m : f[k] = ByteBase * f[k - 1]
           Runs(m) == \E f \in [0 .. m -> Nat \ {0}] : Powers(f, m)
           T == {m \in 0 .. PrefixSize : Runs(m)}
<1>1. PrefixSize \in Nat /\ ByteBase \in Nat \ {0}
  BY PacketAssumption
<1>2. Runs(0)
  <2> DEFINE f == [k \in 0 .. 0 |-> 1]
  <2>1. f \in [0 .. 0 -> Nat \ {0}] /\ f[0] = 1 /\ \A k \in 1 .. 0 : f[k] = ByteBase * f[k - 1]
    OBVIOUS
  <2> HIDE DEF f
  <2> QED
    BY <2>1
<1>3. ASSUME NEW n \in 1 .. PrefixSize, Runs(n - 1) PROVE Runs(n)
  <2>1. PICK f \in [0 .. n - 1 -> Nat \ {0}] : Powers(f, n - 1)
    BY <1>3
  <2>2. PICK e \in Nat \ {0} : e = ByteBase * f[n - 1]
    <3>1. f[n - 1] \in Nat \ {0}
      BY <1>1
    <3> QED
      BY <1>1, <3>1
  <2> DEFINE g == [k \in 0 .. n |-> IF k = n THEN e ELSE f[k]]
  <2>3. g \in [0 .. n -> Nat \ {0}] /\ g[0] = 1
    BY <1>1, <2>1, <2>2
  <2>4. ASSUME NEW k \in 1 .. n PROVE g[k] = ByteBase * g[k - 1]
    <3>1. k \in 0 .. n /\ k - 1 \in 0 .. n /\ k - 1 # n /\ (k = n \/ k \in 1 .. n - 1)
      BY <1>1
    <3>2. g[k - 1] = f[k - 1] /\ g[k] = IF k = n THEN e ELSE f[k]
      BY <3>1
    <3> HIDE DEF g
    <3> QED
      BY <2>1, <2>2, <3>1, <3>2
  <2> HIDE DEF g
  <2> QED
    BY <2>3, <2>4
<1> HIDE DEF Runs
<1>4. T = 0 .. PrefixSize
  <2>1. 0 \in T /\ T \in SUBSET (0 .. PrefixSize)
    BY <1>1, <1>2
  <2>2. \A k \in 1 .. PrefixSize : k - 1 \in T => k \in T
    BY <1>1, <1>3
  <2> HIDE DEF T
  <2> QED
    BY <1>1, <2>1, <2>2, Induction
<1>5. Runs(PrefixSize)
  BY <1>1, <1>4
<1> QED
  BY <1>5 DEF Runs

\* ... and are powers.
LEMMA WeightFacts ==
    /\ \A k \in 0 .. PrefixSize : Weight[k] \in Nat \ {0}
    /\ Weight[0] = 1
    /\ \A k \in 1 .. PrefixSize : Weight[k] = ByteBase * Weight[k - 1]
<1> DEFINE Body(f) == [k \in 0 .. PrefixSize |-> IF k = 0 THEN 1 ELSE ByteBase * f[k - 1]]
<1>1. PrefixSize \in Nat /\ ByteBase \in Nat \ {0}
  BY PacketAssumption
<1>2. PICK f \in [0 .. PrefixSize -> Nat \ {0}] :
         f[0] = 1 /\ \A k \in 1 .. PrefixSize : f[k] = ByteBase * f[k - 1]
  BY WeightsExist
<1>3. f = Body(f)
  <2>1. ASSUME NEW k \in 0 .. PrefixSize PROVE f[k] = IF k = 0 THEN 1 ELSE ByteBase * f[k - 1]
    <3>1. k = 0 \/ (k # 0 /\ k \in 1 .. PrefixSize)
      BY <1>1
    <3> QED
      BY <1>2, <3>1
  <2> QED
    BY <2>1
<1>4. Weight = CHOOSE g : g = Body(g)
  BY Zenon DEF Weight
<1>5. Weight = Body(Weight)
  BY <1>3, <1>4, Zenon
<1> HIDE DEF Body
<1> DEFINE h == Weight
<1>6. h[0] = 1 /\ \A k \in 1 .. PrefixSize : h[k] = ByteBase * h[k - 1]
  <2> HIDE DEF h
  <2>1. Body(h)[0] = 1
    BY <1>1 DEF Body
  <2>2. ASSUME NEW k \in 1 .. PrefixSize PROVE Body(h)[k] = ByteBase * h[k - 1]
    <3>1. k \in 0 .. PrefixSize /\ k # 0
      BY <1>1
    <3> QED
      BY <3>1, Zenon DEF Body
  <2>3. h = Body(h)
    BY <1>5, Zenon DEF h
  <2> QED
    BY <2>1, <2>2, <2>3, Zenon
<1> HIDE DEF h
<1>7. \A k \in 0 .. PrefixSize : h[k] \in Nat \ {0}
  <2> DEFINE T == {k \in 0 .. PrefixSize : h[k] \in Nat \ {0}}
  <2>1. 0 \in T /\ T \in SUBSET (0 .. PrefixSize)
    BY <1>1, <1>6
  <2>2. ASSUME NEW k \in 1 .. PrefixSize, k - 1 \in T PROVE k \in T
    <3>1. h[k - 1] \in Nat \ {0} /\ h[k] = ByteBase * h[k - 1] /\ k \in 0 .. PrefixSize
      BY <1>1, <1>6, <2>2
    <3>2. h[k] \in Nat \ {0}
      BY <1>1, <3>1
    <3> QED
      BY <3>1, <3>2
  <2> HIDE DEF T
  <2>3. T = 0 .. PrefixSize
    BY <1>1, <2>1, <2>2, Induction
  <2> QED
    BY <2>3 DEF T
<1> QED
  BY <1>6, <1>7 DEF h

----------------------------------------------------------------------------
(* The conversions.                                                        *)

\* Whatever the bytes are, they say a length of PrefixSize bytes.
LEMMA LengthOfType ==
    ASSUME NEW bytes
    PROVE  LengthOf(bytes) \in Nat
<1> DEFINE said == {n \in 0 .. LengthModulus - 1 : LengthBytes(n) = bytes}
<1>1. LengthModulus \in Nat /\ 0 \in 0 .. LengthModulus - 1
  BY PacketAssumption, WeightFacts DEF LengthModulus
<1>2. \E n \in 0 .. LengthModulus - 1 : said # {} => n \in said
  BY <1>1
<1>3. LengthOf(bytes) \in 0 .. LengthModulus - 1
  BY <1>2, Zenon DEF LengthOf
<1> QED
  BY <1>1, <1>3

\* A length has PrefixSize bytes.
LEMMA LengthBytesSeq ==
    ASSUME NEW n
    PROVE  IsSeq(LengthBytes(n)) /\ Len(LengthBytes(n)) = PrefixSize
<1>1. PrefixSize \in Nat
  BY PacketAssumption
<1>2. LengthBytes(n) = [i \in 1 .. PrefixSize |-> LengthBytes(n)[i]]
  BY Zenon DEF LengthBytes
<1> QED
  BY <1>1, <1>2, FunctionIsSeq

\* A resized buffer has the size asked for.
LEMMA ResizedSeq ==
    ASSUME NEW bytes, NEW size \in Nat
    PROVE  IsSeq(Resized(bytes, size)) /\ Len(Resized(bytes, size)) = size
<1>1. Resized(bytes, size) = [i \in 1 .. size |-> Resized(bytes, size)[i]]
  BY Zenon DEF Resized
<1> QED
  BY <1>1, FunctionIsSeq

\* Copying data into a buffer leaves its size.
LEMMA OverwrittenSeq ==
    ASSUME NEW bytes, IsSeq(bytes), NEW offset, NEW data
    PROVE  /\ IsSeq(Overwritten(bytes, offset, data))
           /\ Len(Overwritten(bytes, offset, data)) = Len(bytes)
<1> DEFINE over == Overwritten(bytes, offset, data)
<1>1. Len(bytes) \in Nat /\ DOMAIN bytes = 1 .. Len(bytes)
  BY SeqFacts
<1>2. over = [i \in DOMAIN bytes |-> over[i]]
  BY Zenon DEF Overwritten
<1> HIDE DEF over
<1>3. over = [i \in 1 .. Len(bytes) |-> over[i]]
  BY <1>1, <1>2
<1> QED
  BY <1>1, <1>3, FunctionIsSeq DEF over

\* SubView returns a part of the bytes that lies within them, or nothing.
LEMMA SubViewSize ==
    ASSUME NEW bytes, IsSeq(bytes), NEW offset \in Nat, NEW size \in Nat
    PROVE  Len(SubView(bytes, offset, size)) \in {0, size}
<1>1. Len(bytes) \in Nat /\ bytes \in Seq({bytes[i] : i \in DOMAIN bytes})
  BY SeqFacts
<1>2. CASE offset > Len(bytes) \/ size > Len(bytes) - offset
  BY <1>2 DEF SubView
<1>3. CASE ~(offset > Len(bytes) \/ size > Len(bytes) - offset)
  <2>1. SubView(bytes, offset, size) = SubSeq(bytes, offset + 1, offset + size)
    BY <1>3, Zenon DEF SubView
  <2>2. Len(SubSeq(bytes, offset + 1, offset + size)) = size
    BY <1>1, <1>3
  <2> QED
    BY <2>1, <2>2
<1> QED
  BY <1>2, <1>3

----------------------------------------------------------------------------
(* The writers.                                                            *)

\* PacketWriter::WriteBytes checks the limit before it grows the buffer.
LEMMA WriteBytesOK ==
    ASSUME NEW s, StreamOK(s), NEW data, IsSeq(data)
    PROVE  StreamOK(WriteBytes(s, data))
<1> DEFINE required == s.offset + Len(data)
           room == IF required > Len(s.bytes) THEN Resized(s.bytes, required) ELSE s.bytes
<1>1. /\ Len(data) \in Nat /\ Len(s.bytes) \in Nat /\ IsSeq(s.bytes)
      /\ s.offset \in Nat /\ MaxPacketSize \in Nat
  BY SeqFacts, PacketAssumption DEF StreamOK
<1>2. CASE Len(data) = 0
  BY <1>2 DEF WriteBytes, StreamOK
<1>3. CASE Len(data) # 0 /\ required > MaxPacketSize
  BY <1>3 DEF WriteBytes, StreamOK
<1>4. CASE Len(data) # 0 /\ ~(required > MaxPacketSize)
  <2>1. required \in 0 .. MaxPacketSize
    BY <1>1, <1>4
  <2>2. IsSeq(room) /\ Len(room) <= MaxPacketSize
    BY <1>1, <2>1, ResizedSeq DEF StreamOK
  <2>3. WriteBytes(s, data) = [bytes |-> Overwritten(room, s.offset, data),
                               offset |-> required, ok |-> TRUE]
    BY <1>4, Zenon DEF WriteBytes
  <2> HIDE DEF room, required
  <2>4. IsSeq(Overwritten(room, s.offset, data))
        /\ Len(Overwritten(room, s.offset, data)) = Len(room)
    BY <2>2, OverwrittenSeq
  <2> QED
    BY <2>1, <2>2, <2>3, <2>4 DEF StreamOK
<1> QED
  BY <1>2, <1>3, <1>4

\* PacketWriter::WriteString stays within the limit, rolled back or not.
LEMMA WriteStringOK ==
    ASSUME NEW s, StreamOK(s), NEW str, IsSeq(str)
    PROVE  StreamOK(WriteString(s, str))
<1> DEFINE prefixed == WriteBytes(s, LengthBytes(Len(str)))
           written == WriteBytes(prefixed, str)
<1>1. StreamOK(prefixed)
  BY LengthBytesSeq, WriteBytesOK
<1>2. StreamOK(written)
  BY <1>1, WriteBytesOK
<1>3. WriteString(s, str) \in {prefixed, written, [written EXCEPT !.offset = s.offset]}
  BY DEF WriteString
<1> HIDE DEF prefixed, written
<1>4. StreamOK([written EXCEPT !.offset = s.offset])
  BY <1>2 DEF StreamOK
<1> QED
  BY <1>1, <1>2, <1>3, <1>4

\* StringSerializer::Serialize stays within the limit, half-written or not.
LEMMA SerializeOK ==
    ASSUME NEW s, StreamOK(s), NEW str, IsSeq(str)
    PROVE  StreamOK(Serialize(s, str))
<1> DEFINE prefixed == WriteBytes(s, LengthBytes(Len(str)))
           written == WriteBytes(prefixed, str)
<1>1. StreamOK(prefixed)
  BY LengthBytesSeq, WriteBytesOK
<1>2. StreamOK(written)
  BY <1>1, WriteBytesOK
<1>3. Serialize(s, str) \in {prefixed, written, [s EXCEPT !.ok = FALSE]}
  BY DEF Serialize
<1>4. StreamOK([s EXCEPT !.ok = FALSE])
  <2>1. \A k : [s EXCEPT !.ok = k] = [bytes |-> s.bytes, offset |-> s.offset, ok |-> k]
    BY DEF StreamOK
  <2>2. \A k : StreamOK([s EXCEPT !.ok = k])
    BY <2>1 DEF StreamOK
  <2> QED
    BY <2>2, Zenon
<1> QED
  BY <1>1, <1>2, <1>3, <1>4

\* What is passed to a writer is a sequence.
LEMMA InputSeq ==
    ASSUME NEW b \in Blobs \cup Strings
    PROVE  IsSeq(b) /\ Len(b) \in Nat
<1>1. b \in Seq(0 .. ByteBase - 1)
  BY PacketAssumption
<1> QED
  BY <1>1 DEF IsSeq

----------------------------------------------------------------------------
(* The readers: the view stays, the cursor stays within it.                *)

Reader(o, w, p, v, k, n, a) ==
    [open |-> o, view |-> w, place |-> p, value |-> v, ok |-> k, next |-> n, aligned |-> a]

\* A reader that refuses, that moves within its view, or that hands out a
\* value is a reader of the same view.
LEMMA ReaderUpdate ==
    ASSUME NEW r, ReaderOK(r), NEW value, NEW size \in Nat
    PROVE  /\ ReaderOK(Refused(r)) /\ ReaderOK([r EXCEPT !.ok = TRUE])
           /\ Refused(r).place = r.place /\ Refused(r).value = r.value
           /\ Refused(r).ok = FALSE
           /\ ReaderOK([r EXCEPT !.value = value])
           /\ [r EXCEPT !.value = value].place = r.place
           /\ [r EXCEPT !.value = value].value = value
           /\ Advanced(r, size).place = r.place + size
           /\ Advanced(r, size).value = r.value
           /\ [Advanced(r, size) EXCEPT !.value = value].ok = TRUE
           /\ size <= Remaining(r) =>
                /\ ReaderOK(Advanced(r, size))
                /\ ReaderOK([Advanced(r, size) EXCEPT !.value = value])
<1>1. PICK o, w, p, v, k, n, a : r = Reader(o, w, p, v, k, n, a)
  BY Zenon DEF ReaderOK, Reader
<1>2. \A p1, v1, k1 : /\ Reader(o, w, p1, v1, k1, n, a).place = p1
                      /\ Reader(o, w, p1, v1, k1, n, a).value = v1
                      /\ Reader(o, w, p1, v1, k1, n, a).ok = k1
                      /\ Reader(o, w, p1, v1, k1, n, a).view = w
  BY DEF Reader
<1>3. r.place = p /\ r.value = v /\ r.view = w
  BY <1>1, <1>2, Zenon
<1>4. Len(w) \in Nat /\ p \in 0 .. Len(w)
  BY <1>3 DEF ReaderOK
<1>5. \A p1 \in 0 .. Len(w) : \A v1, k1 : ReaderOK(Reader(o, w, p1, v1, k1, n, a))
  BY <1>4 DEF ReaderOK, Reader
<1>6. /\ \A x : [r EXCEPT !.ok = x] = Reader(o, w, p, v, x, n, a)
      /\ [r EXCEPT !.place = @ + size] = Reader(o, w, p + size, v, k, n, a)
      /\ [r EXCEPT !.value = value] = Reader(o, w, p, value, k, n, a)
  BY <1>1 DEF Reader
<1>7. Refused(r) = Reader(o, w, p, v, FALSE, n, a)
  BY <1>6, Zenon DEF Refused
<1>8. [r EXCEPT !.value = value] = Reader(o, w, p, value, k, n, a)
  BY <1>6, Zenon
<1>9. Advanced(r, size) = Reader(o, w, p + size, v, TRUE, n, a)
  <2>1. \A x : [Reader(o, w, p + size, v, k, n, a) EXCEPT !.ok = x]
                = Reader(o, w, p + size, v, x, n, a)
    BY DEF Reader
  <2>2. Advanced(r, size) = [[r EXCEPT !.place = @ + size] EXCEPT !.ok = TRUE]
    BY Zenon DEF Advanced
  <2> QED
    BY <1>6, <2>1, <2>2
<1>10. [Advanced(r, size) EXCEPT !.value = value] = Reader(o, w, p + size, value, TRUE, n, a)
  <2>1. \A x : [Reader(o, w, p + size, v, x, n, a) EXCEPT !.value = value]
                = Reader(o, w, p + size, value, x, n, a)
    BY DEF Reader
  <2> QED
    BY <1>9, <2>1
<1>11. size <= Remaining(r) => p + size \in 0 .. Len(w)
  BY <1>3, <1>4 DEF Remaining
<1>12. ReaderOK(Reader(o, w, p, v, FALSE, n, a)) /\ ReaderOK(Reader(o, w, p, v, TRUE, n, a))
  BY <1>4, <1>5, Zenon
<1>13. ReaderOK(Refused(r)) /\ ReaderOK([r EXCEPT !.ok = TRUE])
  BY <1>6, <1>7, <1>12
<1>14. ReaderOK([r EXCEPT !.value = value])
  BY <1>4, <1>5, <1>8, Zenon
<1>15. ASSUME size <= Remaining(r)
       PROVE  ReaderOK(Advanced(r, size)) /\ ReaderOK([Advanced(r, size) EXCEPT !.value = value])
  <2>1. p + size \in 0 .. Len(w)
    BY <1>11, <1>15
  <2>2. ReaderOK(Reader(o, w, p + size, v, TRUE, n, a))
        /\ ReaderOK(Reader(o, w, p + size, value, TRUE, n, a))
    BY <1>5, <2>1, Zenon
  <2> QED
    BY <1>9, <1>10, <2>2
<1>16. Refused(r).place = p /\ Refused(r).value = v /\ Refused(r).ok = FALSE
  BY <1>7 DEF Reader
<1>17. [r EXCEPT !.value = value].place = p /\ [r EXCEPT !.value = value].value = value
  BY <1>8 DEF Reader
<1>18. Advanced(r, size).place = p + size /\ Advanced(r, size).value = v
  BY <1>9 DEF Reader
<1>19. [Advanced(r, size) EXCEPT !.value = value].ok = TRUE
  BY <1>10 DEF Reader
<1> QED
  BY <1>3, <1>13, <1>14, <1>15, <1>16, <1>17, <1>18, <1>19, Zenon

\* PacketReader::ReadBytes moves only as far as there are bytes.
LEMMA ReadBytesOK ==
    ASSUME NEW r, ReaderOK(r), NEW size \in Nat
    PROVE  ReaderOK(ReadBytes(r, size))
<1>1. size > Remaining(r) \/ size <= Remaining(r)
  BY DEF ReaderOK, Remaining
<1> QED
  BY <1>1, ReaderUpdate DEF ReadBytes

\* PacketReader::ReadString moves only as far, whatever the length says.
LEMMA ReadStringOK ==
    ASSUME NEW r, ReaderOK(r)
    PROVE  ReaderOK(ReadString(r))
<1> DEFINE length == LengthOf(Ahead(r, PrefixSize))
           body == Advanced(r, PrefixSize)
<1>1. length \in Nat /\ PrefixSize \in Nat
  BY LengthOfType, PacketAssumption
<1>2. CASE PrefixSize > Remaining(r)
  BY <1>2, ReaderUpdate, <1>1 DEF ReadString
<1>3. CASE ~(PrefixSize > Remaining(r))
  <2>1. PrefixSize <= Remaining(r)
    BY <1>1, <1>3 DEF ReaderOK, Remaining
  <2>2. ReaderOK(body)
    BY <1>1, <2>1, ReaderUpdate
  <2>3. ReadString(r) = IF length > Remaining(body) THEN Refused(r)
                        ELSE [Advanced(body, length) EXCEPT !.value = Ahead(body, length)]
    BY <1>3, Zenon DEF ReadString
  <2> HIDE DEF body, length
  <2>4. length > Remaining(body) \/ length <= Remaining(body)
    BY <1>1, <2>2 DEF ReaderOK, Remaining
  <2>5. length <= Remaining(body) =>
            ReaderOK([Advanced(body, length) EXCEPT !.value = Ahead(body, length)])
    BY <1>1, <2>2, ReaderUpdate
  <2>6. ReaderOK(Refused(r))
    BY <1>1, ReaderUpdate
  <2> QED
    BY <2>3, <2>4, <2>5, <2>6
<1> QED
  BY <1>2, <1>3

\* StringSerializer::Deserialize moves only as far, failed or not.
LEMMA DeserializeOK ==
    ASSUME NEW r, ReaderOK(r)
    PROVE  ReaderOK(Deserialize(r))
<1> DEFINE length == LengthOf(Ahead(r, PrefixSize))
           body == Advanced(r, PrefixSize)
<1>1. length \in Nat /\ PrefixSize \in Nat
  BY LengthOfType, PacketAssumption
<1>2. CASE PrefixSize > Remaining(r)
  BY <1>2, ReaderUpdate, <1>1 DEF Deserialize
<1>3. CASE ~(PrefixSize > Remaining(r))
  <2>1. PrefixSize <= Remaining(r)
    BY <1>1, <1>3 DEF ReaderOK, Remaining
  <2>2. ReaderOK(body)
    BY <1>1, <2>1, ReaderUpdate
  <2>3. Deserialize(r) = IF length > MaxStringLength THEN Refused(body)
                         ELSE IF length > Remaining(body)
                         THEN Refused([body EXCEPT !.value = << >>])
                         ELSE [Advanced(body, length) EXCEPT !.value = Ahead(body, length)]
    BY <1>3, Zenon DEF Deserialize
  <2> HIDE DEF body, length
  <2>4. length > Remaining(body) \/ length <= Remaining(body)
    BY <1>1, <2>2 DEF ReaderOK, Remaining
  <2>5. ReaderOK([body EXCEPT !.value = << >>])
    BY <2>2, <1>1, ReaderUpdate
  <2>6. ReaderOK(Refused([body EXCEPT !.value = << >>])) /\ ReaderOK(Refused(body))
    BY <2>2, <2>5, <1>1, ReaderUpdate
  <2>7. length <= Remaining(body) =>
            ReaderOK([Advanced(body, length) EXCEPT !.value = Ahead(body, length)])
    BY <1>1, <2>2, ReaderUpdate
  <2> QED
    BY <2>3, <2>4, <2>6, <2>7
<1> QED
  BY <1>2, <1>3

\* The history that Read adds does not touch view and cursor.
LEMMA ReadOK ==
    ASSUME NEW result, ReaderOK(result), NEW expected, Read(result, expected)
    PROVE  ReaderOK(reader') /\ UNCHANGED stream
BY DEF ReaderOK, Read

----------------------------------------------------------------------------
(* The specification.                                                      *)

\* An empty packet and no reader
LEMMA InitInv == Init => Inv
<1> SUFFICES ASSUME Init PROVE Inv
  OBVIOUS
<1>1. MaxPacketSize \in Nat
  BY PacketAssumption
<1>2. IsSeq(<< >>) /\ Len(<< >>) = 0
  BY DEF IsSeq
<1> QED
  BY <1>1, <1>2 DEF Init, Closed, Inv, StreamOK, ReaderOK

\* The calls of a writer and of the buffer's owner
LEMMA WriterKeepsInv == Inv /\ WriterNext => Inv'
<1> SUFFICES ASSUME Inv, WriterNext PROVE Inv'
  OBVIOUS
<1> USE DEF Inv
<1>1. \A result, field : StreamOK(result) /\ Wrote(result, field) => Inv'
  BY DEF Wrote, ReaderOK, StreamOK
<1>2. CASE \E data \in Blobs : PacketWriteBytes(data)
  BY <1>1, <1>2, InputSeq, WriteBytesOK DEF PacketWriteBytes
<1>3. CASE \E str \in Strings : PacketWriteString(str)
  BY <1>1, <1>3, InputSeq, WriteStringOK DEF PacketWriteString
<1>4. CASE \E str \in Strings : BinaryWriteString(str)
  BY <1>1, <1>4, InputSeq, SerializeOK DEF BinaryWriteString
<1>5. CASE WriterReset
  <2>1. stream' = [bytes |-> stream.bytes, offset |-> 0, ok |-> stream.ok]
        /\ UNCHANGED reader
    BY <1>5 DEF WriterReset, StreamOK
  <2> QED
    BY <2>1, PacketAssumption DEF StreamOK, ReaderOK
<1>6. ASSUME NEW size \in 0 .. MaxPacketSize, BufferResize(size) PROVE Inv'
  <2>1. stream' = [bytes |-> Resized(stream.bytes, size), offset |-> stream.offset,
                   ok |-> stream.ok]
        /\ UNCHANGED reader
    BY <1>6 DEF BufferResize, StreamOK
  <2>2. IsSeq(Resized(stream.bytes, size)) /\ Len(Resized(stream.bytes, size)) = size
    BY ResizedSeq
  <2> QED
    BY <2>1, <2>2, PacketAssumption DEF StreamOK, ReaderOK
<1> QED
  BY <1>2, <1>3, <1>4, <1>5, <1>6 DEF WriterNext

\* The calls of a reader
LEMMA ReaderKeepsInv == Inv /\ ReaderNext => Inv'
<1> SUFFICES ASSUME Inv, ReaderNext PROVE Inv'
  OBVIOUS
<1> USE DEF Inv
<1>1. \A result, expected : ReaderOK(result) /\ Read(result, expected) => Inv'
  BY ReadOK DEF StreamOK
<1>2. \A size \in ReadSizes : size \in Nat
  BY InputSeq DEF ReadSizes
<1>3. ASSUME NEW offset \in 0 .. 1, NEW size \in Nat, OpenReader(offset, size)
      PROVE  Inv'
  <2>1. Len(SubView(stream.bytes, offset, size)) \in Nat
    BY SubViewSize DEF StreamOK
  <2>2. reader' = [open |-> TRUE, view |-> SubView(stream.bytes, offset, size), place |-> 0,
                   value |-> << >>, ok |-> TRUE, next |-> 0,
                   aligned |-> ~torn /\ offset = 0 /\ size >= stream.offset]
        /\ UNCHANGED stream
    BY <1>3, Zenon DEF OpenReader, Closed
  <2> QED
    BY <2>1, <2>2 DEF StreamOK, ReaderOK
<1>4. stream.offset \in Nat /\ Len(stream.bytes) \in Nat
  BY SeqFacts DEF StreamOK
<1>5. CASE \E size \in ReadSizes : PacketReadBytes(size)
  BY <1>1, <1>2, <1>5, ReadBytesOK DEF PacketReadBytes
<1>6. CASE \E size \in ReadSizes : BinaryReadBytes(size)
  <2>1. ReaderOK([reader EXCEPT !.ok = TRUE, !.value = << >>])
    <3>1. ReaderOK([reader EXCEPT !.ok = TRUE])
      BY ReaderUpdate
    <3>2. ReaderOK([[reader EXCEPT !.ok = TRUE] EXCEPT !.value = << >>])
      BY <3>1, ReaderUpdate
    <3> QED
      BY <3>2, Zenon
  <2> QED
    BY <1>1, <1>2, <1>6, <2>1, ReadBytesOK DEF BinaryReadBytes
<1>7. CASE PacketReadString
  BY <1>1, <1>7, ReadStringOK DEF PacketReadString
<1>8. CASE BinaryReadString
  BY <1>1, <1>8, DeserializeOK DEF BinaryReadString
<1>9. CASE CloseReader
  BY <1>9 DEF CloseReader, Closed, StreamOK, ReaderOK
<1> QED
  BY <1>3, <1>4, <1>5, <1>6, <1>7, <1>8, <1>9 DEF ReaderNext

(* The bounds of buffers and readers are an invariant of every order of    *)
(* calls.                                                                  *)
THEOREM PacketBounds == Spec => []Inv
<1>1. Inv /\ UNCHANGED vars => Inv'
  BY DEF Inv, StreamOK, ReaderOK, vars
<1>2. Inv /\ [Next]_vars => Inv'
  BY <1>1, WriterKeepsInv, ReaderKeepsInv DEF Next
<1> QED
  BY <1>2, InitInv, PTL DEF Spec

(* PacketWriter never writes beyond capacity, for every capacity.          *)
THEOREM WritesWithinCapacity == Spec => []WithinCapacity
<1>1. Inv => WithinCapacity
  BY PacketAssumption DEF Inv, StreamOK, WithinCapacity
<1> QED
  BY <1>1, PacketBounds, PTL

(* PacketReader and BinaryReader never read out of bounds, whatever length *)
(* the bytes claim.                                                        *)
THEOREM ReadersStayWithin == Spec => []ReadsWithin
<1>1. Inv => ReadsWithin
  BY DEF Inv, ReaderOK, ReadsWithin
<1> QED
  BY <1>1, PacketBounds, PTL

----------------------------------------------------------------------------
(* Reads that fail.                                                        *)

\* The reader after a call is the call's result but for the history.
LEMMA ReadResult ==
    ASSUME NEW result, ReaderOK(result), NEW expected, Read(result, expected)
    PROVE  reader'.place = result.place /\ reader'.value = result.value
           /\ reader'.ok = result.ok
BY DEF ReaderOK, Read

\* The two ways out that leave the caller without a value
LEMMA RefusedKeeps ==
    ASSUME NEW r, ReaderOK(r)
    PROVE  /\ Refused(r).place = r.place /\ Refused(r).value = r.value
           /\ [r EXCEPT !.value = << >>].place = r.place
           /\ [r EXCEPT !.value = << >>].value = << >>
<1>1. 0 \in Nat
  OBVIOUS
<1>2. Refused(r).place = r.place /\ Refused(r).value = r.value
  BY <1>1, ReaderUpdate
<1>3. [r EXCEPT !.value = << >>].place = r.place
  BY <1>1, ReaderUpdate
<1>4. [r EXCEPT !.value = << >>].value = << >>
  BY <1>1, ReaderUpdate
<1> QED
  BY <1>2, <1>3, <1>4

\* A reader that moves keeps the caller's value.
LEMMA AdvancedKeeps ==
    ASSUME NEW r, ReaderOK(r), NEW size \in Nat
    PROVE  Advanced(r, size).place = r.place + size /\ Advanced(r, size).value = r.value
<1>1. Advanced(r, size).place = r.place + size
  BY DEF Advanced, ReaderOK
<1>2. Advanced(r, size).value = r.value
  BY ReaderUpdate
<1> QED
  BY <1>1, <1>2

\* A failed ReadBytes moved nothing and handed out nothing.
LEMMA ReadBytesFails ==
    ASSUME NEW r, ReaderOK(r), NEW size \in Nat, ~ReadBytes(r, size).ok
    PROVE  ReadBytes(r, size).place = r.place /\ ReadBytes(r, size).value = r.value
<1>1. ReadBytes(r, size) \in {Refused(r), [Advanced(r, size) EXCEPT !.value = Ahead(r, size)]}
  BY DEF ReadBytes
<1>2. [Advanced(r, size) EXCEPT !.value = Ahead(r, size)].ok = TRUE
  BY ReaderUpdate
<1>3. ReadBytes(r, size) = Refused(r)
  BY <1>1, <1>2
<1> QED
  BY <1>3, ReaderUpdate, ZenonT(30)

\* A failed ReadString moved nothing, although it read the length.
LEMMA ReadStringFails ==
    ASSUME NEW r, ReaderOK(r), ~ReadString(r).ok
    PROVE  ReadString(r).place = r.place /\ ReadString(r).value = r.value
<1> DEFINE length == LengthOf(Ahead(r, PrefixSize))
           body == Advanced(r, PrefixSize)
           got == [Advanced(body, length) EXCEPT !.value = Ahead(body, length)]
<1>1. length \in Nat /\ PrefixSize \in Nat
  BY LengthOfType, PacketAssumption
<1>2. ReadString(r) = Refused(r) \/ (ReadString(r) = got /\ ~(PrefixSize > Remaining(r)))
  BY Zenon DEF ReadString
<1>3. ASSUME ~(PrefixSize > Remaining(r)) PROVE got.ok = TRUE
  <2>1. PrefixSize <= Remaining(r)
    BY <1>1, <1>3 DEF ReaderOK, Remaining
  <2>2. ReaderOK(body)
    BY <1>1, <2>1, ReaderUpdate
  <2> HIDE DEF body, length
  <2> QED
    BY <1>1, <2>2, ReaderUpdate
<1> HIDE DEF got
<1>4. ReadString(r) = Refused(r)
  BY <1>2, <1>3
<1> QED
  BY <1>4, RefusedKeeps

\* A failed Deserialize leaves the old string or an empty one.
LEMMA DeserializeFails ==
    ASSUME NEW r, ReaderOK(r), ~Deserialize(r).ok
    PROVE  Deserialize(r).value \in {r.value, << >>}
<1> DEFINE length == LengthOf(Ahead(r, PrefixSize))
           body == Advanced(r, PrefixSize)
           empty == [body EXCEPT !.value = << >>]
           got == [Advanced(body, length) EXCEPT !.value = Ahead(body, length)]
<1>1. length \in Nat /\ PrefixSize \in Nat
  BY LengthOfType, PacketAssumption
<1>2. CASE PrefixSize > Remaining(r)
  <2>1. Deserialize(r) = Refused(r)
    BY <1>2, Zenon DEF Deserialize
  <2> QED
    BY <2>1, RefusedKeeps
<1>3. CASE ~(PrefixSize > Remaining(r))
  <2>1. Deserialize(r) = Refused(body) \/ Deserialize(r) = Refused(empty)
        \/ Deserialize(r) = got
    BY <1>3, Zenon DEF Deserialize
  <2>2. PrefixSize <= Remaining(r)
    BY <1>1, <1>3 DEF ReaderOK, Remaining
  <2>3. ReaderOK(body) /\ body.place = r.place + PrefixSize /\ body.value = r.value
    <3>1. ReaderOK(body)
      BY <1>1, <2>2, ReaderUpdate
    <3>2. body.place = r.place + PrefixSize /\ body.value = r.value
      BY <1>1, AdvancedKeeps
    <3> QED
      BY <3>1, <3>2
  <2> HIDE DEF body, length
  <2>4. ReaderOK(empty) /\ empty.place = body.place /\ empty.value = << >>
    <3>1. ReaderOK(empty)
      BY <1>1, <2>3, ReaderUpdate
    <3> QED
      BY <2>3, <3>1, RefusedKeeps
  <2>5. got.ok = TRUE
    BY <1>1, <2>3, ReaderUpdate
  <2> HIDE DEF empty, got
  <2>6. /\ Refused(body).place = body.place /\ Refused(body).value = body.value
        /\ Refused(empty).place = empty.place /\ Refused(empty).value = empty.value
    BY <2>3, <2>4, RefusedKeeps
  <2>7. Deserialize(r) = Refused(body) \/ Deserialize(r) = Refused(empty)
    BY <2>1, <2>5
  <2> QED
    BY <2>3, <2>4, <2>6, <2>7
<1> QED
  BY <1>2, <1>3

(* FailedReadLeavesNoTrace for every size and set of values: a read that   *)
(* PacketReader fails leaves cursor and variable, and a string that        *)
(* StringSerializer refuses is the old one or empty.  Nothing is said of   *)
(* BinaryReader's cursor, which such a call moves behind the length.       *)
THEOREM FailedReadsGiveNothing == Spec => FailedReadLeavesNoTrace
<1> DEFINE A == /\ (PacketReadString \/ \E size \in ReadSizes : PacketReadBytes(size))
                      /\ ~reader'.ok
                    => reader'.place = reader.place /\ reader'.value = reader.value
                /\ BinaryReadString /\ ~reader'.ok => reader'.value \in {reader.value, << >>}
<1>1. Inv => A
  <2> SUFFICES ASSUME ReaderOK(reader) PROVE A
    BY DEF Inv
  <2>1. ASSUME PacketReadString, ~reader'.ok
        PROVE  reader'.place = reader.place /\ reader'.value = reader.value
    BY <2>1, ReadStringOK, ReadResult, ReadStringFails DEF PacketReadString
  <2>2. ASSUME NEW size \in ReadSizes, PacketReadBytes(size), ~reader'.ok
        PROVE  reader'.place = reader.place /\ reader'.value = reader.value
    <3>1. size \in Nat
      BY InputSeq DEF ReadSizes
    <3> QED
      BY <2>2, <3>1, ReadBytesOK, ReadResult, ReadBytesFails DEF PacketReadBytes
  <2>3. ASSUME BinaryReadString, ~reader'.ok
        PROVE  reader'.value \in {reader.value, << >>}
    BY <2>3, DeserializeOK, ReadResult, DeserializeFails DEF BinaryReadString
  <2> QED
    BY <2>1, <2>2, <2>3
<1>2. Inv => [A]_reader
  BY <1>1
<1> HIDE DEF A
<1>3. Spec => [][A]_reader
  BY <1>2, PacketBounds, PTL
<1> QED
  BY <1>3 DEF A, FailedReadLeavesNoTrace

----------------------------------------------------------------------------
(* What lies on the wire                                                   *)

\* The values of bytes: those of the data, and those of the lengths
LengthData(n) == {LengthBytes(n)[k] : k \in 1 .. PrefixSize}
Data == (0 .. ByteBase - 1) \cup UNION {LengthData(n) : n \in Nat}
Text == Seq(Data)

\* What a concatenation holds
LEMMA JoinFacts ==
    ASSUME NEW s \in Text, NEW t \in Text
    PROVE  /\ s \o t \in Text /\ Len(s \o t) = Len(s) + Len(t)
           /\ \A i \in 1 .. Len(s) : (s \o t)[i] = s[i]
           /\ \A i \in 1 .. Len(t) : (s \o t)[Len(s) + i] = t[i]
  BY DEF Text

\* Concatenation is associative, and the empty sequence is its identity.
LEMMA JoinLaws ==
    ASSUME NEW s \in Text, NEW t \in Text, NEW u \in Text
    PROVE  (s \o t) \o u = s \o (t \o u) /\ s \o << >> = s /\ << >> \o s = s
  BY DEF Text

\* A function that unfolds as FlattenSeq does
Unfolds(f, seqs) ==
    f[1] = seqs[1] /\ \A k \in 2 .. Len(seqs) : f[k] = f[k - 1] \o seqs[k]

\* There is a function that unfolds: by induction on its domain.
LEMMA FlatExists ==
    ASSUME NEW seqs \in Seq(Text), seqs # << >>
    PROVE  \E f \in [1 .. Len(seqs) -> Text] : Unfolds(f, seqs)
<1> DEFINE Total == Len(seqs)
           Unfolded(f, m) == f[1] = seqs[1] /\ \A k \in 2 .. m : f[k] = f[k - 1] \o seqs[k]
           Runs(m) == \E f \in [1 .. m + 1 -> Text] : Unfolded(f, m + 1)
           T == {m \in 0 .. Total - 1 : Runs(m)}
<1>1. Total \in Nat \ {0} /\ \A k \in 1 .. Total : seqs[k] \in Text
  OBVIOUS
<1> HIDE DEF Total
<1>2. Runs(0)
  <2> DEFINE f == [k \in 1 .. 1 |-> seqs[1]]
  <2>1. /\ f \in [1 .. 0 + 1 -> Text] /\ f[1] = seqs[1]
        /\ \A k \in 2 .. 0 + 1 : f[k] = f[k - 1] \o seqs[k]
    BY <1>1
  <2> HIDE DEF f
  <2> QED
    BY <2>1
<1>3. ASSUME NEW n \in 1 .. Total - 1, Runs(n - 1) PROVE Runs(n)
  <2>0. n - 1 + 1 = n /\ n + 1 \in 1 .. Total /\ n + 1 \in Nat /\ n \in Nat /\ n \in 1 .. n
    BY <1>1
  <2>1. PICK f \in [1 .. n -> Text] : Unfolded(f, n)
    BY <1>3, <2>0
  <2>2. PICK e \in Text : e = f[n] \o seqs[n + 1]
    <3>1. f[n] \in Text /\ seqs[n + 1] \in Text
      BY <1>1, <2>0
    <3> QED
      BY <3>1, JoinFacts, Zenon
  <2> DEFINE g == [k \in 1 .. n + 1 |-> IF k = n + 1 THEN e ELSE f[k]]
  <2>3. g \in [1 .. n + 1 -> Text]
    BY <2>0, <2>2
  <2>4. g[1] = seqs[1]
    BY <2>0, <2>1
  <2>5. ASSUME NEW k \in 2 .. n + 1 PROVE g[k] = g[k - 1] \o seqs[k]
    <3>1. k - 1 \in 1 .. n /\ k \in 1 .. n + 1 /\ k - 1 # n + 1
      BY <2>0
    <3>2. g[k - 1] = f[k - 1]
      BY <3>1
    <3>3. CASE k = n + 1
      <4>1. k - 1 = n
        BY <2>0, <3>3
      <4> QED
        BY <2>2, <3>1, <3>2, <3>3, <4>1
    <3>4. CASE k # n + 1
      <4>1. k \in 2 .. n
        BY <2>0, <3>4
      <4>2. g[k] = f[k]
        BY <3>1, <3>4
      <4> QED
        BY <2>1, <3>2, <4>1, <4>2
    <3> QED
      BY <3>3, <3>4
  <2> HIDE DEF g
  <2>6. Unfolded(g, n + 1)
    BY <2>4, <2>5
  <2> QED
    BY <2>3, <2>6
<1> HIDE DEF Runs
<1>4. T = 0 .. Total - 1
  <2>1. 0 \in T /\ T \in SUBSET (0 .. Total - 1) /\ Total - 1 \in Nat
    BY <1>1, <1>2
  <2>2. \A k \in 1 .. Total - 1 : k - 1 \in T => k \in T
    BY <1>1, <1>3
  <2> HIDE DEF T
  <2> QED
    BY <2>1, <2>2, Induction
<1>5. Runs(Total - 1) /\ Total - 1 + 1 = Total
  BY <1>1, <1>4
<1> QED
  BY <1>5 DEF Runs, Unfolds, Total

\* The function in the body of FlattenSeq
Flat(seqs) ==
    CHOOSE g : g = [i \in 1 .. Len(seqs) |-> IF i = 1 THEN seqs[i] ELSE g[i - 1] \o seqs[i]]

\* FlattenSeq's recursive function is Flat, and its last value the result.
LEMMA FlattenIsFlat ==
    ASSUME NEW seqs
    PROVE  FlattenSeq(seqs) = IF Len(seqs) = 0 THEN seqs ELSE Flat(seqs)[Len(seqs)]
  BY Zenon DEF FlattenSeq, Flat

\* It unfolds.
LEMMA FlatUnfolds ==
    ASSUME NEW seqs \in Seq(Text), seqs # << >>
    PROVE  Unfolds(Flat(seqs), seqs) /\ \A k \in 1 .. Len(seqs) : Flat(seqs)[k] \in Text
<1> DEFINE Total == Len(seqs)
           Body(f) == [i \in 1 .. Total |-> IF i = 1 THEN seqs[i] ELSE f[i - 1] \o seqs[i]]
<1>1. Total \in Nat \ {0} /\ \A k \in 1 .. Total : seqs[k] \in Text
  OBVIOUS
<1>2. PICK f \in [1 .. Total -> Text] : Unfolds(f, seqs)
  BY FlatExists
<1>3. f = Body(f)
  <2>1. ASSUME NEW k \in 1 .. Total
        PROVE  f[k] = IF k = 1 THEN seqs[k] ELSE f[k - 1] \o seqs[k]
    <3>1. k = 1 \/ (k # 1 /\ k \in 2 .. Total)
      BY <1>1
    <3> QED
      BY <1>2, <3>1 DEF Unfolds
  <2> HIDE DEF Total
  <2> QED
    BY <2>1
<1>4. Flat(seqs) = CHOOSE g : g = Body(g)
  BY Zenon DEF Flat
<1>5. Flat(seqs) = Body(Flat(seqs))
  BY <1>3, <1>4, Zenon
<1> HIDE DEF Total
<1> DEFINE h == Flat(seqs)
<1>6. h[1] = seqs[1] /\ \A k \in 2 .. Total : h[k] = h[k - 1] \o seqs[k]
  <2> HIDE DEF h
  <2>1. Body(h)[1] = seqs[1]
    BY <1>1
  <2>2. ASSUME NEW k \in 2 .. Total PROVE Body(h)[k] = h[k - 1] \o seqs[k]
    <3>1. k \in 1 .. Total /\ k # 1
      BY <1>1
    <3> QED
      BY <3>1, Zenon
  <2>3. h = Body(h)
    BY <1>5, Zenon DEF h
  <2> HIDE DEF Body
  <2> QED
    BY <2>1, <2>2, <2>3, Zenon
<1> HIDE DEF h
<1>7. \A k \in 1 .. Total : h[k] \in Text
  <2> DEFINE T == {n \in 0 .. Total - 1 : h[n + 1] \in Text}
  <2>1. 0 \in T /\ T \in SUBSET (0 .. Total - 1) /\ Total - 1 \in Nat
    BY <1>1, <1>6
  <2>2. ASSUME NEW k \in 1 .. Total - 1, k - 1 \in T PROVE k \in T
    <3>1. k + 1 \in 2 .. Total /\ k + 1 \in 1 .. Total /\ k - 1 + 1 = k /\ (k + 1) - 1 = k
          /\ k \in 0 .. Total - 1
      BY <1>1
    <3>2. h[k + 1] = h[k] \o seqs[k + 1]
      BY <1>6, <3>1
    <3>3. h[k] \in Text /\ seqs[k + 1] \in Text
      BY <1>1, <2>2, <3>1
    <3>4. h[k + 1] \in Text
      BY <3>2, <3>3, JoinFacts
    <3> QED
      BY <3>1, <3>4
  <2> HIDE DEF T
  <2>3. T = 0 .. Total - 1
    BY <2>1, <2>2, Induction
  <2>4. \A k \in 1 .. Total : k - 1 \in 0 .. Total - 1 /\ (k - 1) + 1 = k
    BY <1>1
  <2> QED
    BY <2>3, <2>4 DEF T
<1> QED
  BY <1>6, <1>7 DEF Unfolds, Total, h

\* One more sequence is appended.
LEMMA FlattenAppend ==
    ASSUME NEW seqs \in Seq(Text), NEW x \in Text
    PROVE  /\ FlattenSeq(seqs) \in Text
           /\ FlattenSeq(Append(seqs, x)) = FlattenSeq(seqs) \o x
<1> DEFINE Total == Len(seqs)
           more == Append(seqs, x)
           g == Flat(seqs)
           h == Flat(more)
<1>1. /\ Total \in Nat /\ more \in Seq(Text) /\ more # << >> /\ Len(more) = Total + 1
      /\ more[Total + 1] = x /\ \A k \in 1 .. Total : more[k] = seqs[k]
  OBVIOUS
<1> HIDE DEF more
<1>2. h[1] = more[1] /\ \A k \in 2 .. Total + 1 : h[k] = h[k - 1] \o more[k]
  BY <1>1, FlatUnfolds DEF Unfolds
<1>3. FlattenSeq(more) = h[Total + 1]
  <2>1. Len(more) # 0
    BY <1>1
  <2> QED
    BY <1>1, <2>1, FlattenIsFlat
<1>4. CASE Total = 0
  <2>1. seqs = << >> /\ FlattenSeq(seqs) = seqs
    BY <1>4, FlattenIsFlat
  <2>2. << >> \in Text /\ << >> \o x = x
    BY JoinLaws DEF Text
  <2>3. FlattenSeq(more) = x
    BY <1>1, <1>2, <1>3, <1>4
  <2> QED
    BY <2>1, <2>2, <2>3 DEF more
<1>5. CASE Total # 0
  <2>1. seqs # << >> /\ Total \in 1 .. Total /\ Total - 1 \in Nat
    BY <1>1, <1>5
  <2>2. g[1] = seqs[1] /\ (\A k \in 2 .. Total : g[k] = g[k - 1] \o seqs[k]) /\ g[Total] \in Text
    BY <2>1, FlatUnfolds DEF Unfolds
  <2>3. FlattenSeq(seqs) = g[Total]
    BY <1>5, FlattenIsFlat
  <2> HIDE DEF g, h, Total
  <2>4. h[Total] = g[Total]
    <3> DEFINE T == {n \in 0 .. Total - 1 : h[n + 1] = g[n + 1]}
    <3>1. 0 \in T /\ T \in SUBSET (0 .. Total - 1)
      BY <1>1, <1>2, <2>1, <2>2
    <3>2. ASSUME NEW k \in 1 .. Total - 1, k - 1 \in T PROVE k \in T
      <4>1. k + 1 \in 2 .. Total /\ k + 1 \in 2 .. Total + 1 /\ k + 1 \in 1 .. Total
            /\ k - 1 + 1 = k /\ (k + 1) - 1 = k /\ k \in 0 .. Total - 1
        BY <1>1
      <4>2. h[k + 1] = h[k] \o seqs[k + 1] /\ g[k + 1] = g[k] \o seqs[k + 1]
        BY <1>1, <1>2, <2>2, <4>1
      <4>3. h[k] = g[k]
        BY <3>2, <4>1
      <4> QED
        BY <4>1, <4>2, <4>3
    <3> HIDE DEF T
    <3>3. T = 0 .. Total - 1
      BY <2>1, <3>1, <3>2, Induction
    <3>4. Total - 1 \in 0 .. Total - 1 /\ (Total - 1) + 1 = Total
      BY <1>1, <2>1
    <3> QED
      BY <3>3, <3>4 DEF T
  <2>5. h[Total + 1] = h[Total] \o x
    <3>1. Total + 1 \in 2 .. Total + 1 /\ (Total + 1) - 1 = Total
      BY <1>1, <1>5
    <3> QED
      BY <1>1, <1>2, <3>1
  <2> QED
    BY <1>3, <2>2, <2>3, <2>4, <2>5 DEF more
<1> QED
  BY <1>4, <1>5

Field == [kind : {"bytes", "string"}, value : Text]

\* A sequence is what its elements are.
LEMMA ElementsOf ==
    ASSUME NEW S, NEW b \in Seq(S)
    PROVE  /\ Len(b) \in Nat /\ b = [i \in 1 .. Len(b) |-> b[i]]
           /\ \A i \in 1 .. Len(b) : b[i] \in S
  OBVIOUS

\* What a writer is given, and the bytes of a length
LEMMA TextFacts ==
    /\ << >> \in Text /\ 0 \in Data
    /\ \A b \in Blobs \cup Strings : b \in Text
    /\ \A n \in Nat : LengthBytes(n) \in Text
<1>1. /\ ByteBase \in Nat \ {0} /\ PrefixSize \in Nat
      /\ Blobs \cup Strings \subseteq Seq(0 .. ByteBase - 1)
  BY PacketAssumption
<1>2. \A b \in Seq(0 .. ByteBase - 1) : b \in Text
  <2> SUFFICES ASSUME NEW b \in Seq(0 .. ByteBase - 1) PROVE b \in Text
    OBVIOUS
  <2>1. 0 .. ByteBase - 1 \subseteq Data
    BY DEF Data
  <2>2. /\ Len(b) \in Nat /\ b = [i \in 1 .. Len(b) |-> b[i]]
        /\ \A i \in 1 .. Len(b) : b[i] \in 0 .. ByteBase - 1
    BY ElementsOf
  <2>3. \A i \in 1 .. Len(b) : b[i] \in Data
    BY <2>1, <2>2, Zenon
  <2> QED
    BY <2>2, <2>3 DEF Text
<1>3. ASSUME NEW n \in Nat PROVE LengthBytes(n) \in Text
  <2>1. \A k \in 1 .. PrefixSize : LengthBytes(n)[k] \in LengthData(n)
    BY Zenon DEF LengthData
  <2>2. LengthBytes(n) = [k \in 1 .. PrefixSize |-> LengthBytes(n)[k]]
    BY Zenon DEF LengthBytes
  <2>3. \A k \in 1 .. PrefixSize : LengthBytes(n)[k] \in Data
    BY <2>1 DEF Data
  <2> QED
    BY <1>1, <2>2, <2>3 DEF Text
<1>4. << >> \in Text /\ 0 \in Data
  BY <1>1 DEF Text, Data
<1> QED
  BY <1>1, <1>2, <1>3, <1>4

\* A field's bytes
LEMMA EncodingFacts ==
    ASSUME NEW field \in Field
    PROVE  Encoding(field) \in Text
<1>1. field.value \in Text /\ Len(field.value) \in Nat
  BY DEF Field, Text
<1> QED
  BY <1>1, TextFacts, JoinFacts DEF Encoding

\* A message without fields has no bytes; a field adds its own.
LEMMA EncodedFacts ==
    /\ Encoded(<< >>) = << >>
    /\ \A message \in Seq(Field) : Encoded(message) \in Text
    /\ \A message \in Seq(Field), field \in Field :
          Encoded(Append(message, field)) = Encoded(message) \o Encoding(field)
<1>1. Encoded(<< >>) = << >>
  <2> DEFINE seqs == [k \in 1 .. Len(<< >>) |-> Encoding(<< >>[k])]
  <2>1. seqs = << >>
    OBVIOUS
  <2>2. Len(seqs) = 0
    BY <2>1
  <2>3. FlattenSeq(seqs) = seqs
    BY <2>2, FlattenIsFlat
  <2> QED
    BY <2>1, <2>3, Zenon DEF Encoded
<1>2. ASSUME NEW message \in Seq(Field), NEW field \in Field
      PROVE  /\ Encoded(message) \in Text
             /\ Encoded(Append(message, field)) = Encoded(message) \o Encoding(field)
  <2> DEFINE seqs == [k \in 1 .. Len(message) |-> Encoding(message[k])]
             more == [k \in 1 .. Len(Append(message, field)) |-> Encoding(Append(message, field)[k])]
  <2>1. Len(message) \in Nat /\ \A k \in 1 .. Len(message) : Encoding(message[k]) \in Text
    BY EncodingFacts
  <2>2. seqs \in Seq(Text) /\ Len(seqs) = Len(message)
    BY <2>1
  <2>3. Encoding(field) \in Text
    BY EncodingFacts
  <2>4. more = Append(seqs, Encoding(field))
    <3>1. /\ Len(Append(message, field)) = Len(message) + 1
          /\ Append(message, field)[Len(message) + 1] = field
          /\ \A k \in 1 .. Len(message) : Append(message, field)[k] = message[k]
      OBVIOUS
    <3>2. /\ Append(seqs, Encoding(field)) \in Seq(Text)
          /\ Len(Append(seqs, Encoding(field))) = Len(message) + 1
          /\ Append(seqs, Encoding(field))[Len(message) + 1] = Encoding(field)
          /\ \A k \in 1 .. Len(message) : Append(seqs, Encoding(field))[k] = seqs[k]
      <4> HIDE DEF seqs
      <4> QED
        BY <2>2, <2>3
    <3>3. \A k \in 1 .. Len(message) : seqs[k] = Encoding(message[k])
      OBVIOUS
    <3>6. ASSUME NEW k \in 1 .. Len(message) + 1
          PROVE  more[k] = Append(seqs, Encoding(field))[k]
      <4>1. more[k] = Encoding(Append(message, field)[k])
        BY <3>1
      <4>2. k \in 1 .. Len(message) \/ k = Len(message) + 1
        BY <2>1
      <4> HIDE DEF more, seqs
      <4>3. CASE k \in 1 .. Len(message)
        BY <3>1, <3>2, <3>3, <4>1, <4>3
      <4>4. CASE k = Len(message) + 1
        BY <3>1, <3>2, <4>1, <4>4
      <4> QED
        BY <4>2, <4>3, <4>4
    <3>7. more = [k \in 1 .. Len(message) + 1 |-> more[k]]
      BY <3>1
    <3>8. Append(seqs, Encoding(field))
            = [k \in 1 .. Len(message) + 1 |-> Append(seqs, Encoding(field))[k]]
      <4>1. \A a \in Seq(Text) : a = [k \in 1 .. Len(a) |-> a[k]]
        OBVIOUS
      <4> HIDE DEF seqs
      <4> QED
        BY <3>2, <4>1
    <3> HIDE DEF more, seqs
    <3> QED
      BY <3>6, <3>7, <3>8
  <2>5. /\ FlattenSeq(seqs) \in Text
        /\ FlattenSeq(Append(seqs, Encoding(field))) = FlattenSeq(seqs) \o Encoding(field)
    <3> HIDE DEF seqs
    <3> QED
      BY <2>2, <2>3, FlattenAppend
  <2>6. Encoded(message) = FlattenSeq(seqs) /\ Encoded(Append(message, field)) = FlattenSeq(more)
    BY Zenon DEF Encoded
  <2> HIDE DEF seqs, more
  <2> QED
    BY <2>4, <2>5, <2>6
<1>3. \E field : field \in Field
  <2>1. [kind |-> "bytes", value |-> << >>] \in Field
    BY TextFacts DEF Field
  <2> QED
    BY <2>1
<1> QED
  BY <1>1, <1>2, <1>3

----------------------------------------------------------------------------
(* What the writers leave in the buffer                                    *)

\* A longer text begins with a shorter one.
Begins(text, e) == Len(e) <= Len(text) /\ \A i \in 1 .. Len(e) : text[i] = e[i]

\* The buffer begins with the bytes of e, and the cursor is behind them.
Keeps(s, e) == Begins(s.bytes, e)
Holds(s, e) == Keeps(s, e) /\ s.offset = Len(e)

\* A resized buffer keeps what fits.
LEMMA ResizedKeeps ==
    ASSUME NEW bytes \in Text, NEW size \in Nat
    PROVE  /\ Resized(bytes, size) \in Text /\ Len(Resized(bytes, size)) = size
           /\ \A i \in 1 .. size : i <= Len(bytes) => Resized(bytes, size)[i] = bytes[i]
<1>1. Len(bytes) \in Nat /\ (\A i \in 1 .. Len(bytes) : bytes[i] \in Data) /\ 0 \in Data
  BY TextFacts DEF Text
<1>2. \A i \in 1 .. size : (IF i <= Len(bytes) THEN bytes[i] ELSE 0) \in Data
  BY <1>1
<1>3. Resized(bytes, size) = [i \in 1 .. size |-> IF i <= Len(bytes) THEN bytes[i] ELSE 0]
  BY Zenon DEF Resized
<1>4. Resized(bytes, size) \in Text /\ Len(Resized(bytes, size)) = size
  BY <1>2, <1>3 DEF Text
<1> QED
  BY <1>3, <1>4

\* Data is written behind the offset.
LEMMA OverwrittenKeeps ==
    ASSUME NEW bytes \in Text, NEW offset \in Nat, NEW data \in Text
    PROVE  /\ Overwritten(bytes, offset, data) \in Text
           /\ Len(Overwritten(bytes, offset, data)) = Len(bytes)
           /\ \A i \in 1 .. Len(bytes) :
                i <= offset => Overwritten(bytes, offset, data)[i] = bytes[i]
           /\ offset + Len(data) <= Len(bytes) =>
                \A i \in 1 .. Len(data) : Overwritten(bytes, offset, data)[offset + i] = data[i]
<1> DEFINE over == Overwritten(bytes, offset, data)
<1>1. /\ Len(bytes) \in Nat /\ DOMAIN bytes = 1 .. Len(bytes) /\ Len(data) \in Nat
      /\ (\A i \in 1 .. Len(bytes) : bytes[i] \in Data)
      /\ (\A i \in 1 .. Len(data) : data[i] \in Data)
  BY DEF Text
<1>2. over = [i \in 1 .. Len(bytes) |->
                 IF i > offset /\ i <= offset + Len(data) THEN data[i - offset] ELSE bytes[i]]
  BY <1>1, Zenon DEF Overwritten
<1>3. \A i \in 1 .. Len(bytes) :
         (IF i > offset /\ i <= offset + Len(data) THEN data[i - offset] ELSE bytes[i]) \in Data
  <2>1. \A i \in 1 .. Len(bytes) :
            i > offset /\ i <= offset + Len(data) => i - offset \in 1 .. Len(data)
    BY <1>1
  <2> QED
    BY <1>1, <2>1
<1> HIDE DEF over
<1>4. over \in Text /\ Len(over) = Len(bytes)
  BY <1>1, <1>2, <1>3 DEF Text
<1>5. \A i \in 1 .. Len(bytes) : i <= offset => over[i] = bytes[i]
  BY <1>1, <1>2
<1>6. ASSUME offset + Len(data) <= Len(bytes), NEW i \in 1 .. Len(data)
      PROVE  over[offset + i] = data[i]
  <2>1. /\ offset + i \in 1 .. Len(bytes) /\ offset + i > offset
        /\ offset + i <= offset + Len(data) /\ (offset + i) - offset = i
    BY <1>1, <1>6
  <2> QED
    BY <1>2, <2>1
<1> QED
  BY <1>4, <1>5, <1>6 DEF over

\* WriteBytes adds its data to what is there, or leaves it.
LEMMA WriteBytesKeeps ==
    ASSUME NEW s, StreamOK(s), s.bytes \in Text, NEW data \in Text
    PROVE  LET r == WriteBytes(s, data)
           IN /\ r.bytes \in Text /\ r.ok \in BOOLEAN /\ (~r.ok => r.offset = s.offset)
              /\ \A e \in Text : Holds(s, e) =>
                    Keeps(r, e) /\ (r.ok => Holds(r, e \o data))
<1> DEFINE r == WriteBytes(s, data)
           required == s.offset + Len(data)
           room == IF required > Len(s.bytes) THEN Resized(s.bytes, required) ELSE s.bytes
<1>1. /\ Len(data) \in Nat /\ Len(s.bytes) \in Nat /\ s.offset \in Nat /\ MaxPacketSize \in Nat
      /\ required \in Nat
  BY PacketAssumption DEF StreamOK, Text
<1>2. ASSUME NEW x
      PROVE  [s EXCEPT !.ok = x].bytes = s.bytes /\ [s EXCEPT !.ok = x].offset = s.offset
                         /\ [s EXCEPT !.ok = x].ok = x
  BY DEF StreamOK
<1>3. CASE Len(data) = 0
  <2>1. r = [s EXCEPT !.ok = TRUE]
    BY <1>3, Zenon DEF WriteBytes
  <2>2. r.bytes = s.bytes /\ r.offset = s.offset /\ r.ok = TRUE
    BY <1>2, <2>1
  <2>3. data = << >>
    BY <1>3 DEF Text
  <2>4. \A e \in Text : e \o data = e
    BY <2>3, JoinLaws, TextFacts
  <2> HIDE DEF r
  <2>5. ASSUME NEW e \in Text, Holds(s, e) PROVE Keeps(r, e) /\ Holds(r, e \o data)
    BY <2>2, <2>4, <2>5 DEF Holds, Keeps, Begins
  <2> QED
    BY <2>2, <2>5 DEF r
<1>4. CASE Len(data) # 0 /\ required > MaxPacketSize
  <2>1. r = [s EXCEPT !.ok = FALSE]
    BY <1>4, Zenon DEF WriteBytes
  <2>2. r.bytes = s.bytes /\ r.offset = s.offset /\ r.ok = FALSE
    BY <1>2, <2>1
  <2> HIDE DEF r
  <2>3. ASSUME NEW e \in Text, Holds(s, e) PROVE Keeps(r, e)
    BY <2>2, <2>3 DEF Holds, Keeps, Begins
  <2> QED
    BY <2>2, <2>3 DEF r
<1>5. CASE Len(data) # 0 /\ ~(required > MaxPacketSize)
  <2>1. r = [bytes |-> Overwritten(room, s.offset, data), offset |-> required, ok |-> TRUE]
    BY <1>5, Zenon DEF WriteBytes
  <2>2. /\ room \in Text /\ required <= Len(room)
        /\ \A i \in 1 .. Len(s.bytes) : i <= Len(room) => room[i] = s.bytes[i]
    <3>1. CASE required > Len(s.bytes)
      <4>1. room = Resized(s.bytes, required)
        BY <3>1
      <4>2. /\ room \in Text /\ Len(room) = required
            /\ \A i \in 1 .. required : i <= Len(s.bytes) => room[i] = s.bytes[i]
        BY <1>1, <4>1, ResizedKeeps
      <4> HIDE DEF room
      <4> QED
        BY <1>1, <4>2
    <3>2. CASE ~(required > Len(s.bytes))
      BY <1>1, <3>2
    <3> QED
      BY <3>1, <3>2
  <2> HIDE DEF room
  <2> DEFINE over == Overwritten(room, s.offset, data)
  <2>3. /\ over \in Text /\ Len(over) = Len(room)
        /\ \A i \in 1 .. Len(room) : i <= s.offset => over[i] = room[i]
        /\ \A i \in 1 .. Len(data) : over[s.offset + i] = data[i]
    BY <1>1, <2>2, OverwrittenKeeps
  <2> HIDE DEF over, r
  <2>4. r.bytes = over /\ r.offset = required /\ r.ok = TRUE
    BY <2>1 DEF over
  <2>5. ASSUME NEW e \in Text, Holds(s, e) PROVE Keeps(r, e) /\ Holds(r, e \o data)
    <3>1. /\ Len(e) = s.offset /\ Len(e) <= Len(s.bytes) /\ \A i \in 1 .. Len(e) : s.bytes[i] = e[i]
      BY <2>5 DEF Holds, Keeps, Begins
    <3>2. \A i \in 1 .. Len(e) : over[i] = e[i]
      <4>1. \A i \in 1 .. Len(e) : /\ i \in 1 .. Len(room) /\ i \in 1 .. Len(s.bytes)
                                    /\ i <= s.offset /\ i <= Len(room)
        <5>1. Len(room) \in Nat
          BY <2>2 DEF Text
        <5> QED
          BY <1>1, <2>2, <3>1, <5>1
      <4> QED
        BY <2>2, <2>3, <3>1, <4>1
    <3>3. Keeps(r, e)
      <4>1. Len(e) <= Len(over)
        <5>1. Len(room) \in Nat
          BY <2>2 DEF Text
        <5> QED
          BY <1>1, <2>2, <2>3, <3>1, <5>1
      <4> QED
        BY <2>4, <3>2, <4>1 DEF Keeps, Begins
    <3>4. /\ Len(e \o data) = Len(e) + Len(data)
          /\ \A i \in 1 .. Len(e) : (e \o data)[i] = e[i]
          /\ \A i \in 1 .. Len(data) : (e \o data)[Len(e) + i] = data[i]
      BY JoinFacts
    <3>5. Len(e \o data) = required /\ required <= Len(over)
      BY <2>2, <2>3, <3>1, <3>4
    <3>6. ASSUME NEW i \in 1 .. required PROVE over[i] = (e \o data)[i]
      <4>1. i \in 1 .. Len(e) \/ (i - s.offset \in 1 .. Len(data) /\ i = s.offset + (i - s.offset))
        BY <1>1, <3>1
      <4>2. CASE i \in 1 .. Len(e)
        BY <3>2, <3>4, <4>2
      <4>3. CASE i - s.offset \in 1 .. Len(data) /\ i = s.offset + (i - s.offset)
        <5>1. PICK j \in 1 .. Len(data) : i = s.offset + j
          BY <4>3
        <5> QED
          BY <2>3, <3>1, <3>4, <5>1
      <4> QED
        BY <4>1, <4>2, <4>3
    <3> HIDE DEF required
    <3>7. Holds(r, e \o data)
      BY <2>4, <3>5, <3>6 DEF Holds, Keeps, Begins
    <3> QED
      BY <3>3, <3>7
  <2> QED
    BY <2>3, <2>4, <2>5 DEF r
<1> QED
  BY <1>3, <1>4, <1>5

\* The result of a write of a field's bytes: they are added, or, if the cursor
\* is where it was, nothing is.
Adds(r, s, bytes) ==
    /\ r.bytes \in Text /\ r.ok \in BOOLEAN
    /\ \A e \in Text : Holds(s, e) =>
          /\ r.ok => Holds(r, e \o bytes)
          /\ ~r.ok /\ r.offset = s.offset => Holds(r, e)

\* The same in terms of Adds, for whatever the buffer holds before
LEMMA WriteBytesAdds ==
    ASSUME NEW s, StreamOK(s), s.bytes \in Text, NEW data \in Text
    PROVE  /\ Adds(WriteBytes(s, data), s, data)
           /\ ~WriteBytes(s, data).ok => WriteBytes(s, data).offset = s.offset
<1>1. LET r == WriteBytes(s, data)
      IN /\ r.bytes \in Text /\ r.ok \in BOOLEAN /\ (~r.ok => r.offset = s.offset)
         /\ \A e \in Text : Holds(s, e) => Keeps(r, e) /\ (r.ok => Holds(r, e \o data))
  BY WriteBytesKeeps
<1>2. ASSUME NEW e \in Text, Holds(s, e), Keeps(WriteBytes(s, data), e),
             WriteBytes(s, data).offset = s.offset
      PROVE  Holds(WriteBytes(s, data), e)
  BY <1>2 DEF Holds
<1> QED
  BY <1>1, <1>2, Zenon DEF Adds

\* The length and then the characters, without the last step of WriteString
LEMMA PrefixThenText ==
    ASSUME NEW s, StreamOK(s), s.bytes \in Text, NEW str \in Text, NEW p, NEW w,
           p = WriteBytes(s, LengthBytes(Len(str))), p.ok, w = WriteBytes(p, str)
    PROVE  /\ p.bytes \in Text /\ w.bytes \in Text /\ w.ok \in BOOLEAN
           /\ w = [bytes |-> w.bytes, offset |-> w.offset, ok |-> w.ok]
           /\ \A e \in Text : Holds(s, e) =>
                 /\ Holds(p, e \o LengthBytes(Len(str)))
                 /\ w.ok => Holds(w, e \o (LengthBytes(Len(str)) \o str))
                 /\ Keeps(w, e)
<1> DEFINE prefix == LengthBytes(Len(str))
<1>1. Len(str) \in Nat /\ prefix \in Text
  BY TextFacts DEF Text
<1>2. StreamOK(p) /\ StreamOK(w)
  <2>1. IsSeq(prefix) /\ IsSeq(str)
    BY <1>1, LengthBytesSeq DEF Text, IsSeq
  <2>2. StreamOK(p)
    BY <2>1, WriteBytesOK
  <2> QED
    BY <2>1, <2>2, WriteBytesOK
<1> HIDE DEF prefix
<1>3. /\ p.bytes \in Text
      /\ \A e \in Text : Holds(s, e) => Holds(p, e \o prefix)
  BY <1>1, WriteBytesKeeps DEF prefix
<1>4. /\ w.bytes \in Text /\ w.ok \in BOOLEAN
      /\ \A e \in Text : Holds(p, e) => Keeps(w, e) /\ (w.ok => Holds(w, e \o str))
  BY <1>2, <1>3, WriteBytesKeeps
<1>5. ASSUME NEW e \in Text, Holds(s, e)
      PROVE  /\ Holds(p, e \o prefix) /\ Keeps(w, e)
             /\ w.ok => Holds(w, e \o (prefix \o str))
  <2>1. /\ e \o prefix \in Text /\ Len(e \o prefix) = Len(e) + Len(prefix)
        /\ \A i \in 1 .. Len(e) : (e \o prefix)[i] = e[i]
    BY <1>1, JoinFacts
  <2>2. Holds(p, e \o prefix)
    BY <1>3, <1>5
  <2>3. Keeps(w, e \o prefix) /\ (w.ok => Holds(w, (e \o prefix) \o str))
    BY <1>4, <2>1, <2>2
  <2>4. (e \o prefix) \o str = e \o (prefix \o str)
    BY <1>1, JoinLaws
  <2>5. Keeps(w, e)
    <3>1. Len(e) \in Nat /\ Len(prefix) \in Nat /\ Len(w.bytes) \in Nat
      BY <1>1, <1>4 DEF Text
    <3>2. /\ Len(e) <= Len(e \o prefix) /\ Len(e \o prefix) \in Nat
          /\ \A i \in 1 .. Len(e) : i \in 1 .. Len(e \o prefix)
      BY <2>1, <3>1
    <3>3. /\ Len(e \o prefix) <= Len(w.bytes)
          /\ \A i \in 1 .. Len(e \o prefix) : w.bytes[i] = (e \o prefix)[i]
      BY <2>3 DEF Keeps, Begins
    <3>4. Len(e) <= Len(w.bytes)
      BY <3>1, <3>2, <3>3
    <3>5. \A i \in 1 .. Len(e) : w.bytes[i] = e[i]
      BY <2>1, <3>2, <3>3
    <3> QED
      BY <3>4, <3>5 DEF Keeps, Begins
  <2> QED
    BY <2>2, <2>3, <2>4, <2>5
<1>6. w = [bytes |-> w.bytes, offset |-> w.offset, ok |-> w.ok]
  BY <1>2 DEF StreamOK
<1> QED
  BY <1>3, <1>4, <1>5, <1>6 DEF prefix

\* PacketWriter's WriteString rolls back to where it began when it fails.
LEMMA WriteStringAdds ==
    ASSUME NEW s, StreamOK(s), s.bytes \in Text, NEW str \in Text
    PROVE  /\ Adds(WriteString(s, str), s, LengthBytes(Len(str)) \o str)
           /\ ~WriteString(s, str).ok => WriteString(s, str).offset = s.offset
<1> DEFINE prefix == LengthBytes(Len(str))
           p == WriteBytes(s, prefix)
           w == WriteBytes(p, str)
           r == WriteString(s, str)
<1>1. prefix \in Text
  BY TextFacts DEF Text
<1>2. Adds(p, s, prefix) /\ (~p.ok => p.offset = s.offset) /\ p.ok \in BOOLEAN
  BY <1>1, WriteBytesAdds DEF Adds
<1>3. CASE ~p.ok
  <2>1. r = p
    BY <1>3, Zenon DEF WriteString
  <2> HIDE DEF p, r
  <2> QED
    BY <1>2, <1>3, <2>1 DEF Adds, r
<1>4. CASE p.ok
  <2>1. /\ p.bytes \in Text /\ w.bytes \in Text /\ w.ok \in BOOLEAN
        /\ w = [bytes |-> w.bytes, offset |-> w.offset, ok |-> w.ok]
        /\ \A e \in Text : Holds(s, e) =>
              /\ Holds(p, e \o prefix)
              /\ w.ok => Holds(w, e \o (prefix \o str))
              /\ Keeps(w, e)
    BY <1>4, PrefixThenText
  <2>2. r = IF w.ok THEN w ELSE [w EXCEPT !.offset = s.offset]
    BY <1>4, Zenon DEF WriteString
  <2> HIDE DEF p, w, r, prefix
  <2>3. CASE w.ok
    BY <2>1, <2>2, <2>3 DEF Adds, r, prefix
  <2>4. CASE ~w.ok
    <3>1. r = [bytes |-> w.bytes, offset |-> s.offset, ok |-> w.ok]
      BY <2>1, <2>2, <2>4
    <3>2. r.bytes = w.bytes /\ r.offset = s.offset /\ r.ok = w.ok
      BY <3>1
    <3>3. ASSUME NEW e \in Text, Holds(s, e) PROVE Holds(r, e)
      BY <2>1, <3>2, <3>3 DEF Holds, Keeps, Begins
    <3>4. Adds(r, s, prefix \o str)
      BY <2>1, <2>4, <3>2, <3>3 DEF Adds
    <3> QED
      BY <3>2, <3>4 DEF r, prefix
  <2> QED
    BY <2>3, <2>4
<1> QED
  BY <1>2, <1>3, <1>4

\* StringSerializer does not roll back: a failed one may leave the length.
LEMMA SerializeAdds ==
    ASSUME NEW s, StreamOK(s), s.bytes \in Text, NEW str \in Text
    PROVE  Adds(Serialize(s, str), s, LengthBytes(Len(str)) \o str)
<1> DEFINE prefix == LengthBytes(Len(str))
           p == WriteBytes(s, prefix)
           w == WriteBytes(p, str)
           r == Serialize(s, str)
<1>1. prefix \in Text /\ Len(str) \in Nat
  BY TextFacts DEF Text
<1>2. Adds(p, s, prefix) /\ (~p.ok => p.offset = s.offset) /\ p.ok \in BOOLEAN
  BY <1>1, WriteBytesAdds DEF Adds
<1>3. CASE Len(str) > MaxStringLength
  <2>1. r = [s EXCEPT !.ok = FALSE]
    BY <1>3, Zenon DEF Serialize
  <2>2. r.bytes = s.bytes /\ r.offset = s.offset /\ r.ok = FALSE
    BY <2>1 DEF StreamOK
  <2> HIDE DEF r
  <2>3. ASSUME NEW e \in Text, Holds(s, e) PROVE Holds(r, e)
    BY <2>2, <2>3 DEF Holds, Keeps, Begins
  <2>4. Adds(r, s, prefix \o str)
    BY <2>2, <2>3 DEF Adds
  <2> QED
    BY <2>4 DEF r
<1>4. CASE ~(Len(str) > MaxStringLength) /\ p.ok /\ Len(str) # 0
  <2>1. /\ w.bytes \in Text /\ w.ok \in BOOLEAN
        /\ \A e \in Text : Holds(s, e) =>
              /\ w.ok => Holds(w, e \o (prefix \o str))
              /\ Keeps(w, e)
    BY <1>4, PrefixThenText
  <2>2. r = w
    BY <1>4, Zenon DEF Serialize
  <2> HIDE DEF p, w, r, prefix
  <2>3. ASSUME NEW e \in Text, Holds(s, e), w.offset = s.offset PROVE Holds(w, e)
    BY <2>1, <2>3 DEF Holds
  <2>4. Adds(r, s, prefix \o str)
    BY <2>1, <2>2, <2>3 DEF Adds
  <2> QED
    BY <2>4 DEF r, prefix
<1>5. CASE ~(Len(str) > MaxStringLength) /\ ~(p.ok /\ Len(str) # 0)
  <2>1. r = p
    BY <1>5, Zenon DEF Serialize
  <2>2. CASE Len(str) = 0
    <3>1. str = << >>
      BY <2>2 DEF Text
    <3>2. prefix \o str = prefix
      BY <1>1, <3>1, JoinLaws
    <3> QED
      BY <1>2, <2>1, <3>2
  <2>3. CASE ~p.ok
    <3> HIDE DEF p, r, prefix
    <3>1. Adds(r, s, prefix \o str)
      BY <1>2, <2>1, <2>3 DEF Adds
    <3> QED
      BY <3>1 DEF r, prefix
  <2> QED
    BY <1>5, <2>2, <2>3
<1> QED
  BY <1>3, <1>4, <1>5

----------------------------------------------------------------------------
(* The bytes of a message                                                  *)

\* Up to the cursor the buffer holds the fields of the message.
WireInv ==
    /\ stream.bytes \in Text /\ fields \in Seq(Field) /\ torn \in BOOLEAN
    /\ ~torn => Holds(stream, Encoded(fields))

\* A write that is over
LEMMA WroteKeeps ==
    ASSUME Inv, WireInv, NEW r, NEW field \in Field, Wrote(r, field),
           Adds(r, stream, Encoding(field)),
           torn' \in BOOLEAN, torn => torn',
           ~torn' /\ ~r.ok => r.offset = stream.offset
    PROVE  WireInv'
<1>1. /\ stream' = r /\ fields \in Seq(Field) /\ r.ok \in BOOLEAN /\ r.bytes \in Text
      /\ fields' = IF r.ok THEN Append(fields, field) ELSE fields
  BY DEF Wrote, WireInv, Adds
<1>2. fields' \in Seq(Field)
  BY <1>1
<1>3. ASSUME ~torn' PROVE Holds(r, Encoded(fields'))
  <2>1. Encoded(fields) \in Text /\ Holds(stream, Encoded(fields))
    BY <1>1, <1>3, EncodedFacts DEF WireInv
  <2>2. CASE r.ok
    <3>1. fields' = Append(fields, field)
      BY <1>1, <2>2
    <3>2. Encoded(fields') = Encoded(fields) \o Encoding(field)
      BY <1>1, <3>1, EncodedFacts
    <3> QED
      BY <2>1, <2>2, <3>2 DEF Adds
  <2>3. CASE ~r.ok
    <3>1. fields' = fields
      BY <1>1, <2>3
    <3> QED
      BY <1>3, <2>1, <2>3, <3>1 DEF Adds
  <2> QED
    BY <1>1, <2>2, <2>3
<1> QED
  BY <1>1, <1>2, <1>3 DEF WireInv

\* The empty message
LEMMA WireInit == Init => WireInv
<1> SUFFICES ASSUME Init PROVE WireInv
  OBVIOUS
<1>1. stream.bytes = << >> /\ stream.offset = 0 /\ fields = << >> /\ torn = FALSE
  BY DEF Init
<1>2. << >> \in Text /\ Encoded(<< >>) = << >> /\ << >> \in Seq(Field) /\ Len(<< >>) = 0
  BY TextFacts, EncodedFacts
<1>3. Holds(stream, << >>)
  BY <1>1, <1>2 DEF Holds, Keeps, Begins
<1> QED
  BY <1>1, <1>2, <1>3 DEF WireInv

\* Every step keeps what is written, or tears the message.
LEMMA WireNext == Inv /\ WireInv /\ [Next]_vars => WireInv'
<1> SUFFICES ASSUME Inv, WireInv, [Next]_vars PROVE WireInv'
  OBVIOUS
<1>0. StreamOK(stream) /\ stream.bytes \in Text /\ torn \in BOOLEAN
  BY DEF Inv, WireInv
<1>1. ASSUME NEW data \in Blobs, PacketWriteBytes(data) PROVE WireInv'
  <2>1. data \in Text
    BY TextFacts
  <2>2. BytesField(data) \in Field /\ Encoding(BytesField(data)) = data
    BY <2>1 DEF BytesField, Field, Encoding
  <2>3. Wrote(WriteBytes(stream, data), BytesField(data)) /\ torn' = torn
    BY <1>1 DEF PacketWriteBytes
  <2>4. Adds(WriteBytes(stream, data), stream, data)
        /\ (~WriteBytes(stream, data).ok => WriteBytes(stream, data).offset = stream.offset)
    BY <1>0, <2>1, WriteBytesAdds
  <2> QED
    BY <1>0, <2>2, <2>3, <2>4, WroteKeeps
<1>2. ASSUME NEW str \in Strings
      PROVE  /\ str \in Text /\ StringField(str) \in Field
             /\ Encoding(StringField(str)) = LengthBytes(Len(str)) \o str
  <2>1. str \in Text
    BY TextFacts
  <2>2. StringField(str).kind = "string" /\ StringField(str).value = str
    BY DEF StringField
  <2>3. StringField(str) \in Field
    BY <2>1 DEF StringField, Field
  <2> QED
    BY <2>1, <2>2, <2>3 DEF Encoding
<1>3. ASSUME NEW str \in Strings, PacketWriteString(str) PROVE WireInv'
  <2>1. Wrote(WriteString(stream, str), StringField(str)) /\ torn' = torn
    BY <1>3 DEF PacketWriteString
  <2>2. Adds(WriteString(stream, str), stream, Encoding(StringField(str)))
        /\ (~WriteString(stream, str).ok => WriteString(stream, str).offset = stream.offset)
    BY <1>0, <1>2, WriteStringAdds
  <2> QED
    BY <1>0, <1>2, <2>1, <2>2, WroteKeeps
<1>4. ASSUME NEW str \in Strings, BinaryWriteString(str) PROVE WireInv'
  <2> DEFINE r == Serialize(stream, str)
  <2>1. Wrote(r, StringField(str)) /\ torn' = (torn \/ (~r.ok /\ r.offset # stream.offset))
    BY <1>4 DEF BinaryWriteString
  <2>2. Adds(r, stream, Encoding(StringField(str)))
    BY <1>0, <1>2, SerializeAdds
  <2> HIDE DEF r
  <2>3. torn' \in BOOLEAN /\ (torn => torn') /\ (~torn' /\ ~r.ok => r.offset = stream.offset)
    BY <1>0, <2>1
  <2> QED
    BY <1>2, <2>1, <2>2, <2>3, WroteKeeps
<1>5. CASE WriterReset
  <2>1. stream'.bytes = stream.bytes /\ stream'.offset = 0 /\ fields' = << >> /\ torn' = FALSE
    BY <1>0, <1>5 DEF WriterReset, StreamOK
  <2>2. /\ << >> \in Seq(Field) /\ Encoded(<< >>) = << >> /\ Len(<< >>) = 0
        /\ Len(stream.bytes) \in Nat
    BY <1>0, EncodedFacts DEF Text
  <2>3. Holds(stream', << >>)
    BY <2>1, <2>2 DEF Holds, Keeps, Begins
  <2> QED
    BY <1>0, <2>1, <2>2, <2>3 DEF WireInv
<1>6. ASSUME NEW size \in 0 .. MaxPacketSize, BufferResize(size) PROVE WireInv'
  <2>1. /\ stream'.bytes = Resized(stream.bytes, size) /\ stream'.offset = stream.offset
        /\ fields' = fields /\ torn' = (torn \/ size < stream.offset)
    BY <1>0, <1>6 DEF BufferResize, StreamOK
  <2>2. /\ stream'.bytes \in Text /\ Len(stream'.bytes) = size /\ size \in Nat
        /\ \A i \in 1 .. size : i <= Len(stream.bytes) => stream'.bytes[i] = stream.bytes[i]
    <3>1. size \in Nat /\ stream.bytes \in Text
      BY <1>0, PacketAssumption
    <3>2. /\ Resized(stream.bytes, size) \in Text /\ Len(Resized(stream.bytes, size)) = size
          /\ \A i \in 1 .. size : i <= Len(stream.bytes)
                => Resized(stream.bytes, size)[i] = stream.bytes[i]
      BY <3>1, ResizedKeeps
    <3> QED
      BY <2>1, <3>1, <3>2
  <2>3. ASSUME ~torn' PROVE Holds(stream', Encoded(fields))
    <3>1. Holds(stream, Encoded(fields)) /\ ~(size < stream.offset)
      BY <2>1, <2>3 DEF WireInv
    <3>2. /\ stream.offset = Len(Encoded(fields)) /\ stream.offset <= Len(stream.bytes)
          /\ \A i \in 1 .. stream.offset : stream.bytes[i] = Encoded(fields)[i]
      BY <3>1 DEF Holds, Keeps, Begins
    <3>3. stream.offset \in Nat /\ stream.offset <= size /\ Len(stream.bytes) \in Nat
      BY <1>0, <2>2, <3>1, PacketAssumption DEF StreamOK, Text
    <3>4. \A i \in 1 .. stream.offset : i \in 1 .. size /\ i <= Len(stream.bytes)
      BY <2>2, <3>2, <3>3
    <3>5. \A i \in 1 .. stream.offset : stream'.bytes[i] = Encoded(fields)[i]
      BY <2>2, <3>2, <3>4
    <3> QED
      BY <2>1, <2>2, <3>2, <3>3, <3>5 DEF Holds, Keeps, Begins
  <2>4. fields \in Seq(Field) /\ torn' \in BOOLEAN
    BY <1>0, <2>1 DEF WireInv
  <2> QED
    BY <2>1, <2>2, <2>3, <2>4 DEF WireInv
<1>7. CASE ReaderNext \/ UNCHANGED vars
  <2>1. UNCHANGED <<stream, fields, torn>>
    BY <1>7 DEF ReaderNext, OpenReader, PacketReadBytes, BinaryReadBytes, PacketReadString,
       BinaryReadString, CloseReader, Read, vars
  <2> QED
    BY <2>1 DEF WireInv, Holds, Keeps, Begins
<1> QED
  BY <1>1, <1>3, <1>4, <1>5, <1>6, <1>7 DEF Next, WriterNext

(* The bytes up to the writer's cursor are those of the fields written with *)
(* success, whichever write failed half-way and however the buffer was      *)
(* resized, unless the message was torn.                                    *)
THEOREM WireInvariant == Spec => []WireInv
<1> QED
  BY WireInit, WireNext, PacketBounds, PTL DEF Spec

(* "PacketWriter advances write position only after successful write": what *)
(* lies before the cursor is the encoding of the message, within the size   *)
(* limit, for every packet size, prefix size and set of values.             *)
THEOREM WireHoldsMessage == Spec => []WireFormat
<1>1. Inv /\ WireInv => WireFormat
  <2> SUFFICES ASSUME Inv, WireInv PROVE WireFormat
    OBVIOUS
  <2>1. Len(stream.bytes) <= MaxPacketSize
    BY DEF Inv, StreamOK
  <2>2. ASSUME ~torn PROVE SubSeq(stream.bytes, 1, stream.offset) = Encoded(fields)
    <3> DEFINE e == Encoded(fields)
               b == stream.bytes
    <3>1. /\ e \in Text /\ b \in Text /\ stream.offset = Len(e) /\ Len(e) <= Len(b)
          /\ \A i \in 1 .. Len(e) : b[i] = e[i]
      BY <2>2, EncodedFacts DEF WireInv, Holds, Keeps, Begins
    <3> HIDE DEF e, b
    <3>2. SubSeq(b, 1, Len(e)) = e
      <4>1. Len(e) \in Nat /\ Len(b) \in Nat
        BY <3>1 DEF Text
      <4>2. SubSeq(b, 1, Len(e)) = [i \in 1 .. Len(e) |-> b[i]]
        BY <3>1, <4>1 DEF Text
      <4>3. e = [i \in 1 .. Len(e) |-> e[i]]
        BY <3>1 DEF Text
      <4> QED
        BY <3>1, <4>2, <4>3
    <3> QED
      BY <3>1, <3>2 DEF e, b
  <2> QED
    BY <2>1, <2>2 DEF WireFormat
<1> QED
  BY <1>1, WireInvariant, PacketBounds, PTL

----------------------------------------------------------------------------
(* What a length says                                                      *)

\* Two lengths with the same bytes are the same: from the highest byte to the
\* lowest, the quotients that the bytes are digits of are equal.
LEMMA LengthBytesInjective ==
    ASSUME NEW n \in 0 .. LengthModulus - 1, NEW m \in 0 .. LengthModulus - 1,
           LengthBytes(n) = LengthBytes(m)
    PROVE  n = m
<1> DEFINE Q(x, k) == x \div Weight[k]
           T == {j \in 0 .. PrefixSize : Q(n, PrefixSize - j) = Q(m, PrefixSize - j)}
<1>1. /\ PrefixSize \in Nat /\ ByteBase \in Nat \ {0} /\ n \in Nat /\ m \in Nat
      /\ LengthModulus \in Nat \ {0} /\ n < LengthModulus /\ m < LengthModulus
  <2>1. PrefixSize \in Nat /\ ByteBase \in Nat \ {0}
    BY PacketAssumption
  <2>2. LengthModulus \in Nat \ {0}
    BY <2>1, WeightFacts DEF LengthModulus
  <2> QED
    BY <2>1, <2>2
<1>2. \A x \in Nat : x < LengthModulus => Q(x, PrefixSize) = 0
  <2> SUFFICES ASSUME NEW x \in Nat, x < LengthModulus PROVE x \div LengthModulus = 0
    BY DEF LengthModulus
  <2>1. x = LengthModulus * 0 + x
    BY <1>1
  <2> QED
    BY <1>1, <2>1, DivUnique
<1>3. ASSUME NEW x \in Nat, NEW k \in 1 .. PrefixSize
      PROVE  Q(x, k - 1) = ByteBase * Q(x, k) + LengthBytes(x)[k]
  <2>1. k - 1 \in 0 .. PrefixSize /\ k \in 0 .. PrefixSize
    BY <1>1
  <2>2. Weight[k - 1] \in Nat \ {0} /\ Weight[k] = ByteBase * Weight[k - 1]
    BY <2>1, WeightFacts
  <2> DEFINE w == Weight[k - 1]
             q == x \div w
  <2>3. LengthBytes(x)[k] = q % ByteBase
    BY Zenon DEF LengthBytes
  <2>4. Q(x, k) = q \div ByteBase
    BY <1>1, <2>2, DivTwice
  <2>5. q \in Nat
    BY <2>2, DivFacts
  <2> HIDE DEF w, q
  <2>6. q = ByteBase * (q \div ByteBase) + (q % ByteBase)
    BY <1>1, <2>5, DivFacts
  <2> QED
    BY <2>3, <2>4, <2>6, Zenon DEF w, q
<1> HIDE DEF Q
<1>4. T = 0 .. PrefixSize
  <2>1. 0 \in T /\ T \in SUBSET (0 .. PrefixSize)
    BY <1>1, <1>2
  <2>2. ASSUME NEW j \in 1 .. PrefixSize, j - 1 \in T PROVE j \in T
    <3> DEFINE k == PrefixSize - (j - 1)
    <3>1. k \in 1 .. PrefixSize /\ k - 1 = PrefixSize - j /\ j \in 0 .. PrefixSize
      BY <1>1
    <3>2. Q(n, k) = Q(m, k)
      BY <2>2
    <3> HIDE DEF k
    <3>3. Q(n, k - 1) = Q(m, k - 1)
      <4>1. Q(n, k - 1) = ByteBase * Q(n, k) + LengthBytes(n)[k]
        BY <1>1, <1>3, <3>1
      <4>2. Q(m, k - 1) = ByteBase * Q(m, k) + LengthBytes(m)[k]
        BY <1>1, <1>3, <3>1
      <4> QED
        BY <3>2, <4>1, <4>2, Zenon
    <3> QED
      BY <3>1, <3>3
  <2> HIDE DEF T
  <2> QED
    BY <1>1, <2>1, <2>2, Induction
<1>5. Q(n, 0) = Q(m, 0)
  <2>1. PrefixSize \in 0 .. PrefixSize /\ PrefixSize - PrefixSize = 0
    BY <1>1
  <2> QED
    BY <1>4, <2>1
<1>6. \A x \in Nat : Q(x, 0) = x
  BY WeightFacts, DivUnique DEF Q
<1> QED
  BY <1>1, <1>5, <1>6

\* LengthOf reads what was written.
LEMMA LengthOfWritten ==
    ASSUME NEW n \in 0 .. LengthModulus - 1
    PROVE  LengthOf(LengthBytes(n)) = n
<1> DEFINE bytes == LengthBytes(n)
           said == {x \in 0 .. LengthModulus - 1 : LengthBytes(x) = bytes}
<1>1. n \in said
  OBVIOUS
<1>2. \E x \in 0 .. LengthModulus - 1 : said # {} => x \in said
  BY <1>1
<1>3. LengthOf(bytes) \in 0 .. LengthModulus - 1 /\ (said # {} => LengthOf(bytes) \in said)
  BY <1>2, Zenon DEF LengthOf
<1>4. LengthOf(bytes) \in 0 .. LengthModulus - 1 /\ LengthBytes(LengthOf(bytes)) = LengthBytes(n)
  BY <1>1, <1>3, Zenon
<1> QED
  BY <1>4, LengthBytesInjective

----------------------------------------------------------------------------
(* What a reader finds                                                     *)

\* A message's first fields are where the encoding begins, ...
FirstFields(message, k) == Encoded(SubSeq(message, 1, k))

\* They grow field by field, from nothing to the message.
LEMMA FirstFacts ==
    ASSUME NEW message \in Seq(Field)
    PROVE  /\ FirstFields(message, 0) = << >>
           /\ FirstFields(message, Len(message)) = Encoded(message)
           /\ \A k \in 0 .. Len(message) : FirstFields(message, k) \in Text
           /\ \A k \in 1 .. Len(message) :
                /\ message[k] \in Field
                /\ FirstFields(message, k)
                     = FirstFields(message, k - 1) \o Encoding(message[k])
<1>0. Len(message) \in Nat /\ message = [i \in 1 .. Len(message) |-> message[i]]
      /\ \A i \in 1 .. Len(message) : message[i] \in Field
  BY ElementsOf
<1>1. SubSeq(message, 1, 0) = << >> /\ SubSeq(message, 1, Len(message)) = message
  OBVIOUS
<1>2. \A k \in 0 .. Len(message) : SubSeq(message, 1, k) \in Seq(Field)
  OBVIOUS
<1>3. ASSUME NEW k \in 1 .. Len(message)
      PROVE  SubSeq(message, 1, k) = Append(SubSeq(message, 1, k - 1), message[k])
  OBVIOUS
<1>4. ASSUME NEW k \in 1 .. Len(message)
      PROVE  FirstFields(message, k) = FirstFields(message, k - 1) \o Encoding(message[k])
  <2>1. k - 1 \in 0 .. Len(message) /\ message[k] \in Field
    BY <1>0
  <2> QED
    BY <1>2, <1>3, <2>1, EncodedFacts DEF FirstFields
<1>5. \A k \in 0 .. Len(message) : FirstFields(message, k) \in Text
  BY <1>2, EncodedFacts DEF FirstFields
<1> QED
  BY <1>0, <1>1, <1>4, <1>5, EncodedFacts DEF FirstFields

\* What follows them does not change them: by induction on what follows.
LEMMA BeginsWithFirst ==
    ASSUME NEW message \in Seq(Field), NEW k \in 0 .. Len(message)
    PROVE  Begins(Encoded(message), FirstFields(message, k))
<1> DEFINE F(j) == FirstFields(message, j)
           n == Len(message) - k
           T == {j \in 0 .. n : Begins(F(k + j), F(k))}
<1>0. n \in Nat /\ k \in Nat /\ k + n = Len(message) /\ Len(message) \in Nat
  OBVIOUS
<1>1. \A j \in 0 .. Len(message) : F(j) \in Text /\ Len(F(j)) \in Nat
  BY FirstFacts DEF Text
<1> HIDE DEF n
<1>2. 0 \in T /\ T \in SUBSET (0 .. n)
  <2>1. k + 0 = k /\ 0 \in 0 .. n
    BY <1>0
  <2>2. Begins(F(k), F(k))
    BY <1>1 DEF Begins
  <2> QED
    BY <2>1, <2>2
<1>3. ASSUME NEW j \in 1 .. n, j - 1 \in T PROVE j \in T
  <2>1. /\ k + j \in 1 .. Len(message) /\ (k + j) - 1 = k + (j - 1)
        /\ (k + j) - 1 \in 0 .. Len(message) /\ k + j \in 0 .. Len(message) /\ j \in 0 .. n
    BY <1>0
  <2> DEFINE e == F(k)
             t == F((k + j) - 1)
             m == Encoding(message[k + j])
  <2>2. Begins(t, e)
    BY <1>3, <2>1
  <2>3. t \in Text /\ e \in Text /\ m \in Text /\ F(k + j) = t \o m
    BY <1>1, <2>1, FirstFacts, EncodingFacts
  <2> HIDE DEF e, t, m, F
  <2>4. Begins(t \o m, e)
    <3>1. /\ Len(t \o m) = Len(t) + Len(m) /\ \A i \in 1 .. Len(t) : (t \o m)[i] = t[i]
          /\ Len(t) \in Nat /\ Len(m) \in Nat /\ Len(e) \in Nat
      BY <2>3, JoinFacts DEF Text
    <3> QED
      BY <2>2, <3>1 DEF Begins
  <2>5. Begins(F(k + j), F(k))
    BY <2>3, <2>4 DEF e
  <2> QED
    BY <2>1, <2>5
<1>4. T = 0 .. n
  <2> HIDE DEF T
  <2> QED
    BY <1>0, <1>2, <1>3, Induction
<1>5. n \in 0 .. n
  BY <1>0
<1>6. Begins(F(Len(message)), F(k))
  BY <1>0, <1>4, <1>5
<1> QED
  BY <1>6, FirstFacts

\* ... and the next field is behind them.
LEMMA NextField ==
    ASSUME NEW message \in Seq(Field), NEW k \in 1 .. Len(message), NEW view \in Text,
           Begins(view, Encoded(message)),
           NEW place, place = Len(FirstFields(message, k - 1))
    PROVE  /\ message[k] \in Field /\ Encoding(message[k]) \in Text /\ place \in Nat
           /\ Len(FirstFields(message, k)) = place + Len(Encoding(message[k]))
           /\ place + Len(Encoding(message[k])) <= Len(view)
           /\ place + Len(Encoding(message[k])) <= Len(Encoded(message))
           /\ \A i \in 1 .. Len(Encoding(message[k])) :
                 view[place + i] = Encoding(message[k])[i]
<1> DEFINE t == FirstFields(message, k - 1)
           m == Encoding(message[k])
           f == FirstFields(message, k)
           w == Encoded(message)
<1>1. k - 1 \in 0 .. Len(message) /\ k \in 0 .. Len(message)
  OBVIOUS
<1>2. message[k] \in Field /\ m \in Text
  BY FirstFacts, EncodingFacts
<1>3. t \in Text /\ f \in Text /\ f = t \o m /\ w \in Text
  BY <1>1, FirstFacts, EncodedFacts
<1>4. Begins(w, f)
  BY <1>1, BeginsWithFirst
<1>5. place = Len(t)
  OBVIOUS
<1>6. Begins(view, w)
  OBVIOUS
<1> HIDE DEF t, m, f, w
<1>7. /\ Len(f) = Len(t) + Len(m) /\ \A i \in 1 .. Len(m) : f[Len(t) + i] = m[i]
  BY <1>2, <1>3, JoinFacts
<1>8. Len(t) \in Nat /\ Len(m) \in Nat /\ Len(w) \in Nat /\ Len(view) \in Nat
  BY <1>2, <1>3 DEF Text
<1>9. ASSUME NEW i \in 1 .. Len(m) PROVE view[place + i] = m[i]
  <2>1. place + i \in 1 .. Len(f) /\ place + i \in 1 .. Len(w)
    BY <1>4, <1>5, <1>7, <1>8 DEF Begins
  <2> QED
    BY <1>4, <1>5, <1>6, <1>7, <2>1 DEF Begins
<1>10. place + Len(m) <= Len(w) /\ place + Len(m) <= Len(view) /\ place \in Nat
  BY <1>4, <1>5, <1>6, <1>7, <1>8 DEF Begins
<1>11. Len(f) = place + Len(m)
  BY <1>5, <1>7
<1> QED
  BY <1>2, <1>9, <1>10, <1>11 DEF m, f, w

\* A part of the view
LEMMA Slice ==
    ASSUME NEW view \in Text, NEW place \in Nat, NEW e \in Text,
           place + Len(e) <= Len(view), \A i \in 1 .. Len(e) : view[place + i] = e[i]
    PROVE  SubSeq(view, place + 1, place + Len(e)) = e
<1>1. Len(e) \in Nat /\ Len(view) \in Nat /\ e = [i \in 1 .. Len(e) |-> e[i]]
  BY DEF Text
<1>2. SubSeq(view, place + 1, place + Len(e)) = [i \in 1 .. Len(e) |-> view[place + i]]
  BY <1>1 DEF Text
<1> QED
  BY <1>1, <1>2

----------------------------------------------------------------------------
(* Reads that succeed.                                                     *)

\* The reader after it was given a value of that many bytes
Given(q, r, size, value) ==
    /\ q.open = r.open /\ q.view = r.view /\ q.next = r.next
    /\ q.place = r.place + size /\ q.ok = TRUE /\ q.value = value

\* A value is handed out and the cursor is behind it.
LEMMA TakenGives ==
    ASSUME NEW r, ReaderOK(r), NEW size \in Nat, NEW value
    PROVE  Given([Advanced(r, size) EXCEPT !.value = value], r, size, value)
  BY DEF Given, Advanced, ReaderOK

\* Only the cursor moves.
LEMMA AdvancedGives ==
    ASSUME NEW r, ReaderOK(r), NEW size \in Nat
    PROVE  Given(Advanced(r, size), r, size, r.value)
  BY DEF Given, Advanced, ReaderOK

\* BinaryReader's read of nothing
LEMMA NothingGives ==
    ASSUME NEW r, ReaderOK(r)
    PROVE  /\ ReaderOK([r EXCEPT !.ok = TRUE, !.value = << >>])
           /\ Given([r EXCEPT !.ok = TRUE, !.value = << >>], r, 0, << >>)
<1> DEFINE none == [r EXCEPT !.ok = TRUE, !.value = << >>]
<1>1. PICK o, w, p, v, k, n, a : r = Reader(o, w, p, v, k, n, a)
  BY Zenon DEF ReaderOK, Reader
<1>2. none = Reader(o, w, p, << >>, TRUE, n, a)
  <2>1. \A x : [r EXCEPT !.ok = x] = Reader(o, w, p, v, x, n, a)
    BY <1>1 DEF Reader
  <2>2. \A x, y : [Reader(o, w, p, v, x, n, a) EXCEPT !.value = y] = Reader(o, w, p, y, x, n, a)
    BY DEF Reader
  <2>3. none = [[r EXCEPT !.ok = TRUE] EXCEPT !.value = << >>]
    BY Zenon
  <2> QED
    BY <2>1, <2>2, <2>3, Zenon
<1>3. Len(w) \in Nat /\ p \in 0 .. Len(w) /\ p + 0 = p
  BY <1>1 DEF ReaderOK, Reader
<1> HIDE DEF none
<1>4. ReaderOK(none)
  BY <1>2, <1>3 DEF ReaderOK, Reader
<1>5. Given(none, r, 0, << >>)
  BY <1>1, <1>2, <1>3 DEF Given, Reader
<1> QED
  BY <1>4, <1>5 DEF none

\* ReadBytes of bytes that lie ahead hands them out.
LEMMA ReadBytesGives ==
    ASSUME NEW r, ReaderOK(r), r.view \in Text, NEW e \in Text, e # << >>,
           r.place + Len(e) <= Len(r.view),
           \A i \in 1 .. Len(e) : r.view[r.place + i] = e[i]
    PROVE  Given(ReadBytes(r, Len(e)), r, Len(e), e)
<1>1. Len(e) \in Nat \ {0} /\ r.place \in Nat /\ Len(r.view) \in Nat
  BY DEF ReaderOK, Text
<1>2. ~(Len(e) = 0 \/ Len(e) > Remaining(r))
  BY <1>1 DEF Remaining
<1>3. Ahead(r, Len(e)) = e
  BY <1>1, Slice DEF Ahead
<1>4. ReadBytes(r, Len(e)) = [Advanced(r, Len(e)) EXCEPT !.value = e]
  BY <1>2, <1>3, Zenon DEF ReadBytes
<1> QED
  BY <1>1, <1>4, TakenGives

\* Both layers' strings: the length is believed where it was written.
LEMMA StringGives ==
    ASSUME NEW r, ReaderOK(r), r.view \in Text, NEW str \in Text,
           Len(str) <= MaxPacketSize,
           NEW e, e = LengthBytes(Len(str)) \o str,
           r.place + Len(e) <= Len(r.view),
           \A i \in 1 .. Len(e) : r.view[r.place + i] = e[i]
    PROVE  Given(ReadString(r), r, Len(e), str) /\ Given(Deserialize(r), r, Len(e), str)
<1> DEFINE prefix == LengthBytes(Len(str))
           body == Advanced(r, PrefixSize)
           got == [Advanced(body, Len(str)) EXCEPT !.value = Ahead(body, Len(str))]
<1>1. Len(str) \in Nat /\ r.place \in Nat /\ Len(r.view) \in Nat /\ PrefixSize \in Nat
  BY PacketAssumption DEF ReaderOK, Text
<1>2. Len(str) \in 0 .. LengthModulus - 1 /\ ~(Len(str) > MaxStringLength)
  <2>1. LengthModulus \in Nat
    BY <1>1, WeightFacts DEF LengthModulus
  <2> QED
    BY <1>1, <2>1, PacketAssumption, LimitsAssumption
<1>3. prefix \in Text /\ Len(prefix) = PrefixSize
  BY <1>1, TextFacts, LengthBytesSeq
<1>4. LengthOf(prefix) = Len(str)
  BY <1>2, LengthOfWritten
<1> HIDE DEF prefix
<1>5. /\ Len(e) = PrefixSize + Len(str)
      /\ \A i \in 1 .. PrefixSize : e[i] = prefix[i]
      /\ \A i \in 1 .. Len(str) : e[PrefixSize + i] = str[i]
  BY <1>3, JoinFacts DEF prefix
<1>6. Ahead(r, PrefixSize) = prefix
  <2>1. \A i \in 1 .. PrefixSize : r.view[r.place + i] = prefix[i]
    BY <1>1, <1>5
  <2>2. r.place + Len(prefix) <= Len(r.view)
    BY <1>1, <1>3, <1>5
  <2>3. SubSeq(r.view, r.place + 1, r.place + Len(prefix)) = prefix
    BY <1>1, <1>3, <2>1, <2>2, Slice
  <2> QED
    BY <1>3, <2>3 DEF Ahead
<1>7. PrefixSize <= Remaining(r) /\ ~(PrefixSize > Remaining(r))
  BY <1>1, <1>5 DEF Remaining
<1>8. ReaderOK(body) /\ Given(body, r, PrefixSize, r.value)
  BY <1>1, <1>7, ReaderUpdate, AdvancedGives
<1> HIDE DEF body
<1>9. body.view = r.view /\ body.place = r.place + PrefixSize
  BY <1>8 DEF Given
<1>10. ~(Len(str) > Remaining(body))
  BY <1>1, <1>5, <1>9 DEF Remaining
<1>11. Ahead(body, Len(str)) = str
  <2>1. \A i \in 1 .. Len(str) : r.view[(r.place + PrefixSize) + i] = str[i]
    <3> SUFFICES ASSUME NEW i \in 1 .. Len(str)
                 PROVE  r.view[(r.place + PrefixSize) + i] = str[i]
      OBVIOUS
    <3>1. PrefixSize + i \in 1 .. Len(e) /\ (r.place + PrefixSize) + i = r.place + (PrefixSize + i)
      BY <1>1, <1>5
    <3> QED
      BY <1>5, <3>1
  <2>2. (r.place + PrefixSize) + Len(str) <= Len(r.view) /\ r.place + PrefixSize \in Nat
    BY <1>1, <1>5
  <2>3. SubSeq(r.view, (r.place + PrefixSize) + 1, (r.place + PrefixSize) + Len(str)) = str
    BY <2>1, <2>2, Slice
  <2> QED
    BY <1>9, <2>3 DEF Ahead
<1>12. ReadString(r) = got /\ Deserialize(r) = got
  BY <1>2, <1>4, <1>6, <1>7, <1>10, Zenon DEF ReadString, Deserialize, body
<1>13. Given(got, body, Len(str), str)
  BY <1>1, <1>8, <1>11, TakenGives
<1> HIDE DEF got
<1>14. Given(got, r, Len(e), str)
  BY <1>1, <1>5, <1>8, <1>13 DEF Given
<1> QED
  BY <1>12, <1>14

----------------------------------------------------------------------------
(* A reader that asks for the fields in the order they were written        *)

\* The view begins with the message, the reader stands behind the fields it
\* asked for, and the last of them is what it was given.
RoundInv ==
    reader.aligned =>
        /\ reader.open /\ reader.view \in Text
        /\ reader.next \in 0 .. Len(fields)
        /\ Begins(reader.view, Encoded(fields)) /\ Len(Encoded(fields)) <= MaxPacketSize
        /\ reader.place = Len(FirstFields(fields, reader.next))
        /\ reader.next > 0 => reader.ok /\ reader.value = fields[reader.next].value

\* A read that gave the next field
LEMMA GivenKeeps ==
    ASSUME Inv, WireInv, RoundInv, reader.aligned, reader.next < Len(fields),
           NEW result, ReaderOK(result), NEW expected, Read(result, expected),
           Given(result, reader, Len(Encoding(fields[reader.next + 1])),
                 fields[reader.next + 1].value)
    PROVE  RoundInv'
<1>1. /\ reader.open /\ reader.view \in Text
      /\ reader.next \in 0 .. Len(fields) /\ Len(fields) \in Nat /\ fields \in Seq(Field)
      /\ Begins(reader.view, Encoded(fields)) /\ Len(Encoded(fields)) <= MaxPacketSize
      /\ reader.place = Len(FirstFields(fields, reader.next))
  BY DEF RoundInv, WireInv
<1> DEFINE k == reader.next + 1
<1>2. k \in 1 .. Len(fields) /\ k - 1 = reader.next /\ k \in 0 .. Len(fields)
  BY <1>1
<1>3. Len(FirstFields(fields, k)) = reader.place + Len(Encoding(fields[k]))
  <2>1. reader.place = Len(FirstFields(fields, k - 1))
    BY <1>1, <1>2, Zenon
  <2> HIDE DEF k
  <2> QED
    BY <1>1, <1>2, <2>1, NextField
<1>4. /\ result.open = reader.open /\ result.view = reader.view /\ result.next = reader.next
      /\ result.place = Len(FirstFields(fields, k)) /\ result.ok = TRUE
      /\ result.value = fields[k].value
  BY <1>3 DEF Given
<1>5. /\ reader'.open = result.open /\ reader'.view = result.view
      /\ reader'.place = result.place /\ reader'.ok = result.ok
      /\ reader'.value = result.value /\ reader'.aligned = expected
      /\ (expected => reader'.next = result.next + 1)
  BY DEF Read, ReaderOK
<1>6. fields' = fields
  BY DEF Read
<1> QED
  BY <1>1, <1>2, <1>4, <1>5, <1>6 DEF RoundInv

\* A read that asked for something else ends the claim.
LEMMA UnexpectedKeeps ==
    ASSUME NEW result, ReaderOK(result), NEW expected, Read(result, expected), ~expected
    PROVE  RoundInv'
<1>1. reader'.aligned = expected
  BY DEF Read, ReaderOK
<1> QED
  BY <1>1 DEF RoundInv

\* What the reader finds when it asks for the next field
LEMMA AskedFor ==
    ASSUME Inv, WireInv, RoundInv, NEW kind, NEW size, Asks(kind, size),
           NEW field, field = fields[reader.next + 1]
    PROVE  /\ reader.aligned /\ reader.next < Len(fields) /\ reader.view \in Text
           /\ field \in Field /\ field.kind = kind /\ (kind = "bytes" => Len(field.value) = size)
           /\ Len(Encoding(field)) <= MaxPacketSize /\ Encoding(field) \in Text
           /\ reader.place + Len(Encoding(field)) <= Len(reader.view)
           /\ \A i \in 1 .. Len(Encoding(field)) :
                 reader.view[reader.place + i] = Encoding(field)[i]
<1>1. /\ reader.aligned /\ reader.next < Len(fields) /\ field.kind = kind
      /\ (kind = "bytes" => Len(field.value) = size)
  BY DEF Asks
<1>2. /\ reader.view \in Text /\ reader.next \in 0 .. Len(fields) /\ Len(fields) \in Nat
      /\ fields \in Seq(Field) /\ Begins(reader.view, Encoded(fields))
      /\ Len(Encoded(fields)) <= MaxPacketSize /\ Len(Encoded(fields)) \in Nat
      /\ reader.place = Len(FirstFields(fields, reader.next))
  BY <1>1, EncodedFacts DEF RoundInv, WireInv, Text
<1> DEFINE k == reader.next + 1
<1>3. k \in 1 .. Len(fields) /\ k - 1 = reader.next
  BY <1>1, <1>2
<1>4. /\ fields[k] \in Field /\ Encoding(fields[k]) \in Text /\ reader.place \in Nat
      /\ reader.place + Len(Encoding(fields[k])) <= Len(reader.view)
      /\ reader.place + Len(Encoding(fields[k])) <= Len(Encoded(fields))
      /\ \A i \in 1 .. Len(Encoding(fields[k])) :
            reader.view[reader.place + i] = Encoding(fields[k])[i]
  <2>1. reader.place = Len(FirstFields(fields, k - 1))
    BY <1>2, <1>3, Zenon
  <2> DEFINE view == reader.view
             place == reader.place
  <2>2. view \in Text /\ Begins(view, Encoded(fields)) /\ place = Len(FirstFields(fields, k - 1))
    BY <1>2, <2>1
  <2>3. fields \in Seq(Field) /\ k \in 1 .. Len(fields)
    BY <1>2, <1>3
  <2> HIDE DEF k, view, place
  <2>4. /\ fields[k] \in Field /\ Encoding(fields[k]) \in Text /\ place \in Nat
        /\ place + Len(Encoding(fields[k])) <= Len(view)
        /\ place + Len(Encoding(fields[k])) <= Len(Encoded(fields))
        /\ \A i \in 1 .. Len(Encoding(fields[k])) : view[place + i] = Encoding(fields[k])[i]
    BY <2>2, <2>3, NextField, SMTT(30)
  <2> QED
    BY <2>4 DEF view, place
<1>5. Len(Encoding(field)) \in Nat
  BY <1>4 DEF Text
<1>6. Len(Encoding(field)) <= MaxPacketSize
  <2>1. MaxPacketSize \in Nat
    BY PacketAssumption
  <2> QED
    BY <1>2, <1>4, <1>5, <2>1
<1> QED
  BY <1>1, <1>2, <1>4, <1>6

\* Reads of bytes, in both layers
LEMMA BytesKeep ==
    ASSUME Inv, WireInv, RoundInv, NEW size \in Nat,
           PacketReadBytes(size) \/ BinaryReadBytes(size)
    PROVE  RoundInv'
<1> DEFINE field == fields[reader.next + 1]
           none == [reader EXCEPT !.ok = TRUE, !.value = << >>]
<1>1. ReaderOK(reader) /\ ReaderOK(ReadBytes(reader, size))
  BY ReadBytesOK DEF Inv
<1>2. ReaderOK(none) /\ Given(none, reader, 0, << >>)
  BY <1>1, NothingGives
<1>3. ASSUME Asks("bytes", size)
      PROVE  /\ reader.aligned /\ reader.next < Len(fields)
             /\ field.value \in Text /\ Len(field.value) = size
             /\ Encoding(field) = field.value
             /\ size # 0 =>
                  Given(ReadBytes(reader, size), reader, Len(Encoding(field)), field.value)
  <2> HIDE DEF field
  <2>0. field = fields[reader.next + 1]
    BY DEF field
  <2>1. /\ reader.aligned /\ reader.next < Len(fields) /\ reader.view \in Text
        /\ field \in Field /\ field.kind = "bytes" /\ Len(field.value) = size
        /\ reader.place + Len(Encoding(field)) <= Len(reader.view)
        /\ \A i \in 1 .. Len(Encoding(field)) :
              reader.view[reader.place + i] = Encoding(field)[i]
    BY <1>3, <2>0, AskedFor
  <2>2. field.value \in Text /\ Encoding(field) = field.value
    BY <2>1 DEF Field, Encoding
  <2> DEFINE e == field.value
  <2>3. ASSUME size # 0 PROVE Given(ReadBytes(reader, Len(e)), reader, Len(e), e)
    <3>1. e # << >> /\ e \in Text
      BY <2>1, <2>2, <2>3
    <3>2. /\ reader.place + Len(e) <= Len(reader.view)
          /\ \A i \in 1 .. Len(e) : reader.view[reader.place + i] = e[i]
      BY <2>1, <2>2
    <3> HIDE DEF e
    <3> QED
      BY <1>1, <2>1, <3>1, <3>2, ReadBytesGives
  <2> QED
    BY <2>1, <2>2, <2>3
<1> HIDE DEF none
<1>4. CASE PacketReadBytes(size)
  <2>1. Read(ReadBytes(reader, size), size # 0 /\ Asks("bytes", size))
    BY <1>4 DEF PacketReadBytes
  <2>2. CASE size # 0 /\ Asks("bytes", size)
    BY <1>1, <1>3, <2>1, <2>2, GivenKeeps
  <2>3. CASE ~(size # 0 /\ Asks("bytes", size))
    BY <1>1, <2>1, <2>3, UnexpectedKeeps
  <2> QED
    BY <2>2, <2>3
<1>5. CASE BinaryReadBytes(size) /\ size # 0
  <2>1. Read(ReadBytes(reader, size), Asks("bytes", size))
    BY <1>5 DEF BinaryReadBytes
  <2>2. CASE Asks("bytes", size)
    BY <1>1, <1>3, <1>5, <2>1, <2>2, GivenKeeps
  <2>3. CASE ~Asks("bytes", size)
    BY <1>1, <2>1, <2>3, UnexpectedKeeps
  <2> QED
    BY <2>2, <2>3
<1>6. CASE BinaryReadBytes(size) /\ size = 0
  <2>1. Read(none, Asks("bytes", size))
    BY <1>6, Zenon DEF BinaryReadBytes, none
  <2>2. CASE Asks("bytes", size)
    <3>1. field.value = << >> /\ Len(Encoding(field)) = 0
      BY <1>3, <1>6, <2>2 DEF Text
    <3>2. Given(none, reader, Len(Encoding(field)), field.value)
      BY <1>2, <3>1
    <3> QED
      BY <1>2, <1>3, <2>1, <2>2, <3>2, GivenKeeps
  <2>3. CASE ~Asks("bytes", size)
    BY <1>2, <2>1, <2>3, UnexpectedKeeps
  <2> QED
    BY <2>2, <2>3
<1> QED
  BY <1>4, <1>5, <1>6

\* Reads of strings, in both layers
LEMMA StringsKeep ==
    ASSUME Inv, WireInv, RoundInv, PacketReadString \/ BinaryReadString
    PROVE  RoundInv'
<1> DEFINE field == fields[reader.next + 1]
<1>1. ReaderOK(reader) /\ ReaderOK(ReadString(reader)) /\ ReaderOK(Deserialize(reader))
  BY ReadStringOK, DeserializeOK DEF Inv
<1>2. Read(ReadString(reader), Asks("string", 0)) \/ Read(Deserialize(reader), Asks("string", 0))
  BY DEF PacketReadString, BinaryReadString
<1>3. CASE Asks("string", 0)
  <2> HIDE DEF field
  <2>0. field = fields[reader.next + 1]
    BY DEF field
  <2>1. /\ reader.aligned /\ reader.next < Len(fields) /\ reader.view \in Text
        /\ field \in Field /\ field.kind = "string"
        /\ Len(Encoding(field)) <= MaxPacketSize /\ Encoding(field) \in Text
        /\ reader.place + Len(Encoding(field)) <= Len(reader.view)
        /\ \A i \in 1 .. Len(Encoding(field)) :
              reader.view[reader.place + i] = Encoding(field)[i]
    BY <1>3, <2>0, AskedFor
  <2> DEFINE str == field.value
             e == Encoding(field)
  <2>2. str \in Text /\ e = LengthBytes(Len(str)) \o str
    BY <2>1 DEF Field, Encoding
  <2>3. Len(str) <= MaxPacketSize
    <3>0. Len(str) \in Nat
      BY <2>2 DEF Text
    <3>1. Len(str) \in Nat /\ LengthBytes(Len(str)) \in Text /\ PrefixSize \in Nat
          /\ MaxPacketSize \in Nat
      BY <3>0, TextFacts, PacketAssumption, Zenon
    <3>2. Len(e) = PrefixSize + Len(str)
      <4> DEFINE prefix == LengthBytes(Len(str))
      <4>1. prefix \in Text /\ Len(prefix) = PrefixSize /\ e = prefix \o str
        BY <2>2, <3>1, LengthBytesSeq
      <4> HIDE DEF prefix, e, str
      <4> QED
        BY <2>2, <4>1, JoinFacts
    <3> QED
      BY <2>1, <3>1, <3>2
  <2>4. Given(ReadString(reader), reader, Len(e), str)
        /\ Given(Deserialize(reader), reader, Len(e), str)
    <3>1. /\ reader.place + Len(e) <= Len(reader.view)
          /\ \A i \in 1 .. Len(e) : reader.view[reader.place + i] = e[i]
      BY <2>1
    <3> HIDE DEF str, e
    <3> QED
      BY <1>1, <2>1, <2>2, <2>3, <3>1, StringGives
  <2> QED
    BY <1>1, <1>2, <2>0, <2>1, <2>4, GivenKeeps
<1>4. CASE ~Asks("string", 0)
  BY <1>1, <1>2, <1>4, UnexpectedKeeps
<1> QED
  BY <1>3, <1>4

\* A view of the buffer from its beginning, with at least the message in it
LEMMA OpenKeeps ==
    ASSUME Inv, WireInv, NEW offset \in 0 .. 1, NEW size \in {stream.offset, Len(stream.bytes)},
           OpenReader(offset, size)
    PROVE  RoundInv'
<1> DEFINE view == SubView(stream.bytes, offset, size)
           e == Encoded(fields)
<1>1. /\ reader' = [open |-> TRUE, view |-> view, place |-> 0, value |-> << >>, ok |-> TRUE,
                    next |-> 0, aligned |-> ~torn /\ offset = 0 /\ size >= stream.offset]
      /\ fields' = fields
  BY Zenon DEF OpenReader, Closed
<1>2. ASSUME ~torn, offset = 0, size >= stream.offset
      PROVE  /\ view \in Text /\ Begins(view, e) /\ Len(e) <= MaxPacketSize
  <2>1. /\ stream.bytes \in Text /\ Len(stream.bytes) \in Nat /\ e \in Text /\ Len(e) \in Nat
        /\ Len(stream.bytes) <= MaxPacketSize /\ MaxPacketSize \in Nat
    BY EncodedFacts, PacketAssumption DEF Inv, StreamOK, WireInv, Text
  <2>2. /\ Len(e) <= Len(stream.bytes) /\ stream.offset = Len(e)
        /\ \A i \in 1 .. Len(e) : stream.bytes[i] = e[i]
    BY <1>2 DEF WireInv, Holds, Keeps, Begins
  <2> HIDE DEF e
  <2>3. size \in Nat /\ Len(e) <= size /\ size <= Len(stream.bytes)
    BY <1>2, <2>1, <2>2
  <2>4. view = SubSeq(stream.bytes, 1, size)
    BY <1>2, <2>1, <2>3 DEF SubView
  <2>5. /\ SubSeq(stream.bytes, 1, size) \in Text /\ Len(SubSeq(stream.bytes, 1, size)) = size
        /\ \A i \in 1 .. size : SubSeq(stream.bytes, 1, size)[i] = stream.bytes[i]
    BY <2>1, <2>3 DEF Text
  <2> HIDE DEF view
  <2>6. Begins(view, e)
    BY <2>1, <2>2, <2>3, <2>4, <2>5 DEF Begins
  <2> QED
    BY <2>1, <2>2, <2>4, <2>5, <2>6
<1>3. FirstFields(fields, 0) = << >> /\ Len(<< >>) = 0 /\ 0 \in 0 .. Len(fields)
  BY FirstFacts DEF WireInv
<1> SUFFICES ASSUME reader'.aligned
             PROVE  /\ reader'.open /\ reader'.view \in Text
                    /\ reader'.next \in 0 .. Len(fields)
                    /\ Begins(reader'.view, e) /\ Len(e) <= MaxPacketSize
                    /\ reader'.place = Len(FirstFields(fields, reader'.next))
                    /\ ~(reader'.next > 0)
  BY <1>1 DEF RoundInv
<1> HIDE DEF view, e
<1>4. ~torn /\ offset = 0 /\ size >= stream.offset
  BY <1>1
<1>5. /\ reader'.open = TRUE /\ reader'.view = view /\ reader'.next = 0 /\ reader'.place = 0
  BY <1>1
<1> QED
  BY <1>2, <1>3, <1>4, <1>5

\* One case per action; the writers find no reader open.
LEMMA RoundNext == Inv /\ WireInv /\ RoundInv /\ [Next]_vars => RoundInv'
<1> SUFFICES ASSUME Inv, WireInv, RoundInv, [Next]_vars PROVE RoundInv'
  OBVIOUS
<1>1. CASE WriterNext
  <2>1. ~reader.open /\ reader' = reader
    BY <1>1 DEF WriterNext, PacketWriteBytes, PacketWriteString, BinaryWriteString, Wrote,
       WriterReset, BufferResize
  <2> QED
    BY <2>1 DEF RoundInv
<1>2. CASE \E offset \in 0 .. 1 : \/ OpenReader(offset, stream.offset)
                                  \/ OpenReader(offset, Len(stream.bytes))
  BY <1>2, OpenKeeps
<1>3. CASE \E size \in ReadSizes : PacketReadBytes(size) \/ BinaryReadBytes(size)
  <2>1. \A size \in ReadSizes : size \in Nat
    BY InputSeq DEF ReadSizes
  <2> QED
    BY <1>3, <2>1, BytesKeep
<1>4. CASE PacketReadString \/ BinaryReadString
  BY <1>4, StringsKeep
<1>5. CASE CloseReader
  BY <1>5 DEF CloseReader, Closed, RoundInv
<1>6. CASE UNCHANGED vars
  BY <1>6 DEF vars, RoundInv, Begins, FirstFields
<1> QED
  BY <1>1, <1>2, <1>3, <1>4, <1>5, <1>6 DEF Next, ReaderNext

(* An aligned reader stands between two fields of the message it views.    *)
THEOREM RoundInvariant == Spec => []RoundInv
<1>1. Init => RoundInv
  BY DEF Init, Closed, RoundInv
<1> QED
  BY <1>1, RoundNext, WireInvariant, PacketBounds, PTL DEF Spec

(* "deserialize_restores_original_value": whatever is written, whichever   *)
(* layer writes and whichever layer reads, fields that are read in the     *)
(* order they were written are those that were written.                    *)
THEOREM ReadsWhatWasWritten == Spec => []RoundTrip
<1>1. RoundInv => RoundTrip
  BY DEF RoundInv, RoundTrip, FirstFields
<1> QED
  BY <1>1, RoundInvariant, PTL
============================================================================

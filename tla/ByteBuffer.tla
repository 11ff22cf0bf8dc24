----------------------------- MODULE ByteBuffer -----------------------------
(***************************************************************************)
(* The wire format of the client (data/bytebuffer.hpp, bytebuffer.cpp and  *)
(* bitbuffer.hpp): a buffer is a sequence of bytes with one position that  *)
(* reading and writing share.  What the compiler derives from a C++ type   *)
(* is here a record describing the type, and writeValue and readValue      *)
(* dispatch on it the way the templates do.                                *)
(*                                                                         *)
(* The game server's own format (server/esp) is meant to be the same; the  *)
(* kinds "Bits", "inline", "fastvec" and "rest" are types only it has.     *)
(* Floating point numbers are finite.                                      *)
(*                                                                         *)
(* A definition ending in _m is a faulty variant of the one after it.      *)
(***************************************************************************)
EXTENDS Integers, Sequences, SequencesExt, FiniteSets

(* Descriptions of types.  The value of a structure is a function of its   *)
(* field names, that of a set of flags the set of those that are on, that  *)
(* of an optional one a sequence of at most one value; a floating point    *)
(* number is its bit pattern and a character a byte.                       *)
U(w) == [k |-> "uint", w |-> w]
I(w) == [k |-> "int", w |-> w]
F32 == U(4)
Bool == [k |-> "bool"]
Enum(S) == [k |-> "enum", of |-> S]
Flags(w, names) == [k |-> "flags", w |-> w, names |-> names]
Str == [k |-> "str"]
Bytes(n) == [k |-> "bytes", n |-> n]
Vec(t) == [k |-> "vec", of |-> t]
Opt(t) == [k |-> "opt", of |-> t]
Either(t, y) == [k |-> "either", fst |-> t, snd |-> y]
Struct(names, types) == [k |-> "struct", names |-> names, of |-> types]
Audio(n) == [k |-> "audio", n |-> n]
EspBits(w) == [k |-> "Bits", w |-> w]
Inline(n) == [k |-> "inline", n |-> n]
FastVec(t, n) == [k |-> "fastvec", of |-> t, n |-> n]
Rest == [k |-> "rest"]
Color3B == Struct(<<"r", "g", "b">>, <<U(1), U(1), U(1)>>)
Point == Struct(<<"x", "y">>, <<F32, F32>>)

Buffer(bytes) == [data |-> bytes, pos |-> 0]

(* Big-endian bytes of a number, and back: what maybeByteswap leaves in    *)
(* memory on a little-endian machine.                                      *)
BigEndian(n, w) ==
    LET shifted[i \in 0..w] == IF i = 0 THEN n ELSE shifted[i - 1] \div 256
    IN [i \in 1..w |-> shifted[w - i] % 256]

FromBigEndian(bytes, signed) ==
    FoldLeft(LAMBDA n, b : n * 256 + b, IF signed /\ bytes[1] >= 128 THEN -1 ELSE 0, bytes)

(* BitBuffer: the first flag is the most significant bit of the word.      *)
BitOf(names, i, v) == IF i <= Len(names) /\ names[i] \in v THEN 1 ELSE 0

writeBits(names, bitCount, v) ==
    FoldLeft(LAMBDA n, i : 2 * n + BitOf(names, i, v), 0, [i \in 1..bitCount |-> i])

readBits(names, bitCount, word) ==
    LET shifted[i \in 0..bitCount] == IF i = 0 THEN word ELSE shifted[i - 1] \div 2
    IN {names[i] : i \in {j \in 1..Len(names) : shifted[bitCount - j] % 2 = 1}}

(* Writing across the end of the data inserts, and keeps what was behind.  *)
rawWriteBytes(b, bytes) ==
    LET kept == IF b.pos + Len(bytes) > Len(b.data) THEN b.pos ELSE b.pos + Len(bytes)
    IN [data |-> SubSeq(b.data, 1, b.pos) \o bytes \o SubSeq(b.data, kept + 1, Len(b.data)),
        pos |-> b.pos + Len(bytes)]

writePrimitive(b, n, w) == rawWriteBytes(b, BigEndian(n, w))

(* Results of reading: the value and the buffer behind it, or an error.    *)
Read(v, b) == [ok |-> TRUE, v |-> v, b |-> b]
ReadError(e, b) == [ok |-> FALSE, v |-> e, b |-> b]

boundsCheck(b, count) == b.pos + count <= Len(b.data)

(* A read past the end that the bounds check lets through sees whatever    *)
(* memory holds: here a zero.                                              *)
readBytes(b, count) ==
    IF boundsCheck(b, count)
    THEN Read([i \in 1..count |-> IF b.pos + i <= Len(b.data) THEN b.data[b.pos + i] ELSE 0],
              [b EXCEPT !.pos = @ + count])
    ELSE ReadError("NotEnoughData", b)

readPrimitive(b, w, signed) ==
    LET r == readBytes(b, w) IN IF r.ok THEN Read(FromBigEndian(r.v, signed), r.b) ELSE r

readLength(b) == readPrimitive(b, 2, FALSE)

readBool(b) ==
    LET r == readBytes(b, 1) IN IF r.ok THEN Read(r.v[1] # 0, r.b) ELSE r

readEnum(b, values) ==
    LET r == readPrimitive(b, 1, FALSE)
    IN IF r.ok /\ r.v \notin values THEN ReadError("InvalidEnumValue", r.b) ELSE r

readFlags(b, t) ==
    LET r == readPrimitive(b, t.w, FALSE)
    IN IF r.ok THEN Read(readBits(t.names, 8 * t.w, r.v), r.b) ELSE r

readString(b) ==
    LET len == readLength(b) IN IF len.ok THEN readBytes(len.b, len.v) ELSE len

(* The server's strings of a fixed capacity: a string that is too long is  *)
(* an error, one that is cut short is filled with zeros.                   *)
readInline(b, n) ==
    LET len == readLength(b)
        left == Len(b.data) - len.b.pos
    IN IF ~len.ok THEN len
       ELSE IF len.v > n THEN ReadError("NotEnoughCapacity", len.b)
       ELSE Read([i \in 1..len.v |-> IF i <= left THEN b.data[len.b.pos + i] ELSE 0],
                 [len.b EXCEPT !.pos = IF len.v <= left THEN @ + len.v ELSE Len(b.data)])

(* Encoding a value only ever writes at the end of the buffer, so it is    *)
(* the sequence of bytes that it appends.                                  *)
RECURSIVE BytesOf(_, _)

lengthBytes(n) == BigEndian(n % 65536, 2)
stringBytes(s) == lengthBytes(Len(s)) \o s

allBytes(types, values) == FlattenSeq([i \in DOMAIN types |-> BytesOf(types[i], values[i])])

reflectionEncode(t, v) == allBytes(t.of, [i \in DOMAIN t.names |-> v[t.names[i]]])

pcEncodeVector(t, v) == lengthBytes(Len(v)) \o allBytes([i \in DOMAIN v |-> t], v)

pcEncodeOptional(t, v) == <<Len(v)>> \o allBytes([i \in DOMAIN v |-> t], v)

pcEncodeEither(t, v) ==
    IF v[1] = "first" THEN <<1>> \o BytesOf(t.fst, v[2]) ELSE <<0>> \o BytesOf(t.snd, v[2])

(* An audio frame always takes n optional opus frames, the used ones first. *)
encodeAudio(n, v) ==
    allBytes([i \in 1..n |-> Opt(Str)], [i \in 1..n |-> IF i <= Len(v) THEN <<v[i]>> ELSE <<>>])

BytesOf(t, v) ==
    CASE t.k \in {"uint", "int"} -> BigEndian(v, t.w)
      [] t.k = "bool" -> <<IF v THEN 1 ELSE 0>>
      [] t.k = "enum" -> <<v>>
      [] t.k = "flags" -> BigEndian(writeBits(t.names, 8 * t.w, v), t.w)
      [] t.k \in {"str", "inline"} -> stringBytes(v)
      [] t.k \in {"bytes", "Bits", "rest"} -> v
      [] t.k \in {"vec", "fastvec"} -> pcEncodeVector(t.of, v)
      [] t.k = "opt" -> pcEncodeOptional(t.of, v)
      [] t.k = "either" -> pcEncodeEither(t, v)
      [] t.k = "audio" -> encodeAudio(t.n, v)
      [] t.k = "struct" -> reflectionEncode(t, v)

writeValue(b, t, v) == rawWriteBytes(b, BytesOf(t, v))

RECURSIVE readValue(_, _)

(* Elements until the first error, which is then the result.               *)
RECURSIVE readOnto(_, _, _)

readOnto(values, b, types) ==
    IF types = <<>> THEN Read(values, b)
    ELSE LET r == readValue(b, Head(types))
         IN IF r.ok THEN readOnto(Append(values, r.v), r.b, Tail(types)) ELSE r

readAll(b, types) == readOnto(<<>>, b, types)

reflectionDecode(b, t) ==
    LET r == readAll(b, t.of)
        At(name) == CHOOSE i \in 1..Len(t.names) : t.names[i] = name
    IN IF r.ok THEN Read([name \in ToSet(t.names) |-> r.v[At(name)]], r.b) ELSE r

pcDecodeVector(b, t) ==
    LET len == readLength(b) IN IF len.ok THEN readAll(len.b, [i \in 1..len.v |-> t]) ELSE len

pcDecodeFastVec(b, t, n) ==
    LET len == readLength(b)
    IN IF len.ok /\ len.v > n THEN ReadError("NotEnoughCapacity", len.b) ELSE pcDecodeVector(b, t)

pcDecodeOptional(b, t) ==
    LET present == readBool(b)
    IN IF ~present.ok THEN present
       ELSE IF ~present.v THEN Read(<<>>, present.b)
       ELSE readAll(present.b, <<t>>)

pcDecodeEither(b, t) ==
    LET first == readBool(b)
        r == readValue(first.b, IF first.v THEN t.fst ELSE t.snd)
    IN IF ~first.ok THEN first
       ELSE IF r.ok THEN Read(<<IF first.v THEN "first" ELSE "second", r.v>>, r.b) ELSE r

decodeAudio(b, n) ==
    LET r == readAll(b, [i \in 1..n |-> Opt(Str)]) IN IF r.ok THEN Read(FlattenSeq(r.v), r.b) ELSE r

readValue(b, t) ==
    CASE t.k = "uint" -> readPrimitive(b, t.w, FALSE)
      [] t.k = "int" -> readPrimitive(b, t.w, TRUE)
      [] t.k = "bool" -> readBool(b)
      [] t.k = "enum" -> readEnum(b, t.of)
      [] t.k = "flags" -> readFlags(b, t)
      [] t.k = "str" -> readString(b)
      [] t.k = "inline" -> readInline(b, t.n)
      [] t.k = "bytes" -> readBytes(b, t.n)
      [] t.k = "Bits" -> readBytes(b, t.w)
      [] t.k = "rest" -> readBytes(b, Len(b.data) - b.pos)
      [] t.k = "vec" -> pcDecodeVector(b, t.of)
      [] t.k = "fastvec" -> pcDecodeFastVec(b, t.of, t.n)
      [] t.k = "opt" -> pcDecodeOptional(b, t.of)
      [] t.k = "either" -> pcDecodeEither(b, t)
      [] t.k = "audio" -> decodeAudio(b, t.n)
      [] t.k = "struct" -> reflectionDecode(b, t)

(* Values that tell types apart: for a structure, one field at a time      *)
(* takes its values while the others keep a plain one.                     *)
RECURSIVE Samples(_)

Plain(t) == CHOOSE v \in Samples(t) : TRUE

SamplesOfStruct(t) ==
    LET At(name) == t.of[CHOOSE i \in 1..Len(t.names) : t.names[i] = name]
        plain == [name \in ToSet(t.names) |-> Plain(At(name))]
    IN {plain} \union UNION {{[plain EXCEPT ![name] = v] : v \in Samples(At(name))} : name \in ToSet(t.names)}

Samples(t) ==
    CASE t.k = "uint" -> {0, IF t.w = 1 THEN 200 ELSE 258}
      [] t.k = "int" -> {-2, 258}
      [] t.k = "bool" -> BOOLEAN
      [] t.k = "enum" -> t.of
      [] t.k = "flags" -> {{}} \union {{name} : name \in ToSet(t.names)}
      [] t.k \in {"str", "inline", "rest"} -> {<<>>, <<65, 255>>}
      [] t.k = "bytes" -> {[i \in 1..t.n |-> i]}
      [] t.k = "Bits" -> {[i \in 1..t.w |-> 129]}
      [] t.k \in {"vec", "fastvec"} ->
            {<<>>, <<Plain(t.of), Plain(t.of)>>} \union {<<v>> : v \in Samples(t.of)}
      [] t.k = "audio" -> {<<>>, <<<<7>>>>, [i \in 1..t.n |-> <<i>>]}
      [] t.k = "opt" -> {<<>>} \union {<<v>> : v \in Samples(t.of)}
      [] t.k = "either" -> {<<"first", v>> : v \in Samples(t.fst)} \union {<<"second", v>> : v \in Samples(t.snd)}
      [] t.k = "struct" -> SamplesOfStruct(t)
=============================================================================

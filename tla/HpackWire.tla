------------------------------ MODULE HpackWire ------------------------------
(* HPACK on bytes: integers with a prefix, strings and the first byte that   *)
(* tells the representations apart (h2/hpack/encoder.rs from encode_str on,  *)
(* decoder.rs decode_literal to decode_int).  Bytes arrive in pieces; a call *)
(* of decode that finds half a representation says NeedMore and leaves the   *)
(* bytes for the call that has the rest.  A string is the number of its      *)
(* Huffman-coded bytes, each of which is the token Octet.                    *)
EXTENDS Integers, Sequences, SequencesExt

CONSTANTS
    Reps,           \* what is sent: [type, n, name, value]; name, value: lengths
    MaxReps,        \* bound: representations in one block
    MaxArrive       \* bound: bytes of one piece

VARIABLES
    rest,           \* bytes written and not yet arrived
    buf,            \* bytes arrived and not yet consumed
    sent, decoded,  \* representations written, and read
    error           \* none, or why decode failed

vars == <<rest, buf, sent, decoded, error>>

Octet == 256
Init == rest = <<>> /\ buf = <<>> /\ sent = <<>> /\ decoded = <<>> /\ error = "none"

-----------------------------------------------------------------------------
(* Writing.                                                                  *)

\* encode_int: seven bits to a byte, least significant first, all but the last
\* with the high bit.
Varint[value \in Nat] ==
    IF value >= 128 THEN <<128 + (value % 128)>> \o Varint[value \div 128] ELSE <<value>>

\* encode_int_one_byte.
OneByte(value, bits) == value < 2^bits - 1

EncodeInt(value, bits, first) ==
    IF OneByte(value, bits) THEN <<first + value>>
    ELSE <<first + 2^bits - 1>> \o Varint[value - (2^bits - 1)]

\* encode_str: the length goes before the coded bytes, of one byte or more.
EncodeStr(len) ==
    IF len = 0 THEN <<0>> ELSE EncodeInt(len, 7, 128) \o [i \in 1..len |-> Octet]

Prefix(type) == CASE type = "indexed" -> 7 [] type = "with" -> 6 [] type = "size" -> 5
                  [] type \in {"without", "never"} -> 4
FirstByte(type) == CASE type = "indexed" -> 128 [] type = "with" -> 64 [] type = "size" -> 32
                     [] type = "never" -> 16 [] type = "without" -> 0

\* encode_header, encode_not_indexed, encode_not_indexed2, encode_size_update.
EncodeRep(rep) ==
    EncodeInt(rep.n, Prefix(rep.type), FirstByte(rep.type)) \o
    (IF rep.type \in {"indexed", "size"} THEN <<>>
     ELSE (IF rep.n = 0 THEN EncodeStr(rep.name) ELSE <<>>) \o EncodeStr(rep.value))

Write(rep) ==
    /\ Len(sent) < MaxReps
    /\ sent' = Append(sent, rep)
    /\ rest' = rest \o EncodeRep(rep)
    /\ UNCHANGED <<buf, decoded, error>>

-----------------------------------------------------------------------------
(* Reading.  A result has what was read, the position after it, and ok, more *)
(* (NeedMore) or the error.                                                  *)

Read(what, value, pos) == [what |-> what, value |-> value, pos |-> pos]

MaxBytes == 5

\* decode_int, from position pos of bytes.
DecodeInt(bytes, pos, bits) ==
    LET first == bytes[pos] % 2^bits
        \* the bytes that follow, up to the last or the limit
        later == {k \in 1..(MaxBytes - 1) : pos + k <= Len(bytes)}
        last == {k \in later : bytes[pos + k] < 128}
        end == CHOOSE k \in last : \A j \in last : k <= j
        RECURSIVE Sum(_)
        Sum(k) == IF k = 0 THEN 0 ELSE (bytes[pos + k] % 128) * 2^(7 * (k - 1)) + Sum(k - 1)
    IN  CASE pos > Len(bytes) -> Read("more", 0, pos)
          [] pos <= Len(bytes) /\ first < 2^bits - 1 -> Read("ok", first, pos + 1)
          [] pos <= Len(bytes) /\ first = 2^bits - 1 /\ last # {} ->
                Read("ok", first + Sum(end), pos + end + 1)
          [] pos <= Len(bytes) /\ first = 2^bits - 1 /\ last = {} ->
                IF MaxBytes - 1 \in later THEN Read("IntegerOverflow", 0, pos) ELSE Read("more", 0, pos)

\* A mutant: a string is taken although its end has not arrived.
TakesWhatIsThere(bytes, pos) ==
    LET len == DecodeInt(bytes, pos, 7)
    IN  IF len.what # "ok" THEN len ELSE Read("ok", len.value, len.pos + len.value)

\* try_decode_string.
DecodeStr(bytes, pos) ==
    LET len == DecodeInt(bytes, pos, 7)
    IN  IF len.what # "ok" THEN len
        ELSE IF len.value > Len(bytes) - (len.pos - 1) THEN Read("more", 0, pos)
        ELSE Read("ok", len.value, len.pos + len.value)

\* Representation::load.
Load(byte) ==
    CASE byte >= 128 -> "indexed" [] byte \in 64..127 -> "with" [] byte < 16 -> "without"
      [] byte \in 16..31 -> "never" [] byte \in 32..63 -> "size"

\* One representation from the front of bytes.
DecodeRep(bytes) ==
    LET type == Load(bytes[1])
        n == DecodeInt(bytes, 1, Prefix(type))
        name == IF n.value = 0 THEN DecodeStr(bytes, n.pos) ELSE Read("ok", 0, n.pos)
        value == DecodeStr(bytes, name.pos)
    IN  CASE n.what # "ok" -> n
          [] n.what = "ok" /\ type \in {"indexed", "size"} ->
                Read("ok", [type |-> type, n |-> n.value, name |-> 0, value |-> 0], n.pos)
          [] n.what = "ok" /\ type \notin {"indexed", "size"} ->
                IF name.what # "ok" THEN name
                ELSE IF value.what # "ok" THEN value
                ELSE Read("ok", [type |-> type, n |-> n.value, name |-> name.value,
                                 value |-> value.value], value.pos)

\* decode: all the representations that are there; consume after each.
RECURSIVE DecodeAll(_, _)
DecodeAll(bytes, out) ==
    IF bytes = <<>> THEN [buf |-> <<>>, out |-> out, error |-> "none"]
    ELSE LET r == DecodeRep(bytes)
         IN  IF r.what = "ok" THEN DecodeAll(SubSeq(bytes, r.pos, Len(bytes)), Append(out, r.value))
             ELSE [buf |-> bytes, out |-> out, error |-> IF r.what = "more" THEN "none" ELSE r.what]

Arrive(k) ==
    /\ k \in 1..Len(rest) /\ error = "none"
    /\ LET d == DecodeAll(buf \o SubSeq(rest, 1, k), <<>>)
       IN  buf' = d.buf /\ decoded' = decoded \o d.out /\ error' = d.error
    /\ rest' = SubSeq(rest, k + 1, Len(rest))
    /\ UNCHANGED sent

Next ==
    \/ \E rep \in Reps : Write(rep)
    \/ \E k \in 1..MaxArrive : Arrive(k)

Spec == Init /\ [][Next]_vars

-----------------------------------------------------------------------------
(* Properties.                                                               *)

\* An integer of more than four bytes behind its prefix is refused.
TooLarge(rep) == rep.n >= 2^28 + 2^Prefix(rep.type) - 1

\* Whatever the pieces, what is read is what was written, in order, all of it
\* once the last byte is there: no NeedMore takes a byte that the next call
\* needs, none is left behind.
ReadAsWritten ==
    /\ IsPrefix(decoded, sent)
    /\ (rest = <<>> /\ error = "none") => decoded = sent /\ buf = <<>>

\* decode fails only on an integer that is too large for it, and says so; such
\* an integer is never read as another.
OnlyOverflow ==
    /\ error # "none" => error = "IntegerOverflow" /\ TooLarge(sent[Len(decoded) + 1])
    /\ \A i \in DOMAIN decoded : ~TooLarge(sent[i])
=============================================================================

----------------------------- MODULE H1Chunked ------------------------------
(***************************************************************************)
(* ChunkedBodyDecoder over a stream of bytes that arrives in any pieces,   *)
(* and ChunkedBodyEncoder.  FramedRead appends what it reads to src and    *)
(* calls the decoder until it wants more.                                  *)
(*                                                                         *)
(* A byte is the value of a hexadecimal digit, CR, LF or another letter.   *)
(* usize has UsizeMax as its largest value.                                *)
(***************************************************************************)
EXTENDS Naturals, Sequences, SequencesExt

CONSTANTS
  Digit,      \* the digits that occur, of 0..15
  Other,      \* bytes that are no digit
  CR, LF,
  UsizeMax,
  MaxLen      \* bound on the bytes that arrive

VARIABLES
  src,        \* bytes that arrived and are not consumed
  len,        \* ChunkedBodyDecoder: NoLen, or the length of the next chunk
  out,        \* the chunks decoded
  status,     \* "more", "end" or "error"
  sent        \* every byte that arrived

vars == <<src, len, out, status, sent>>

NoLen == UsizeMax + 1
Byte == Digit \cup Other \cup {CR, LF}
CRLF == <<CR, LF>>

Init == src = <<>> /\ len = NoLen /\ out = <<>> /\ status = "more" /\ sent = <<>>

TypeOK ==
  /\ src \in Seq(Byte) /\ sent \in Seq(Byte) /\ out \in Seq(Seq(Byte))
  /\ len \in 0..(UsizeMax - 2) \cup {NoLen} /\ status \in {"more", "end", "error"}
  /\ IsSuffix(src, sent)

-----------------------------------------------------------------------------
Arrive(b) ==
  /\ status = "more" /\ Len(sent) < MaxLen
  /\ src' = Append(src, b) /\ sent' = Append(sent, b)
  /\ UNCHANGED <<len, out, status>>

Wraps(n) == FALSE

\* checked_mul; what is too big stays too big.
TooBig(n) == n > UsizeMax

Value(s) ==
  FoldLeft(LAMBDA n, d : IF TooBig(n * 16) THEN NoLen * 16 ELSE (n * 16 + d) % NoLen, 0, s)

\* The CRLF after the chunk needs its two bytes too.
HasRoom(n) == n <= UsizeMax - 2

\* The digits before the first CR, or where a byte is neither.
Reads(s) == IF \E i \in DOMAIN s : s[i] \notin Digit
            THEN (CHOOSE i \in DOMAIN s : s[i] \notin Digit /\ \A j \in 1..(i-1) : s[j] \in Digit) - 1
            ELSE Len(s)

\* What follows n bytes and their CRLF.
After(n) == SubSeq(src, n + 3, Len(src))

Fail == status' = "error" /\ UNCHANGED <<src, len, out, sent>>

\* ChunkedBodyDecoder::decode without a length
DecodeSize ==
  LET read == Reads(src)
      n == Value(SubSeq(src, 1, read))
  IN  /\ status = "more" /\ len = NoLen /\ Len(src) >= 3
      /\ IF \/ read < Len(src) /\ src[read + 1] # CR
            \/ ~HasRoom(n)
            \/ Len(src) >= read + 2 /\ SubSeq(src, read + 1, read + 2) # CRLF
         THEN Fail
         ELSE /\ Len(src) >= read + 2
              /\ src' = After(read) /\ len' = n
              /\ UNCHANGED <<out, status, sent>>

Lacks(n) == Len(src) < n + 2

\* ChunkedBodyDecoder::decode with one
DecodeChunk ==
  /\ status = "more" /\ len # NoLen /\ ~Lacks(len)
  /\ IF SubSeq(src, len + 1, len + 2) # CRLF THEN Fail
     ELSE /\ src' = After(len)
          /\ len' = NoLen
          /\ IF len = 0 THEN status' = "end" /\ UNCHANGED out
             ELSE out' = Append(out, SubSeq(src, 1, len)) /\ UNCHANGED status
          /\ UNCHANGED sent

Decode == DecodeSize \/ DecodeChunk

Next == Decode \/ \E b \in Byte : Arrive(b)

Spec == Init /\ [][Next]_vars

-----------------------------------------------------------------------------
(* ChunkedBodyEncoder, and the grammar of what it writes. *)

Hex(n) == IF n < 16 THEN <<n>> ELSE <<n \div 16, n % 16>>

\* ChunkedBodyEncoder::encode
Encode(c) == Hex(Len(c)) \o CRLF \o c \o CRLF
EncodeEnd == <<0>> \o CRLF \o CRLF
Encoded(cs) == FoldLeft(LAMBDA s, c : s \o Encode(c), <<>>, cs)
Body(cs) == Encoded(cs) \o EncodeEnd

Consumed == SubSeq(sent, 1, Len(sent) - Len(src))

\* What the decoder consumed between two chunks, digits with leading zeros dropped.
Canonical(s) ==
  FoldLeft(LAMBDA t, b : IF b = 0 /\ (t = <<>> \/ Last(t) = LF) THEN t ELSE Append(t, b), <<>>, s)

\* The chunks decoded are those an encoder wrote: encoding them again gives the bytes
\* consumed, whatever the pieces they arrived in.
RoundTrip ==
  len = NoLen /\ status # "error" =>
    Canonical(Consumed) = Canonical(IF status = "end" THEN Body(out) ELSE Encoded(out))

\* Some bodies, with chunks whose length takes one digit and two.
Payloads == LET Long == [i \in 1..16 |-> CHOOSE b \in Other : TRUE]
                Chunk == UNION {[1..k -> Other] : k \in 1..2} \cup {Long}
            IN  UNION {[1..k -> Chunk] : k \in 0..2}

\* A stream that is the beginning of a body an encoder writes never fails, and one
\* that is a body is decoded to it once the decoder wants no more of it.
WritesAreRead ==
  \A cs \in Payloads :
    /\ IsPrefix(sent, Body(cs)) => status # "error"
    /\ sent = Body(cs) /\ ~ENABLED Decode => status = "end" /\ out = cs /\ src = <<>>

\* decoder.rs: "There must be at least 3 bytes": the line of a length has a digit.
LengthIsSpelled ==
  len # NoLen => LET n == Len(Consumed) IN n >= 3 /\ Consumed[n - 2] \in Digit
=============================================================================

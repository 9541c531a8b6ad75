------------------------------- MODULE Huffman -------------------------------
(* Strings in the Huffman code of HPACK (h2/hpack/huffman/mod.rs).  The      *)
(* encoder packs the codes of the bytes into octets as it goes; the decoder  *)
(* is an automaton that reads four bits at a time.  The state is what either *)
(* has at hand between two bytes or octets, so it is finite although the     *)
(* string is not: what is checked holds for strings of every length.         *)
EXTENDS HuffmanTable, SequencesExt

CONSTANT Bytes      \* the bytes that occur in strings

VARIABLES
    bits,           \* encode: the bits not yet put into an octet
    pending,        \* the bytes encoded whose end the decoder has not seen
    unread,         \* the bits read since the last byte that was decoded
    dec             \* Decoder: state, maybe_eos; error; bytes of one octet

string == <<bits, pending, unread, dec>>

Begin ==
    /\ bits = <<>> /\ pending = <<>> /\ unread = <<>>
    /\ dec = [state |-> 0, maybeEos |-> FALSE, error |-> FALSE, out |-> <<>>]

MaybeEos == 1
Decoded == 2
Error == 4
Has(flags, flag) == (flags \div flag) % 2 = 1

BitsOf(width, n) == [i \in 1..width |-> (n \div 2^(width - i)) % 2]
NumberOf(o) == 128 * o[1] + 64 * o[2] + 32 * o[3] + 16 * o[4] + 8 * o[5] + 4 * o[6] + 2 * o[7] + o[8]
Codes == [b \in 0..255 |-> BitsOf(ENCODE_TABLE[b + 1][1], ENCODE_TABLE[b + 1][2])]
Code(b) == Codes[b]

\* decode4: four bits.
Decode4(d, input) ==
    LET step == DECODE_TABLE[d.state + 1][input + 1]
    IN  IF d.error \/ Has(step[3], Error) THEN [d EXCEPT !.error = TRUE]
        ELSE [d EXCEPT !.state = step[1], !.maybeEos = Has(step[3], MaybeEos),
                       !.out = IF Has(step[3], Decoded) THEN Append(@, step[2]) ELSE @]

\* The body of decode's loop: an octet.
DecodeOctet(d, octet) == Decode4(Decode4([d EXCEPT !.out = <<>>], octet \div 16), octet % 16)

IsFinal(d) == ~d.error /\ (d.state = 0 \/ d.maybeEos)

\* "This writes the EOS token": ones up to the end of the octet.
Pad(seq) == seq \o [i \in 1..(8 - Len(seq)) |-> 1]

-----------------------------------------------------------------------------
(* A string is encoded and what is written decoded at once.                  *)

\* Octets leave while there are eight bits; the decoder reads each.
RECURSIVE Flush(_, _, _)
Flush(seq, d, out) ==
    IF Len(seq) < 8 THEN [bits |-> seq, dec |-> d, out |-> out]
    ELSE LET next == DecodeOctet(d, NumberOf(SubSeq(seq, 1, 8)))
         IN  Flush(SubSeq(seq, 9, Len(seq)), next, out \o next.out)

\* One more byte of the string.
EncodeByte(b) ==
    /\ ~dec.error
    /\ LET f == Flush(bits \o Code(b), dec, <<>>)
           all == Append(pending, b)
       IN  /\ bits' = f.bits
           /\ dec' = [f.dec EXCEPT !.out = <<>>]
           /\ pending' = IF f.out = SubSeq(all, 1, Len(f.out)) THEN SubSeq(all, Len(f.out) + 1, Len(all)) ELSE <<-1>>
    /\ UNCHANGED unread

SpecEncode == Begin /\ [][\E b \in Bytes : EncodeByte(b)]_string

\* What the decoder is after the last octet of the string, if it ends here.
AtEnd == IF bits = <<>> THEN [dec EXCEPT !.out = <<>>] ELSE DecodeOctet(dec, NumberOf(Pad(bits)))

\* Wherever a string ends, decode accepts what encode wrote and yields the
\* same bytes: all that left the encoder so far were right (pending is never
\* <<-1>>), the rest comes with the padding.
RoundTrip == ~dec.error /\ pending # <<-1>> /\ IsFinal(AtEnd) /\ AtEnd.out = pending

\* The buffer of 40 bits has room for the longest code at every byte: the
\* shift in encode is never negative.
CodeFits == Len(bits) < 8 /\ \A b \in Bytes : Len(bits) + Len(Code(b)) <= 40

-----------------------------------------------------------------------------
(* Any octets at all are decoded.                                            *)

\* Take the bytes decoded off the bits: what is left, or an impossible bit.
Strip(seq, out) ==
    FoldLeft(LAMBDA left, b : IF IsPrefix(Code(b), left) THEN SubSeq(left, Len(Code(b)) + 1, Len(left))
                              ELSE <<-1>>, seq, out)

DecodeAny(octet) ==
    /\ ~dec.error
    /\ LET next == DecodeOctet(dec, octet)
       IN  /\ dec' = [next EXCEPT !.out = <<>>]
           /\ unread' = IF next.error THEN <<>> ELSE Strip(unread \o BitsOf(8, octet), next.out)
    /\ UNCHANGED <<bits, pending>>

SpecDecode == Begin /\ [][\E octet \in 0..255 : DecodeAny(octet)]_string

\* A byte comes out exactly when its code is complete, and is the byte of that
\* code: bits left over are never a whole code and are the same for a state
\* however it was reached.
OnlyCodes ==
    /\ -1 \notin Range(unread)
    /\ \A b \in Bytes : ~IsPrefix(Code(b), unread)

\* A string is accepted exactly when what follows its last byte is padding
\* that encode could have written: less than an octet, all ones.
OnlyPadding ==
    IsFinal(dec) <=> (~dec.error /\ Len(unread) < 8 /\ \A i \in DOMAIN unread : unread[i] = 1)
=============================================================================

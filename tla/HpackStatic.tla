----------------------------- MODULE HpackStatic -----------------------------
(* The two hand-written halves of HPACK's static table: index_static, with   *)
(* which the encoder finds an entry (h2/hpack/table.rs), and get_static,     *)
(* with which the decoder reads it (h2/hpack/decoder.rs).                    *)
EXTENDS Naturals, Sequences

CONSTANTS OtherNames, OtherValues   \* names and values the table does not have

VARIABLES header, index, entry

vars == <<header, index, entry>>

Entry(name, value) == [name |-> name, value |-> value]

-----------------------------------------------------------------------------
(* The decoder's half.                                                       *)

Pseudo == <<
    Entry(":authority", ""), Entry(":method", "GET"), Entry(":method", "POST"),
    Entry(":path", "/"), Entry(":path", "/index.html"), Entry(":scheme", "http"),
    Entry(":scheme", "https"), Entry(":status", "200"), Entry(":status", "204"),
    Entry(":status", "206"), Entry(":status", "304"), Entry(":status", "400"),
    Entry(":status", "404"), Entry(":status", "500")>>

DecoderFields == <<
      "accept-charset", "accept-encoding", "accept-language",
      "accept-ranges", "accept", "access-control-allow-origin", "age",
      "allow", "authorization", "cache-control", "content-disposition",
      "content-encoding", "content-language", "content-length",
      "content-location", "content-range", "content-type", "cookie", "date",
      "etag", "expect", "expires", "from", "host", "if-match",
      "if-modified-since", "if-none-match", "if-range",
      "if-unmodified-since", "last-modified", "link", "location",
      "max-forwards", "proxy-authenticate", "proxy-authorization", "range",
      "referer", "refresh", "retry-after", "server", "set-cookie",
      "strict-transport-security", "transfer-encoding", "user-agent", "vary",
      "via", "www-authenticate">>

GetStatic(n) ==
    CASE n \in 1..14 -> Pseudo[n]
      [] n \in 15..61 -> Entry(DecoderFields[n - 14], IF n = 16 THEN "gzip, deflate" ELSE "")

-----------------------------------------------------------------------------
(* The encoder's half.                                                       *)

EncoderFields == <<
      "accept-charset", "accept-encoding", "accept-language",
      "accept-ranges", "accept", "access-control-allow-origin", "age",
      "allow", "authorization", "cache-control", "content-disposition",
      "content-encoding", "content-language", "content-length",
      "content-location", "content-range", "content-type", "cookie", "date",
      "etag", "expect", "expires", "from", "host", "if-match",
      "if-modified-since", "if-none-match", "if-range",
      "if-unmodified-since", "last-modified", "link", "location",
      "max-forwards", "proxy-authenticate", "proxy-authorization", "range",
      "referer", "refresh", "retry-after", "server", "set-cookie",
      "strict-transport-security", "transfer-encoding", "user-agent", "vary",
      "via", "www-authenticate">>

Found(n, full) == [n |-> n, full |-> full]
NotFound == Found(0, FALSE)

\* A pseudo header: the number of its value, or of its name alone.
FirstOf(values, value, alone) ==
    IF value \in DOMAIN values THEN Found(values[value], TRUE) ELSE Found(alone, FALSE)

Methods == [GET |-> 2, POST |-> 3]
Schemes == [http |-> 6, https |-> 7]
Paths == [v \in {"/", "/index.html"} |-> IF v = "/" THEN 4 ELSE 5]
Statuses == [v \in {"200", "204", "206", "304", "400", "404", "500"} |->
    CASE v = "200" -> 8 [] v = "204" -> 9 [] v = "206" -> 10 [] v = "304" -> 11
      [] v = "400" -> 12 [] v = "404" -> 13 [] v = "500" -> 14]

Field(name) == Found((CHOOSE i \in DOMAIN EncoderFields : EncoderFields[i] = name) + 14, FALSE)

IndexStatic(h) ==
    CASE h.name = ":authority" -> Found(1, FALSE)
      [] h.name = ":method" -> FirstOf(Methods, h.value, 2)
      [] h.name = ":scheme" -> FirstOf(Schemes, h.value, 6)
      [] h.name = ":path" -> FirstOf(Paths, h.value, 4)
      [] h.name = ":status" -> FirstOf(Statuses, h.value, 8)
      [] h.name = "accept-encoding" /\ h.value = "gzip, deflate" -> Found(16, TRUE)
      [] h.name \in {EncoderFields[i] : i \in DOMAIN EncoderFields}
            /\ ~(h.name = "accept-encoding" /\ h.value = "gzip, deflate") -> Field(h.name)
      [] OTHER -> NotFound

-----------------------------------------------------------------------------
Names == {GetStatic(n).name : n \in 1..61} \cup OtherNames
Values == {GetStatic(n).value : n \in 1..61} \cup OtherValues

Init == header = Entry("", "") /\ index = NotFound /\ entry = Entry("", "")

\* A header is looked up by the encoder and what it found read by the decoder.
LookUp(name, value) ==
    /\ header' = Entry(name, value)
    /\ index' = IndexStatic(header')
    /\ entry' = IF index'.n = 0 THEN header' ELSE GetStatic(index'.n)

Next == \E name \in Names, value \in Values : LookUp(name, value)

Spec == Init /\ [][Next]_vars

\* The decoder reads the name the encoder meant, and the value too when the
\* encoder says that the value matches.
HalvesAgree ==
    /\ entry.name = header.name
    /\ index.full => entry.value = header.value

\* Nothing is missed: a header of the table with a value is found with it.
ValuesAreFound ==
    (header.value # "" /\ header \in {GetStatic(n) : n \in 1..61}) => index.full
=============================================================================

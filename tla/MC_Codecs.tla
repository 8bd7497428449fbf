------------------------------ MODULE MC_Codecs -------------------------------
EXTENDS Codecs

\* The sequences over S of length at most 2 and at most 4.
UpTo2(S) == {<<>>} \cup {<<a>> : a \in S} \cup {<<a, b>> : a, b \in S}
UpTo4(S) == UpTo2(S) \cup {<<a, b, c>> : a, b, c \in S}
                     \cup {<<a, b, c, d>> : a, b, c, d \in S}

\* Every input of up to 2 bytes, and of up to 2 characters.
MC_EncodeInputs == UpTo2(0..255)
MC_DecodeInputs == UpTo2(Invalid..90)

\* Bytes around the 13/14-bit boundary: 88 and 89 in the low bits, bit 5
\* (the 14th bit of a value built from two bytes), and the extremes. Runs of
\* zero bytes: every value is at most 88 and takes 14 bits, so 7 bytes end
\* exactly on a value boundary and the encoding has no tail.
MC_EncodeEdges ==
  UpTo4({0, 1, 32, 88, 89, 90, 255}) \cup {[i \in 1..n |-> 0] : n \in 5..7}
\* Digits around the value 88 = 88 + 0 * 91, and the largest ones.
MC_DecodeEdges == UpTo4({Invalid, 0, 1, 88, 89, 90})
\* Every length up to beyond the truncation to maxBinaryLen = 121 bytes.
MC_DatagramLens == 0..130

\* URLs as buildURL forms them, at most 511 characters (http_url): hosts
\* around the 64-byte host buffer, URI lengths around the one- and
\* two-byte uintvar boundary (127, 128) and around the largest that fits
\* in http_wapRequest with and without a Host header.
MC_Uris ==
  {u \in [scheme : {7, 8}, host : {0, 1, 63, 64},
          rest : {0, 1, 55, 56, 119, 120, 348, 349, 418, 419, 473, 474, 503}] :
     UriLen(u) <= 511}

\* Replies: every content-type form, up to two fields of every kind, and
\* bodies of none, one and two bytes; a long Location makes the header
\* block need a two-byte uintvar.
MC_Cts ==
  {[kind |-> "code", code |-> c, len |-> 0] : c \in {3, 20, 100}}
  \cup {[kind |-> "general", code |-> 20, len |-> n] : n \in {0, 2}}
  \cup {[kind |-> "text", code |-> 0, len |-> n] : n \in {1, 3}}
MC_Fields ==
  {[f |-> "server", len |-> n] : n \in {0, 2}}
  \cup {[f |-> "location", len |-> n] : n \in {1, 200}}
  \cup {[f |-> "etag", len |-> 1], [f |-> "app", len |-> 1],
        [f |-> "date", len |-> 4], [f |-> "cache", len |-> 0]}
  \cup {[f |-> "length", len |-> v] : v \in {0, 5, 300}}
MC_Replies ==
  {[status |-> st, ct |-> ct, fields |-> fs, body |-> b] :
     st \in {32}, ct \in MC_Cts,
     fs \in UpTo2(MC_Fields),
     b \in {<<>>, <<5>>, <<0, 200>>}}

\* Byte sequences after the reply type and status: a uintvar header
\* length (short, two-byte, and five-byte ones whose value needs 32 bits
\* or more), then up to 3 bytes from the values the decoder tells apart.
MC_Uintvars ==
  {<<0>>, <<1>>, <<2>>, <<3>>, <<129, 0>>,
   <<143, 255, 255, 255, 127>>, <<255, 255, 255, 255, 127>>}
MC_HeaderBytes == {0, 1, 30, 31, 97, 128, 141, 148, 156, 166}
MC_Pdus ==
  {<<0, 4, 32>> \o u \o r : u \in MC_Uintvars, r \in UpTo2(MC_HeaderBytes)
                                   \cup {<<a, b, c>> : a, b, c \in MC_HeaderBytes}}

\* WML decks: a wml element holding a card, with or without id and title
\* attributes, whose content is up to two of an inline text, a string
\* table reference, a p holding a text, an empty br and a p with an
\* align attribute; and a chain of 32 nested elements, as deep as
\* elementStack holds.
Txt == [text |-> <<97, 98>>]
Ref == [ref |-> 0]
El(tag, attrs, kids) == [tag |-> tag, attrs |-> attrs, kids |-> kids]
MC_CardKids ==
  {Txt, Ref, El(32, <<>>, <<[text |-> <<99>>]>>), El(38, <<>>, <<>>),
   El(32, <<[a |-> 82, v |-> <<97>>]>>, <<Txt>>)}
MC_CardAttrs ==
  {<<>>, <<[a |-> 85, v |-> <<97>>]>>,
   <<[a |-> 85, v |-> <<98>>], [a |-> 54, v |-> <<>>]>>}
\* n levels around inner, built from the inside out (the test of inner
\* is never true; it has each level built before the next wraps it).
RECURSIVE Wrapped(_, _)
Wrapped(n, inner) ==
  IF n = 0 \/ inner.tag = 0 THEN inner ELSE Wrapped(n - 1, El(32, <<>>, <<inner>>))
Chain(n) == Wrapped(n - 1, El(32, <<>>, <<Txt>>))
MC_WmlDocs ==
  {[table |-> <<98, 99, 0>>,
    root |-> El(63, <<>>, <<El(39, a, k)>>)] : a \in MC_CardAttrs, k \in UpTo2(MC_CardKids)}
  \cup {[table |-> <<>>, root |-> El(63, <<>>, <<Chain(31)>>)]}

\* Arbitrary WMLC: a header with WML 1.1 or an unknown public ID and a
\* string table (none, a short one, a 40-character one, and one whose
\* last string has no NUL), then up to 2 body tokens from every kind
\* the main loop tells apart, or 3 from the tokens that open, fill and
\* close elements; output size 100, the smallest decompile accepts.
MC_Tables == {<<>>, <<97, 0>>, [i \in 1..40 |-> 97] \o <<0>>, <<97>>}
MC_BodyTokens ==
  {0, 1, 2, 3, 4, 5, 32, 38, 64, 65, 67, 68, 96, 128, 131, 132, 160,
   195, 196, 224, 74, 97, 140}
MC_ElementTokens == {0, 1, 3, 4, 68, 96, 131, 132, 74, 97}
MC_Wmlcs ==
  {[w |-> <<1, p, 106, Len(t)>> \o t \o b, size |-> 100] :
     p \in {4, 1}, t \in MC_Tables,
     b \in (UpTo2(MC_BodyTokens) \cup {<<x, y, z>> : x, y, z \in MC_ElementTokens}) \ {<<>>}}
  \cup {[w |-> <<1, 1, 106, 41>> \o [i \in 1..40 |-> 97] \o <<0>> \o b, size |-> 100] :
          b \in {<<131, 0, 131, 0>>, <<131, 0, 3, 97, 97, 0, 131, 0>>,
                 <<96, 131, 0, 131, 0, 1>>, <<160, 74, 131, 0, 131, 0, 1, 1>>}}

\* With them, bodies whose OPAQUE length is an mb_u_int32 of 5 bytes
\* (the most the ESP32's 32-bit unsigned long holds): 2^32 - 6 takes pos
\* back to the OPAQUE token, 2^32 - 1 past the body.
MC_OpaqueWmlcs ==
  MC_Wmlcs \cup
  {[w |-> <<1, 4, 106, 0, 195>> \o u, size |-> DecompiledSize] :
     u \in {<<143, 255, 255, 255, 122>>, <<143, 255, 255, 255, 127>>, <<129, 0>>}}

\* Sends: requests up to the 512 bytes of http_wapRequest into the
\* proxy's 2048-byte reassembly buffer and replies up to the 1500 bytes
\* of the proxy's UDP buffer into the AP's 4096; lengths around the
\* simple limit (113), one and two concatenation parts (108, 216), and
\* the largest of each; ports at the byte boundaries and the ones the
\* nodes use (9200, the AP's 1024..9999), and both ends of refNum.
MC_Ports == {1, 255, 256, 9200, 65535}
MC_Sends ==
  {[src |-> sp, dst |-> dp, len |-> l, ref |-> r, buf |-> b] :
     sp \in MC_Ports, dp \in MC_Ports, r \in {0, 255},
     <<l, b>> \in {<<l, 2048>> : l \in {0, 1, 113, 114, 216, 217, 512}}
                  \cup {<<l, 4096>> : l \in {1404, 1405, 1500}}}

\* Datagrams of 6, 7, 11 and 12 bytes whose bytes take the values each
\* test of isValidWDPMessage and of the parsers tells apart.
MC_Datagrams ==
  LET full == {<<a, b, c, d, e, f, g, h>> \o t :
                 a \in {5, 6, 11}, b \in {0, 5}, c \in {3, 4}, d \in {0, 7},
                 e \in {0, 1, 2}, f \in {0, 1, 2}, g \in {0, 5}, h \in {0, 4},
                 t \in {<<x, y, z, w>> : x, y, z, w \in {0, 1}}}
  IN {SubSeq(m, 1, n) : m \in full, n \in {6, 7, 11, 12}}

\* Every WSP status byte.
MC_StatusBytes == 0..255

\* HTTP requests: request lines with no, one and two spaces; the methods
\* GET, HEAD, POST, a lowercase get and none; origin, absolute (http and
\* https) and empty targets, up to the 255 characters path[] holds; and
\* up to two header lines: a Host in three spellings, with a port, at the
\* 127 characters host[] holds, or a connectivity probe, a Content-Type,
\* Content-Lengths inside and beyond body[], and a line without a colon.
Hdr(n, l, p, pr, num) == [name |-> n, len |-> l, port |-> p, probe |-> pr, num |-> num]
MC_Targets ==
  {[form |-> "origin", scheme |-> 0, host |-> 0, rest |-> 1],
   [form |-> "origin", scheme |-> 0, host |-> 0, rest |-> 255],
   [form |-> "absolute", scheme |-> 7, host |-> 12, rest |-> 5],
   [form |-> "absolute", scheme |-> 8, host |-> 12, rest |-> 0],
   [form |-> "absolute", scheme |-> 7, host |-> 63, rest |-> 185],
   [form |-> "empty", scheme |-> 0, host |-> 0, rest |-> 0]}
MC_Headers ==
  {Hdr("Host", 12, 0, 0, 0), Hdr("host", 12, 5, 0, 0), Hdr("HOST", 127, 0, 0, 0),
   Hdr("Host", 29, 0, 29, 0), Hdr("Content-Type", 33, 0, 0, 0),
   Hdr("Content-Length", 0, 0, 0, 10), Hdr("Content-Length", 0, 0, 0, 600),
   Hdr("", 4, 0, 0, 0)}
MC_Requests ==
  {[line |-> [method |-> m, spaces |-> sp, target |-> t], headers |-> hs] :
     m \in {"GET", "HEAD", "POST", "get", ""}, sp \in {0, 1, 2},
     t \in MC_Targets, hs \in UpTo2(MC_Headers)}
====

---------------------------- MODULE WAPResponse ----------------------------
(***************************************************************************)
(* The WSP reply decoder of the AP node (class WAPResponse,                *)
(* src/lib/wap/wap_response.cpp), which handleHTTPRequest and              *)
(* ap_trySendEarlyHeaders run on the reply the proxy relays.              *)
(*                                                                         *)
(* Offsets are 0-based, as in the code; pdu[i + 1] is the byte at offset  *)
(* i. HB(d, base, i) is headers[i] for headers = &d[base]; it is None when *)
(* that address lies past the end of the PDU: the byte there is not part  *)
(* of the reply (a stale byte of the 4096-byte buffer, or memory beyond   *)
(* it), so the parse stops there with oob set. Strings are kept as the    *)
(* bytes copied; a content type from the table is kept as its code, 64    *)
(* standing for "application/octet-stream".                                *)
(***************************************************************************)
EXTENDS WAPRequest

WSP_HEADER_CONTENT_LENGTH == 13
WSP_HEADER_LOCATION == 28
WSP_HEADER_SERVER == 38

None == -1

HB(d, base, i) == IF base + i < Len(d) THEN d[base + i + 1] ELSE None

\* contentTypeToString: the table has 64 entries.
contentTypeToString(code) == IF code < 64 THEN code ELSE 64

NoType == [kind |-> "none", code |-> 0, text |-> <<>>]

\* strnlen(&headers[p], hl - p), and equally the loops that skip a text
\* to its NUL: None when the scan leaves the PDU before it stops.
TextLen(d, base, hl, p) ==
  LET last == IF hl <= Len(d) - base THEN base + hl ELSE Len(d)
      nul == SelectInSubSeq(d, base + p + 1, last, LAMBDA c : c = 0)
  IN IF p >= hl THEN 0
     ELSE IF nul # 0 THEN nul - (base + p + 1)
     ELSE IF hl <= Len(d) - base THEN hl - p
     ELSE None

Bytes(d, base, p, n) == SubSeq(d, base + p + 1, base + p + n)

Stop(r) == [r EXCEPT !.oob = TRUE]

\* Mutant: the value-length form of Content-Type does not skip its length
\* byte.
ParseContentTypeNoLenByte(d, base, hl, r) ==
  LET b == HB(d, base, 0)
      v == HB(d, base, 1)
      n == TextLen(d, base, hl, 0)
  IN IF b = None THEN Stop(r)
     ELSE IF b >= 128
     THEN [r EXCEPT !.ct = [NoType EXCEPT !.kind = "code",
                                         !.code = contentTypeToString(b - 128)],
                    !.pos = 1]
     ELSE IF b < 32
     THEN IF 1 < hl /\ v = None THEN Stop(r)
          ELSE [r EXCEPT !.ct = IF 1 < hl /\ v >= 128
                                THEN [NoType EXCEPT !.kind = "code",
                                           !.code = contentTypeToString(v - 128)]
                                ELSE @,
                         !.pos = b]
     ELSE IF n = None THEN Stop(r)
     ELSE [r EXCEPT !.ct = IF n < 64 THEN [NoType EXCEPT !.kind = "text",
                                                        !.text = Bytes(d, base, 0, n)]
                           ELSE @,
                    !.pos = n + 1]

\* The Content-Type that opens the headers: a well-known short integer,
\* a value length followed by a well-known type (its parameters skipped),
\* or a text.
ParseContentType(d, base, hl, r) ==
  LET b == HB(d, base, 0)
      v == HB(d, base, 1)
      n == TextLen(d, base, hl, 0)
  IN IF b = None THEN Stop(r)
     ELSE IF b >= 128
     THEN [r EXCEPT !.ct = [NoType EXCEPT !.kind = "code",
                                         !.code = contentTypeToString(b - 128)],
                    !.pos = 1]
     ELSE IF b < 32
     THEN IF 1 < hl /\ v = None THEN Stop(r)
          ELSE [r EXCEPT !.ct = IF 1 < hl /\ v >= 128
                                THEN [NoType EXCEPT !.kind = "code",
                                           !.code = contentTypeToString(v - 128)]
                                ELSE @,
                         !.pos = 1 + b]
     ELSE IF n = None THEN Stop(r)
     ELSE [r EXCEPT !.ct = IF n < 64 THEN [NoType EXCEPT !.kind = "text",
                                                        !.text = Bytes(d, base, 0, n)]
                           ELSE @,
                    !.pos = n + 1]

\* The loop over the octets of a multi-octet Content-Length: k left.
\* (The octets a header block holds keep the value below 2^24.)
RECURSIVE MultiOctet(_, _, _, _, _, _)
MultiOctet(d, base, hl, r, k, value) ==
  IF k = 0 \/ r.pos >= hl THEN [r EXCEPT !.cl = value]
  ELSE IF HB(d, base, r.pos) = None THEN Stop(r)
  ELSE MultiOctet(d, base, hl, [r EXCEPT !.pos = @ + 1], k - 1,
                  value * 256 + HB(d, base, r.pos))

\* The value of a well-known field at q (its first byte v): Server and
\* Location texts are kept when they fit their arrays, Content-Length
\* is read, anything else is skipped.
FieldValue(d, base, hl, r, code, q, v) ==
  LET n == TextLen(d, base, hl, q)
  IN IF code = WSP_HEADER_SERVER \/ code = WSP_HEADER_LOCATION
     THEN IF v >= 128 THEN [r EXCEPT !.pos = q + 1]
          ELSE IF n = None THEN Stop(r)
          ELSE [r EXCEPT !.pos = q + n + 1,
                  !.server = IF code = WSP_HEADER_SERVER /\ n < 64
                             THEN Bytes(d, base, q, n) ELSE @,
                  !.location = IF code = WSP_HEADER_LOCATION /\ n < 256
                               THEN Bytes(d, base, q, n) ELSE @]
     ELSE IF code = WSP_HEADER_CONTENT_LENGTH
     THEN IF v >= 128 THEN [r EXCEPT !.cl = v - 128, !.pos = q + 1]
          ELSE IF v < 31 THEN MultiOctet(d, base, hl, [r EXCEPT !.pos = q + 1], v, 0)
          ELSE [r EXCEPT !.pos = q + 1]
     ELSE IF v >= 128 THEN [r EXCEPT !.pos = q + 1]
     ELSE IF v < 31 THEN [r EXCEPT !.pos = q + 1 + v]
     ELSE IF n = None THEN Stop(r)
     ELSE [r EXCEPT !.pos = q + n + 1]

\* Mutant: no "if (pos >= headersLen) break;" before the value is read.
ParseFieldNoBreak(d, base, hl, r) ==
  LET p == r.pos
      f == HB(d, base, p)
      v == HB(d, base, p + 1)
  IN IF f = None THEN Stop(r)
     ELSE IF f >= 128
     THEN IF v = None THEN Stop(r)
          ELSE FieldValue(d, base, hl, r, f - 128, p + 1, v)
     ELSE IF f < 32 THEN [r EXCEPT !.pos = p + 1]
     ELSE LET n == TextLen(d, base, hl, p)
              q == p + n + 1
              m == TextLen(d, base, hl, q)
          IN IF n = None THEN Stop(r)
             ELSE IF q >= hl THEN [r EXCEPT !.pos = q]
             ELSE IF HB(d, base, q) = None THEN Stop(r)
             ELSE IF HB(d, base, q) >= 128 THEN [r EXCEPT !.pos = q + 1]
             ELSE IF m = None THEN Stop(r)
             ELSE [r EXCEPT !.pos = q + m + 1]

\* One iteration of the header loop: a well-known field and its value, a
\* shift or length octet, or a text-named header and its text or
\* short-integer value.
ParseField(d, base, hl, r) ==
  LET p == r.pos
      f == HB(d, base, p)
      v == HB(d, base, p + 1)
  IN IF f = None THEN Stop(r)
     ELSE IF f >= 128
     THEN IF p + 1 >= hl THEN [r EXCEPT !.pos = p + 1, !.done = TRUE]
          ELSE IF v = None THEN Stop(r)
          ELSE FieldValue(d, base, hl, r, f - 128, p + 1, v)
     ELSE IF f < 32 THEN [r EXCEPT !.pos = p + 1]
     ELSE LET n == TextLen(d, base, hl, p)
              q == p + n + 1
              m == TextLen(d, base, hl, q)
          IN IF n = None THEN Stop(r)
             ELSE IF q >= hl THEN [r EXCEPT !.pos = q]
             ELSE IF HB(d, base, q) = None THEN Stop(r)
             ELSE IF HB(d, base, q) >= 128 THEN [r EXCEPT !.pos = q + 1]
             ELSE IF m = None THEN Stop(r)
             ELSE [r EXCEPT !.pos = q + m + 1]

RECURSIVE HeaderLoop(_, _, _, _)
HeaderLoop(d, base, hl, r) ==
  IF r.oob \/ r.done \/ r.pos >= hl THEN r
  ELSE HeaderLoop(d, base, hl, ParseField(d, base, hl, r))

NoHeaders == [pos |-> 0, ct |-> NoType, server |-> <<>>, location |-> <<>>,
              cl |-> 0, oob |-> FALSE, done |-> FALSE]

\* parseHeaders(&d[base], hl, response).
parseHeaders(d, base, hl) ==
  IF hl = 0 THEN NoHeaders
  ELSE HeaderLoop(d, base, hl, ParseContentType(d, base, hl, NoHeaders))

\* WAPResponse::httpStatusToText: the codes its switch has a reason phrase
\* for; any other code is "Unknown". The phrases are left out: each one is
\* "Reason".
ReasonPhrases == {100, 101} \cup 200..206 \cup 300..305 \cup {307}
                 \cup 400..417 \cup 500..505
httpStatusToText(code) == IF code \in ReasonPhrases THEN "Reason" ELSE "Unknown"

\* WAPResponse::decode of a whole PDU, with decodeWithoutTID on the bytes
\* after the transaction ID: data = &pdu[1], len = pduLen - 1. The header
\* block is parsed only when "pos + headersLen <= len" holds in size_t;
\* the body is what follows pos. headersLen is passed on as WideValue.
decode(pdu) ==
  LET len == Len(pdu) - 1
      uv == decodeUintvar(pdu, 3, len - 2)
      hl == WideValue(uv.value)
      pos == 2 + uv.n
      ok == Len(pdu) >= 4 /\ pdu[2] = REPLY_PDU_TYPE /\ uv.n # 0
      sum == WideValue(WideAdd(uv.value, pos))
      parsed == ok /\ uv.value # Zero /\ sum <= len
      h == IF parsed THEN parseHeaders(pdu, 1 + pos, hl) ELSE NoHeaders
      end == IF parsed THEN sum ELSE pos
      body == IF end < len THEN SubSeq(pdu, end + 2, Len(pdu)) ELSE <<>>
  IN [ok |-> ok,
      wspStatus |-> IF Len(pdu) >= 3 THEN pdu[3] ELSE 0,
      statusCode |-> IF Len(pdu) >= 3 THEN wspStatusToHttp(pdu[3]) ELSE 0,
      statusText |-> IF Len(pdu) >= 3
                     THEN httpStatusToText(wspStatusToHttp(pdu[3])) ELSE "",
      ct |-> h.ct, server |-> h.server, location |-> h.location,
      oob |-> h.oob, body |-> body,
      contentLength |-> IF h.cl = 0 THEN Len(body) ELSE h.cl]
====

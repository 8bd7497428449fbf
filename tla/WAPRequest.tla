----------------------------- MODULE WAPRequest -----------------------------
(***************************************************************************)
(* The WSP request builder of the AP node (class WAPRequest,               *)
(* src/lib/wap/wap_request.cpp): uintvars and the connectionless Get PDU  *)
(* handleHTTPRequest sends for a browser's GET.                            *)
(*                                                                         *)
(* A PDU is a sequence of byte values. The characters of a URL, a host and *)
(* a User-Agent only matter through their number, so each one is          *)
(* TextByte. A URL is the record [scheme, host, rest] of the lengths of   *)
(* its "http://" or "https://" prefix, of its host, and of what follows   *)
(* (starting with ':', '/' or '?'), which is how buildURL forms it.        *)
(***************************************************************************)
EXTENDS Integers, Sequences, SequencesExt

CONSTANT ULONG_BITS  \* width of unsigned long and size_t: 32 or 64

(***************************************************************************)
(* Only a uintvar of five bytes (35 bits) exceeds TLC's integers. Such    *)
(* values are kept as Wide numbers hi * 2^21 + lo, reduced to the width   *)
(* of unsigned long on hi; ULONG_BITS is 32 (the ESP32) or 64 (a host).   *)
(* Every other value the code computes stays below 2^24.                  *)
(***************************************************************************)
LoLimb == 2^21

WideMod(w) ==
  IF ULONG_BITS >= 64 THEN w ELSE [w EXCEPT !.hi = @ % 2^(ULONG_BITS - 21)]

\* w * m + b in unsigned long arithmetic, for m <= 256 and b < m.
WideMulAdd(w, m, b) ==
  LET low == w.lo * m + b
  IN WideMod([hi |-> w.hi * m + low \div LoLimb, lo |-> low % LoLimb])

\* w + k in size_t arithmetic, for a small k >= 0.
WideAdd(w, k) ==
  WideMod([hi |-> w.hi + (w.lo + k) \div LoLimb, lo |-> (w.lo + k) % LoLimb])

\* The value when it is below 2^30, else 2^30: every comparison of the
\* code with a position or a length then comes out as with the value.
WideValue(w) == IF w.hi < 2^9 THEN w.hi * LoLimb + w.lo ELSE 2^30

Zero == [hi |-> 0, lo |-> 0]

GET_PDU_TYPE == 64
REPLY_PDU_TYPE == 4
WSP_GET == 0
WSP_HEADER_ACCEPT == 0
WSP_HEADER_ACCEPT_CHARSET == 1
WSP_HEADER_HOST == 22
WSP_HEADER_USER_AGENT == 41
WSP_CT_TEXT_PLAIN == 3
WSP_CT_APP_VND_WAP_WMLC == 20
WSP_CT_APP_VND_WAP_WMLSCRIPTC == 21
WSP_CT_IMAGE_VND_WAP_WBMP == 33

TextByte == 97
Text(n) == [i \in 1..n |-> TextByte]

\* Mutant: the continuation bit is not set.
RECURSIVE HighGroupsNoCont(_, _)
HighGroupsNoCont(v, tempLen) ==
  IF v > 0 /\ tempLen < 5
  THEN HighGroupsNoCont(v \div 128, tempLen + 1) \o <<v % 128>>
  ELSE <<>>

\* The bytes of temp above the first, most significant first: each 7-bit
\* group with the continuation bit, while bits remain and temp has room.
RECURSIVE HighGroups(_, _)
HighGroups(v, tempLen) ==
  IF v > 0 /\ tempLen < 5
  THEN HighGroups(v \div 128, tempLen + 1) \o <<(v % 128) + 128>>
  ELSE <<>>

encodeUintvar(value, outBufferSize) ==
  LET bytes == HighGroups(value \div 128, 1) \o <<value % 128>>
  IN IF Len(bytes) > outBufferSize THEN <<>> ELSE bytes

\* decodeUintvar(&data[at], len): the bytes consumed (0 on error) and the
\* value, Wide; "value << 7" keeps the width of unsigned long.
RECURSIVE DecodeUintvarLoop(_, _, _, _, _)
DecodeUintvarLoop(data, at, len, i, value) ==
  IF i < len /\ i < 5
  THEN LET b == data[at + i + 1]
           v == WideMulAdd(value, 128, b % 128)
       IN IF b < 128 THEN [n |-> i + 1, value |-> v]
          ELSE DecodeUintvarLoop(data, at, len, i + 1, v)
  ELSE [n |-> 0, value |-> Zero]

decodeUintvar(data, at, len) == DecodeUintvarLoop(data, at, len, 0, Zero)

\* The length of the host extractHostFromUrl copies into a buffer of
\* hostBufferSize bytes, or 0 when it returns false.
extractHostFromUrl(uri, hostBufferSize) ==
  IF uri.host = 0 \/ uri.host >= hostBufferSize THEN 0 ELSE uri.host

\* createHostHeader and createUserAgentHeader: field code, text, NUL.
TextHeader(code, len, outBufferSize) ==
  IF 1 + len + 1 > outBufferSize THEN <<>>
  ELSE <<code + 128>> \o Text(len) \o <<0>>

createHostHeader(hostLen, outBufferSize) ==
  TextHeader(WSP_HEADER_HOST, hostLen, outBufferSize)

createUserAgentHeader(uaLen, outBufferSize) ==
  TextHeader(WSP_HEADER_USER_AGENT, uaLen, outBufferSize)

createAcceptHeader(contentTypeCode, outBufferSize) ==
  IF outBufferSize < 2 THEN <<>>
  ELSE <<WSP_HEADER_ACCEPT + 128, contentTypeCode + 128>>

createAcceptCharsetHeader(charsetCode, outBufferSize) ==
  IF outBufferSize = 0 THEN <<>>
  ELSE IF charsetCode <= 127
       THEN IF 1 >= outBufferSize THEN <<>>
            ELSE <<WSP_HEADER_ACCEPT_CHARSET + 128, charsetCode + 128>>
       ELSE IF 1 + 2 > outBufferSize THEN <<>>
            ELSE <<WSP_HEADER_ACCEPT_CHARSET + 128, 1, charsetCode % 256>>

\* The Accept and Accept-Charset headers of a Nokia 7110, each added
\* while 2 bytes remain.
AcceptAllItems ==
  <<[h |-> "accept", code |-> WSP_CT_APP_VND_WAP_WMLC],
    [h |-> "accept", code |-> WSP_CT_APP_VND_WAP_WMLSCRIPTC],
    [h |-> "accept", code |-> WSP_CT_IMAGE_VND_WAP_WBMP],
    [h |-> "accept", code |-> WSP_CT_TEXT_PLAIN],
    [h |-> "charset", code |-> 106],
    [h |-> "charset", code |-> 4]>>

createAcceptAllHeaders(outBufferSize) ==
  LET add(out, it) ==
        LET room == outBufferSize - Len(out)
        IN IF Len(out) + 2 > outBufferSize THEN out
           ELSE out \o (IF it.h = "accept" THEN createAcceptHeader(it.code, room)
                        ELSE createAcceptCharsetHeader(it.code, room))
  IN FoldLeft(add, <<>>, AcceptAllItems)

UriLen(uri) == uri.scheme + uri.host + uri.rest

createGetRequestWithHeaders(uri, transactionId, headers, outBufferSize) ==
  LET uriLen == UriLen(uri)
      uv == encodeUintvar(uriLen, outBufferSize - 2)
      pos == 2 + Len(uv)
  IN IF uriLen = 0 \/ 1 + 1 + 5 + uriLen + Len(headers) > outBufferSize
        \/ uv = <<>> \/ pos + uriLen > outBufferSize
        \/ (Len(headers) > 0 /\ pos + uriLen + Len(headers) > outBufferSize)
     THEN <<>>
     ELSE <<transactionId, GET_PDU_TYPE + WSP_GET>> \o uv \o Text(uriLen) \o headers

\* The headers go into a 128-byte array; the host into a 64-byte one.
createGetRequest(uri, transactionId, outBufferSize, addHostHeader) ==
  LET hostLen == IF addHostHeader THEN extractHostFromUrl(uri, 64) ELSE 0
      host == IF hostLen > 0 THEN createHostHeader(hostLen, 128) ELSE <<>>
      ua == createUserAgentHeader(7, 128 - Len(host))   \* "MAP/1.0"
      accept == createAcceptAllHeaders(128 - Len(host) - Len(ua))
  IN createGetRequestWithHeaders(uri, transactionId, host \o ua \o accept,
                                 outBufferSize)
\* The switch of WAPRequest::wspStatusToHttp, case by case: a WSP status
\* byte to an HTTP status code.
WspStatusCases ==
  (16 :> 100) @@ (17 :> 101)
  @@ [s \in 32..38 |-> 200 + (s - 32)]
  @@ (48 :> 300) @@ (49 :> 301) @@ (50 :> 302) @@ (51 :> 303) @@ (52 :> 304)
  @@ (53 :> 305) @@ (55 :> 307)
  @@ [s \in 64..79 |-> 400 + (s - 64)] @@ (80 :> 416) @@ (81 :> 417)
  @@ [s \in 96..101 |-> 500 + (s - 96)]

\* Mutant: 0x37 (Temporary Redirect) written as 306.
wspStatusToHttpTypo(s) ==
  IF s = 55 THEN 306
  ELSE IF s \in DOMAIN WspStatusCases THEN WspStatusCases[s] ELSE 500

\* The default of the switch is 500.
wspStatusToHttp(s) ==
  IF s \in DOMAIN WspStatusCases THEN WspStatusCases[s] ELSE 500

\* Mutant: the header block is not skipped.
parseReplyPDUNoSkip(pdu) ==
  LET len == Len(pdu) - 1
      uv == decodeUintvar(pdu, 3, len - 2)
      pos == 2 + uv.n
      sum == WideValue(WideAdd(uv.value, pos))
  IN IF len < 3 \/ pdu[2] # REPLY_PDU_TYPE \/ uv.n = 0 \/ sum > len
     THEN [ok |-> FALSE]
     ELSE [ok |-> TRUE, status |-> wspStatusToHttp(pdu[3]),
           body |-> IF pos < len THEN SubSeq(pdu, pos + 2, Len(pdu)) ELSE <<>>]

\* WAPRequest::parseReplyPDU(&pdu[1], Len(pdu) - 1), the Reply parser of
\* the tests: the PDU fails when it is short, not a Reply, has no uintvar
\* or a header block that "pos + headersLen > len" (size_t) says overruns;
\* else the status code and the body after the header block.
parseReplyPDU(pdu) ==
  LET len == Len(pdu) - 1
      uv == decodeUintvar(pdu, 3, len - 2)
      pos == 2 + uv.n
      sum == WideValue(WideAdd(uv.value, pos))
  IN IF len < 3 \/ pdu[2] # REPLY_PDU_TYPE \/ uv.n = 0 \/ sum > len
     THEN [ok |-> FALSE]
     ELSE [ok |-> TRUE, status |-> wspStatusToHttp(pdu[3]),
           body |-> IF sum < len THEN SubSeq(pdu, sum + 2, Len(pdu)) ELSE <<>>]
====
